------------------------------- MODULE MCCapture -------------------------------
\* Events for the correlator: one click, the request it causes as network, SDK
\* and log see it, and a second request to the same URL (ids below 100,
\* correlation keys above).
EXTENDS Capture

Ev(i, t, what, cid, rid, url, failed) ==
    [id |-> i, time |-> t, kind |-> what, cid |-> cid, rid |-> rid, url |-> url, failed |-> failed]

MCArrivals == {
    Ev(1, 0, "click", None, None, "page", FALSE),
    Ev(2, 0, "request", None, 101, "api", FALSE),
    Ev(3, 1, "query", 101, None, None, TRUE),
    Ev(4, 2, "response", None, 101, None, TRUE),
    Ev(5, 2, "log", None, 102, "api", TRUE),
    Ev(6, 3, "request", 102, None, "api", FALSE),
    Ev(7, 4, "request-end", None, 102, None, TRUE)}

MCStrategies == <<"request-id", "temporal", "url-matching">>
=============================================================================
