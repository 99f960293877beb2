--------------------------- MODULE RequestTracing ----------------------------
(***************************************************************************)
(* The request side of the Node SDK: the event collector, which buffers    *)
(* until somebody subscribes; RequestTracer, which remembers the requests  *)
(* the application starts and ends those it never does; and the Express    *)
(* middleware, which relies on the response's "finish".                    *)
(*                                                                         *)
(* Events are numbered in the order of emission.  A handler, once it is    *)
(* unsubscribed, does not come back.                                       *)
(***************************************************************************)
EXTENDS Integers, FiniteSets, Sequences, SequencesExt, JsMap

CONSTANTS
    Handler,     \* subscribers of the collector
    Request,     \* requests of the application
    MaxBuffer,   \* SdkEventCollector.MAX_BUFFER
    MaxActive    \* RequestTracer.MAX_ACTIVE

ASSUME TracingAssumption ==
    /\ IsFiniteSet(Request)
    /\ MaxBuffer \in Nat \ {0} /\ MaxActive \in Nat \ {0}

VARIABLES
    handlers,   \* subscribed handlers; their order does not matter
    buffer,     \* events nobody has received
    total,      \* stats.total
    received,   \* handler -> events it was called with
    flushed,    \* history: events returned by flush()
    active,     \* activeRequests: request -> its request-start, which orders the Map
    overdue,    \* active requests older than REQUEST_TIMEOUT_MS
    requests,   \* request -> "new", "traced", "forgotten", "served", "over"
    ends,       \* history: request -> request-end events emitted for it
    destroyed   \* has destroy() stopped the cleanup timer?

collector == <<handlers, buffer, total, received, flushed>>
tracer == <<active, overdue, requests, ends, destroyed>>
rtVars == <<collector, tracer>>

Numbers(n) == [i \in 1..n |-> total + i]
Newest(s, n) == SubSeq(s, IF Len(s) > n THEN Len(s) - n + 1 ELSE 1, Len(s))

\* emit, n times in a row.
Emit(n) ==
    /\ total' = total + n
    /\ IF handlers = {}
       THEN buffer' = Newest(buffer \o Numbers(n), MaxBuffer) /\ UNCHANGED received
       ELSE /\ received' = [h \in Handler |-> IF h \in handlers
                                              THEN received[h] \o Numbers(n) ELSE received[h]]
            /\ UNCHANGED buffer
    /\ UNCHANGED <<handlers, flushed>>

\* Mutant: the buffer is replayed to the new handler and kept.
BugOnEvent(h) ==
    /\ h \notin handlers /\ received[h] = <<>>
    /\ handlers' = handlers \cup {h}
    /\ received' = [received EXCEPT ![h] = buffer]
    /\ UNCHANGED <<buffer, total, flushed, tracer>>

\* onEvent: the first handler gets what was buffered.
OnEvent(h) ==
    /\ h \notin handlers /\ received[h] = <<>>
    /\ handlers' = handlers \cup {h}
    /\ received' = [received EXCEPT ![h] = buffer]
    /\ buffer' = <<>>
    /\ UNCHANGED <<total, flushed, tracer>>

Unsubscribe(h) ==
    /\ h \in handlers
    /\ handlers' = handlers \ {h}
    /\ UNCHANGED <<buffer, total, received, flushed, tracer>>

Flush ==
    /\ buffer # <<>>
    /\ flushed' = flushed \cup Range(buffer)
    /\ buffer' = <<>>
    /\ UNCHANGED <<handlers, total, received, tracer>>

-----------------------------------------------------------------------------
\* The first key of the Map is the one that was set first.
Oldest == CHOOSE r \in DOMAIN active : \A q \in DOMAIN active : active[r] <= active[q]

\* startRequest: at the cap the oldest request is forgotten without an end.
StartRequest(r) ==
    LET out == IF Cardinality(DOMAIN active) >= MaxActive THEN {Oldest} ELSE {}
    IN  /\ requests[r] = "new"
        /\ requests' = [q \in Request |-> IF q = r THEN "traced"
                                        ELSE IF q \in out THEN "forgotten" ELSE requests[q]]
        /\ active' = Put(Without(active, out), r, total + 1)
        /\ overdue' = overdue \ out
        /\ Emit(1)
        /\ UNCHANGED <<ends, destroyed>>

Forget(R) ==
    /\ active' = Without(active, R)
    /\ overdue' = overdue \ R

\* endRequest of requests that are still active.
End(R) ==
    /\ Forget(R)
    /\ ends' = [r \in Request |-> IF r \in R THEN ends[r] + 1 ELSE ends[r]]
    /\ Emit(Cardinality(R))
    /\ UNCHANGED <<requests, destroyed>>

\* The application ends a request, which may be forgotten or timed out by then.
EndRequest(r) ==
    /\ r \in DOMAIN active
    /\ End({r})

\* A request turns REQUEST_TIMEOUT_MS old.
Age(r) ==
    /\ r \in DOMAIN active \ overdue
    /\ overdue' = overdue \cup {r}
    /\ UNCHANGED <<collector, active, requests, ends, destroyed>>

\* Mutant: a request that timed out is only forgotten.
BugCleanup ==
    /\ ~destroyed /\ overdue # {} /\ Forget(overdue)
    /\ UNCHANGED <<collector, requests, ends, destroyed>>

\* The cleanup timer.
Cleanup == ~destroyed /\ overdue # {} /\ End(overdue)

Destroy ==
    /\ ~destroyed
    /\ destroyed' = TRUE
    /\ Forget(DOMAIN active)
    /\ requests' = [r \in Request |-> IF r \in DOMAIN active THEN "forgotten" ELSE requests[r]]
    /\ UNCHANGED <<collector, ends>>

-----------------------------------------------------------------------------
\* The middleware sees a request, and its response finish.  A connection that
\* closes before that has no "finish".
ProbeMiddleware(r) ==
    /\ requests[r] = "new"
    /\ requests' = [requests EXCEPT ![r] = "served"]
    /\ Emit(1)
    /\ UNCHANGED <<active, overdue, ends, destroyed>>

OnFinish(r) ==
    /\ requests[r] = "served"
    /\ requests' = [requests EXCEPT ![r] = "over"]
    /\ ends' = [ends EXCEPT ![r] = @ + 1]
    /\ Emit(1)
    /\ UNCHANGED <<active, overdue, destroyed>>

ConnectionCloses(r) ==
    /\ requests[r] = "served"
    /\ requests' = [requests EXCEPT ![r] = "over"]
    /\ UNCHANGED <<collector, active, overdue, ends, destroyed>>

RtInit ==
    /\ handlers = {} /\ buffer = <<>> /\ total = 0
    /\ received = [h \in Handler |-> <<>>]
    /\ flushed = {}
    /\ active = NoKeys /\ overdue = {}
    /\ requests = [r \in Request |-> "new"]
    /\ ends = [r \in Request |-> 0]
    /\ destroyed = FALSE

RtNext ==
    \/ \E h \in Handler : OnEvent(h) \/ Unsubscribe(h)
    \/ Flush
    \/ \E r \in Request :
        \/ StartRequest(r) \/ EndRequest(r) \/ Age(r)
        \/ ProbeMiddleware(r) \/ OnFinish(r) \/ ConnectionCloses(r)
    \/ Cleanup
    \/ Destroy

\* Every event is delivered, flushed, buffered, or was pushed out of a full
\* buffer before anybody subscribed; a handler misses none while subscribed
\* and sees none twice, and nothing waits while somebody listens.
EventsAccountedFor ==
    LET seen == (UNION {Range(received[h]) : h \in Handler}) \cup flushed
    IN  /\ \A n \in (1..total) \ (seen \cup Range(buffer)) :
                Len(buffer) = MaxBuffer \/ \E m \in seen : m > n
        /\ \A h \in Handler : \A i \in 1..Len(received[h]) - 1 : received[h][i] < received[h][i + 1]
        /\ handlers # {} => buffer = <<>>
        /\ \A h \in handlers :
            received[h] # <<>> => received[h][Len(received[h])] = total

\* A request is ended once at most, whether the application, the cleanup timer or
\* the response comes first; and a traced one is ended in time, by the timer if
\* the application never does it, unless the tracer forgets it at its cap or is
\* destroyed: what is started on a destroyed tracer has no timer.
EndsOnce == \A r \in Request : ends[r] <= 1 /\ (ends[r] = 1 => requests[r] \in {"traced", "over"})

TracedRequestsEnd ==
    /\ []EndsOnce
    /\ \A r \in Request : requests[r] = "traced" ~> (ends[r] = 1 \/ requests[r] = "forgotten" \/ destroyed)
=============================================================================
