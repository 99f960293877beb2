------------------------------ MODULE BrowserSdk -------------------------------
(***************************************************************************)
(* The browser SDK at work in a page: fetch and XMLHttpRequest with their  *)
(* request-start and request-end events, and the error boundary with its   *)
(* window of recent messages.  Requests are numbered in the order of open  *)
(* or fetch; a request-end event is known by the place in starts of the    *)
(* request-start event whose closure reports it.                           *)
(*                                                                         *)
(* External: an XMLHttpRequest that is opened again drops the request it   *)
(* has under way without an event, and keeps its listeners; the listeners  *)
(* of the page are called before the interceptor's, which send() added.    *)
(***************************************************************************)
EXTENDS Integers, Sequences, SequencesExt

CONSTANTS
    Xhr,           \* XMLHttpRequest objects
    Message,       \* messages of uncaught errors
    MaxRequests,   \* bound: requests of the page
    MaxStarts,     \* bound: request-start events
    MaxTime,       \* bound: ticks of the clock
    Window,        \* DEDUP_WINDOW_MS, in ticks
    MaxRecent      \* MAX_DEDUP_ENTRIES

ASSUME PageAssumption == {MaxRequests, MaxTime, Window} \subseteq Nat /\ MaxRecent \in Nat \ {0}

VARIABLES
    native,     \* xhr -> "unsent", "opened", "loading", "done"
    metadata,   \* xhr -> number of its request, or 0
    listening,  \* xhr -> the starts whose listeners are on it
    fetches,    \* the starts of the fetch requests under way
    issued,     \* requests opened or fetched so far
    starts,     \* request-start events, in order: the request of each
    finals,     \* request-end events, in order: the start of each
    refused,    \* history: requests whose send the browser refused
    unseen,     \* history: sends the interceptor did not see as requests
    installed,  \* are fetch and XMLHttpRequest patched, the listeners added?
    recent,     \* recentErrors
    now,        \* Date.now()
    pushed,     \* history: messages the cap dropped since they were reported
    told        \* message -> its last two reports: [t, pushed]

xhrVars == <<native, metadata, listening, fetches, issued, starts, finals, refused, unseen>>
errorVars == <<recent, pushed, told, now>>
bsVars == <<xhrVars, errorVars, installed>>

\* XHR.open, which numbers the request before the browser may refuse its method
\* or its URL: then the object stays as it was.
Open(x) ==
    /\ issued < MaxRequests
    /\ issued' = issued + 1
    /\ native' \in {native, [native EXCEPT ![x] = "opened"]}
    /\ metadata' = IF installed THEN [metadata EXCEPT ![x] = issued + 1] ELSE metadata
    /\ UNCHANGED <<listening, fetches, starts, finals, refused, unseen, errorVars, installed>>

\* XHR.send, which reports the start and adds its listeners before the browser
\* may refuse: an object that is not just opened, sent twice for one, throws.
Send(x) ==
    LET accepted == native[x] = "opened"
    IN  /\ native' = IF accepted THEN [native EXCEPT ![x] = "loading"] ELSE native
        /\ IF installed /\ metadata[x] # 0
           THEN /\ Len(starts) < MaxStarts
                /\ starts' = Append(starts, metadata[x])
                /\ listening' = [listening EXCEPT ![x] = @ \cup {Len(starts) + 1}]
                /\ refused' = IF accepted THEN refused ELSE refused \cup {metadata[x]}
                /\ UNCHANGED unseen
           ELSE accepted /\ unseen' = unseen + 1 /\ UNCHANGED <<starts, listening, refused>>
        /\ UNCHANGED <<metadata, fetches, issued, finals, errorVars, installed>>

\* Mutant: removeListeners is forgotten.
BugDone(x, again) ==
    /\ native[x] = "loading"
    /\ again => issued < MaxRequests
    /\ native' = [native EXCEPT ![x] = IF again THEN "opened" ELSE "done"]
    /\ issued' = IF again THEN issued + 1 ELSE issued
    /\ finals' = finals \o SetToSeq(listening[x])
    /\ metadata' = IF listening[x] # {} THEN [metadata EXCEPT ![x] = 0] ELSE metadata
    /\ UNCHANGED <<listening, fetches, starts, refused, unseen, errorVars, installed>>

\* load, error, abort or timeout.  The page's own handler may have opened the
\* object again by the time the interceptor's listeners run: they forget that
\* new request.
Done(x, again) ==
    /\ native[x] = "loading"
    /\ again => issued < MaxRequests
    /\ native' = [native EXCEPT ![x] = IF again THEN "opened" ELSE "done"]
    /\ issued' = IF again THEN issued + 1 ELSE issued
    /\ finals' = finals \o SetToSeq(listening[x])
    /\ listening' = [listening EXCEPT ![x] = {}]
    /\ metadata' = [metadata EXCEPT ![x] =
            IF listening[x] # {} THEN 0
            ELSE IF again /\ installed THEN issued + 1 ELSE @]
    /\ UNCHANGED <<fetches, starts, refused, unseen, errorVars, installed>>

\* globalThis.fetch, and its promise, fulfilled or rejected.
Fetch ==
    /\ issued < MaxRequests
    /\ issued' = issued + 1
    /\ IF installed
       THEN /\ Len(starts) < MaxStarts
            /\ starts' = Append(starts, issued + 1)
            /\ fetches' = fetches \cup {Len(starts) + 1}
       ELSE UNCHANGED <<starts, fetches>>
    /\ UNCHANGED <<native, metadata, listening, finals, refused, unseen, errorVars, installed>>

FetchSettles(i) ==
    /\ i \in fetches
    /\ fetches' = fetches \ {i}
    /\ finals' = Append(finals, i)
    /\ UNCHANGED <<native, metadata, listening, issued, starts, refused, unseen, errorVars, installed>>

-----------------------------------------------------------------------------
\* Entries are shifted from the front until one is in the window.
Fresh(s) ==
    LET fresh == {i \in 1..Len(s) : now - s[i].t <= Window}
    IN  IF fresh = {} THEN <<>> ELSE SubSeq(s, Min(fresh), Len(s))

Capped(s) == IF Len(s) >= MaxRecent THEN SubSeq(s, Len(s) - MaxRecent + 2, Len(s)) ELSE s

\* isDuplicate, before it looks for the message.
Remembered == Capped(Fresh(recent))

Told(m, was) ==
    [told EXCEPT ![m] = (IF Len(@) = 2 THEN Tail(@) ELSE @) \o <<[t |-> now, pushed |-> was]>>]

\* Mutant: a repeated message takes its old entry with it.
BugHandleError(m) ==
    LET known == \E i \in 1..Len(Remembered) : Remembered[i].m = m
    IN  /\ installed
        /\ recent' = IF known THEN SelectSeq(Remembered, LAMBDA e : e.m # m)
                     ELSE Append(Remembered, [m |-> m, t |-> now])
        /\ told' = IF known THEN told ELSE Told(m, m \in pushed)
        /\ UNCHANGED <<pushed, now, xhrVars, installed>>

\* handleError and handleRejection.
HandleError(m) ==
    LET known == \E i \in 1..Len(Remembered) : Remembered[i].m = m
        out == {e.m : e \in Range(Fresh(recent)) \ Range(Remembered)}
    IN  /\ installed
        /\ recent' = IF known THEN Remembered ELSE Append(Remembered, [m |-> m, t |-> now])
        /\ told' = IF known THEN told ELSE Told(m, m \in pushed \cup out)
        /\ pushed' = IF known THEN pushed \cup out ELSE (pushed \cup out) \ {m}
        /\ UNCHANGED <<now, xhrVars, installed>>

Tick ==
    /\ now < MaxTime
    /\ now' = now + 1
    /\ UNCHANGED <<recent, pushed, told, xhrVars, installed>>

\* The functions that restore: the calls under way end as they began.
Uninstall ==
    /\ installed
    /\ installed' = FALSE
    /\ recent' = <<>>
    /\ UNCHANGED <<xhrVars, pushed, told, now>>

BsInit ==
    /\ native = [x \in Xhr |-> "unsent"]
    /\ metadata = [x \in Xhr |-> 0]
    /\ listening = [x \in Xhr |-> {}]
    /\ fetches = {} /\ issued = 0 /\ starts = <<>> /\ finals = <<>>
    /\ refused = {} /\ unseen = 0
    /\ installed = TRUE
    /\ recent = <<>> /\ now = 0 /\ pushed = {} /\ told = [m \in Message |-> <<>>]

NetworkNext ==
    \/ \E x \in Xhr : \/ Open(x) \/ Send(x)
                      \/ \E again \in BOOLEAN : Done(x, again)
    \/ Fetch
    \/ \E i \in fetches : FetchSettles(i)
    \/ Uninstall

ErrorNext ==
    \/ \E m \in Message : HandleError(m)
    \/ Tick
    \/ Uninstall

\* However a page opens, reopens, sends and settles its requests, every start
\* that was reported is reported as ended once or waits for the event that will
\* end it, none ends that did not start, and a request is reported as started
\* more than once only when the browser refused to send it again.
XhrEndsOnce ==
    LET waiting == (UNION {listening[x] : x \in Xhr}) \cup fetches
    IN  /\ IsInjective(finals)
        /\ DOMAIN starts = Range(finals) \cup waiting
        /\ Range(finals) \cap waiting = {}
        /\ \A i, j \in DOMAIN starts : i # j /\ starts[i] = starts[j] => starts[i] \in refused

\* An error is reported again only after the window, or when so many others came
\* that it was pushed out.
NoEchoes ==
    \A m \in Message :
        Len(told[m]) = 2 /\ told[m][2].t - told[m][1].t <= Window => told[m][2].pushed
=============================================================================
