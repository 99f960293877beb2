---------------------------- MODULE NetworkCapture ----------------------------
(***************************************************************************)
(* The two adapters that capture HTTP traffic.  The proxy takes a request, *)
(* resolves its host, forwards it, streams the answer back and tells the   *)
(* handlers of both; it counts the connections it captures and sweeps the  *)
(* requests it waits for.  The middleware wraps the response of a request  *)
(* that another server answers.                                            *)
(*                                                                         *)
(* A request has a body in one piece.  Closed connections, dead upstreams, *)
(* timeouts and late answers come at any point.                            *)
(***************************************************************************)
EXTENDS Integers, FiniteSets, Sequences, SequencesExt

CONSTANTS
    Request,       \* requests that clients send
    MaxActive,     \* MAX_ACTIVE_CONNECTIONS
    MaxPending,    \* MAX_PENDING_REQUESTS
    MaxRuns,       \* bound: calls of start
    MaxEnds        \* bound: calls of res.end by an application

ASSUME NetworkAssumption ==
    IsFiniteSet(Request) /\ {MaxActive, MaxPending} \subseteq Nat \ {0} /\ MaxEnds \in Nat

VARIABLES
    mode,       \* "proxy" or "middleware"; it never changes
    server,     \* "off", "on", or "stopping" while stop waits for connections
    timer,      \* is cleanupTimer running?
    active,     \* activeConnections
    pending,    \* pendingRequests, a Map in its insertion order
    req,        \* request -> how far it is
    told,       \* history: request -> the events handlers were given
    runs        \* history: calls of start so far

ncVars == <<mode, server, timer, active, pending, req, told, runs>>

Fresh == [stage |-> "new",        \* "resolving", "upstream", "streaming", "hung";
                                    \* "done": answered; "failed": with an error of the proxy's;
                                    \* of a CONNECT: "connecting", "tunnel", "closed"
          captured |-> FALSE,     \* did the filter and the cap let it in?
          client |-> "none",      \* its connection: "open" or "closed"
          heads |-> 0,            \* calls of writeHead
          read |-> FALSE,         \* has its body been read?
          forwarded |-> FALSE,    \* has its body been written to upstream?
          ends |-> 0,             \* calls of res.end by the application (middleware)
          failing |-> FALSE]      \* is an "error" of the upstream request due?

Set(r, new) == req' = [req EXCEPT ![r] = new]

\* A Map holds a key once.
Forget(r) == pending' = RemoveFirst(pending, r)

\* handlers are only registered while the adapter runs; stop clears them.
Tell(r, what) ==
    told' = IF server = "off" THEN told ELSE [told EXCEPT ![r][what] = @ + 1]

Silent == UNCHANGED told
Lifecycle == <<mode, server, timer, runs>>

-----------------------------------------------------------------------------
(* Lifecycle *)

Start ==
    /\ mode = "proxy" /\ server = "off" /\ runs < MaxRuns
    /\ server' = "on" /\ timer' = TRUE
    /\ runs' = runs + 1
    /\ UNCHANGED <<mode, active, pending, req, told>>

\* The port is taken: the timer has been started all the same.
StartFails ==
    /\ mode = "proxy" /\ server = "off" /\ runs < MaxRuns
    /\ timer' = TRUE /\ runs' = runs + 1
    /\ UNCHANGED <<mode, server, active, pending, req, told>>

\* stop, as far as its await: captured connections are cut.
Stop ==
    /\ mode = "proxy" /\ server = "on"
    /\ server' = "stopping"
    /\ timer' = FALSE /\ active' = {} /\ pending' = <<>>
    /\ req' = [r \in Request |-> IF r \in active THEN [req[r] EXCEPT !.client = "closed"] ELSE req[r]]
    /\ UNCHANGED <<mode, told, runs>>

\* The server has no connection left; the handlers go.
Stopped ==
    /\ server = "stopping" /\ \A r \in Request : req[r].client # "open"
    /\ server' = "off"
    /\ UNCHANGED <<mode, timer, active, pending, req, told, runs>>

\* The cleanup timer finds an entry older than REQUEST_TTL_MS.
Sweep(r) ==
    /\ timer /\ r \in Range(pending)
    /\ Forget(r)
    /\ UNCHANGED <<Lifecycle, active, req, told>>

-----------------------------------------------------------------------------
(* The proxy *)

\* A client's request that the filter leaves alone.
ForwardRequest(r) ==
    /\ mode = "proxy" /\ server = "on" /\ req[r].stage = "new"
    /\ \/ Set(r, [req[r] EXCEPT !.stage = "resolving", !.client = "open"])
       \/ Set(r, [req[r] EXCEPT !.stage = "failed", !.client = "open", !.heads = 1])    \* not a URL
    /\ Silent /\ UNCHANGED <<Lifecycle, active, pending>>

\* handleRequest with too many connections.
Refuse(r) ==
    /\ mode = "proxy" /\ server = "on" /\ req[r].stage = "new"
    /\ Cardinality(active) >= MaxActive
    /\ Set(r, [req[r] EXCEPT !.stage = "failed", !.client = "open", !.heads = 1])
    /\ Silent /\ UNCHANGED <<Lifecycle, active, pending>>

\* handleRequest and the start of forwardAndCapture.
HandleRequest(r) ==
    LET kept == IF Len(pending) >= MaxPending THEN Tail(pending) ELSE pending
    IN  /\ mode = "proxy" /\ server = "on" /\ req[r].stage = "new"
        /\ Cardinality(active) < MaxActive
        /\ active' = active \cup {r}
        /\ \/ /\ Set(r, [req[r] EXCEPT !.stage = "resolving", !.client = "open", !.captured = TRUE])
              /\ pending' = Append(kept, r)
           \/ /\ Set(r, [req[r] EXCEPT !.stage = "failed", !.client = "open", !.captured = TRUE, !.heads = 1])
              /\ pending' = kept                                        \* not a URL
        /\ Silent /\ UNCHANGED Lifecycle

\* The body arrives.  The "data" listener of a captured request reads it at
\* once, forwarded or not; otherwise it waits for the pipe.
Body(r) ==
    /\ mode = "proxy" /\ req[r].client = "open" /\ ~req[r].read
    /\ req[r].captured \/ req[r].stage \in {"upstream", "streaming"}
    /\ Set(r, [req[r] EXCEPT !.read = TRUE, !.forwarded = req[r].stage \in {"upstream", "streaming"}])
    /\ IF req[r].captured THEN Tell(r, "request") ELSE Silent
    /\ UNCHANGED <<Lifecycle, active, pending>>

\* The host is resolved and the request is piped upstream, or it is refused.
Resolve(r) ==
    /\ mode = "proxy" /\ req[r].stage = "resolving"
    /\ \/ Set(r, [req[r] EXCEPT !.stage = "upstream"]) /\ UNCHANGED pending
       \/ Set(r, [req[r] EXCEPT !.stage = "failed", !.heads = @ + 1]) /\ Forget(r)
    /\ Silent /\ UNCHANGED <<Lifecycle, active>>

\* handleProxyResponse: the head of the answer is passed on.
Respond(r) ==
    /\ req[r].stage = "upstream" /\ ~req[r].failing
    /\ Set(r, [req[r] EXCEPT !.stage = "streaming", !.heads = @ + 1])
    /\ Silent /\ UNCHANGED <<Lifecycle, active, pending>>

\* The answer is complete.
ResponseEnds(r) ==
    /\ req[r].stage = "streaming"
    /\ Set(r, [req[r] EXCEPT !.stage = "done"])
    /\ Forget(r)
    /\ IF req[r].captured THEN Tell(r, "response") ELSE Silent
    /\ UNCHANGED <<Lifecycle, active>>

\* Nothing comes for PROXY_REQUEST_TIMEOUT_MS: the upstream request is
\* destroyed, which is an "error" of it unless an answer has begun.
UpstreamTimeout(r) ==
    /\ req[r].stage \in {"upstream", "streaming"} /\ ~req[r].failing
    /\ IF req[r].heads = 0
       THEN Set(r, [req[r] EXCEPT !.stage = "failed", !.heads = 1, !.failing = TRUE])
       ELSE Set(r, [req[r] EXCEPT !.stage = "hung"])
    /\ Forget(r)
    /\ Silent /\ UNCHANGED <<Lifecycle, active>>

\* Mutant: 502 is written whatever was written before.
BugUpstreamError(r) ==
    /\ req[r].stage = "upstream" \/ req[r].failing
    /\ Set(r, [req[r] EXCEPT !.stage = "failed", !.failing = FALSE, !.heads = @ + 1])
    /\ Forget(r)
    /\ Silent /\ UNCHANGED <<Lifecycle, active>>

\* "error" of the upstream request.
UpstreamError(r) ==
    /\ req[r].stage = "upstream" \/ req[r].failing
    /\ Set(r, [req[r] EXCEPT !.stage = "failed", !.failing = FALSE,
               !.heads = IF @ = 0 THEN 1 ELSE @])
    /\ Forget(r)
    /\ Silent /\ UNCHANGED <<Lifecycle, active>>

\* Upstream dies in the middle of an answer: nobody ends it.
UpstreamDies(r) ==
    /\ req[r].stage = "streaming"
    /\ Set(r, [req[r] EXCEPT !.stage = "hung"])
    /\ Silent /\ UNCHANGED <<Lifecycle, active, pending>>

\* Mutant: the connection leaves the set when the answer has been sent only.
BugConnectionCloses(r) ==
    /\ mode = "proxy" /\ req[r].client = "open" /\ req[r].stage \notin {"connecting", "tunnel"}
    /\ Set(r, [req[r] EXCEPT !.client = "closed"])
    /\ active' = IF req[r].stage \in {"done", "failed"} THEN active \ {r} ELSE active
    /\ Silent /\ UNCHANGED <<Lifecycle, pending>>

\* A CONNECT: the host is resolved, then the sockets are piped.
Tunnel(r) ==
    /\ mode = "proxy" /\ server = "on" /\ req[r].stage = "new"
    /\ Set(r, [req[r] EXCEPT !.stage = "connecting", !.client = "open"])
    /\ Silent /\ UNCHANGED <<Lifecycle, active, pending>>

TunnelOpens(r) ==
    /\ req[r].stage = "connecting"
    /\ Set(r, [req[r] EXCEPT !.stage = "tunnel", !.heads = 1])
    /\ Silent /\ UNCHANGED <<Lifecycle, active, pending>>

\* It is refused, one side goes, or it has lasted TUNNEL_TIMEOUT_MS; an error of
\* upstream writes a 502, even into an open tunnel.
TunnelEnds(r) ==
    /\ req[r].stage \in {"connecting", "tunnel"}
    /\ \E heads \in req[r].heads..req[r].heads + 1 :
         Set(r, [req[r] EXCEPT !.stage = "closed", !.client = "closed", !.heads = heads])
    /\ Silent /\ UNCHANGED <<Lifecycle, active, pending>>

\* "close" of a response: it has been sent, or the client has gone.
ConnectionCloses(r) ==
    /\ mode = "proxy" /\ req[r].client = "open" /\ req[r].stage \notin {"connecting", "tunnel"}
    /\ Set(r, [req[r] EXCEPT !.client = "closed"])
    /\ active' = active \ {r}
    /\ Silent /\ UNCHANGED <<Lifecycle, pending>>

-----------------------------------------------------------------------------
(* The middleware *)

StartMiddleware ==
    /\ mode = "middleware" /\ runs < MaxRuns
    /\ server' = "on" /\ runs' = runs + 1
    /\ UNCHANGED <<mode, timer, active, pending, req, told>>

StopMiddleware ==
    /\ mode = "middleware" /\ server = "on"
    /\ server' = "off"
    /\ UNCHANGED <<mode, timer, active, pending, req, told, runs>>

\* A request passes, wrapped when it is captured.
Middleware(r) ==
    /\ mode = "middleware" /\ req[r].stage = "new"
    /\ \/ Set(r, [req[r] EXCEPT !.stage = "upstream", !.client = "open"])
       \/ server = "on" /\ Set(r, [req[r] EXCEPT !.stage = "upstream", !.client = "open", !.captured = TRUE])
    /\ Silent /\ UNCHANGED <<Lifecycle, active, pending>>

\* "end" of its body.
MiddlewareBody(r) ==
    /\ mode = "middleware" /\ req[r].stage # "new" /\ ~req[r].read
    /\ Set(r, [req[r] EXCEPT !.read = TRUE])
    /\ IF req[r].captured THEN Tell(r, "request") ELSE Silent
    /\ UNCHANGED <<Lifecycle, active, pending>>

\* The application calls end, the first time or again: the response is sent
\* once, the wrapper reports it at every call.
MiddlewareEnd(r) ==
    /\ mode = "middleware" /\ req[r].stage \in {"upstream", "done"} /\ req[r].ends < MaxEnds
    /\ Set(r, [req[r] EXCEPT !.stage = "done", !.client = "closed", !.heads = 1, !.ends = @ + 1])
    /\ IF req[r].captured THEN Tell(r, "response") ELSE Silent
    /\ UNCHANGED <<Lifecycle, active, pending>>

-----------------------------------------------------------------------------
CreateNetworkCapture == mode \in {"proxy", "middleware"}

NcInit ==
    /\ CreateNetworkCapture
    /\ server = "off" /\ timer = FALSE /\ active = {} /\ pending = <<>> /\ runs = 0
    /\ req = [r \in Request |-> Fresh]
    /\ told = [r \in Request |-> [request |-> 0, response |-> 0]]

NcNext ==
    \/ Start \/ StartFails \/ Stop \/ Stopped \/ StartMiddleware \/ StopMiddleware
    \/ \E r \in Request :
        \/ Sweep(r) \/ ForwardRequest(r) \/ Refuse(r) \/ HandleRequest(r) \/ Body(r)
        \/ (mode = "proxy" /\ (\/ Resolve(r) \/ Respond(r) \/ ResponseEnds(r) \/ UpstreamTimeout(r)
                               \/ UpstreamError(r) \/ UpstreamDies(r)))
        \/ ConnectionCloses(r) \/ Tunnel(r) \/ TunnelOpens(r) \/ TunnelEnds(r)
        \/ Middleware(r) \/ MiddlewareBody(r) \/ MiddlewareEnd(r)

\* Whatever order timeout, error, answer, disconnection and stop come in, a
\* client's answer begins once; the handlers are told once of a captured
\* request whose body has been read, and of its answer only when it is complete
\* and not the proxy's own error: once by the proxy, by the middleware no more
\* often than the application ended it.
AnsweredOnce ==
    \A r \in Request :
        /\ (req[r].heads <= 1 \/ req[r].stage = "closed")
        /\ (req[r].stage \in {"streaming", "hung", "done", "failed"} => req[r].heads = 1)
        /\ told[r].request <= IF req[r].captured /\ req[r].read THEN 1 ELSE 0
        /\ (told[r].response > 0 => req[r].captured /\ req[r].stage = "done")
        /\ told[r].response <= IF mode = "proxy" THEN 1 ELSE req[r].ends

\* The connections counted against the cap are the captured ones that are open,
\* and a request waits in the map no longer than its answer is outstanding.
ConnectionsCounted ==
    /\ Cardinality(active) <= MaxActive /\ Len(pending) <= MaxPending
    /\ mode = "proxy" => active = {r \in Request : req[r].captured /\ req[r].client = "open"}
    /\ \A r \in Range(pending) : req[r].captured /\ req[r].stage \notin {"done", "failed"}

\* What upstream answers is the request that the client made: its body has
\* been forwarded if it has been read.
ForwardsTheRequest ==
    \A r \in Request :
        mode = "proxy" /\ req[r].stage = "streaming" /\ req[r].read => req[r].forwarded
=============================================================================
