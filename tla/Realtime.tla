------------------------------ MODULE Realtime -------------------------------
(***************************************************************************)
(* The realtime edge of the server: setupWebSocket, which streams ingested *)
(* events to subscribed sockets, and the graceful shutdown of index.ts.    *)
(*                                                                         *)
(* Each handler of a socket runs to its first await, and only subscribe    *)
(* has one: the lookup of the session.  The ws library, which is external, *)
(* calls the handlers: messages and pongs while a socket is open or        *)
(* closing, 'error' at most before 'close', 'close' once and last.         *)
(* Authentication and origin checks are a refusal; Prometheus counters are *)
(* left out.                                                               *)
(***************************************************************************)
EXTENDS Integers, FiniteSets, JsMap

CONSTANTS
    Socket,         \* connections that clients may make
    Session,        \* sessions of the server, all of them stored
    Ip,             \* client addresses
    MaxPerIp,       \* MAX_CONNECTIONS_PER_IP
    MaxSubs,        \* MAX_SUBSCRIPTIONS_PER_CLIENT
    RateMax,        \* RATE_LIMIT_MAX
    CloseAfter,     \* RATE_LIMIT_CLOSE_THRESHOLD
    Faults,         \* may a lookup reject?
    MaxEvents,      \* bound: events ingested per session
    MaxLookups      \* bound: lookups of one session that a socket awaits

ASSUME RealtimeAssumption ==
    /\ IsFiniteSet(Socket) /\ IsFiniteSet(Ip)
    /\ {MaxPerIp, RateMax, CloseAfter} \subseteq Nat \ {0}
    /\ {MaxSubs, MaxEvents, MaxLookups} \subseteq Nat
    /\ Faults \in BOOLEAN

VARIABLES
    ready,          \* readyState of each socket, "none" before it connects
    wsToIp,         \* Map: the registered sockets
    perIp,          \* Map: connectionsPerIp
    subscriptions,  \* Map: socket -> sessions
    alive,          \* Map: socket -> answered the last ping?
    messageCounts,  \* Map: socket -> messages of the window, violations
    lookups,        \* subscribe handlers that await the lookup of the session
    vanished,       \* clients that have gone without closing the connection
    log,            \* history: number of events ingested, by session
    view,           \* history: last event each client got, Off when not subscribed
    exit,           \* "running", or how the process ended
    stopping        \* isShuttingDown

vars == <<ready, wsToIp, perIp, subscriptions, alive, messageCounts, lookups,
          vanished, log, view, exit, stopping>>
maps == <<wsToIp, perIp, subscriptions, alive, messageCounts>>
client == <<vanished, view>>
process == <<exit, stopping>>

Off == -1
Up(ws) == exit = "running" /\ ready[ws] \in {"open", "closing"}

-----------------------------------------------------------------------------
(* cleanup *)

\* Mutant: cleanup trusts that it runs once per socket.
BugCleanup(W, K) ==
    /\ wsToIp' = wsToIp
    /\ perIp' = [ip \in {i \in DOMAIN perIp :
                    perIp[i] > Cardinality({w \in W \cap DOMAIN wsToIp : wsToIp[w] = i})} |->
                    perIp[ip] - Cardinality({w \in W \cap DOMAIN wsToIp : wsToIp[w] = ip})]
    /\ subscriptions' = Without(subscriptions, W)
    /\ alive' = Without(K, W)
    /\ messageCounts' = Without(messageCounts, W)

\* cleanup(ws) for every ws of W, K being what alive holds by then.  Ending a
\* socket runs it, and the socket's 'close' event runs it again.
Cleanup(W, K) ==
    LET Gone(ip) == Cardinality({w \in W \cap DOMAIN wsToIp : wsToIp[w] = ip})
    IN  /\ wsToIp' = Without(wsToIp, W)
        /\ perIp' = [ip \in {i \in DOMAIN perIp : perIp[i] > Gone(i)} |-> perIp[ip] - Gone(ip)]
        /\ subscriptions' = Without(subscriptions, W)
        /\ alive' = Without(K, W)
        /\ messageCounts' = Without(messageCounts, W)

-----------------------------------------------------------------------------
(* The connection *)

Count(ip) == IF ip \in DOMAIN perIp THEN perIp[ip] ELSE 0

Connect(ws, ip) ==
    /\ exit = "running" /\ ~stopping
    /\ ready[ws] = "none"
    /\ Count(ip) < MaxPerIp
    /\ ready' = [ready EXCEPT ![ws] = "open"]
    /\ perIp' = Put(perIp, ip, Count(ip) + 1)
    /\ wsToIp' = Put(wsToIp, ws, ip)
    /\ subscriptions' = Put(subscriptions, ws, {})
    /\ alive' = Put(alive, ws, TRUE)
    /\ UNCHANGED <<messageCounts, lookups, client, log, process>>

\* Closed before any handler is attached: unauthorised, or too many connections.
Refuse(ws) ==
    /\ exit = "running" /\ ~stopping
    /\ ready[ws] = "none"
    /\ ready' = [ready EXCEPT ![ws] = "closed"]
    /\ UNCHANGED <<maps, lookups, client, log, process>>

Pong(ws) ==
    /\ Up(ws)
    /\ ws \notin vanished
    /\ alive' = Put(alive, ws, TRUE)
    /\ UNCHANGED <<ready, wsToIp, perIp, subscriptions, messageCounts, lookups,
                   client, log, process>>

Error(ws) ==
    /\ Up(ws)
    /\ ready' = [ready EXCEPT ![ws] = "closing"]
    /\ Cleanup({ws}, alive)
    /\ UNCHANGED <<lookups, client, log, process>>

\* The 'close' event, after the client or the server closed or terminated.
Close(ws) ==
    /\ Up(ws)
    /\ ready[ws] = "open" => ws \notin vanished
    /\ ready' = [ready EXCEPT ![ws] = "closed"]
    /\ Cleanup({ws}, alive)
    /\ UNCHANGED <<lookups, client, log, process>>

\* Mutant: a socket that has not answered is pinged again.
BugPingRound ==
    /\ exit = "running"
    /\ alive' = [ws \in DOMAIN alive |-> FALSE]
    /\ UNCHANGED <<ready, wsToIp, perIp, subscriptions, messageCounts, lookups,
                   client, log, process>>

\* The keepalive timer: who has not answered the last ping is terminated.
PingRound ==
    LET Silent == {ws \in DOMAIN alive : ~alive[ws]}
    IN  /\ exit = "running"
        /\ ready' = [ws \in Socket |->
                        IF ws \in Silent /\ ready[ws] = "open" THEN "closing" ELSE ready[ws]]
        /\ Cleanup(Silent, [ws \in DOMAIN alive |-> FALSE])
        /\ UNCHANGED <<lookups, client, log, process>>

-----------------------------------------------------------------------------
(* A message of a client *)

Before(ws) ==
    IF ws \in DOMAIN messageCounts THEN messageCounts[ws] ELSE [count |-> 0, violations |-> 0]

\* Every message is counted; beyond RateMax of a window it is not looked at.
Counted(ws) ==
    /\ Up(ws)
    /\ ws \notin vanished
    /\ Before(ws).count < RateMax
    /\ messageCounts' = Put(messageCounts, ws, [Before(ws) EXCEPT !.count = @ + 1])

Excess(ws) ==
    /\ Up(ws)
    /\ ws \notin vanished
    /\ Before(ws).count = RateMax
    /\ Before(ws).violations < CloseAfter
    /\ messageCounts' = Put(messageCounts, ws, [Before(ws) EXCEPT !.violations = @ + 1])
    /\ ready' = IF Before(ws).violations + 1 = CloseAfter
                THEN [ready EXCEPT ![ws] = "closing"] ELSE ready
    /\ UNCHANGED <<wsToIp, perIp, subscriptions, alive, lookups, client, log, process>>

\* The window of RATE_LIMIT_WINDOW_MS ends; its record is reset by the next message.
WindowEnds(ws) ==
    /\ exit = "running"
    /\ ws \in DOMAIN messageCounts
    /\ messageCounts[ws].count > 0
    /\ messageCounts' = [messageCounts EXCEPT ![ws].count = 0]
    /\ UNCHANGED <<ready, wsToIp, perIp, subscriptions, alive, lookups, client, log, process>>

\* Not JSON, no session, too many subscriptions, or a socket already cleaned up:
\* at most an error reply.
Malformed(ws) ==
    /\ Counted(ws)
    /\ UNCHANGED <<ready, wsToIp, perIp, subscriptions, alive, lookups, client, log, process>>

\* subscribe, up to its await: the cap is tested here, the session added below.
Subscribe(ws, s) ==
    /\ Counted(ws)
    /\ ws \in DOMAIN subscriptions
    /\ Cardinality(subscriptions[ws]) < MaxSubs
    /\ lookups[ws][s] < MaxLookups
    /\ lookups' = [lookups EXCEPT ![ws][s] = @ + 1]
    /\ UNCHANGED <<ready, wsToIp, perIp, subscriptions, alive, client, log, process>>

Landed(ws, s) == lookups[ws][s] > 0 /\ lookups' = [lookups EXCEPT ![ws][s] = @ - 1]

\* Mutant: the handler looks the Set up again, and makes one if there is none.
BugFound(ws, s) ==
    /\ exit = "running"
    /\ Landed(ws, s)
    /\ LET old == IF ws \in DOMAIN subscriptions THEN subscriptions[ws] ELSE {}
       IN  subscriptions' = Put(subscriptions, ws, old \cup {s})
    /\ view' = [view EXCEPT ![ws][s] = log[s]]
    /\ UNCHANGED <<ready, wsToIp, perIp, alive, messageCounts, vanished, log, process>>

\* The session is added to the Set the handler holds, which is in no map any
\* more if the socket was cleaned up; the reply to a closed socket is dropped.
Found(ws, s) ==
    /\ exit = "running"
    /\ Landed(ws, s)
    /\ IF ws \in DOMAIN subscriptions
       THEN /\ subscriptions' = [subscriptions EXCEPT ![ws] = @ \cup {s}]
            /\ view' = [view EXCEPT ![ws][s] = log[s]]
       ELSE UNCHANGED <<subscriptions, view>>
    /\ UNCHANGED <<ready, wsToIp, perIp, alive, messageCounts, vanished, log, process>>

Unsubscribe(ws, s) ==
    /\ Counted(ws)
    /\ ws \in DOMAIN subscriptions
    /\ subscriptions' = [subscriptions EXCEPT ![ws] = @ \ {s}]
    /\ view' = [view EXCEPT ![ws][s] = Off]
    /\ UNCHANGED <<ready, wsToIp, perIp, alive, lookups, vanished, log, process>>

-----------------------------------------------------------------------------
(* Ingestion *)

Subscribers(s) ==
    {ws \in DOMAIN subscriptions : ready[ws] = "open" /\ s \in subscriptions[ws]}

\* What a client that got every event so far makes of the next one.
Got(v, n) == IF v = n THEN n + 1 ELSE v

\* Mutant: the loop over the subscribers ends at the first send that throws.
BugBroadcast(s) ==
    /\ exit = "running"
    /\ log[s] < MaxEvents
    /\ log' = [log EXCEPT ![s] = @ + 1]
    /\ \E broken, served \in SUBSET Subscribers(s) :
         /\ broken \cap served = {}
         /\ broken = {} => served = Subscribers(s)
         /\ Cardinality(broken) <= 1
         /\ ready' = [ws \in Socket |-> IF ws \in broken THEN "closing" ELSE ready[ws]]
         /\ view' = [ws \in Socket |-> IF ws \in served
                        THEN [view[ws] EXCEPT ![s] = Got(@, log[s])] ELSE view[ws]]
         /\ Cleanup(broken, alive)
    /\ UNCHANGED <<lookups, vanished, process>>

\* onEventsIngested: a send that throws costs its own client the connection.
Broadcast(s) ==
    /\ exit = "running"
    /\ log[s] < MaxEvents
    /\ log' = [log EXCEPT ![s] = @ + 1]
    /\ \E broken \in SUBSET Subscribers(s) :
         /\ ready' = [ws \in Socket |-> IF ws \in broken THEN "closing" ELSE ready[ws]]
         /\ view' = [ws \in Socket |-> IF ws \in Subscribers(s) \ broken
                        THEN [view[ws] EXCEPT ![s] = Got(@, log[s])] ELSE view[ws]]
         /\ Cleanup(broken, alive)
    /\ UNCHANGED <<lookups, vanished, process>>

-----------------------------------------------------------------------------
(* The end of the process *)

Exit(how) ==
    /\ exit' = how
    /\ UNCHANGED <<ready, maps, lookups, client, log, stopping>>

\* The message handler is an async function nobody awaits: when its lookup
\* rejects, index.ts exits on the unhandled rejection.
LookupRejects(ws, s) ==
    /\ Faults
    /\ exit = "running"
    /\ lookups[ws][s] > 0
    /\ Exit("crash")

\* SIGTERM: server.close() stops accepting and waits for the connections to end.
Shutdown ==
    /\ exit = "running" /\ ~stopping
    /\ stopping' = TRUE
    /\ UNCHANGED <<ready, maps, lookups, client, log, exit>>

\* Its callback finds no WebSocket left to close; closing the storage may fail.
Drained ==
    /\ exit = "running" /\ stopping
    /\ \A ws \in Socket : ready[ws] \in {"none", "closed"}
    /\ Exit("clean") \/ (Faults /\ Exit("failed"))

\* 30 s after the signal.
ForceExit ==
    /\ exit = "running" /\ stopping
    /\ Exit("forced")

\* A client loses its network: it neither answers nor closes.
Vanish(ws) ==
    /\ exit = "running"
    /\ ready[ws] = "open" /\ ws \notin vanished
    /\ vanished' = vanished \cup {ws}
    /\ UNCHANGED <<ready, maps, lookups, view, log, process>>

-----------------------------------------------------------------------------
Init ==
    /\ ready = [ws \in Socket |-> "none"]
    /\ wsToIp = NoKeys
    /\ perIp = NoKeys
    /\ subscriptions = NoKeys
    /\ alive = NoKeys
    /\ messageCounts = NoKeys
    /\ lookups = [ws \in Socket |-> [s \in Session |-> 0]]
    /\ vanished = {}
    /\ log = [s \in Session |-> 0]
    /\ view = [ws \in Socket |-> [s \in Session |-> Off]]
    /\ exit = "running"
    /\ stopping = FALSE

Next ==
    \/ \E ws \in Socket :
         \/ \E ip \in Ip : Connect(ws, ip)
         \/ Refuse(ws) \/ Pong(ws) \/ Error(ws) \/ Close(ws) \/ Vanish(ws)
         \/ Malformed(ws) \/ Excess(ws) \/ WindowEnds(ws)
         \/ \E s \in Session :
              Subscribe(ws, s) \/ Found(ws, s) \/ LookupRejects(ws, s) \/ Unsubscribe(ws, s)
    \/ \E s \in Session : Broadcast(s)
    \/ PingRound
    \/ Shutdown \/ Drained \/ ForceExit

Spec == Init /\ [][Next]_vars

\* The keepalive timer fires, and a socket that was ended emits 'close'.
FairSpec ==
    /\ Spec
    /\ WF_vars(PingRound)
    /\ \A ws \in Socket : WF_vars(ready[ws] = "closing" /\ Close(ws))

-----------------------------------------------------------------------------
(* What the edge promises *)

MapInto(m, K, V) == DOMAIN m \subseteq K /\ \A k \in DOMAIN m : m[k] \in V

\* The maps of setupWebSocket have the types the code gives them.
TypeOK ==
    /\ ready \in [Socket -> {"none", "open", "closing", "closed"}]
    /\ MapInto(wsToIp, Socket, Ip)
    /\ MapInto(perIp, Ip, 1..MaxPerIp)
    /\ MapInto(subscriptions, Socket, SUBSET Session)
    /\ MapInto(alive, Socket, BOOLEAN)
    /\ MapInto(messageCounts, Socket, [count : 0..RateMax, violations : 0..CloseAfter])
    /\ lookups \in [Socket -> [Session -> 0..MaxLookups]]
    /\ vanished \subseteq Socket
    /\ log \in [Session -> 0..MaxEvents]
    /\ view \in [Socket -> [Session -> {Off} \cup (0..MaxEvents)]]
    /\ exit \in {"running", "clean", "failed", "forced", "crash"}
    /\ stopping \in BOOLEAN

Registered(ip) == {ws \in DOMAIN wsToIp : wsToIp[ws] = ip}

\* The per-address counter is exact although cleanup runs more than once for
\* most sockets, so an address neither loses slots nor gets more than the limit.
SlotsAreExact ==
    \A ip \in Ip : Count(ip) = Cardinality(Registered(ip)) /\ Count(ip) <= MaxPerIp

\* Between its 'subscribed' and 'unsubscribed' replies a client gets every
\* event of the session, in order, whatever happens to the other clients.
StreamHasNoGaps ==
    \A ws \in Socket, s \in Session :
        ready[ws] = "open" /\ ws \in DOMAIN subscriptions =>
            view[ws][s] = IF s \in subscriptions[ws] THEN log[s] ELSE Off

\* Once a socket's 'close' has been handled no map holds it, whatever messages,
\* pongs and lookups came between its termination and its close.
NothingLeaks ==
    \A ws \in Socket :
        ready[ws] = "closed" =>
            ws \notin DOMAIN wsToIp \cup DOMAIN subscriptions \cup DOMAIN alive
                      \cup DOMAIN messageCounts

\* A client that vanished without closing is found out by the keepalive and
\* gives its slot back.
VanishedIsForgotten ==
    \A ws \in Socket :
        ws \in vanished ~> ready[ws] = "closed" \/ exit # "running"

=============================================================================
