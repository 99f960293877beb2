--------------------------- MODULE RealtimeProofs ---------------------------
(***************************************************************************)
(* Proofs about Realtime, for every set of sockets, sessions and addresses *)
(* and every value of the limits.  The inductive invariant is Safe: the    *)
(* three safety properties with the fact that a socket outside its         *)
(* connection is in no map (Mapped), which cleanup alone cannot tell       *)
(* because pongs and messages put a socket back between two cleanups.      *)
(***************************************************************************)
EXTENDS Realtime, FiniteSetTheorems, TLAPS

USE RealtimeAssumption

-----------------------------------------------------------------------------
(* Maps *)

LEMMA PutInto ==
    ASSUME NEW m, NEW K, NEW V, MapInto(m, K, V), NEW k \in K, NEW v \in V
    PROVE  MapInto(Put(m, k, v), K, V)
BY DEF MapInto, Put

LEMMA WithoutInto ==
    ASSUME NEW m, NEW K, NEW V, MapInto(m, K, V), NEW E
    PROVE  MapInto(Without(m, E), K, V)
BY DEF MapInto, Without

Record == [count : 0..RateMax, violations : 0..CloseAfter]

\* The record of a socket's window, the one a first message finds included.
LEMMA BeforeType ==
    ASSUME TypeOK, NEW ws \in Socket
    PROVE  Before(ws) \in Record
<1>1. CASE ws \in DOMAIN messageCounts
  BY <1>1 DEF TypeOK, MapInto, Before, Record
<1>2. CASE ws \notin DOMAIN messageCounts
  <2>1. 0 \in 0..RateMax /\ 0 \in 0..CloseAfter
    OBVIOUS
  <2> QED BY <1>2, <2>1 DEF Before, Record
<1> QED BY <1>1, <1>2

-----------------------------------------------------------------------------
(* The inductive invariant *)

Maps == DOMAIN wsToIp \cup DOMAIN subscriptions \cup DOMAIN alive \cup DOMAIN messageCounts

\* Only a socket whose handlers are attached is in a map, and one that has not
\* connected yet has no stream.
Mapped ==
    \A ws \in Socket :
        /\ ready[ws] \in {"none", "closed"} => ws \notin Maps
        /\ ready[ws] = "none" => view[ws] = [s \in Session |-> Off]

CountersExact == \A ip \in Ip : Count(ip) = Cardinality(Registered(ip))

Safe == TypeOK /\ CountersExact /\ StreamHasNoGaps /\ Mapped

\* How many sockets of W an address loses in a cleanup of W.
Losses(W, ip) == Cardinality({w \in W \cap DOMAIN wsToIp : wsToIp[w] = ip})

LEMMA Counts ==
    ASSUME TypeOK, NEW W \in SUBSET Socket, NEW ip
    PROVE  /\ Losses(W, ip) \in Nat
           /\ IsFiniteSet(Registered(ip))
<1>1. Registered(ip) \subseteq Socket /\ {w \in W \cap DOMAIN wsToIp : wsToIp[w] = ip} \subseteq Socket
  BY DEF Registered, TypeOK, MapInto
<1> QED BY <1>1, FS_Subset, FS_CardinalityType DEF Losses

\* A cleanup keeps the types of all five maps.
LEMMA CleanupType ==
    ASSUME TypeOK, NEW W \in SUBSET Socket, NEW K, MapInto(K, Socket, BOOLEAN), Cleanup(W, K)
    PROVE  /\ MapInto(wsToIp', Socket, Ip)
           /\ MapInto(perIp', Ip, 1..MaxPerIp)
           /\ MapInto(subscriptions', Socket, SUBSET Session)
           /\ MapInto(alive', Socket, BOOLEAN)
           /\ MapInto(messageCounts', Socket, Record)
<1>1. /\ MapInto(wsToIp', Socket, Ip)
      /\ MapInto(subscriptions', Socket, SUBSET Session)
      /\ MapInto(alive', Socket, BOOLEAN)
      /\ MapInto(messageCounts', Socket, Record)
  BY WithoutInto DEF Cleanup, TypeOK, Record
<1>2. perIp' = [ip \in {i \in DOMAIN perIp : perIp[i] > Losses(W, i)} |-> perIp[ip] - Losses(W, ip)]
  BY DEF Cleanup, Losses
<1>3. DOMAIN perIp \subseteq Ip /\ \A ip \in DOMAIN perIp : perIp[ip] \in 1..MaxPerIp
  BY DEF TypeOK, MapInto
<1>4. ASSUME NEW ip \in DOMAIN perIp, perIp[ip] > Losses(W, ip)
      PROVE  perIp[ip] - Losses(W, ip) \in 1..MaxPerIp
  BY <1>3, <1>4, Counts
<1>5. MapInto(perIp', Ip, 1..MaxPerIp)
  BY <1>2, <1>3, <1>4 DEF MapInto
<1> QED BY <1>1, <1>5

\* A cleanup takes from an address the slots of the sockets it unregisters, be
\* it the first cleanup of a socket or a later one.
LEMMA CleanupSlots ==
    ASSUME TypeOK, CountersExact, NEW W \in SUBSET Socket, NEW K, Cleanup(W, K)
    PROVE  CountersExact'
<1> SUFFICES ASSUME NEW ip \in Ip PROVE Count(ip)' = Cardinality(Registered(ip)')
  BY DEF CountersExact
<1>1. Registered(ip)' = Registered(ip) \ W
  BY DEF Registered, Cleanup, Without
<1>2. Registered(ip) \cap W = {w \in W \cap DOMAIN wsToIp : wsToIp[w] = ip}
  BY DEF Registered
<1>3. Cardinality(Registered(ip)') = Cardinality(Registered(ip)) - Losses(W, ip)
  BY <1>1, <1>2, Counts, FS_Difference DEF Losses
<1>4. Losses(W, ip) \in Nat /\ Cardinality(Registered(ip)') \in Nat
  BY <1>1, Counts, FS_Difference, FS_CardinalityType
<1>5. Count(ip) = Cardinality(Registered(ip)) /\ Count(ip) \in Nat
  BY Counts, FS_CardinalityType DEF CountersExact
<1>6. perIp' = [i \in {j \in DOMAIN perIp : perIp[j] > Losses(W, j)} |-> perIp[i] - Losses(W, i)]
  BY DEF Cleanup, Losses
<1>7. Count(ip)' = IF ip \in DOMAIN perIp /\ perIp[ip] > Losses(W, ip)
                   THEN perIp[ip] - Losses(W, ip) ELSE 0
  BY <1>6 DEF Count
<1>8. CASE ip \in DOMAIN perIp
  <2>1. Count(ip) = perIp[ip]
    BY <1>8 DEF Count
  <2> QED BY <1>3, <1>4, <1>5, <1>7, <1>8, <2>1
<1>9. CASE ip \notin DOMAIN perIp
  <2>1. Count(ip) = 0 /\ Count(ip)' = 0
    BY <1>7, <1>9 DEF Count
  <2> QED BY <1>3, <1>4, <1>5, <2>1
<1> QED BY <1>8, <1>9

\* What a cleanup of W leaves in the maps of the other sockets.
LEMMA CleanupLeaves ==
    ASSUME NEW W, NEW K, DOMAIN K = DOMAIN alive, Cleanup(W, K)
    PROVE  /\ Maps' = Maps \ W
           /\ DOMAIN subscriptions' = DOMAIN subscriptions \ W
           /\ \A ws \in DOMAIN subscriptions' : subscriptions'[ws] = subscriptions[ws]
BY DEF Cleanup, Without, Maps

\* The sockets of W end: what Error, Close, PingRound and Broadcast have in common.
LEMMA EndIsSafe ==
    ASSUME Safe, NEW W \in SUBSET Socket, NEW K, MapInto(K, Socket, BOOLEAN),
           DOMAIN K = DOMAIN alive, Cleanup(W, K),
           ready' \in [Socket -> {"none", "open", "closing", "closed"}],
           \A ws \in Socket : \/ ready'[ws] = ready[ws]
                              \/ ws \in W /\ ready'[ws] \in {"closing", "closed"},
           UNCHANGED <<lookups, client, log, process>>
    PROVE  Safe'
<1>1. TypeOK'
  BY CleanupType DEF Safe, TypeOK, client, process, Record
<1>2. CountersExact'
  BY CleanupSlots DEF Safe
<1>0. /\ Maps' = Maps \ W
      /\ DOMAIN subscriptions' = DOMAIN subscriptions \ W
      /\ \A ws \in DOMAIN subscriptions' : subscriptions'[ws] = subscriptions[ws]
  BY CleanupLeaves
<1>3. StreamHasNoGaps'
  <2> SUFFICES ASSUME NEW ws \in Socket, NEW s \in Session,
                      ready'[ws] = "open", ws \in DOMAIN subscriptions'
               PROVE  view'[ws][s] = IF s \in subscriptions'[ws] THEN log'[s] ELSE Off
    BY DEF StreamHasNoGaps
  <2>1. ready[ws] = "open" /\ ws \in DOMAIN subscriptions /\ subscriptions'[ws] = subscriptions[ws]
    BY <1>0
  <2> QED BY <2>1 DEF Safe, StreamHasNoGaps, client
<1>4. Mapped'
  <2> SUFFICES ASSUME NEW ws \in Socket
               PROVE  /\ ready'[ws] \in {"none", "closed"} => ws \notin Maps'
                      /\ ready'[ws] = "none" => view'[ws] = [s \in Session |-> Off]
    BY DEF Mapped
  <2>1. CASE ready'[ws] = ready[ws]
    BY <1>0, <2>1 DEF Safe, Mapped, client
  <2>2. CASE ws \in W /\ ready'[ws] \in {"closing", "closed"}
    BY <1>0, <2>2
  <2> QED BY <2>1, <2>2
<1> QED BY <1>1, <1>2, <1>3, <1>4 DEF Safe

-----------------------------------------------------------------------------
(* The steps *)

LEMMA InitIsSafe == ASSUME Init PROVE Safe
<1>1. MapInto(NoKeys, Socket, Ip) /\ MapInto(NoKeys, Ip, 1..MaxPerIp)
      /\ MapInto(NoKeys, Socket, SUBSET Session) /\ MapInto(NoKeys, Socket, BOOLEAN)
      /\ MapInto(NoKeys, Socket, Record)
  BY DEF MapInto, NoKeys
<1>2. TypeOK
  <2>1. /\ lookups \in [Socket -> [Session -> 0..MaxLookups]]
        /\ log \in [Session -> 0..MaxEvents]
        /\ view \in [Socket -> [Session -> {Off} \cup (0..MaxEvents)]]
    BY DEF Init
  <2>2. ready \in [Socket -> {"none", "open", "closing", "closed"}]
    BY DEF Init
  <2> QED BY <1>1, <2>1, <2>2 DEF Init, TypeOK, Record
<1>3. CountersExact
  BY FS_EmptySet DEF Init, CountersExact, Count, Registered, NoKeys
<1>4. StreamHasNoGaps /\ Mapped
  BY DEF Init, StreamHasNoGaps, Mapped, Maps, NoKeys
<1> QED BY <1>2, <1>3, <1>4 DEF Safe

LEMMA ConnectIsSafe ==
    ASSUME Safe, NEW ws \in Socket, NEW ip \in Ip, Connect(ws, ip)
    PROVE  Safe'
<1> USE DEF Connect
<1>1. ws \notin Maps /\ view[ws] = [s \in Session |-> Off]
  BY DEF Safe, Mapped
<1>2. Count(ip) \in 0..(MaxPerIp - 1)
  BY DEF Safe, TypeOK, MapInto, Count
<1>3. Count(ip) + 1 \in 1..MaxPerIp
  BY <1>2
<1>4. TypeOK'
  <2>1. MapInto(perIp', Ip, 1..MaxPerIp)
    BY <1>3, PutInto DEF Safe, TypeOK
  <2>2. MapInto(wsToIp', Socket, Ip)
    BY PutInto DEF Safe, TypeOK
  <2>3. MapInto(subscriptions', Socket, SUBSET Session)
    BY PutInto DEF Safe, TypeOK
  <2>4. MapInto(alive', Socket, BOOLEAN)
    BY PutInto DEF Safe, TypeOK
  <2> QED BY <2>1, <2>2, <2>3, <2>4 DEF Safe, TypeOK, client, process
<1>5. CountersExact'
  <2> SUFFICES ASSUME NEW i \in Ip PROVE Count(i)' = Cardinality(Registered(i)')
    BY DEF CountersExact
  <2>1. Count(i) = Cardinality(Registered(i)) /\ IsFiniteSet(Registered(i))
    BY Counts DEF Safe, CountersExact
  <2>2. CASE i = ip
    <3>1. Count(i)' = Count(i) + 1
      BY <2>2 DEF Count, Put
    <3>2. Registered(i)' = Registered(i) \cup {ws} /\ ws \notin Registered(i)
      BY <1>1, <2>2 DEF Registered, Put, Maps
    <3>3. Cardinality(Registered(i)') = Cardinality(Registered(i)) + 1
      BY <2>1, <3>2, FS_AddElement
    <3> QED BY <2>1, <3>1, <3>3
  <2>3. CASE i # ip
    <3>1. Count(i)' = Count(i)
      BY <2>3 DEF Count, Put
    <3>2. Registered(i)' = Registered(i)
      BY <1>1, <2>3 DEF Registered, Put, Maps
    <3> QED BY <2>1, <3>1, <3>2
  <2> QED BY <2>2, <2>3
<1>6. StreamHasNoGaps'
  BY <1>1 DEF Safe, StreamHasNoGaps, TypeOK, Put, client
<1>7. Mapped'
  BY DEF Safe, Mapped, Maps, TypeOK, Put, client
<1> QED BY <1>4, <1>5, <1>6, <1>7 DEF Safe

LEMMA PongIsSafe == ASSUME Safe, NEW ws \in Socket, Pong(ws) PROVE Safe'
<1> USE DEF Pong
<1>1. MapInto(alive', Socket, BOOLEAN)
  BY PutInto DEF Safe, TypeOK
<1>2. TypeOK'
  BY <1>1 DEF Safe, TypeOK, client, process
<1>3. Mapped'
  BY DEF Safe, Mapped, Maps, Put, Up, client
<1> QED BY <1>2, <1>3 DEF Safe, CountersExact, StreamHasNoGaps, Count, Registered, client

LEMMA ErrorIsSafe == ASSUME Safe, NEW ws \in Socket, Error(ws) PROVE Safe'
<1>1. MapInto(alive, Socket, BOOLEAN)
  BY DEF Safe, TypeOK
<1>2. /\ ready' \in [Socket -> {"none", "open", "closing", "closed"}]
      /\ \A w \in Socket : ready'[w] = ready[w] \/ (w \in {ws} /\ ready'[w] \in {"closing", "closed"})
  BY DEF Error, Safe, TypeOK
<1> QED BY <1>1, <1>2, EndIsSafe DEF Error

LEMMA CloseIsSafe == ASSUME Safe, NEW ws \in Socket, Close(ws) PROVE Safe'
<1>1. MapInto(alive, Socket, BOOLEAN)
  BY DEF Safe, TypeOK
<1>2. /\ ready' \in [Socket -> {"none", "open", "closing", "closed"}]
      /\ \A w \in Socket : ready'[w] = ready[w] \/ (w \in {ws} /\ ready'[w] \in {"closing", "closed"})
  BY DEF Close, Safe, TypeOK
<1> QED BY <1>1, <1>2, EndIsSafe DEF Close

LEMMA PingRoundIsSafe == ASSUME Safe, PingRound PROVE Safe'
<1> DEFINE Silent == {ws \in DOMAIN alive : ~alive[ws]}
           K == [ws \in DOMAIN alive |-> FALSE]
<1>1. DOMAIN alive \subseteq Socket
  BY DEF Safe, TypeOK, MapInto
<1>2. MapInto(K, Socket, BOOLEAN) /\ DOMAIN K = DOMAIN alive /\ Silent \in SUBSET Socket
  BY <1>1 DEF MapInto
<1>3. /\ ready' \in [Socket -> {"none", "open", "closing", "closed"}]
      /\ \A w \in Socket : ready'[w] = ready[w] \/ (w \in Silent /\ ready'[w] \in {"closing", "closed"})
  BY DEF PingRound, Safe, TypeOK
<1>4. Cleanup(Silent, K) /\ UNCHANGED <<lookups, client, log, process>>
  BY DEF PingRound
<1> HIDE DEF Silent, K
<1> QED BY <1>2, <1>3, <1>4, EndIsSafe

\* A message is counted: what Subscribe, Unsubscribe and Malformed begin with.
LEMMA CountedKeeps ==
    ASSUME Safe, NEW ws \in Socket, Counted(ws)
    PROVE  /\ MapInto(messageCounts', Socket, Record)
           /\ DOMAIN messageCounts' = DOMAIN messageCounts \cup {ws}
           /\ ready[ws] \in {"open", "closing"}
<1>1. Before(ws) \in Record
  BY BeforeType DEF Safe
<1>2. Before(ws).count + 1 \in 0..RateMax
  BY <1>1 DEF Record, Counted
<1>3. [Before(ws) EXCEPT !.count = @ + 1] \in Record
  BY <1>1, <1>2 DEF Record
<1>4. MapInto(messageCounts, Socket, Record)
  BY DEF Safe, TypeOK, Record
<1> QED BY <1>3, <1>4, PutInto DEF Counted, Put, Up

LEMMA MessageIsSafe ==
    ASSUME Safe, NEW ws \in Socket, Counted(ws),
           UNCHANGED <<ready, wsToIp, perIp, subscriptions, alive, client, log, process>>,
           lookups' \in [Socket -> [Session -> 0..MaxLookups]]
    PROVE  Safe'
<1>1. TypeOK'
  BY CountedKeeps DEF Safe, TypeOK, Record, client, process
<1>2. Mapped'
  BY CountedKeeps DEF Safe, Mapped, Maps, client
<1> QED BY <1>1, <1>2 DEF Safe, CountersExact, StreamHasNoGaps, Count, Registered, client

LEMMA SubscribeIsSafe ==
    ASSUME Safe, NEW ws \in Socket, NEW s \in Session, Subscribe(ws, s)
    PROVE  Safe'
<1>1. lookups[ws][s] + 1 \in 0..MaxLookups
  BY DEF Subscribe, Safe, TypeOK
<1>2. lookups' \in [Socket -> [Session -> 0..MaxLookups]]
  BY <1>1 DEF Subscribe, Safe, TypeOK
<1> QED BY <1>2, MessageIsSafe DEF Subscribe

LEMMA UnsubscribeIsSafe ==
    ASSUME Safe, NEW ws \in Socket, NEW s \in Session, Unsubscribe(ws, s)
    PROVE  Safe'
<1> USE DEF Unsubscribe
<1>1. TypeOK'
  <2>1. MapInto(subscriptions', Socket, SUBSET Session)
    BY DEF Safe, TypeOK, MapInto
  <2>2. view' \in [Socket -> [Session -> {Off} \cup (0..MaxEvents)]]
    BY DEF Safe, TypeOK
  <2> QED BY <2>1, <2>2, CountedKeeps DEF Safe, TypeOK, Record, process
<1>2. StreamHasNoGaps'
  BY DEF Safe, StreamHasNoGaps, TypeOK
<1>3. Mapped'
  BY CountedKeeps DEF Safe, Mapped, Maps, TypeOK
<1> QED BY <1>1, <1>2, <1>3 DEF Safe, CountersExact, Count, Registered

LEMMA ExcessIsSafe == ASSUME Safe, NEW ws \in Socket, Excess(ws) PROVE Safe'
<1> USE DEF Excess
<1>1. Before(ws) \in Record
  BY BeforeType DEF Safe
<1>2. Before(ws).violations + 1 \in 0..CloseAfter
  BY <1>1 DEF Record
<1>3. [Before(ws) EXCEPT !.violations = @ + 1] \in Record
  BY <1>1, <1>2 DEF Record
<1>4. MapInto(messageCounts', Socket, Record)
  BY <1>3, PutInto DEF Safe, TypeOK, Record
<1>5. /\ ready' \in [Socket -> {"none", "open", "closing", "closed"}]
      /\ \A w \in Socket : ready'[w] = ready[w] \/ (w = ws /\ ready'[w] = "closing")
  BY DEF Safe, TypeOK
<1>6. TypeOK'
  BY <1>4, <1>5 DEF Safe, TypeOK, Record, client, process
<1>7. StreamHasNoGaps'
  BY <1>5 DEF Safe, StreamHasNoGaps, client
<1>8. Mapped'
  BY <1>5 DEF Safe, Mapped, Maps, Put, Up, client
<1> QED BY <1>6, <1>7, <1>8 DEF Safe, CountersExact, Count, Registered

LEMMA WindowEndsIsSafe == ASSUME Safe, NEW ws \in Socket, WindowEnds(ws) PROVE Safe'
<1> USE DEF WindowEnds
<1>1. MapInto(messageCounts', Socket, Record)
  <2>1. 0 \in 0..RateMax
    OBVIOUS
  <2> QED BY <2>1 DEF Safe, TypeOK, MapInto, Record
<1>2. TypeOK'
  BY <1>1 DEF Safe, TypeOK, Record, client, process
<1>3. Mapped'
  BY DEF Safe, Mapped, Maps, client
<1> QED BY <1>2, <1>3 DEF Safe, CountersExact, StreamHasNoGaps, Count, Registered, client

LEMMA FoundIsSafe ==
    ASSUME Safe, NEW ws \in Socket, NEW s \in Session, Found(ws, s)
    PROVE  Safe'
<1> USE DEF Found, Landed
<1>1. lookups' \in [Socket -> [Session -> 0..MaxLookups]]
  <2>1. lookups[ws][s] - 1 \in 0..MaxLookups
    BY DEF Safe, TypeOK
  <2> QED BY <2>1 DEF Safe, TypeOK
<1>2. CASE ws \in DOMAIN subscriptions
  <2>1. MapInto(subscriptions', Socket, SUBSET Session)
    BY <1>2 DEF Safe, TypeOK, MapInto
  <2>0. /\ log[s] \in {Off} \cup (0..MaxEvents)
        /\ view \in [Socket -> [Session -> {Off} \cup (0..MaxEvents)]]
        /\ view' = [view EXCEPT ![ws][s] = log[s]]
    BY <1>2 DEF Safe, TypeOK
  <2>2. view' \in [Socket -> [Session -> {Off} \cup (0..MaxEvents)]]
    BY <2>0
  <2>3. TypeOK'
    BY <1>1, <2>1, <2>2 DEF Safe, TypeOK, process
  <2>4. StreamHasNoGaps'
    BY <1>2, <2>0 DEF Safe, StreamHasNoGaps
  <2>5. Mapped'
    BY <1>2 DEF Safe, Mapped, Maps, TypeOK
  <2> QED BY <2>3, <2>4, <2>5 DEF Safe, CountersExact, Count, Registered
<1>3. CASE ws \notin DOMAIN subscriptions
  <2>1. TypeOK'
    BY <1>1, <1>3 DEF Safe, TypeOK, process
  <2> QED BY <1>3, <2>1 DEF Safe, CountersExact, StreamHasNoGaps, Mapped, Maps, Count, Registered
<1> QED BY <1>2, <1>3

LEMMA BroadcastIsSafe == ASSUME Safe, NEW s \in Session, Broadcast(s) PROVE Safe'
<1>1. PICK broken \in SUBSET Subscribers(s) :
        /\ ready' = [ws \in Socket |-> IF ws \in broken THEN "closing" ELSE ready[ws]]
        /\ view' = [ws \in Socket |-> IF ws \in Subscribers(s) \ broken
                        THEN [view[ws] EXCEPT ![s] = Got(@, log[s])] ELSE view[ws]]
        /\ Cleanup(broken, alive)
  BY DEF Broadcast
<1>2. /\ log[s] \in 0..MaxEvents /\ log[s] + 1 \in 0..MaxEvents
      /\ log' = [log EXCEPT ![s] = @ + 1]
      /\ UNCHANGED <<lookups, vanished, process>>
  BY DEF Broadcast, Safe, TypeOK
<1>3. broken \in SUBSET Socket /\ broken \subseteq DOMAIN subscriptions
  BY DEF Subscribers, Safe, TypeOK, MapInto
<1>4. MapInto(alive, Socket, BOOLEAN)
  BY DEF Safe, TypeOK
<1>5. \A v \in {Off} \cup (0..MaxEvents) : Got(v, log[s]) \in {Off} \cup (0..MaxEvents)
  BY <1>2 DEF Got
<1>6. view' \in [Socket -> [Session -> {Off} \cup (0..MaxEvents)]]
  BY <1>1, <1>5 DEF Safe, TypeOK
<1>7. TypeOK'
  <2>1. ready' \in [Socket -> {"none", "open", "closing", "closed"}]
    BY <1>1 DEF Safe, TypeOK
  <2>2. log' \in [Session -> 0..MaxEvents]
    BY <1>2 DEF Safe, TypeOK
  <2>3. TypeOK
    BY DEF Safe
  <2> QED BY <1>1, <1>2, <1>3, <1>4, <1>6, <2>1, <2>2, <2>3, CleanupType DEF TypeOK, Record, process
<1>8. CountersExact'
  BY <1>1, <1>3, CleanupSlots DEF Safe
<1>9. StreamHasNoGaps'
  <2> SUFFICES ASSUME NEW ws \in Socket, NEW t \in Session,
                      ready'[ws] = "open", ws \in DOMAIN subscriptions'
               PROVE  view'[ws][t] = IF t \in subscriptions'[ws] THEN log'[t] ELSE Off
    BY DEF StreamHasNoGaps
  <2>1. ws \notin broken /\ ready[ws] = "open" /\ ws \in DOMAIN subscriptions
        /\ subscriptions'[ws] = subscriptions[ws]
    BY <1>1, CleanupLeaves
  <2>2. view[ws][t] = IF t \in subscriptions[ws] THEN log[t] ELSE Off
    BY <2>1 DEF Safe, StreamHasNoGaps
  <2>3. CASE s \in subscriptions[ws]
    <3>1. ws \in Subscribers(s) \ broken
      BY <2>1, <2>3 DEF Subscribers
    <3>2. view'[ws] = [view[ws] EXCEPT ![s] = Got(view[ws][s], log[s])]
      BY <1>1, <3>1
    <3>3. view[ws] \in [Session -> {Off} \cup (0..MaxEvents)] /\ log \in [Session -> 0..MaxEvents]
      BY DEF Safe, TypeOK
    <3> QED BY <1>2, <2>1, <2>2, <2>3, <3>2, <3>3 DEF Got
  <2>4. CASE s \notin subscriptions[ws]
    <3>1. view'[ws] = view[ws]
      BY <1>1, <2>4 DEF Subscribers
    <3>2. t = s \/ log'[t] = log[t]
      BY <1>2
    <3> QED BY <2>1, <2>2, <2>4, <3>1, <3>2
  <2> QED BY <2>3, <2>4
<1>10. Mapped'
  <2> SUFFICES ASSUME NEW ws \in Socket
               PROVE  /\ ready'[ws] \in {"none", "closed"} => ws \notin Maps'
                      /\ ready'[ws] = "none" => view'[ws] = [t \in Session |-> Off]
    BY DEF Mapped
  <2>1. Maps' \subseteq Maps
    BY <1>1, CleanupLeaves
  <2>2. ready'[ws] \in {"none", "closed"} => ready[ws] = ready'[ws]
    BY <1>1
  <2>3. ready[ws] = "none" => ws \notin Subscribers(s)
    BY DEF Subscribers
  <2> QED BY <1>1, <2>1, <2>2, <2>3 DEF Safe, Mapped
<1> QED BY <1>7, <1>8, <1>9, <1>10 DEF Safe

\* Refusals, lookups that reject, signals and clients that vanish touch no map.
LEMMA OthersAreSafe ==
    ASSUME Safe,
           \/ \E ws \in Socket : Refuse(ws) \/ Vanish(ws)
           \/ \E ws \in Socket, s \in Session : LookupRejects(ws, s)
           \/ Shutdown \/ Drained \/ ForceExit \/ UNCHANGED vars
    PROVE  Safe'
<1>1. ASSUME NEW ws \in Socket, Refuse(ws) PROVE Safe'
  <2>1. TypeOK'
    BY <1>1 DEF Refuse, Safe, TypeOK, maps, client, process
  <2>2. StreamHasNoGaps' /\ Mapped'
    BY <1>1 DEF Refuse, Safe, TypeOK, StreamHasNoGaps, Mapped, Maps, maps, client
  <2> QED BY <1>1, <2>1, <2>2 DEF Refuse, Safe, CountersExact, Count, Registered, maps
<1>2. ASSUME NEW ws \in Socket, Vanish(ws) PROVE Safe'
  BY <1>2 DEF Vanish, Safe, TypeOK, StreamHasNoGaps, Mapped, Maps, CountersExact, Count,
              Registered, maps, process
<1>3. ASSUME NEW how \in {"clean", "failed", "forced", "crash"}, Exit(how) PROVE Safe'
  BY <1>3 DEF Exit, Safe, TypeOK, StreamHasNoGaps, Mapped, Maps, CountersExact, Count,
              Registered, maps, client
<1>4. CASE Shutdown
  BY <1>4 DEF Shutdown, Safe, TypeOK, StreamHasNoGaps, Mapped, Maps, CountersExact, Count,
              Registered, maps, client
<1>5. CASE UNCHANGED vars
  BY <1>5 DEF vars, Safe, TypeOK, StreamHasNoGaps, Mapped, Maps, CountersExact, Count, Registered
<1> QED BY <1>1, <1>2, <1>3, <1>4, <1>5 DEF LookupRejects, Drained, ForceExit

LEMMA StepIsSafe == ASSUME Safe, [Next]_vars PROVE Safe'
<1>1. ASSUME NEW ws \in Socket, Malformed(ws) PROVE Safe'
  BY <1>1, MessageIsSafe DEF Malformed, Safe, TypeOK
<1> QED BY <1>1, ConnectIsSafe, PongIsSafe, ErrorIsSafe, CloseIsSafe, PingRoundIsSafe,
           SubscribeIsSafe, UnsubscribeIsSafe, ExcessIsSafe, WindowEndsIsSafe, FoundIsSafe,
           BroadcastIsSafe, OthersAreSafe DEF Next

LEMMA Inductive == Spec => []Safe
BY InitIsSafe, StepIsSafe, PTL DEF Spec

-----------------------------------------------------------------------------
(* The theorems *)

\* Every reachable state of the maps of setupWebSocket is type-correct, whatever
\* the numbers of sockets, sessions and addresses and the limits.
THEOREM TypeCorrect == Spec => []TypeOK
<1>1. Safe => TypeOK
  BY DEF Safe
<1> QED BY <1>1, Inductive, PTL

\* The counter of an address is the number of its registered sockets and within
\* the limit, however often cleanup runs for one socket.
THEOREM SlotsStayExact == Spec => []SlotsAreExact
<1>1. Safe => SlotsAreExact
  BY DEF Safe, TypeOK, MapInto, CountersExact, SlotsAreExact, Count
<1> QED BY <1>1, Inductive, PTL

\* A subscribed client gets every event of the session in order, whatever
\* sends to other clients throw and whatever lookups land late.
THEOREM StreamsHaveNoGaps == Spec => []StreamHasNoGaps
<1>1. Safe => StreamHasNoGaps
  BY DEF Safe
<1> QED BY <1>1, Inductive, PTL

\* A socket whose close has been handled is in none of the maps.
THEOREM NothingEverLeaks == Spec => []NothingLeaks
<1>1. Safe => NothingLeaks
  BY DEF Safe, Mapped, Maps, NothingLeaks
<1> QED BY <1>1, Inductive, PTL

=============================================================================
