------------------------ MODULE WebhookDeliveryProofs -----------------------
(***************************************************************************)
(* Proofs about WebhookDelivery, for every set of events, retry budget and *)
(* number of crashes, with or without a durable store.                     *)
(***************************************************************************)
EXTENDS WebhookDelivery, FiniteSetTheorems, SequenceTheorems, TLAPS

USE WebhookAssumption

Pcs == {"get", "post", "record", "schedule", "timer", "resume", "retry", "reset"}
Row == [status : Settled \cup Unsettled, attempts : Nat]
ChainState == [pc : Pcs, n : Nat, ok : BOOLEAN, guarded : BOOLEAN]

-----------------------------------------------------------------------------
(* Type correctness *)

LEMMA StartType ==
    ASSUME MapInto(chains, Chain, ChainState), NEW k \in Chain, NEW pc \in Pcs, Start(k, pc)
    PROVE  MapInto(chains', Chain, ChainState)
BY DEF MapInto, Start, Put, ChainState

LEMMA GotoType ==
    ASSUME MapInto(chains, Chain, ChainState), NEW k \in DOMAIN chains, NEW pc \in Pcs, Goto(k, pc)
    PROVE  MapInto(chains', Chain, ChainState)
BY DEF MapInto, Goto, ChainState

LEMMA EndType ==
    ASSUME MapInto(chains, Chain, ChainState), NEW k, End(k)
    PROVE  MapInto(chains', Chain, ChainState)
BY DEF MapInto, End, Without

LEMMA DieType ==
    ASSUME TypeOK, Die, killed' \in Nat
    PROVE  TypeOK'
<1>1. /\ MapInto(rows', Event, Row) /\ order' \in Seq(Event)
  <2>1. CASE Durable
    BY <2>1 DEF TypeOK, Die, MapInto, Row
  <2>2. CASE ~Durable
    BY <2>2 DEF Die, NoKeys, MapInto
  <2> QED BY <2>1, <2>2
<1>2. MapInto(chains', Chain, ChainState)
  BY DEF Die, NoKeys, MapInto
<1>3. recovery' \in [pc : {"list", "resume"}, todo : SUBSET Event]
  BY DEF Die, Boot
<1>4. /\ elapsed' \in [Event -> BOOLEAN] /\ posts' \in [Event -> Nat]
      /\ accepted' \subseteq Event /\ orphaned' \subseteq Event
      /\ crashes' \in Nat /\ manual' \in Nat
  BY DEF TypeOK, Die, receiver
<1> QED BY <1>1, <1>2, <1>3, <1>4 DEF TypeOK, Row, ChainState, Pcs, MapInto

LEMMA AdvanceType ==
    ASSUME TypeOK, NEW k \in Chain, Advance(k)
    PROVE  TypeOK'
<1>0. /\ MapInto(rows, Event, Row) /\ MapInto(chains, Chain, ChainState)
      /\ k[1] \in Event
  BY DEF TypeOK, Row, ChainState, Pcs, Chain
<1>1. k \in DOMAIN chains /\ chains[k] \in ChainState
  BY <1>0 DEF Advance, At, Get, Post, Record, Schedule, Fire, ResumeGet, RetryGet, RetryReset, MapInto
<1> USE DEF receiver, process
<1>2. ASSUME MapInto(rows', Event, Row), MapInto(chains', Chain, ChainState),
             UNCHANGED <<order, elapsed, receiver, process>>
      PROVE  TypeOK'
  BY <1>2 DEF TypeOK, Row, ChainState, Pcs, MapInto
<1>3. CASE Get(k)
  <2>1. CASE k[1] \in DOMAIN rows /\ rows[k[1]].status \notin Settled
    <3>1. rows[k[1]].attempts + 1 \in Nat
      BY <1>0, <2>1 DEF MapInto, Row
    <3>2. MapInto(chains', Chain, ChainState)
      <4> DEFINE n == rows[k[1]].attempts + 1
      <4>1. chains' = [chains EXCEPT ![k].pc = "post", ![k].n = n]
        BY <1>3, <2>1 DEF Get
      <4>2. n \in Nat /\ "post" \in Pcs
        BY <3>1 DEF Pcs
      <4> HIDE DEF n
      <4> QED BY <1>0, <1>1, <4>1, <4>2 DEF MapInto, ChainState
    <3> QED BY <1>0, <1>2, <1>3, <3>2 DEF Get
  <2>2. CASE ~(k[1] \in DOMAIN rows /\ rows[k[1]].status \notin Settled)
    BY <1>0, <1>2, <1>3, <2>2, EndType DEF Get
  <2> QED BY <2>1, <2>2
<1>4. CASE Post(k)
  <2>1. PICK arrives \in BOOLEAN, ok \in BOOLEAN :
          /\ posts' = [posts EXCEPT ![k[1]] = @ + 1]
          /\ accepted' = IF arrives THEN accepted \cup {k[1]} ELSE accepted
          /\ chains' = [chains EXCEPT ![k].pc = "record", ![k].ok = ok]
    BY <1>4 DEF Post
  <2>2. MapInto(chains', Chain, ChainState)
    BY <1>0, <1>1, <2>1 DEF MapInto, ChainState, Pcs
  <2>3. posts' \in [Event -> Nat] /\ accepted' \subseteq Event
    BY <1>0, <2>1 DEF TypeOK
  <2> QED BY <1>4, <2>2, <2>3 DEF Post, TypeOK, ChainState, Pcs, MapInto
<1>5. CASE Record(k)
  <2>1. [status |-> Outcome(k), attempts |-> chains[k].n] \in Row
    BY <1>1 DEF Outcome, Row, ChainState, Settled, Unsettled
  <2>2. MapInto(rows', Event, Row)
    BY <1>0, <1>5, <2>1 DEF Record, MapInto
  <2>3. MapInto(chains', Chain, ChainState)
    BY <1>0, <1>1, <1>5, GotoType, EndType DEF Record, Pcs
  <2>4. elapsed' \in [Event -> BOOLEAN]
    BY <1>0, <1>5 DEF Record, TypeOK
  <2> QED BY <1>5, <2>2, <2>3, <2>4 DEF Record, TypeOK, Row, ChainState, Pcs, MapInto
<1>6. CASE Schedule(k)
  <2>1. MapInto(chains', Chain, ChainState)
    BY <1>0, <1>1, <1>6 DEF Schedule, MapInto, ChainState, Pcs
  <2> QED BY <1>0, <1>2, <1>6, <2>1 DEF Schedule
<1>7. CASE Fire(k) \/ ResumeGet(k) \/ RetryGet(k)
  <2>1. MapInto(chains', Chain, ChainState)
    BY <1>0, <1>1, <1>7, GotoType, EndType DEF Fire, ResumeGet, RetryGet, Pcs
  <2> QED BY <1>0, <1>2, <1>7, <2>1 DEF Fire, ResumeGet, RetryGet
<1>8. CASE RetryReset(k)
  <2>1. MapInto(chains', Chain, ChainState)
    BY <1>0, <1>1, <1>8, GotoType DEF RetryReset, Pcs
  <2>2. MapInto(rows', Event, Row)
    <3>1. rows' = [rows EXCEPT ![k[1]].status = "pending"]
      BY <1>8 DEF RetryReset
    <3>2. \A e \in DOMAIN rows : [rows[e] EXCEPT !.status = "pending"] \in Row
      BY <1>0 DEF MapInto, Row, Unsettled
    <3> QED BY <1>0, <3>1, <3>2 DEF MapInto
  <2> QED BY <1>2, <1>8, <2>1, <2>2 DEF RetryReset
<1> QED BY <1>3, <1>4, <1>5, <1>6, <1>7, <1>8 DEF Advance

LEMMA StepType == TypeOK /\ [Next]_vars => TypeOK'
<1> SUFFICES ASSUME TypeOK, [Next]_vars PROVE TypeOK'
  OBVIOUS
<1>0. /\ MapInto(rows, Event, Row) /\ MapInto(chains, Chain, ChainState)
  BY DEF TypeOK, Row, ChainState, Pcs
<1> USE DEF receiver, process
<1>1. ASSUME NEW e \in Event, Notify(e) \/ NotifyLost(e) PROVE TypeOK'
  <2>1. Fresh \in Row
    BY DEF Fresh, Row, Unsettled
  <2>2. MapInto(rows', Event, Row)
    BY <1>0, <1>1, <2>1 DEF Notify, NotifyLost, MapInto, Put
  <2>3. MapInto(chains', Chain, ChainState)
    <3>1. <<e, "notify">> \in Chain /\ "get" \in Pcs
      BY DEF Chain, Origin, Pcs
    <3> QED BY <1>0, <1>1, <3>1, StartType DEF Notify, NotifyLost
  <2>4. order' \in Seq(Event) /\ orphaned' \subseteq Event
    <3>1. order' = Append(order, e) /\ order \in Seq(Event)
      BY <1>1 DEF Notify, NotifyLost, TypeOK
    <3>2. orphaned' \subseteq Event
      BY <1>1 DEF Notify, NotifyLost, TypeOK
    <3> QED BY <3>1, <3>2, AppendProperties
  <2> QED BY <1>1, <2>2, <2>3, <2>4 DEF Notify, NotifyLost, TypeOK, Row, ChainState, Pcs, MapInto
<1>2. ASSUME NEW e \in Event, Resume(e) \/ Retry(e) PROVE TypeOK'
  <2>1. MapInto(chains', Chain, ChainState)
    <3>1. /\ <<e, "resume">> \in Chain /\ <<e, "retry">> \in Chain
          /\ "resume" \in Pcs /\ "retry" \in Pcs
      BY DEF Chain, Origin, Pcs
    <3> QED BY <1>0, <1>2, <3>1, StartType DEF Resume, Retry
  <2>2. recovery' \in [pc : {"list", "resume"}, todo : SUBSET Event] /\ manual' \in Nat
    BY <1>2 DEF Resume, Retry, TypeOK
  <2> QED BY <1>0, <1>2, <2>1, <2>2 DEF Resume, Retry, TypeOK, Row, ChainState, Pcs, MapInto
<1>3. ASSUME NEW e \in Event, Elapse(e) PROVE TypeOK'
  BY <1>3 DEF Elapse, TypeOK, MapInto
<1>4. ASSUME NEW k \in Chain, Reject(k) PROVE TypeOK'
  <2>1. CASE chains[k].guarded
    <3>1. MapInto(chains', Chain, ChainState)
      BY <1>0, <1>4, <2>1, EndType DEF Reject
    <3>2. orphaned' \subseteq Event
      BY <1>4, <2>1 DEF Reject, Chain, TypeOK
    <3> QED BY <1>0, <1>4, <2>1, <3>1, <3>2 DEF Reject, TypeOK, Row, ChainState, Pcs, MapInto
  <2>2. CASE ~chains[k].guarded
    BY <1>4, <2>2, DieType DEF Reject, TypeOK
  <2> QED BY <2>1, <2>2
<1>5. CASE RecoverList
  <2>1. \A i \in 1..Len(order) : order[i] \in Event
    BY DEF TypeOK
  <2> QED BY <1>5, <2>1 DEF RecoverList, TypeOK, MapInto
<1>6. CASE RecoverFails
  <2>1. Unfinished \subseteq Event
    BY <1>0 DEF Unfinished, MapInto
  <2> QED BY <1>6, <2>1 DEF RecoverFails, TypeOK, MapInto
<1>7. CASE Crash
  BY <1>7, DieType DEF Crash, TypeOK
<1>8. CASE UNCHANGED vars
  BY <1>8 DEF vars, TypeOK, MapInto
<1> QED BY <1>1, <1>2, <1>3, <1>4, <1>5, <1>6, <1>7, <1>8, AdvanceType DEF Next

\* Every reachable state of the adapter, its store and the boot recovery is
\* type-correct.
THEOREM TypeCorrect == Spec => []TypeOK
<1>1. Init => TypeOK
  BY DEF Init, TypeOK, MapInto, NoKeys, Boot
<1> QED BY <1>1, StepType, PTL DEF Spec

-----------------------------------------------------------------------------
(* A success was accepted by the receiver *)

OkWasAccepted ==
    \A k \in DOMAIN chains : chains[k].pc = "record" /\ chains[k].ok => k[1] \in accepted

LEMMA StepSuccess ==
    ASSUME TypeOK, SuccessMeansAccepted, OkWasAccepted, [Next]_vars
    PROVE  SuccessMeansAccepted' /\ OkWasAccepted'
<1>0. /\ MapInto(rows, Event, Row) /\ MapInto(chains, Chain, ChainState)
  BY DEF TypeOK, Row, ChainState, Pcs
<1> USE DEF receiver, process
<1>1. ASSUME UNCHANGED <<rows, accepted>>,
             \A k \in DOMAIN chains' : \/ k \in DOMAIN chains /\ chains'[k] = chains[k]
                                      \/ chains'[k].pc # "record"
      PROVE  SuccessMeansAccepted' /\ OkWasAccepted'
  BY <1>1 DEF SuccessMeansAccepted, OkWasAccepted
<1>2. ASSUME NEW e \in Event, Notify(e) \/ NotifyLost(e)
      PROVE  SuccessMeansAccepted' /\ OkWasAccepted'
  <2>1. SuccessMeansAccepted'
    BY <1>2 DEF Notify, NotifyLost, Put, Fresh, SuccessMeansAccepted
  <2>2. OkWasAccepted'
    BY <1>2 DEF Notify, NotifyLost, Start, Put, OkWasAccepted
  <2> QED BY <2>1, <2>2
<1>3. ASSUME NEW e \in Event, Resume(e) \/ Retry(e) \/ Elapse(e)
      PROVE  SuccessMeansAccepted' /\ OkWasAccepted'
  BY <1>1, <1>3 DEF Resume, Retry, Elapse, Start, Put
<1>4. ASSUME NEW k \in Chain, Post(k) PROVE SuccessMeansAccepted' /\ OkWasAccepted'
  <2>1. PICK ok \in BOOLEAN :
          /\ chains' = [chains EXCEPT ![k].pc = "record", ![k].ok = ok]
          /\ ok => k[1] \in accepted'
    BY <1>4 DEF Post
  <2>2. accepted \subseteq accepted' /\ rows' = rows /\ k \in DOMAIN chains
    BY <1>4 DEF Post, At
  <2>3. chains[k] \in ChainState
    BY <1>0, <2>2 DEF MapInto
  <2>4. SuccessMeansAccepted'
    BY <2>2 DEF SuccessMeansAccepted
  <2>5. OkWasAccepted'
    BY <2>1, <2>2, <2>3 DEF OkWasAccepted, ChainState
  <2> QED BY <2>4, <2>5
<1>5. ASSUME NEW k \in Chain, Record(k) PROVE SuccessMeansAccepted' /\ OkWasAccepted'
  <2>1. k \in DOMAIN chains /\ chains[k] \in ChainState /\ chains[k].pc = "record"
    BY <1>0, <1>5 DEF Record, At, MapInto
  <2>2. Outcome(k) = "success" => k[1] \in accepted
    BY <2>1 DEF Outcome, OkWasAccepted
  <2>3. SuccessMeansAccepted'
    BY <1>5, <2>2 DEF Record, SuccessMeansAccepted
  <2>4. OkWasAccepted'
    BY <1>5, <2>1 DEF Record, Goto, End, Without, OkWasAccepted, ChainState
  <2> QED BY <2>3, <2>4
<1>6. ASSUME NEW k \in Chain, RetryReset(k) PROVE SuccessMeansAccepted' /\ OkWasAccepted'
  <2>1. k \in DOMAIN chains /\ chains[k] \in ChainState
    BY <1>0, <1>6 DEF RetryReset, At, MapInto
  <2>2. rows' = [rows EXCEPT ![k[1]].status = "pending"] /\ accepted' = accepted
    BY <1>6 DEF RetryReset
  <2>3. \A e \in DOMAIN rows : rows[e] \in Row
    BY <1>0 DEF MapInto
  <2>4. SuccessMeansAccepted'
    BY <2>2, <2>3 DEF SuccessMeansAccepted, Row
  <2>5. OkWasAccepted'
    BY <1>6, <2>1 DEF RetryReset, Goto, OkWasAccepted, ChainState
  <2> QED BY <2>4, <2>5
<1>7. ASSUME NEW k \in Chain, Get(k) \/ Schedule(k) \/ Fire(k) \/ ResumeGet(k) \/ RetryGet(k)
      PROVE  SuccessMeansAccepted' /\ OkWasAccepted'
  <2>1. k \in DOMAIN chains /\ chains[k] \in ChainState
    BY <1>0, <1>7 DEF Get, Schedule, Fire, ResumeGet, RetryGet, At, MapInto
  <2>2. CASE End(k)
    BY <1>1, <1>7, <2>2 DEF Get, Schedule, Fire, ResumeGet, RetryGet, End, Without
  <2>3. CASE Get(k) /\ ~End(k)
    <3>1. \E n : chains' = [chains EXCEPT ![k].pc = "post", ![k].n = n]
      BY <2>3 DEF Get
    <3> QED BY <1>1, <2>1, <2>3, <3>1 DEF Get, ChainState
  <2>4. CASE Schedule(k)
    BY <1>1, <2>1, <2>4 DEF Schedule, ChainState
  <2>5. CASE (Fire(k) \/ ResumeGet(k) \/ RetryGet(k)) /\ ~End(k)
    BY <1>1, <2>1, <2>5 DEF Fire, ResumeGet, RetryGet, Goto, ChainState
  <2> QED BY <1>7, <2>2, <2>3, <2>4, <2>5
<1>8. ASSUME Die PROVE SuccessMeansAccepted' /\ OkWasAccepted'
  BY <1>8 DEF Die, NoKeys, SuccessMeansAccepted, OkWasAccepted
<1>9. ASSUME NEW k \in Chain, Reject(k) PROVE SuccessMeansAccepted' /\ OkWasAccepted'
  BY <1>1, <1>8, <1>9 DEF Reject, End, Without
<1>10. CASE RecoverList \/ RecoverFails \/ UNCHANGED vars
  BY <1>1, <1>10 DEF RecoverList, RecoverFails, vars
<1>11. CASE Crash
  BY <1>8, <1>11 DEF Crash
<1> QED BY <1>2, <1>3, <1>4, <1>5, <1>6, <1>7, <1>9, <1>10, <1>11 DEF Next, Advance

\* However chains, crashes, recoveries and operator retries overtake one
\* another, a row says success only if the receiver accepted a POST of it.
THEOREM SuccessIsHonest == Spec => []SuccessMeansAccepted
<1>1. Init => SuccessMeansAccepted /\ OkWasAccepted
  BY DEF Init, SuccessMeansAccepted, OkWasAccepted, NoKeys
<1>2. TypeOK /\ SuccessMeansAccepted /\ OkWasAccepted /\ [Next]_vars
        => SuccessMeansAccepted' /\ OkWasAccepted'
  BY StepSuccess
<1> QED BY <1>1, <1>2, TypeCorrect, PTL DEF Spec

-----------------------------------------------------------------------------
(* A delivery is given up only after its budget *)

\* No counter is ahead of the POSTs that were made: not the row's, and not the one
\* a chain read before its POST and writes after it.
AttemptsWereMade ==
    /\ \A e \in DOMAIN rows :
         /\ rows[e].attempts <= posts[e]
         /\ rows[e].status = "dead_letter" => rows[e].attempts >= MaxRetries + 1
    /\ \A k \in DOMAIN chains :
         /\ chains[k].pc = "post" => chains[k].n <= posts[k[1]] + 1
         /\ chains[k].pc = "record" => chains[k].n <= posts[k[1]]

LEMMA StepAttempts ==
    ASSUME TypeOK, AttemptsWereMade, [Next]_vars
    PROVE  AttemptsWereMade'
<1>0. /\ MapInto(rows, Event, Row) /\ MapInto(chains, Chain, ChainState)
      /\ posts \in [Event -> Nat] /\ MaxRetries \in Nat
      /\ \A k \in Chain : k[1] \in Event
  BY DEF TypeOK, Row, ChainState, Pcs, Chain
<1> USE DEF receiver, process
<1>1. ASSUME UNCHANGED <<rows, posts>>,
             \A k \in DOMAIN chains' : \/ k \in DOMAIN chains /\ chains'[k] = chains[k]
                                      \/ chains'[k].pc \notin {"post", "record"}
      PROVE  AttemptsWereMade'
  BY <1>1 DEF AttemptsWereMade
<1>2. ASSUME NEW e \in Event, Notify(e) \/ NotifyLost(e) PROVE AttemptsWereMade'
  <2>1. /\ rows' = Put(rows, e, Fresh) /\ posts' = posts
        /\ \A k \in DOMAIN chains' : \/ k \in DOMAIN chains /\ chains'[k] = chains[k]
                                     \/ chains'[k].pc = "get"
    BY <1>2 DEF Notify, NotifyLost, Start, Put
  <2>2. \A f \in DOMAIN rows' :
          \/ f \in DOMAIN rows /\ rows'[f] = rows[f]
          \/ f = e /\ rows'[f] = Fresh
    BY <2>1 DEF Put
  <2>3. Fresh.attempts = 0 /\ Fresh.status # "dead_letter" /\ 0 <= posts[e]
    BY <1>0 DEF Fresh
  <2> QED BY <2>1, <2>2, <2>3 DEF AttemptsWereMade
<1>3. ASSUME NEW e \in Event, Resume(e) \/ Retry(e) \/ Elapse(e) PROVE AttemptsWereMade'
  BY <1>1, <1>3 DEF Resume, Retry, Elapse, Start, Put
<1>4. ASSUME NEW k \in Chain, Get(k) PROVE AttemptsWereMade'
  <2>1. k \in DOMAIN chains /\ chains[k] \in ChainState
    BY <1>0, <1>4 DEF Get, At, MapInto
  <2>2. CASE k[1] \in DOMAIN rows /\ rows[k[1]].status \notin Settled
    <3> DEFINE n == rows[k[1]].attempts + 1
    <3>1. /\ chains' = [chains EXCEPT ![k].pc = "post", ![k].n = n]
          /\ rows' = rows /\ posts' = posts
      BY <1>4, <2>2 DEF Get
    <3>2. n <= posts[k[1]] + 1
      BY <1>0, <2>2 DEF AttemptsWereMade, MapInto, Row
    <3> HIDE DEF n
    <3>3. chains'[k].pc = "post" /\ chains'[k].n = n /\ DOMAIN chains' = DOMAIN chains
      BY <2>1, <3>1 DEF ChainState
    <3>4. \A j \in DOMAIN chains : j # k => chains'[j] = chains[j]
      BY <3>1
    <3> QED BY <3>1, <3>2, <3>3, <3>4 DEF AttemptsWereMade
  <2>3. CASE ~(k[1] \in DOMAIN rows /\ rows[k[1]].status \notin Settled)
    BY <1>1, <1>4, <2>3 DEF Get, End, Without
  <2> QED BY <2>2, <2>3
<1>5. ASSUME NEW k \in Chain, Post(k) PROVE AttemptsWereMade'
  <2>1. PICK ok \in BOOLEAN : chains' = [chains EXCEPT ![k].pc = "record", ![k].ok = ok]
    BY <1>5 DEF Post
  <2>2. /\ k \in DOMAIN chains /\ chains[k].pc = "post" /\ rows' = rows
        /\ posts' = [posts EXCEPT ![k[1]] = @ + 1]
    BY <1>5 DEF Post, At
  <2>3. chains[k] \in ChainState
    BY <1>0, <2>2 DEF MapInto
  <2>4. /\ chains'[k].pc = "record" /\ chains'[k].n = chains[k].n
        /\ DOMAIN chains' = DOMAIN chains
        /\ \A j \in DOMAIN chains : j # k => chains'[j] = chains[j]
    BY <2>1, <2>2, <2>3 DEF ChainState
  <2>5. /\ \A e \in Event : posts'[e] \in Nat /\ posts[e] \in Nat /\ posts[e] <= posts'[e]
        /\ posts'[k[1]] = posts[k[1]] + 1
    BY <1>0, <2>2
  <2>6. \A e \in DOMAIN rows : e \in Event /\ rows[e].attempts \in Nat
    BY <1>0 DEF MapInto, Row
  <2>7. \A j \in DOMAIN chains : j[1] \in Event /\ chains[j].n \in Nat
    BY <1>0 DEF MapInto, ChainState
  <2>8. \A e \in DOMAIN rows' :
          /\ rows'[e].attempts <= posts'[e]
          /\ rows'[e].status = "dead_letter" => rows'[e].attempts >= MaxRetries + 1
    BY <2>2, <2>5, <2>6 DEF AttemptsWereMade
  <2>9. \A j \in DOMAIN chains' :
          /\ chains'[j].pc = "post" => chains'[j].n <= posts'[j[1]] + 1
          /\ chains'[j].pc = "record" => chains'[j].n <= posts'[j[1]]
    BY <2>2, <2>4, <2>5, <2>7 DEF AttemptsWereMade
  <2> QED BY <2>8, <2>9 DEF AttemptsWereMade
<1>6. ASSUME NEW k \in Chain, Record(k) PROVE AttemptsWereMade'
  <2>1. k \in DOMAIN chains /\ chains[k] \in ChainState /\ chains[k].pc = "record"
    BY <1>0, <1>6 DEF Record, At, MapInto
  <2>2. /\ rows' = [rows EXCEPT ![k[1]] = [status |-> Outcome(k), attempts |-> chains[k].n]]
        /\ posts' = posts
    BY <1>6 DEF Record
  <2>3. chains[k].n <= posts[k[1]] /\ chains[k].n \in Nat
    BY <2>1 DEF AttemptsWereMade, ChainState
  <2>4. Outcome(k) = "dead_letter" => chains[k].n >= MaxRetries + 1
    BY DEF Outcome, Exhausted
  <2>5. \A e \in DOMAIN rows' :
          /\ rows'[e].attempts <= posts'[e]
          /\ rows'[e].status = "dead_letter" => rows'[e].attempts >= MaxRetries + 1
    <3> DEFINE o == Outcome(k)
    <3> HIDE DEF o
    <3>1. rows' = [rows EXCEPT ![k[1]] = [status |-> o, attempts |-> chains[k].n]]
      BY <2>2 DEF o
    <3>2. o = "dead_letter" => chains[k].n >= MaxRetries + 1
      BY <2>4 DEF o
    <3> QED BY <2>2, <2>3, <3>1, <3>2 DEF AttemptsWereMade
  <2>6. \A j \in DOMAIN chains' : \/ j \in DOMAIN chains /\ chains'[j] = chains[j]
                                  \/ chains'[j].pc \notin {"post", "record"}
    BY <1>6, <2>1 DEF Record, Goto, End, Without, ChainState
  <2> QED BY <2>2, <2>5, <2>6 DEF AttemptsWereMade
<1>7. ASSUME NEW k \in Chain, RetryReset(k) PROVE AttemptsWereMade'
  <2>1. k \in DOMAIN chains /\ chains[k] \in ChainState
    BY <1>0, <1>7 DEF RetryReset, At, MapInto
  <2>2. rows' = [rows EXCEPT ![k[1]].status = "pending"] /\ posts' = posts
    BY <1>7 DEF RetryReset
  <2>3. \A e \in DOMAIN rows : rows[e] \in Row
    BY <1>0 DEF MapInto
  <2>4. \A e \in DOMAIN rows' :
          /\ rows'[e].attempts <= posts'[e]
          /\ rows'[e].status = "dead_letter" => rows'[e].attempts >= MaxRetries + 1
    BY <2>2, <2>3 DEF AttemptsWereMade, Row
  <2>5. \A j \in DOMAIN chains' : \/ j \in DOMAIN chains /\ chains'[j] = chains[j]
                                  \/ chains'[j].pc \notin {"post", "record"}
    BY <1>7, <2>1 DEF RetryReset, Goto, ChainState
  <2> QED BY <2>2, <2>4, <2>5 DEF AttemptsWereMade
<1>8. ASSUME NEW k \in Chain, Schedule(k) \/ Fire(k) \/ ResumeGet(k) \/ RetryGet(k)
      PROVE  AttemptsWereMade'
  <2>1. k \in DOMAIN chains /\ chains[k] \in ChainState
    BY <1>0, <1>8 DEF Schedule, Fire, ResumeGet, RetryGet, At, MapInto
  <2>2. CASE Schedule(k)
    BY <1>1, <2>1, <2>2 DEF Schedule, ChainState
  <2>3. CASE Fire(k) \/ ResumeGet(k) \/ RetryGet(k)
    BY <1>1, <2>1, <2>3 DEF Fire, ResumeGet, RetryGet, Goto, End, Without, ChainState
  <2> QED BY <1>8, <2>2, <2>3
<1>9. ASSUME Die PROVE AttemptsWereMade'
  BY <1>9 DEF Die, NoKeys, AttemptsWereMade
<1>10. ASSUME NEW k \in Chain, Reject(k) PROVE AttemptsWereMade'
  BY <1>1, <1>9, <1>10 DEF Reject, End, Without
<1>11. CASE RecoverList \/ RecoverFails \/ UNCHANGED vars
  BY <1>1, <1>11 DEF RecoverList, RecoverFails, vars
<1>12. CASE Crash
  BY <1>9, <1>12 DEF Crash
<1> QED BY <1>2, <1>3, <1>4, <1>5, <1>6, <1>7, <1>8, <1>10, <1>11, <1>12 DEF Next, Advance

\* A row says success only of an accepted POST, and dead_letter only after
\* 1 + WEBHOOK_MAX_RETRIES POSTs, with several chains of one delivery, crashes,
\* recoveries, operator retries and rejected store calls.
THEOREM SettledWasEarned == Spec => []SettledIsEarned
<1>1. Init => AttemptsWereMade
  BY DEF Init, AttemptsWereMade, NoKeys
<1>2. TypeOK /\ AttemptsWereMade /\ [Next]_vars => AttemptsWereMade'
  BY StepAttempts
<1>3. TypeOK /\ AttemptsWereMade => GivenUpAfterBudget
  <2> SUFFICES ASSUME TypeOK, AttemptsWereMade, NEW e \in DOMAIN rows,
                      rows[e].status = "dead_letter"
               PROVE  posts[e] >= MaxRetries + 1
    BY DEF GivenUpAfterBudget
  <2>1. rows[e].attempts \in Nat /\ posts[e] \in Nat /\ MaxRetries \in Nat
    BY DEF TypeOK, MapInto
  <2> QED BY <2>1 DEF AttemptsWereMade
<1>4. SuccessMeansAccepted /\ GivenUpAfterBudget => SettledIsEarned
  BY DEF SettledIsEarned
<1> QED BY <1>1, <1>2, <1>3, <1>4, TypeCorrect, SuccessIsHonest, PTL DEF Spec

-----------------------------------------------------------------------------
(* No delivery is forgotten *)

\* The store lists every row exactly once.
OrderListsRows ==
    /\ \A i \in 1..Len(order) : order[i] \in DOMAIN rows
    /\ \A i, j \in 1..Len(order) : order[i] = order[j] => i = j
    /\ \A e \in DOMAIN rows : \E i \in 1..Len(order) : order[i] = e

LEMMA StepOrder ==
    ASSUME TypeOK, OrderListsRows, [Next]_vars
    PROVE  OrderListsRows'
<1> USE DEF receiver, process
<1>1. ASSUME order' = order, DOMAIN rows' = DOMAIN rows PROVE OrderListsRows'
  BY <1>1 DEF OrderListsRows
<1>2. ASSUME NEW e \in Event, Notify(e) \/ NotifyLost(e) PROVE OrderListsRows'
  <2>1. /\ e \notin DOMAIN rows /\ DOMAIN rows' = DOMAIN rows \cup {e}
        /\ order' = Append(order, e) /\ order \in Seq(Event)
    BY <1>2 DEF Notify, NotifyLost, Put, TypeOK
  <2>2. /\ Len(order') = Len(order) + 1 /\ Len(order) \in Nat
        /\ \A i \in 1..Len(order) : order'[i] = order[i]
        /\ order'[Len(order) + 1] = e
    BY <2>1, AppendProperties, LenProperties
  <2>3. \A i \in 1..Len(order') : order'[i] \in DOMAIN rows'
    BY <2>1, <2>2 DEF OrderListsRows
  <2>4. \A i, j \in 1..Len(order') : order'[i] = order'[j] => i = j
    BY <2>1, <2>2 DEF OrderListsRows
  <2>5. \A x \in DOMAIN rows' : \E i \in 1..Len(order') : order'[i] = x
    BY <2>1, <2>2 DEF OrderListsRows
  <2> QED BY <2>3, <2>4, <2>5 DEF OrderListsRows
<1>3. ASSUME Die PROVE OrderListsRows'
  <2>1. CASE Durable
    BY <1>1, <1>3, <2>1 DEF Die
  <2>2. CASE ~Durable
    BY <1>3, <2>2 DEF Die, NoKeys, OrderListsRows
  <2> QED BY <2>1, <2>2
<1>4. ASSUME NEW k \in Chain, Advance(k) PROVE OrderListsRows'
  BY <1>1, <1>4 DEF Advance, Get, Post, Record, Schedule, Fire, ResumeGet, RetryGet, RetryReset
<1>5. ASSUME NEW k \in Chain, Reject(k) PROVE OrderListsRows'
  BY <1>1, <1>3, <1>5 DEF Reject
<1>6. ASSUME NEW e \in Event, Resume(e) \/ Retry(e) \/ Elapse(e) PROVE OrderListsRows'
  BY <1>1, <1>6 DEF Resume, Retry, Elapse
<1>7. CASE RecoverList \/ RecoverFails \/ UNCHANGED vars
  BY <1>1, <1>7 DEF RecoverList, RecoverFails, vars
<1>8. CASE Crash
  BY <1>3, <1>8 DEF Crash
<1> QED BY <1>2, <1>4, <1>5, <1>6, <1>7, <1>8 DEF Next

\* A limit that no backlog exceeds leaves no unfinished row out.
LEMMA ListIsComplete ==
    ASSUME TypeOK, OrderListsRows, Cardinality(Event) <= RecoverLimit,
           NEW e \in Unfinished
    PROVE  e \in {order[i] : i \in {j \in 1..Len(order) : Listed(j)}}
<1>1. PICK i \in 1..Len(order) : order[i] = e
  BY DEF OrderListsRows, Unfinished
<1> DEFINE H == {h \in 1..(i - 1) : order[h] \in Unfinished}
           E == Event \ {e}
           f == [h \in H |-> order[h]]
<1>2. Len(order) \in Nat /\ \A h \in 1..Len(order) : order[h] \in Event
  BY LenProperties DEF TypeOK
<1>3. \A h \in H : h \in 1..Len(order) /\ h # i
  BY <1>1, <1>2
<1>4. f \in [H -> E] /\ \A x, y \in H : f[x] = f[y] => x = y
  BY <1>1, <1>2, <1>3 DEF OrderListsRows
<1>5. f \in Injection(H, E)
  BY <1>4 DEF Injection, IsInjective
<1>6. IsFiniteSet(E) /\ Cardinality(E) < Cardinality(Event) /\ Cardinality(Event) \in Nat
      /\ Cardinality(E) \in Nat
  <2>1. e \in Event
    BY <1>1, <1>2
  <2>2. IsFiniteSet(Event) /\ Cardinality(Event) \in Nat
    BY FS_CardinalityType
  <2>3. IsFiniteSet(E) /\ Cardinality(E) = Cardinality(Event) - 1
    BY <2>1, <2>2, FS_RemoveElement
  <2>4. Cardinality(E) \in Nat
    BY <2>3, FS_CardinalityType
  <2> HIDE DEF E
  <2> QED BY <2>2, <2>3, <2>4
<1>7. Cardinality(H) <= Cardinality(E) /\ Cardinality(H) \in Nat
  <2> HIDE DEF H, E, f
  <2> QED BY <1>5, <1>6, FS_Injection, FS_CardinalityType
<1>8. Cardinality(H) < RecoverLimit
  <2> HIDE DEF H, E
  <2> QED BY <1>6, <1>7
<1>9. Listed(i)
  BY <1>1, <1>8 DEF Listed
<1> QED BY <1>1, <1>9

Driven(e) ==
    \/ \E o \in Origin : <<e, o>> \in DOMAIN chains
    \/ recovery.pc = "list"
    \/ e \in recovery.todo
    \/ e \in orphaned

\* A step of chain k lets go of k's event only when its row is settled.
LEMMA AdvanceKeepsDriven ==
    ASSUME TypeOK, UnfinishedIsDriven, NEW k \in Chain, Advance(k), NEW e \in Unfinished'
    PROVE  Driven(e)'
<1> USE DEF receiver, process
<1>1. k \in DOMAIN chains /\ recovery' = recovery /\ orphaned' = orphaned /\ DOMAIN rows' = DOMAIN rows
  BY DEF Advance, At, Get, Post, Record, Schedule, Fire, ResumeGet, RetryGet, RetryReset
<1>2. \E o \in Origin : k = <<k[1], o>>
  BY DEF Chain
<1>3. CASE DOMAIN chains' = DOMAIN chains
  <2>1. CASE e = k[1]
    BY <1>1, <1>2, <1>3, <2>1 DEF Driven
  <2>2. CASE e # k[1]
    <3>1. e \in Unfinished
      BY <2>2 DEF Unfinished, Advance, Get, Post, Record, Schedule, Fire, ResumeGet, RetryGet, RetryReset
    <3> QED BY <1>1, <1>3, <3>1 DEF UnfinishedIsDriven, Driven
  <2> QED BY <2>1, <2>2
<1>4. CASE End(k)
  <2>1. e # k[1]
    <3>1. CASE Get(k)
      <4>1. rows' = rows /\ ~(k[1] \in DOMAIN rows /\ rows[k[1]].status \notin Settled)
        <5>1. ASSUME k[1] \in DOMAIN rows, rows[k[1]].status \notin Settled PROVE FALSE
          BY <1>1, <1>4, <3>1, <5>1 DEF Get, End, Without
        <5> QED BY <3>1, <5>1 DEF Get
      <4> QED BY <4>1 DEF Unfinished, Unsettled, Settled
    <3>2. CASE Record(k)
      <4>1. Outcome(k) # "failed"
        BY <1>1, <1>4, <3>2 DEF Record, Goto, End, Without
      <4>2. Outcome(k) \in Settled
        BY <4>1 DEF Outcome, Settled
      <4> QED BY <3>2, <4>2 DEF Record, Unfinished, Unsettled, Settled
    <3>3. CASE ResumeGet(k)
      <4>1. rows' = rows /\ rows[k[1]].status \in Settled
        BY <1>1, <1>4, <3>3 DEF ResumeGet, Goto, End, Without
      <4> QED BY <4>1 DEF Unfinished, Unsettled, Settled
    <3>4. CASE RetryGet(k)
      <4>1. rows' = rows /\ rows[k[1]].status = "success"
        BY <1>1, <1>4, <3>4 DEF RetryGet, Goto, End, Without
      <4> QED BY <4>1 DEF Unfinished, Unsettled
    <3>5. CASE Post(k) \/ Schedule(k) \/ Fire(k) \/ RetryReset(k)
      BY <1>1, <1>4, <3>5 DEF Post, Schedule, Fire, RetryReset, Goto, End, Without
    <3> QED BY <3>1, <3>2, <3>3, <3>4, <3>5 DEF Advance
  <2>2. e \in Unfinished
    BY <2>1 DEF Unfinished, Advance, Get, Post, Record, Schedule, Fire, ResumeGet, RetryGet, RetryReset
  <2>3. \A o : <<e, o>> # k
    BY <2>1
  <2> QED BY <1>1, <1>4, <2>2, <2>3 DEF UnfinishedIsDriven, Driven, End, Without
<1>5. DOMAIN chains' = DOMAIN chains \/ End(k)
  BY DEF Advance, Get, Post, Record, Schedule, Fire, ResumeGet, RetryGet, RetryReset, Goto
<1> QED BY <1>3, <1>4, <1>5

LEMMA StepDriven ==
    ASSUME TypeOK, OrderListsRows, Cardinality(Event) <= RecoverLimit, UnfinishedIsDriven,
           [Next]_vars
    PROVE  UnfinishedIsDriven'
<1> SUFFICES ASSUME NEW e \in Unfinished' PROVE Driven(e)'
  BY DEF UnfinishedIsDriven, Driven
<1> USE DEF receiver, process
<1>1. ASSUME e \in Unfinished, UNCHANGED recovery, DOMAIN chains \subseteq DOMAIN chains',
             orphaned \subseteq orphaned'
      PROVE  Driven(e)'
  BY <1>1 DEF UnfinishedIsDriven, Driven
<1>2. ASSUME NEW x \in Event, Notify(x) PROVE Driven(e)'
  <2>1. CASE e = x
    BY <1>2, <2>1 DEF Notify, Start, Put, Driven, Origin
  <2>2. CASE e # x
    BY <1>1, <1>2, <2>2 DEF Notify, Start, Put, Unfinished
  <2> QED BY <2>1, <2>2
<1>3. ASSUME NEW x \in Event, NotifyLost(x) PROVE Driven(e)'
  <2>1. CASE e = x
    BY <1>3, <2>1 DEF NotifyLost, Driven
  <2>2. CASE e # x
    BY <1>1, <1>3, <2>2 DEF NotifyLost, Put, Unfinished
  <2> QED BY <2>1, <2>2
<1>4. ASSUME NEW x \in Event, Resume(x) PROVE Driven(e)'
  <2>1. CASE e = x
    BY <1>4, <2>1 DEF Resume, Start, Put, Driven, Origin
  <2>2. CASE e # x
    <3>1. recovery'.pc = recovery.pc /\ recovery'.todo = recovery.todo \ {x}
      BY <1>4 DEF Resume, TypeOK
    <3>2. e \in Unfinished
      BY <1>4 DEF Resume, Unfinished
    <3> QED BY <1>4, <2>2, <3>1, <3>2 DEF Resume, Start, Put, UnfinishedIsDriven, Driven
  <2> QED BY <2>1, <2>2
<1>5. ASSUME NEW x \in Event, Retry(x) \/ Elapse(x) PROVE Driven(e)'
  BY <1>1, <1>5 DEF Retry, Elapse, Start, Put, Unfinished
<1>6. CASE RecoverList
  <2>1. e \in Unfinished
    BY <1>6 DEF RecoverList, Unfinished
  <2>2. e \in {order[i] : i \in {j \in 1..Len(order) : Listed(j)}}
    BY <2>1, ListIsComplete
  <2> QED BY <1>6, <2>2 DEF RecoverList, Driven
<1>7. CASE RecoverFails
  BY <1>7 DEF RecoverFails, Unfinished, Driven
<1>8. ASSUME Die PROVE Driven(e)'
  <2>1. CASE Durable
    BY <1>8, <2>1 DEF Die, Boot, Driven
  <2>2. CASE ~Durable
    BY <1>8, <2>2 DEF Die, NoKeys, Unfinished
  <2> QED BY <2>1, <2>2
<1>9. ASSUME NEW k \in Chain, Reject(k) PROVE Driven(e)'
  <2>1. CASE chains[k].guarded
    <3>1. /\ DOMAIN chains' = DOMAIN chains \ {k} /\ orphaned' = orphaned \cup {k[1]}
          /\ recovery' = recovery /\ e \in Unfinished
      BY <1>9, <2>1 DEF Reject, End, Without, Unfinished
    <3>2. \A o : <<e, o>> = k => e = k[1]
      OBVIOUS
    <3> QED BY <3>1, <3>2 DEF UnfinishedIsDriven, Driven
  <2>2. CASE ~chains[k].guarded
    BY <1>8, <1>9, <2>2 DEF Reject
  <2> QED BY <2>1, <2>2
<1>10. CASE Crash
  BY <1>8, <1>10 DEF Crash
<1>11. CASE UNCHANGED vars
  BY <1>1, <1>11 DEF vars, Unfinished
<1>12. ASSUME NEW k \in Chain, Advance(k) PROVE Driven(e)'
  BY <1>12, AdvanceKeepsDriven
<1> QED BY <1>2, <1>3, <1>4, <1>5, <1>6, <1>7, <1>9, <1>10, <1>11, <1>12 DEF Next

\* As long as a boot can list the whole backlog, no delivery is forgotten:
\* every unfinished row is being attempted, waits for a timer or will be resumed,
\* unless one of its own store calls rejected.
THEOREM NothingIsForgotten ==
    Cardinality(Event) <= RecoverLimit => (Spec => []UnfinishedIsDriven)
<1> SUFFICES ASSUME Cardinality(Event) <= RecoverLimit PROVE Spec => []UnfinishedIsDriven
  OBVIOUS
<1>1. Init => OrderListsRows /\ UnfinishedIsDriven
  BY DEF Init, OrderListsRows, UnfinishedIsDriven, Unfinished, NoKeys
<1>2. TypeOK /\ OrderListsRows /\ UnfinishedIsDriven /\ [Next]_vars
        => OrderListsRows' /\ UnfinishedIsDriven'
  BY StepOrder, StepDriven
<1> QED BY <1>1, <1>2, TypeCorrect, PTL DEF Spec

-----------------------------------------------------------------------------
(* The retry budget, while one chain drives each event *)

\* The process keeps its deliveries in memory and its storage calls succeed;
\* nobody retries by hand, so that nothing but notify starts a chain.
Undisturbed == ~Durable /\ ~Faults /\ MaxCrashes = 0 /\ MaxManual = 0

Driver(e) == <<e, "notify">>

\* What is known of one event: before its row exists nothing was posted; while
\* its chain runs the row is one POST behind at most; once it has ended the row
\* has counted all of them.
Budgeted(e) ==
    /\ \A o \in Origin : <<e, o>> \in DOMAIN chains => o = "notify"
    /\ Driver(e) \in DOMAIN chains => e \in DOMAIN rows
    /\ e \notin DOMAIN rows => posts[e] = 0
    /\ e \in DOMAIN rows /\ Driver(e) \notin DOMAIN chains =>
         /\ posts[e] = rows[e].attempts /\ posts[e] <= MaxRetries + 1
         /\ rows[e].status = "dead_letter" => posts[e] = MaxRetries + 1
    /\ e \in DOMAIN rows /\ Driver(e) \in DOMAIN chains =>
         LET c == chains[Driver(e)]
         IN  /\ rows[e].status \in Unsettled /\ rows[e].attempts <= MaxRetries
             /\ c.pc \in {"get", "post", "record", "schedule", "timer"}
             /\ c.pc \in {"post", "record"} => c.n = rows[e].attempts + 1
             /\ posts[e] = IF c.pc = "record" THEN rows[e].attempts + 1 ELSE rows[e].attempts

BudgetInv ==
    /\ recovery = [pc |-> "resume", todo |-> {}]
    /\ \A e \in Event : Budgeted(e)

\* A step that leaves an event's row, chains and POSTs alone leaves it in budget.
LEMMA StillBudgeted ==
    ASSUME NEW e \in Event, Budgeted(e),
           e \in DOMAIN rows' <=> e \in DOMAIN rows,
           e \in DOMAIN rows => rows'[e] = rows[e],
           posts'[e] = posts[e],
           \A o \in Origin : <<e, o>> \in DOMAIN chains' <=> <<e, o>> \in DOMAIN chains,
           \A o \in Origin : <<e, o>> \in DOMAIN chains => chains'[<<e, o>>] = chains[<<e, o>>]
    PROVE  Budgeted(e)'
<1>1. "notify" \in Origin
  BY DEF Origin
<1>2. /\ Driver(e) \in DOMAIN chains' <=> Driver(e) \in DOMAIN chains
      /\ Driver(e) \in DOMAIN chains => chains'[Driver(e)] = chains[Driver(e)]
  BY <1>1 DEF Driver
<1>3. \A o \in Origin : <<e, o>> \in DOMAIN chains' => o = "notify"
  BY DEF Budgeted
<1> HIDE DEF Driver
<1> QED BY <1>2, <1>3 DEF Budgeted

\* The chain that a step advances is the one notify has started.
LEMMA TheDriver ==
    ASSUME TypeOK, BudgetInv, NEW k \in Chain, k \in DOMAIN chains
    PROVE  \E d \in Event : k = Driver(d) /\ d = k[1] /\ d \in DOMAIN rows
<1>1. PICK d \in Event, o \in Origin : k = <<d, o>>
  BY DEF Chain
<1>2. o = "notify" /\ d = k[1]
  BY <1>1 DEF BudgetInv, Budgeted
<1>3. k = Driver(d)
  BY <1>1, <1>2 DEF Driver
<1>4. d \in DOMAIN rows
  BY <1>3 DEF BudgetInv, Budgeted
<1> QED BY <1>2, <1>3, <1>4

LEMMA AdvanceBudget ==
    ASSUME TypeOK, BudgetInv, NEW k \in Chain, Advance(k), NEW e \in Event
    PROVE  Budgeted(e)'
<1>0. /\ MapInto(rows, Event, Row) /\ MapInto(chains, Chain, ChainState)
      /\ posts \in [Event -> Nat]
  BY DEF TypeOK, Row, ChainState, Pcs
<1>1. k \in DOMAIN chains
  BY DEF Advance, At, Get, Post, Record, Schedule, Fire, ResumeGet, RetryGet, RetryReset
<1>2. PICK d \in Event : k = Driver(d) /\ d = k[1] /\ d \in DOMAIN rows
  BY <1>1, TheDriver
<1>3. /\ chains[k] \in ChainState /\ rows[d] \in Row /\ posts[d] \in Nat /\ MaxRetries \in Nat
  BY <1>0, <1>1, <1>2 DEF MapInto
<1>4. /\ rows[d].status \in Unsettled /\ rows[d].attempts <= MaxRetries
      /\ chains[k].pc \in {"get", "post", "record", "schedule", "timer"}
      /\ chains[k].pc \in {"post", "record"} => chains[k].n = rows[d].attempts + 1
      /\ posts[d] = IF chains[k].pc = "record" THEN rows[d].attempts + 1 ELSE rows[d].attempts
      /\ \A o \in Origin : <<d, o>> \in DOMAIN chains => o = "notify"
  BY <1>1, <1>2, Zenon DEF BudgetInv, Budgeted
<1> USE DEF receiver, process
<1>5. CASE e # d
  <2>1. /\ DOMAIN rows' = DOMAIN rows /\ \A x \in DOMAIN rows : x # d => rows'[x] = rows[x]
        /\ \A x \in Event : x # d => posts'[x] = posts[x]
        /\ \A x : x # k => (x \in DOMAIN chains' <=> x \in DOMAIN chains)
        /\ \A x \in DOMAIN chains : x # k => chains'[x] = chains[x]
    <3>1. CASE Get(k)
      BY <1>0, <1>2, <3>1 DEF Get, End, Without
    <3>2. CASE Post(k)
      BY <1>0, <1>2, <3>2 DEF Post
    <3>3. CASE Record(k)
      BY <1>0, <1>2, <3>3 DEF Record, End, Without, Goto
    <3>4. CASE Schedule(k) \/ Fire(k)
      BY <1>0, <1>2, <3>4 DEF Schedule, Fire, Goto
    <3>5. CASE ResumeGet(k) \/ RetryGet(k) \/ RetryReset(k)
      BY <1>4, <3>5 DEF ResumeGet, RetryGet, RetryReset, At
    <3> QED BY <3>1, <3>2, <3>3, <3>4, <3>5 DEF Advance
  <2>2. \A o \in Origin : <<e, o>> # k
    BY <1>2, <1>5 DEF Driver
  <2>3. Budgeted(e)
    BY DEF BudgetInv
  <2> QED BY <1>5, <2>1, <2>2, <2>3, StillBudgeted
<1>6. CASE e = d
  <2>1. \A o \in Origin : <<d, o>> \in DOMAIN chains' => o = "notify"
    <3>1. DOMAIN chains' \subseteq DOMAIN chains
      BY <1>4 DEF Advance, Get, Post, Record, Schedule, Fire, ResumeGet, RetryGet, RetryReset,
         End, Without, Goto, At
    <3> QED BY <1>4, <3>1
  <2>2. CASE Get(k)
    <3>1. rows[d].status \notin Settled
      BY <1>4 DEF Settled, Unsettled
    <3>2. /\ chains' = [chains EXCEPT ![k].pc = "post", ![k].n = rows[d].attempts + 1]
          /\ UNCHANGED <<rows, posts>> /\ chains[k].pc = "get"
      BY <1>2, <2>2, <3>1 DEF Get, At
    <3>3. DOMAIN chains' = DOMAIN chains /\ chains'[k].pc = "post" /\ chains'[k].n = rows[d].attempts + 1
      BY <1>1, <1>3, <3>2 DEF ChainState
    <3> HIDE DEF Driver
    <3> QED BY <1>1, <1>2, <1>3, <1>4, <1>6, <2>1, <3>2, <3>3 DEF Budgeted
  <2>3. CASE Post(k)
    <3>1. PICK ok \in BOOLEAN : chains' = [chains EXCEPT ![k].pc = "record", ![k].ok = ok]
      BY <2>3 DEF Post
    <3>2. /\ posts' = [posts EXCEPT ![d] = @ + 1] /\ rows' = rows /\ chains[k].pc = "post"
      BY <1>2, <2>3 DEF Post, At
    <3>3. /\ DOMAIN chains' = DOMAIN chains /\ chains'[k].pc = "record"
          /\ chains'[k].n = rows[d].attempts + 1
          /\ posts'[d] = rows[d].attempts + 1
      BY <1>0, <1>1, <1>3, <1>4, <3>1, <3>2 DEF ChainState
    <3> HIDE DEF Driver
    <3> QED BY <1>1, <1>2, <1>3, <1>4, <1>6, <2>1, <3>2, <3>3 DEF Budgeted
  <2>4. CASE Record(k)
    <3> DEFINE n == chains[k].n
    <3>1. /\ chains[k].pc = "record" /\ n = rows[d].attempts + 1 /\ posts[d] = n
          /\ n \in Nat /\ n <= MaxRetries + 1
      <4>1. chains[k].pc = "record"
        BY <2>4 DEF Record, At
      <4> QED BY <1>3, <1>4, <4>1 DEF Row
    <3>2. /\ rows' = [rows EXCEPT ![d] = [status |-> Outcome(k), attempts |-> n]]
          /\ posts' = posts
      BY <1>2, <2>4 DEF Record
    <3>3. DOMAIN rows' = DOMAIN rows /\ rows'[d].status = Outcome(k) /\ rows'[d].attempts = n
      BY <1>2, <3>2
    <3>4. CASE Outcome(k) = "failed"
      <4>1. chains' = [chains EXCEPT ![k].pc = "schedule"]
        BY <2>4, <3>4 DEF Record, Goto
      <4>2. DOMAIN chains' = DOMAIN chains /\ chains'[k].pc = "schedule"
        BY <1>1, <1>3, <4>1 DEF ChainState
      <4>3. n <= MaxRetries
        BY <1>3, <3>1, <3>4 DEF Outcome, Exhausted
      <4> HIDE DEF Driver, n
      <4> QED BY <1>1, <1>2, <1>6, <2>1, <3>1, <3>2, <3>3, <3>4, <4>2, <4>3 DEF Budgeted, Unsettled
    <3>5. CASE Outcome(k) # "failed"
      <4>1. DOMAIN chains' = DOMAIN chains \ {k}
        BY <2>4, <3>5 DEF Record, End, Without
      <4>2. Outcome(k) = "dead_letter" => n = MaxRetries + 1
        BY <1>3, <3>1 DEF Outcome, Exhausted
      <4> HIDE DEF Driver, n
      <4> QED BY <1>1, <1>2, <1>6, <2>1, <3>1, <3>2, <3>3, <4>1, <4>2 DEF Budgeted
    <3> QED BY <3>4, <3>5
  <2>5. CASE Schedule(k) \/ Fire(k)
    <3>1. /\ UNCHANGED <<rows, posts>> /\ DOMAIN chains' = DOMAIN chains
          /\ chains[k].pc \in {"schedule", "timer"} /\ chains'[k].pc \in {"timer", "get"}
      BY <1>1, <1>3, <2>5 DEF Schedule, Fire, Goto, At, ChainState
    <3> HIDE DEF Driver
    <3> QED BY <1>1, <1>2, <1>3, <1>4, <1>6, <2>1, <3>1 DEF Budgeted
  <2>6. CASE ResumeGet(k) \/ RetryGet(k) \/ RetryReset(k)
    BY <1>4, <2>6 DEF ResumeGet, RetryGet, RetryReset, At
  <2> QED BY <2>2, <2>3, <2>4, <2>5, <2>6 DEF Advance
<1> QED BY <1>5, <1>6

LEMMA StepBudget ==
    ASSUME Undisturbed, TypeOK, BudgetInv, [Next]_vars PROVE BudgetInv'
<1> USE DEF receiver, process
<1>1. ASSUME UNCHANGED <<rows, chains, posts, recovery>> PROVE BudgetInv'
  BY <1>1 DEF BudgetInv, Budgeted, Driver
<1>2. ASSUME NEW d \in Event, Notify(d) PROVE BudgetInv'
  <2>1. /\ d \notin DOMAIN rows /\ rows' = Put(rows, d, Fresh)
        /\ chains' = Put(chains, Driver(d), [pc |-> "get", n |-> 0, ok |-> FALSE, guarded |-> TRUE])
        /\ UNCHANGED <<posts, recovery>>
    BY <1>2 DEF Notify, Start, Driver
  <2>2. ASSUME NEW e \in Event, e # d PROVE Budgeted(e)'
    <3>1. \A o \in Origin : <<e, o>> # Driver(d)
      BY <2>2 DEF Driver
    <3>2. Budgeted(e)
      BY DEF BudgetInv
    <3>3. /\ e \in DOMAIN rows' <=> e \in DOMAIN rows
          /\ e \in DOMAIN rows => rows'[e] = rows[e]
      BY <2>1, <2>2 DEF Put
    <3>4. /\ \A o \in Origin : <<e, o>> \in DOMAIN chains' <=> <<e, o>> \in DOMAIN chains
          /\ \A o \in Origin : <<e, o>> \in DOMAIN chains => chains'[<<e, o>>] = chains[<<e, o>>]
      BY <2>1, <3>1 DEF Put
    <3> QED BY <2>1, <3>2, <3>3, <3>4, StillBudgeted
  <2>3. Budgeted(d)'
    <3>1. /\ DOMAIN rows' = DOMAIN rows \cup {d} /\ rows'[d] = Fresh
          /\ DOMAIN chains' = DOMAIN chains \cup {Driver(d)}
          /\ chains'[Driver(d)].pc = "get" /\ posts'[d] = posts[d]
      BY <2>1 DEF Put
    <3>2. /\ posts[d] = 0 /\ Driver(d) \notin DOMAIN chains
          /\ \A o \in Origin : <<d, o>> \in DOMAIN chains => o = "notify"
      BY <2>1, Zenon DEF BudgetInv, Budgeted
    <3>3. \A o \in Origin : <<d, o>> \in DOMAIN chains' => o = "notify"
      BY <3>1, <3>2 DEF Driver
    <3>4. Fresh.status \in Unsettled /\ Fresh.attempts = 0 /\ MaxRetries \in Nat
      BY DEF Fresh, Unsettled
    <3> HIDE DEF Driver
    <3> QED BY <3>1, <3>2, <3>3, <3>4 DEF Budgeted
  <2> QED BY <2>1, <2>2, <2>3 DEF BudgetInv
<1>3. ASSUME NEW k \in Chain, Advance(k) PROVE BudgetInv'
  <2>1. recovery' = recovery
    BY <1>3 DEF Advance, Get, Post, Record, Schedule, Fire, ResumeGet, RetryGet, RetryReset
  <2> QED BY <1>3, <2>1, AdvanceBudget DEF BudgetInv
<1>4. ASSUME NEW e \in Event, Elapse(e) PROVE BudgetInv'
  BY <1>1, <1>4 DEF Elapse
<1>5. CASE UNCHANGED vars
  BY <1>1, <1>5 DEF vars
<1>6. \A e \in Event : ~NotifyLost(e) /\ ~Resume(e) /\ ~Retry(e)
  BY DEF NotifyLost, Resume, Retry, BudgetInv, Undisturbed, TypeOK
<1>7. /\ \A k \in Chain : ~Reject(k)
      /\ ~RecoverList /\ ~RecoverFails /\ ~Crash
  BY DEF Reject, RecoverList, RecoverFails, Crash, Die, BudgetInv, Undisturbed, TypeOK
<1> QED BY <1>2, <1>3, <1>4, <1>5, <1>6, <1>7 DEF Next

\* While neither a crash, a rejected store call nor an operator interferes, an
\* event is given up after exactly 1 + WEBHOOK_MAX_RETRIES POSTs, and its row
\* counts the POSTs that it has recorded - for every number of events in flight.
THEOREM BudgetIsKept == Undisturbed => (Spec => []BudgetIsExact)
<1> SUFFICES ASSUME Undisturbed PROVE Spec => []BudgetIsExact
  OBVIOUS
<1>1. Init => BudgetInv
  BY DEF Init, BudgetInv, Budgeted, Boot, NoKeys, Undisturbed
<1>2. TypeOK /\ BudgetInv => BudgetIsExact
  <2> SUFFICES ASSUME TypeOK, BudgetInv, NEW e \in DOMAIN rows
               PROVE  /\ posts[e] <= MaxRetries + 1
                      /\ rows[e].status = "dead_letter" => posts[e] = MaxRetries + 1
                      /\ posts[e] = rows[e].attempts +
                           (IF \E o \in Origin : At(<<e, o>>, "record") THEN 1 ELSE 0)
    BY DEF BudgetIsExact
  <2>1. e \in Event /\ rows[e].attempts \in Nat /\ MaxRetries \in Nat /\ "notify" \in Origin
    BY DEF TypeOK, MapInto, Origin
  <2>2. Budgeted(e)
    BY <2>1 DEF BudgetInv
  <2>3. (\E o \in Origin : At(<<e, o>>, "record"))
          <=> Driver(e) \in DOMAIN chains /\ chains[Driver(e)].pc = "record"
    BY <2>1, <2>2 DEF Budgeted, At, Driver
  <2>4. rows[e].status \in Unsettled => rows[e].status # "dead_letter"
    BY DEF Unsettled
  <2> HIDE DEF Driver
  <2> QED BY <2>1, <2>2, <2>3, <2>4 DEF Budgeted
<1> QED BY <1>1, <1>2, StepBudget, TypeCorrect, PTL DEF Spec

=============================================================================
