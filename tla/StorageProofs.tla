---------------------------- MODULE StorageProofs ---------------------------
(***************************************************************************)
(* Proofs about Storage, for every number of replicas and versions, every  *)
(* set of calls, sessions, patches and batches, and every bound on deaths, *)
(* faults and crashes.                                                     *)
(***************************************************************************)
EXTENDS Storage, FiniteSetTheorems, SequenceTheorems, WellFoundedInduction, TLAPS

-----------------------------------------------------------------------------
(* The migrations *)

\* The replicas that may read or write the table are those that hold the lock,
\* of which there is one at most; what it has read of the table stays true
\* until it applies a version itself.
MigInv ==
    /\ \E v \in 0..LastVersion : schema = 1..v
    /\ boot \in [Replica -> [pc : {"down", "lock", "read", "apply", "ready"}, next : Nat]]
    /\ \A r \in Replica : r \in holder <=> At(r, "read") \/ At(r, "apply")
    /\ \A r, q \in holder : r = q
    /\ \A r \in Replica :
         At(r, "apply") => boot[r].next \in 1..(LastVersion + 1) /\ schema = 1..(boot[r].next - 1)

LEMMA MaxOfInterval ==
    ASSUME NEW v \in Nat
    PROVE  Max((1..v) \cup {0}) = v
<1>1. v \in (1..v) \cup {0} /\ \A y \in (1..v) \cup {0} : v >= y
  OBVIOUS
<1>2. \A x \in (1..v) \cup {0} : (\A y \in (1..v) \cup {0} : x >= y) => x = v
  BY <1>1
<1> QED BY <1>1, <1>2 DEF Max

LEMMA IntervalsDiffer ==
    ASSUME NEW v \in Nat, NEW w \in Nat, 1..v = 1..w
    PROVE  v = w
<1>1. v \in 1..v \/ v = 0
  OBVIOUS
<1>2. w \in 1..w \/ w = 0
  OBVIOUS
<1> QED BY <1>1, <1>2

LEMMA MigInitInv == ASSUME MigInit PROVE MigInv
BY MigrationAssumption DEF MigInit, MigInv, At

LEMMA MigStepInv ==
    ASSUME MigInv, MigNext
    PROVE  MigInv'
<1> PICK r \in Replica : Initialize(r) \/ BootFails(r)
  BY DEF MigNext
<1> USE MigrationAssumption DEF MigInv, At, Goto
<1>1. CASE Connect(r)
  BY <1>1 DEF Connect
<1>2. CASE Lock(r)
  BY <1>2 DEF Lock
<1>3. CASE ReadVersion(r)
  <2> PICK v \in 0..LastVersion : schema = 1..v
    OBVIOUS
  <2>1. Max(schema \cup {0}) = v
    BY MaxOfInterval
  <2>2. boot' = [boot EXCEPT ![r] = [pc |-> "apply", next |-> 1 + v]]
    BY <1>3, <2>1 DEF ReadVersion
  <2>3. boot'[r] = [pc |-> "apply", next |-> v + 1] /\ \A q \in Replica \ {r} : boot'[q] = boot[q]
    BY <2>2
  <2>4. boot' \in [Replica -> [pc : {"down", "lock", "read", "apply", "ready"}, next : Nat]]
    BY <2>2
  <2>5. r \in holder /\ UNCHANGED <<schema, holder>> /\ schema = 1..((v + 1) - 1)
    BY <1>3 DEF ReadVersion
  <2>6. v + 1 \in 1..(LastVersion + 1)
    OBVIOUS
  <2>7. \A q \in Replica : At(q, "apply")' =>
            boot'[q].next \in 1..(LastVersion + 1) /\ schema' = 1..(boot'[q].next - 1)
    BY <2>3, <2>5, <2>6
  <2>8. \A q \in Replica : q \in holder' <=> At(q, "read")' \/ At(q, "apply")'
    BY <2>3, <2>5
  <2> QED BY <2>4, <2>5, <2>7, <2>8
<1>4. CASE Migrate(r)
  <2> DEFINE n == boot[r].next
  <2>1. n \in 1..LastVersion /\ schema = 1..(n - 1) /\ schema' = schema \cup {n}
    BY <1>4 DEF Migrate
  <2>2. schema' = 1..n
    BY <2>1
  <2>3. \A q \in Replica : q # r => ~(At(q, "apply"))'
    BY <1>4 DEF Migrate
  <2>4. boot' = [boot EXCEPT ![r] = [pc |-> "apply", next |-> n + 1]] /\ UNCHANGED holder
    BY <1>4 DEF Migrate
  <2>5. boot'[r] = [pc |-> "apply", next |-> n + 1] /\ \A q \in Replica \ {r} : boot'[q] = boot[q]
    BY <2>4
  <2>6. boot' \in [Replica -> [pc : {"down", "lock", "read", "apply", "ready"}, next : Nat]]
    BY <2>1, <2>4
  <2>7. r \in holder /\ n \in 0..LastVersion /\ schema' = 1..((n + 1) - 1) /\ n + 1 \in 1..(LastVersion + 1)
    BY <1>4, <2>1, <2>2 DEF Migrate
  <2> HIDE DEF n
  <2> QED BY <2>2, <2>3, <2>4, <2>5, <2>6, <2>7
<1>5. CASE Finish(r)
  BY <1>5 DEF Finish
<1>6. CASE BootFails(r)
  BY <1>6 DEF BootFails
<1> QED BY <1>1, <1>2, <1>3, <1>4, <1>5, <1>6 DEF Initialize

LEMMA MigInvImplies == ASSUME MigInv PROVE MigrationsRunOnce
<1>1. PICK v \in 0..LastVersion : schema = 1..v
  BY DEF MigInv
<1>2. Cardinality(schema) = v
  BY <1>1, FS_Interval, MigrationAssumption
<1>3. \A r \in Replica : ~Clashes(r)
  BY MigrationAssumption DEF MigInv, Clashes
<1> QED BY <1>1, <1>2, <1>3 DEF MigrationsRunOnce

\* Replicas that boot together on the advisory lock of initialize, with any
\* number of them dying half-way, never apply a version twice and never leave
\* a gap in probe_migrations.
THEOREM MigrationsOnce == Spec => []MigrationsRunOnce
<1>1. Init => MigInv
  BY MigInitInv DEF Init
<1>2. MigInv /\ [Next]_vars => MigInv'
  <2> SUFFICES ASSUME MigInv, [Next]_vars PROVE MigInv'
    OBVIOUS
  <2>1. CASE MigNext
    BY <2>1, MigStepInv
  <2>2. CASE UNCHANGED migVars
    BY <2>2 DEF MigInv, migVars, At
  <2> QED BY <2>1, <2>2 DEF Next, vars, Booting, Serving
<1> QED BY <1>1, <1>2, MigInvImplies, PTL DEF Spec

-----------------------------------------------------------------------------
(* The Postgres adapter *)

MapInto(f, D, R) == f = [x \in DOMAIN f |-> f[x]] /\ DOMAIN f \subseteq D /\ \A x \in DOMAIN f : f[x] \in R

CallKinds == {"save", "delete", "update", "append", "read", "page"}
CallState ==
    {call \in [kind : CallKinds, sid : Session, event : Session \cup Event,
               pc : {"query", "write", "answer", "sleep"}, statement : 1..2, attempt : Nat, valid : BOOLEAN] :
        call.kind = "append" => call.event \in Event}

PgTypeOK ==
    /\ MapInto(rows, Session, Nat)
    /\ MapInto(events, Event, Session)
    /\ breaker \in Breaker /\ cooled \in BOOLEAN
    /\ MapInto(calls, Call, CallState) /\ MapInto(recounts, Call, Nat)
    /\ faults \in Nat
    /\ given \subseteq Session \cup Event
    /\ stale \subseteq Session /\ overtaken \subseteq Session

LEMMA CallUpdate ==
    ASSUME NEW call \in CallState
    PROVE  /\ [call EXCEPT !.pc = "sleep", !.attempt = @ + 1] \in CallState
           /\ call.statement = 1 => [call EXCEPT !.statement = @ + 1, !.attempt = 1] \in CallState
           /\ [call EXCEPT !.pc = "write"] \in CallState
           /\ \A valid \in BOOLEAN : [call EXCEPT !.pc = "answer", !.valid = valid] \in CallState
<1>1. call.statement = 1 => call.statement + 1 \in 1..2
  OBVIOUS
<1>2. [call EXCEPT !.pc = "sleep", !.attempt = @ + 1] \in CallState
  <2>1. call.attempt + 1 \in Nat
    BY DEF CallState
  <2> QED BY <2>1 DEF CallState
<1>3. call.statement = 1 => [call EXCEPT !.statement = @ + 1, !.attempt = 1] \in CallState
  BY <1>1 DEF CallState
<1>4. \A valid \in BOOLEAN : [call EXCEPT !.pc = "answer", !.valid = valid] \in CallState
  <2> TAKE valid \in BOOLEAN
  <2> QED BY DEF CallState
<1>5. [call EXCEPT !.pc = "write"] \in CallState
  BY DEF CallState
<1> QED BY <1>2, <1>3, <1>4, <1>5

\* An append whose recount is still to take its snapshot, and will see the events
\* that are stored by then.
Uncounted(call) == call.kind = "append" /\ ~(call.statement = 2 /\ call.pc \in {"write", "answer"})

\* A recount has read the events of a session that is there; events have only been
\* added since.
RecountsInv ==
    \A c \in DOMAIN recounts :
        /\ c \in DOMAIN calls /\ calls[c].kind = "append" /\ calls[c].pc = "write"
        /\ calls[c].sid \in DOMAIN rows
        /\ recounts[c] <= Cardinality(EventsOf(calls[c].sid))

\* An event_count is right, or will be: by an append that has not counted yet, or
\* by a recount that has read the right number and not written it yet.
CountInv ==
    \A s \in DOMAIN rows \ (stale \cup overtaken) :
        \/ rows[s] = Cardinality(EventsOf(s))
        \/ \E c \in DOMAIN calls : Uncounted(calls[c]) /\ calls[c].sid = s
        \/ \E c \in DOMAIN recounts : calls[c].sid = s /\ recounts[c] = Cardinality(EventsOf(s))

PgInv == PgTypeOK /\ RecountsInv /\ CountInv

LEMMA BreakerType ==
    ASSUME NEW b \in Breaker, NEW d \in BOOLEAN
    PROVE  /\ Entered(b, d) \in Breaker
           /\ Succeeded(b) \in Breaker
           /\ Failed(b) \in Breaker
<1> USE BreakerAssumption DEF Breaker
<1>0. 0 \in 0..FailureThreshold /\ 0 \in 0..HalfOpenMax
      /\ \A n \in 0..FailureThreshold : OneMore(n) \in 0..FailureThreshold
  BY DEF OneMore
<1>1. Tested(b, d) \in Breaker
  BY <1>0 DEF Tested
<1>2. Entered(b, d) \in Breaker
  <2> DEFINE t == Tested(b, d)
  <2>1. t \in Breaker /\ Entered(b, d) =
          IF t.state = "half-open" /\ t.probes < HalfOpenMax THEN [t EXCEPT !.probes = @ + 1] ELSE t
    BY <1>1 DEF Entered
  <2> HIDE DEF t
  <2> QED BY <2>1
<1>3. Succeeded(b) \in Breaker
  BY DEF Succeeded, NewBreaker
<1>4. Failed(b) \in Breaker
  BY <1>0 DEF Failed
<1> QED BY <1>2, <1>3, <1>4

\* The events of a session are counted by a natural number.
LEMMA EventsOfFinite ==
    ASSUME PgTypeOK, NEW s
    PROVE  Cardinality(EventsOf(s)) \in Nat
BY PostgresAssumption, FS_Subset, FS_CardinalityType DEF PgTypeOK, MapInto, EventsOf

\* A step that stores and counts nothing keeps the counts when every append it
\* ends, and every recount it takes back, leaves its session stale.
LEMMA CountKept ==
    ASSUME RecountsInv, CountInv, UNCHANGED tables, stale \subseteq stale', overtaken \subseteq overtaken',
           \A c \in DOMAIN calls : Uncounted(calls[c]) =>
               \/ calls[c].sid \in stale'
               \/ c \in DOMAIN calls' /\ Uncounted(calls'[c]) /\ calls'[c].sid = calls[c].sid,
           DOMAIN recounts' \subseteq DOMAIN recounts,
           \A c \in DOMAIN recounts :
               IF c \in DOMAIN recounts'
               THEN recounts'[c] = recounts[c] /\ c \in DOMAIN calls' /\ calls'[c] = calls[c]
               ELSE calls[c].sid \in stale'
    PROVE  RecountsInv' /\ CountInv'
<1>1. RecountsInv'
  BY DEF RecountsInv, tables, EventsOf
<1>2. ASSUME NEW s \in DOMAIN rows \ (stale' \cup overtaken'), rows[s] # Cardinality(EventsOf(s)),
             ~\E c \in DOMAIN calls' : Uncounted(calls'[c]) /\ calls'[c].sid = s
      PROVE  \E c \in DOMAIN recounts' : calls'[c].sid = s /\ recounts'[c] = Cardinality(EventsOf(s))
  BY <1>2 DEF CountInv
<1>3. CountInv'
  BY <1>2 DEF CountInv, tables, EventsOf
<1> QED BY <1>1, <1>3

\* circuitBreaker.execute keeps PgInv, whether it is entered at the start of a
\* call, for its next statement or for a retry.
LEMMA ExecuteKeeps ==
    ASSUME PgInv, NEW c \in Call, NEW call \in CallState, NEW b \in Breaker, Execute(c, call, b),
           UNCHANGED <<tables, cooled, recounts, overtaken>>, faults' \in Nat,
           given' \subseteq Session \cup Event,
           c \in DOMAIN calls =>
               /\ calls[c].kind = call.kind /\ calls[c].sid = call.sid
               /\ calls[c].statement <= call.statement /\ calls[c].pc # "write"
    PROVE  PgInv'
<1>1. breaker' \in Breaker /\ stale \subseteq stale' /\ stale' \subseteq Session
  BY BreakerType DEF Execute, PgInv, PgTypeOK, Stale, CallState
<1>2. MapInto(calls', Call, CallState)
  <2>1. MapInto(calls, Call, CallState)
    BY DEF PgInv, PgTypeOK
  <2>2. CASE calls' = Without(calls, {c})
    BY <2>1, <2>2 DEF MapInto, Without
  <2>3. CASE calls' = Put(calls, c, [call EXCEPT !.pc = "query"])
    <3>1. [call EXCEPT !.pc = "query"] \in CallState
      BY DEF CallState
    <3> QED BY <2>1, <2>3, <3>1 DEF MapInto, Put
  <2> QED BY <2>2, <2>3 DEF Execute
<1>3. PgTypeOK'
  BY <1>1, <1>2 DEF PgInv, PgTypeOK, tables
<1>4. \A k \in DOMAIN calls : Uncounted(calls[k]) =>
               \/ calls[k].sid \in stale'
               \/ k \in DOMAIN calls' /\ Uncounted(calls'[k]) /\ calls'[k].sid = calls[k].sid
  <2> SUFFICES ASSUME NEW k \in DOMAIN calls, Uncounted(calls[k]) PROVE
               \/ calls[k].sid \in stale'
               \/ k \in DOMAIN calls' /\ Uncounted(calls'[k]) /\ calls'[k].sid = calls[k].sid
    OBVIOUS
  <2>1. CASE k # c
    BY <2>1 DEF Execute, Put, Without
  <2>2. CASE k = c /\ ~Admits(b, cooled)
    BY <2>2 DEF Execute, Stale, Uncounted
  <2>3. CASE k = c /\ Admits(b, cooled)
    BY <2>3 DEF Execute, Put, Uncounted, CallState
  <2> QED BY <2>1, <2>2, <2>3
<1>5. \A k \in DOMAIN recounts : k \in DOMAIN calls' /\ calls'[k] = calls[k]
  <2>1. \A k \in DOMAIN recounts : k \in DOMAIN calls \ {c}
    BY DEF PgInv, RecountsInv
  <2> QED BY <2>1 DEF Execute, Put, Without
<1> QED BY <1>1, <1>3, <1>4, <1>5, CountKept DEF PgInv

\* A failure that ends its call.
LEMMA FailsKeeps ==
    ASSUME PgInv, NEW c \in DOMAIN calls, Fails(c), UNCHANGED <<tables, given, overtaken>>, faults' \in Nat,
           recounts' = Without(recounts, {c})
    PROVE  PgInv'
<1>1. calls[c] \in CallState /\ stale \subseteq stale' /\ stale' \subseteq Session
  BY DEF Fails, PgInv, PgTypeOK, MapInto, Stale, CallState
<1>2. MapInto(calls', Call, CallState) /\ MapInto(recounts', Call, Nat)
  BY DEF Fails, PgInv, PgTypeOK, MapInto, Without
<1>3. PgTypeOK'
  BY <1>1, <1>2, BreakerType DEF Fails, PgInv, PgTypeOK, tables
<1>4. \A k \in DOMAIN calls : Uncounted(calls[k]) =>
               \/ calls[k].sid \in stale'
               \/ k \in DOMAIN calls' /\ Uncounted(calls'[k]) /\ calls'[k].sid = calls[k].sid
  BY DEF Fails, Without, Stale, Uncounted
<1>5. \A k \in DOMAIN recounts : k \in DOMAIN calls /\ calls[k].kind = "append"
  BY DEF PgInv, RecountsInv
<1>6. \A k \in DOMAIN recounts :
               IF k \in DOMAIN recounts'
               THEN recounts'[k] = recounts[k] /\ k \in DOMAIN calls' /\ calls'[k] = calls[k]
               ELSE calls[k].sid \in stale'
  BY <1>5 DEF Fails, Without, Stale
<1>7. DOMAIN recounts' \subseteq DOMAIN recounts
  BY DEF Without
<1> QED BY <1>1, <1>3, <1>4, <1>6, <1>7, CountKept DEF PgInv

LEMMA StartKeeps ==
    ASSUME PgInv, NEW c \in Call, NEW s \in Session, Start(c, s)
    PROVE  PgInv'
<1>1. ASSUME NEW kind \in CallKinds, NEW e \in Session \cup Event, Begin(c, kind, s, e),
             kind = "append" => e \in Event,
             given' \subseteq Session \cup Event
      PROVE  PgInv'
  <2> DEFINE call == [kind |-> kind, sid |-> s, event |-> e, pc |-> "query",
                      statement |-> 1, attempt |-> 1, valid |-> TRUE]
  <2>1. call \in CallState
    BY <1>1 DEF CallState
  <2>2. Execute(c, call, breaker) /\ c \notin DOMAIN calls
        /\ UNCHANGED <<tables, cooled, recounts, faults, overtaken>>
    BY <1>1 DEF Begin
  <2> HIDE DEF call
  <2> QED BY <1>1, <2>1, <2>2, ExecuteKeeps DEF PgInv, PgTypeOK
<1>2. given \subseteq Session \cup Event
  BY DEF PgInv, PgTypeOK
<1>3. CASE SaveSession(c, s)
  BY <1>1, <1>2, <1>3 DEF SaveSession, CallKinds
<1>4. CASE DeleteSession(c, s) \/ UpdateSessionStatus(c, s)
  BY <1>1, <1>2, <1>4 DEF DeleteSession, UpdateSessionStatus, CallKinds
<1>5. CASE \E e \in Event : AppendEvents(c, s, e)
  BY <1>1, <1>2, <1>5 DEF AppendEvents, CallKinds
<1>6. CASE LoadSession(c, s) \/ ListSessions(c, s) \/ GetEvents(c, s) \/ GetEventCount(c, s)
  BY <1>1, <1>2, <1>6 DEF LoadSession, ListSessions, GetEvents, GetEventCount, Read, CallKinds
<1>7. CASE ListSessionsPaginated(c, s) \/ GetEventsWithTotal(c, s)
  BY <1>1, <1>2, <1>7 DEF ListSessionsPaginated, GetEventsWithTotal, CallKinds
<1> QED BY <1>3, <1>4, <1>5, <1>6, <1>7 DEF Start

LEMMA AnsweredKeeps ==
    ASSUME PgInv, NEW c \in Call, Answered(c)
    PROVE  PgInv'
<1>1. c \in DOMAIN calls /\ calls[c] \in CallState /\ calls[c].pc = "answer"
  BY DEF PgInv, PgTypeOK, MapInto, Answered, Waits
<1>2. breaker \in Breaker /\ Succeeded(breaker) \in Breaker
      /\ given \subseteq Session \cup Event /\ faults \in Nat /\ cooled \in BOOLEAN
  BY BreakerType DEF PgInv, PgTypeOK
<1>3. CASE calls[c].statement < Statements(calls[c].kind)
  <2> DEFINE call == [calls[c] EXCEPT !.statement = @ + 1, !.attempt = 1]
  <2>1. calls[c].statement = 1
    BY <1>1, <1>3 DEF Statements, CallState
  <2>2. /\ call \in CallState
        /\ call.kind = calls[c].kind /\ call.sid = calls[c].sid /\ calls[c].statement <= call.statement
    <3>1. call \in CallState
      BY <1>1, <2>1, CallUpdate
    <3> QED BY <1>1, <2>1, <3>1 DEF CallState
  <2>3. Execute(c, call, Succeeded(breaker)) /\ UNCHANGED <<tables, cooled, recounts, faults, given, overtaken>>
    BY <1>3 DEF Answered
  <2> HIDE DEF call
  <2> QED BY <1>1, <1>2, <2>2, <2>3, ExecuteKeeps
<1>4. CASE ~(calls[c].statement < Statements(calls[c].kind))
  <2>1. calls' = Without(calls, {c}) /\ breaker' = Succeeded(breaker)
        /\ UNCHANGED <<tables, cooled, recounts, faults, history>>
    BY <1>4 DEF Answered, history
  <2>2. MapInto(calls', Call, CallState)
    BY <2>1 DEF PgInv, PgTypeOK, MapInto, Without
  <2>3. PgTypeOK'
    BY <1>2, <2>1, <2>2 DEF PgInv, PgTypeOK, tables, history
  <2>4. ~Uncounted(calls[c])
    BY <1>1, <1>4 DEF Statements, Uncounted, CallState
  <2>5. \A k \in DOMAIN calls : Uncounted(calls[k]) =>
               k \in DOMAIN calls' /\ Uncounted(calls'[k]) /\ calls'[k].sid = calls[k].sid
    BY <2>1, <2>4 DEF Without
  <2>6. \A k \in DOMAIN recounts : k \in DOMAIN calls' /\ calls'[k] = calls[k]
    <3>1. \A k \in DOMAIN recounts : k \in DOMAIN calls \ {c}
      BY <1>1 DEF PgInv, RecountsInv
    <3> QED BY <2>1, <3>1 DEF Without
  <2> QED BY <2>1, <2>3, <2>5, <2>6, CountKept DEF PgInv, history
<1> QED BY <1>3, <1>4

LEMMA LostKeeps ==
    ASSUME PgInv, NEW c \in Call, Lost(c)
    PROVE  PgInv'
<1>1. c \in DOMAIN calls /\ calls[c] \in CallState /\ faults' \in Nat
      /\ UNCHANGED <<tables, given, overtaken>> /\ recounts' = Without(recounts, {c})
  BY DEF PgInv, PgTypeOK, MapInto, Lost, InFlight
<1>2. CASE Fails(c)
  BY <1>1, <1>2, FailsKeeps
<1>3. CASE ~Fails(c)
  <2>1. /\ breaker' = Failed(breaker) /\ cooled' = FALSE
        /\ calls' = [calls EXCEPT ![c].pc = "sleep", ![c].attempt = @ + 1]
        /\ stale' = IF calls[c].pc = "write" THEN Stale(calls[c]) ELSE stale
    BY <1>3 DEF Lost
  <2>2. /\ DOMAIN calls' = DOMAIN calls
        /\ calls'[c] = [calls[c] EXCEPT !.pc = "sleep", !.attempt = @ + 1]
        /\ \A k \in DOMAIN calls \ {c} : calls'[k] = calls[k]
    BY <1>1, <2>1 DEF PgInv, PgTypeOK, MapInto
  <2>3. calls'[c] \in CallState /\ (Uncounted(calls[c]) => Uncounted(calls'[c])) /\ calls'[c].sid = calls[c].sid
    <3>1. calls'[c] \in CallState
      BY <1>1, <2>2, CallUpdate
    <3> QED BY <1>1, <2>2, <3>1 DEF CallState, Uncounted
  <2>4. MapInto(calls', Call, CallState) /\ MapInto(recounts', Call, Nat)
    <3>1. MapInto(calls', Call, CallState)
      BY <2>1, <2>2, <2>3 DEF PgInv, PgTypeOK, MapInto
    <3>2. MapInto(recounts', Call, Nat)
      BY <1>1 DEF PgInv, PgTypeOK, MapInto, Without
    <3> QED BY <3>1, <3>2
  <2>5. stale \subseteq stale' /\ stale' \subseteq Session
    BY <1>1, <2>1 DEF Stale, PgInv, PgTypeOK, CallState
  <2>6. PgTypeOK'
    BY <1>1, <2>1, <2>4, <2>5, BreakerType DEF PgInv, PgTypeOK, tables
  <2>7. \A k \in DOMAIN recounts :
               IF k \in DOMAIN recounts'
               THEN recounts'[k] = recounts[k] /\ k \in DOMAIN calls' /\ calls'[k] = calls[k]
               ELSE calls[k].sid \in stale'
    <3>1. \A k \in DOMAIN recounts : k \in DOMAIN calls /\ calls[k].kind = "append" /\ calls[k].pc = "write"
      BY DEF PgInv, RecountsInv
    <3> QED BY <1>1, <2>1, <2>2, <3>1 DEF Without, Stale
  <2>8. \A k \in DOMAIN calls : Uncounted(calls[k]) =>
               k \in DOMAIN calls' /\ Uncounted(calls'[k]) /\ calls'[k].sid = calls[k].sid
    BY <2>2, <2>3
  <2>9. DOMAIN recounts' \subseteq DOMAIN recounts
    BY <1>1 DEF Without
  <2> QED BY <1>1, <2>5, <2>6, <2>7, <2>8, <2>9, CountKept DEF PgInv
<1> QED BY <1>2, <1>3

\* The result of a statement changes nothing else of the calls.
LEMMA ApplyCall ==
    ASSUME PgInv, NEW c \in Call, Apply(c)
    PROVE  /\ c \in DOMAIN calls /\ calls[c] \in CallState /\ calls[c].pc = "query"
           /\ calls[c].kind = "append" => calls[c].statement = 1
           /\ MapInto(calls', Call, CallState) /\ DOMAIN calls' = DOMAIN calls
           /\ \A k \in DOMAIN calls \ {c} : calls'[k] = calls[k]
           /\ \A k \in DOMAIN calls : Uncounted(calls[k]) =>
                  Uncounted(calls'[k]) /\ calls'[k].sid = calls[k].sid
           /\ \A k \in DOMAIN recounts : k \in DOMAIN calls \ {c}
<1> DEFINE valid == ~(calls[c].kind = "append" /\ calls[c].statement = 1) \/ calls[c].sid \in DOMAIN rows
<1>1. c \in DOMAIN calls /\ calls[c] \in CallState /\ calls[c].pc = "query" /\ valid \in BOOLEAN
      /\ (calls[c].kind = "append" => calls[c].statement = 1)
  BY DEF PgInv, PgTypeOK, MapInto, Apply, Waits
<1>2. calls' = [calls EXCEPT ![c].pc = "answer", ![c].valid = valid]
  BY DEF Apply
<1> HIDE DEF valid
<1>3. /\ DOMAIN calls' = DOMAIN calls
      /\ calls'[c] = [calls[c] EXCEPT !.pc = "answer", !.valid = valid]
      /\ \A k \in DOMAIN calls \ {c} : calls'[k] = calls[k]
  BY <1>1, <1>2 DEF PgInv, PgTypeOK, MapInto
<1>4. calls'[c] \in CallState
  <2>1. \A v \in BOOLEAN : [calls[c] EXCEPT !.pc = "answer", !.valid = v] \in CallState
    BY <1>1, CallUpdate
  <2> QED BY <1>1, <1>3, <2>1
<1>5. MapInto(calls', Call, CallState)
  BY <1>2, <1>3, <1>4 DEF PgInv, PgTypeOK, MapInto
<1>6. /\ calls'[c].kind = calls[c].kind /\ calls'[c].sid = calls[c].sid
      /\ calls'[c].statement = calls[c].statement
  BY <1>1, <1>3 DEF CallState
<1>7. \A k \in DOMAIN calls : Uncounted(calls[k]) => Uncounted(calls'[k]) /\ calls'[k].sid = calls[k].sid
  <2>1. Uncounted(calls[c]) => Uncounted(calls'[c])
    BY <1>1, <1>6 DEF Uncounted
  <2> QED BY <1>3, <1>6, <2>1
<1>8. \A k \in DOMAIN recounts : k \in DOMAIN calls \ {c}
  BY <1>1 DEF PgInv, RecountsInv
<1> QED BY <1>1, <1>3, <1>5, <1>7, <1>8

\* What a step has to show of the recounts that wait.
LEMMA RecountsKept ==
    ASSUME \A k \in DOMAIN recounts' :
               /\ k \in DOMAIN calls' /\ calls'[k].kind = "append" /\ calls'[k].pc = "write"
               /\ \E t \in DOMAIN rows' : calls'[k].sid = t /\ recounts'[k] <= Cardinality(EventsOf(t)')
    PROVE  RecountsInv'
BY DEF RecountsInv, EventsOf

\* A save makes a row that counts nothing, or leaves the session stale; the
\* recounts that other calls have taken stay as good as they were.
LEMMA SaveApplied ==
    ASSUME PgInv, NEW c \in Call, Apply(c), calls[c].kind = "save"
    PROVE  PgInv'
<1> DEFINE s == calls[c].sid
<1>1. Upsert(s) /\ UNCHANGED <<events, recounts, overtaken, breaker, cooled, faults, given>> /\ s \in Session
  BY ApplyCall DEF Apply, circuit, CallState
<1>2. PgTypeOK'
  <2>1. MapInto(rows', Session, Nat) /\ stale' \subseteq Session
    BY <1>1 DEF PgInv, PgTypeOK, Upsert, Put, MapInto
  <2> QED BY <1>1, <2>1, ApplyCall DEF PgInv, PgTypeOK
<1>3. RecountsInv'
  BY <1>1, ApplyCall DEF PgInv, RecountsInv, Upsert, Put, EventsOf
<1>4. ASSUME NEW t \in DOMAIN rows' \ (stale' \cup overtaken'), rows'[t] # Cardinality(EventsOf(t))
      PROVE  \/ \E k \in DOMAIN calls' : Uncounted(calls'[k]) /\ calls'[k].sid = t
             \/ \E k \in DOMAIN recounts : calls'[k].sid = t /\ recounts[k] = Cardinality(EventsOf(t))
  <2>1. t # s
    BY <1>1, <1>4, FS_EmptySet DEF Upsert, Put
  <2>2. t \in DOMAIN rows \ (stale \cup overtaken) /\ rows[t] # Cardinality(EventsOf(t))
    BY <1>1, <1>4, <2>1 DEF Upsert, Put
  <2> QED BY <2>2, ApplyCall DEF PgInv, CountInv
<1>5. CountInv'
  BY <1>1, <1>4 DEF CountInv, EventsOf
<1> QED BY <1>2, <1>3, <1>5 DEF PgInv

\* A delete takes the row, the events and what recounts have read of them.
LEMMA DeleteApplied ==
    ASSUME PgInv, NEW c \in Call, Apply(c), calls[c].kind = "delete"
    PROVE  PgInv'
<1> DEFINE s == calls[c].sid
<1>1. /\ rows' = Without(rows, {s}) /\ events' = Without(events, EventsOf(s))
      /\ recounts' = Without(recounts, {d \in DOMAIN recounts : calls[d].sid = s})
      /\ UNCHANGED <<stale, overtaken, breaker, cooled, faults, given>>
  BY DEF Apply, circuit
<1>2. PgTypeOK'
  <2>1. MapInto(rows', Session, Nat) /\ MapInto(events', Event, Session) /\ MapInto(recounts', Call, Nat)
    BY <1>1 DEF PgInv, PgTypeOK, Without, MapInto
  <2> QED BY <1>1, <2>1, ApplyCall DEF PgInv, PgTypeOK
<1>3. \A t \in DOMAIN rows' : t # s /\ t \in DOMAIN rows /\ rows'[t] = rows[t] /\ EventsOf(t)' = EventsOf(t)
  BY <1>1 DEF Without, EventsOf
<1>4. \A k \in DOMAIN recounts : calls[k].sid # s =>
         k \in DOMAIN recounts' /\ recounts'[k] = recounts[k] /\ calls'[k] = calls[k]
  BY <1>1, ApplyCall DEF Without
<1>5. RecountsInv'
  <2> SUFFICES ASSUME NEW k \in DOMAIN recounts'
               PROVE  /\ k \in DOMAIN calls' /\ calls'[k].kind = "append" /\ calls'[k].pc = "write"
                      /\ \E t \in DOMAIN rows' :
                             calls'[k].sid = t /\ recounts'[k] <= Cardinality(EventsOf(t)')
    BY RecountsKept
  <2>1. PICK t \in DOMAIN rows : /\ k \in DOMAIN recounts /\ t = calls[k].sid /\ t # s
                                 /\ recounts[k] <= Cardinality(EventsOf(t))
    BY <1>1 DEF Without, PgInv, RecountsInv
  <2>2. t \in DOMAIN rows' /\ EventsOf(t)' = EventsOf(t)
    BY <1>1, <1>3, <2>1 DEF Without
  <2>3. k \in DOMAIN calls' /\ calls'[k] = calls[k] /\ recounts'[k] = recounts[k]
        /\ calls[k].kind = "append" /\ calls[k].pc = "write"
    BY <1>4, <2>1, ApplyCall DEF PgInv, RecountsInv
  <2> QED BY <2>1, <2>2, <2>3
<1>6. CountInv'
  <2> SUFFICES ASSUME NEW t \in DOMAIN rows' \ (stale' \cup overtaken'),
                      rows'[t] # Cardinality(EventsOf(t)')
               PROVE  \/ \E k \in DOMAIN calls' : Uncounted(calls'[k]) /\ calls'[k].sid = t
                      \/ \E k \in DOMAIN recounts' :
                             calls'[k].sid = t /\ recounts'[k] = Cardinality(EventsOf(t)')
    BY DEF CountInv
  <2>1. t \in DOMAIN rows \ (stale \cup overtaken) /\ rows[t] # Cardinality(EventsOf(t)) /\ t # s
    BY <1>1, <1>3
  <2> QED BY <1>3, <1>4, <2>1, ApplyCall DEF PgInv, CountInv
<1> QED BY <1>2, <1>5, <1>6 DEF PgInv

\* An insert leaves its session to the recount that follows.
LEMMA InsertApplied ==
    ASSUME PgInv, NEW c \in Call, Apply(c), calls[c].kind = "append"
    PROVE  PgInv'
<1>0. PICK s \in Session : s = calls[c].sid
  BY ApplyCall DEF CallState
<1>1. /\ UNCHANGED <<rows, recounts, stale, overtaken, breaker, cooled, faults, given>>
      /\ (InsertEvent(s, calls[c].event) \/ UNCHANGED events)
      /\ calls[c].event \in Event
  BY <1>0, ApplyCall DEF Apply, circuit, tables, CallState
<1>2. MapInto(events', Event, Session)
  BY <1>1 DEF PgInv, PgTypeOK, MapInto, InsertEvent, Put
<1>3. PgTypeOK'
  BY <1>1, <1>2, ApplyCall DEF PgInv, PgTypeOK
<1>4. /\ \A t : t # s => EventsOf(t)' = EventsOf(t)
      /\ EventsOf(s) \subseteq EventsOf(s)'
  <2>1. CASE UNCHANGED events
    BY <2>1 DEF EventsOf
  <2>2. CASE InsertEvent(s, calls[c].event)
    BY <2>2 DEF InsertEvent, Put, EventsOf
  <2> QED BY <1>1, <2>1, <2>2
<1>5. /\ Cardinality(EventsOf(s)) <= Cardinality(EventsOf(s)')
      /\ Cardinality(EventsOf(s)) \in Nat /\ Cardinality(EventsOf(s)') \in Nat
  <2>1. IsFiniteSet(EventsOf(s)')
    BY <1>2, PostgresAssumption, FS_Subset DEF MapInto, EventsOf
  <2> QED BY <1>4, <2>1, FS_Subset, FS_CardinalityType
<1>6. RecountsInv'
  <2> SUFFICES ASSUME NEW k \in DOMAIN recounts
               PROVE  /\ k \in DOMAIN calls' /\ calls'[k].kind = "append" /\ calls'[k].pc = "write"
                      /\ \E t \in DOMAIN rows : calls'[k].sid = t /\ recounts[k] <= Cardinality(EventsOf(t)')
    BY <1>1, RecountsKept
  <2>1. PICK t \in DOMAIN rows : t = calls[k].sid /\ recounts[k] <= Cardinality(EventsOf(t))
    BY DEF PgInv, RecountsInv
  <2>2. recounts[k] \in Nat
    BY DEF PgInv, PgTypeOK, MapInto
  <2>3. recounts[k] <= Cardinality(EventsOf(t)')
    BY <1>4, <1>5, <2>1, <2>2
  <2> QED BY <2>1, <2>3, ApplyCall DEF PgInv, RecountsInv
<1>7. CountInv'
  <2> SUFFICES ASSUME NEW t \in DOMAIN rows \ (stale \cup overtaken),
                      rows[t] # Cardinality(EventsOf(t)')
               PROVE  \/ \E k \in DOMAIN calls' : Uncounted(calls'[k]) /\ calls'[k].sid = t
                      \/ \E k \in DOMAIN recounts : calls'[k].sid = t /\ recounts[k] = Cardinality(EventsOf(t)')
    BY <1>1 DEF CountInv, EventsOf
  <2>1. CASE t = s
    <3>1. Uncounted(calls[c])
      BY ApplyCall DEF Uncounted
    <3> QED BY <1>0, <2>1, <3>1, ApplyCall
  <2>2. CASE t # s
    BY <1>4, <2>2, ApplyCall DEF PgInv, CountInv
  <2> QED BY <2>1, <2>2
<1> QED BY <1>3, <1>6, <1>7 DEF PgInv

LEMMA ApplyKeeps ==
    ASSUME PgInv, NEW c \in Call, Apply(c)
    PROVE  PgInv'
<1>1. CASE calls[c].kind \notin {"save", "delete", "append"}
  <2>1. UNCHANGED <<tables, recounts, stale, overtaken, breaker, cooled, faults, given>>
    BY <1>1 DEF Apply, circuit
  <2>2. PgTypeOK'
    BY <2>1, ApplyCall DEF PgInv, PgTypeOK, tables
  <2> QED BY <2>1, <2>2, ApplyCall, CountKept DEF PgInv
<1> QED BY <1>1, SaveApplied, DeleteApplied, InsertApplied

\* An append whose recount takes its snapshot has read the right number.
LEMMA SnapshotKeeps ==
    ASSUME PgInv, NEW c \in Call, SnapshotCount(c)
    PROVE  PgInv'
<1>0. PICK s \in Session, n \in Nat : s = calls[c].sid /\ n = Cardinality(EventsOf(s))
  BY EventsOfFinite DEF PgInv, PgTypeOK, MapInto, SnapshotCount, Waits, CallState
<1>1. /\ c \in DOMAIN calls /\ calls[c] \in CallState
      /\ calls[c].pc = "query" /\ calls[c].kind = "append" /\ calls[c].statement = 2
  BY DEF PgInv, PgTypeOK, MapInto, SnapshotCount, Waits, CallState
<1>3. calls' = [calls EXCEPT ![c].pc = "write"] /\ UNCHANGED <<tables, circuit, faults, history>>
      /\ recounts' = IF s \in DOMAIN rows THEN Put(recounts, c, n) ELSE recounts
  BY <1>0 DEF SnapshotCount
<1>4. /\ DOMAIN calls' = DOMAIN calls /\ calls'[c] = [calls[c] EXCEPT !.pc = "write"]
      /\ \A k \in DOMAIN calls \ {c} : calls'[k] = calls[k]
  BY <1>1, <1>3 DEF PgInv, PgTypeOK, MapInto
<1>5. calls'[c] \in CallState /\ calls'[c].sid = s /\ calls'[c].kind = "append" /\ calls'[c].pc = "write"
  <2>1. calls'[c] \in CallState
    BY <1>1, <1>4, CallUpdate
  <2> QED BY <1>0, <1>1, <1>4, <2>1 DEF CallState
<1>6. MapInto(calls', Call, CallState)
  BY <1>3, <1>4, <1>5 DEF PgInv, PgTypeOK, MapInto
<1>7. MapInto(recounts', Call, Nat)
  BY <1>3 DEF PgInv, PgTypeOK, MapInto, Put
<1>8. PgTypeOK'
  BY <1>3, <1>6, <1>7 DEF PgInv, PgTypeOK, tables, circuit, history
<1>9. /\ c \notin DOMAIN recounts
      /\ \A k \in DOMAIN recounts : k \in DOMAIN recounts' /\ recounts'[k] = recounts[k] /\ calls'[k] = calls[k]
      /\ \A k \in DOMAIN recounts' : k \in DOMAIN recounts \/ (k = c /\ s \in DOMAIN rows)
      /\ s \in DOMAIN rows => c \in DOMAIN recounts' /\ recounts'[c] = n
  <2>1. \A k \in DOMAIN recounts : k \in DOMAIN calls \ {c}
    BY <1>1 DEF PgInv, RecountsInv
  <2> QED BY <1>3, <1>4, <2>1 DEF Put
<1>10. \A t : EventsOf(t)' = EventsOf(t)
  BY <1>3 DEF tables, EventsOf
<1>11. RecountsInv'
  <2> SUFFICES ASSUME NEW k \in DOMAIN recounts'
               PROVE  /\ k \in DOMAIN calls' /\ calls'[k].kind = "append" /\ calls'[k].pc = "write"
                      /\ \E t \in DOMAIN rows' :
                             calls'[k].sid = t /\ recounts'[k] <= Cardinality(EventsOf(t)')
    BY RecountsKept
  <2>1. CASE k \in DOMAIN recounts
    <3>1. PICK t \in DOMAIN rows : t = calls[k].sid /\ recounts[k] <= Cardinality(EventsOf(t))
      BY <2>1 DEF PgInv, RecountsInv
    <3>2. recounts'[k] = recounts[k] /\ k \in DOMAIN calls /\ calls'[k] = calls[k]
          /\ calls[k].kind = "append" /\ calls[k].pc = "write"
      BY <1>9, <2>1 DEF PgInv, RecountsInv
    <3> QED BY <1>3, <1>4, <1>10, <3>1, <3>2 DEF tables
  <2>2. CASE k \notin DOMAIN recounts
    <3>1. k = c /\ s \in DOMAIN rows /\ recounts'[c] = n
      BY <1>9, <2>2
    <3>2. n <= Cardinality(EventsOf(s)')
      BY <1>0, <1>10
    <3> QED BY <1>1, <1>3, <1>4, <1>5, <3>1, <3>2 DEF tables
  <2> QED BY <2>1, <2>2
<1>12. CountInv'
  <2> SUFFICES ASSUME NEW t \in DOMAIN rows \ (stale \cup overtaken), rows[t] # Cardinality(EventsOf(t))
               PROVE  \/ \E k \in DOMAIN calls' : Uncounted(calls'[k]) /\ calls'[k].sid = t
                      \/ \E k \in DOMAIN recounts' :
                             calls'[k].sid = t /\ recounts'[k] = Cardinality(EventsOf(t))
    BY <1>3, <1>10 DEF CountInv, tables, history
  <2>1. CASE t = s
    BY <1>0, <1>5, <1>9, <2>1
  <2>2. CASE t # s
    BY <1>0, <1>4, <1>9, <2>2 DEF PgInv, CountInv
  <2> QED BY <2>1, <2>2
<1> QED BY <1>8, <1>11, <1>12 DEF PgInv

\* A recount that is not smaller than the count it replaces is right, or somebody
\* else will count again.
LEMMA RecountKeeps ==
    ASSUME PgInv, NEW c \in Call, Recount(c)
    PROVE  PgInv'
<1> DEFINE s == calls[c].sid
<1>1. /\ c \in DOMAIN calls /\ calls[c] \in CallState /\ s \in Session /\ calls[c].pc = "write"
  BY DEF PgInv, PgTypeOK, MapInto, Recount, Waits, CallState
<1>2. /\ calls' = [calls EXCEPT ![c].pc = "answer", ![c].valid = TRUE]
      /\ recounts' = Without(recounts, {c})
      /\ UNCHANGED <<events, circuit, faults, given, stale>>
  BY DEF Recount
<1>3. /\ DOMAIN calls' = DOMAIN calls
      /\ calls'[c] = [calls[c] EXCEPT !.pc = "answer", !.valid = TRUE]
      /\ \A k \in DOMAIN calls \ {c} : calls'[k] = calls[k]
  BY <1>1, <1>2 DEF PgInv, PgTypeOK, MapInto
<1>4. calls'[c] \in CallState
  <2>1. \A v \in BOOLEAN : [calls[c] EXCEPT !.pc = "answer", !.valid = v] \in CallState
    BY <1>1, CallUpdate
  <2> QED BY <1>3, <2>1
<1>5. \A k \in DOMAIN calls : Uncounted(calls[k]) => Uncounted(calls'[k]) /\ calls'[k].sid = calls[k].sid
  <2>1. /\ calls'[c].kind = calls[c].kind /\ calls'[c].sid = s /\ calls'[c].pc = "answer"
        /\ calls'[c].statement = calls[c].statement
    BY <1>1, <1>3 DEF CallState
  <2>2. Uncounted(calls[c]) => Uncounted(calls'[c])
    BY <1>1, <2>1 DEF Uncounted
  <2> QED BY <1>3, <2>1, <2>2
<1>6. MapInto(calls', Call, CallState) /\ MapInto(recounts', Call, Nat)
  BY <1>2, <1>3, <1>4 DEF PgInv, PgTypeOK, MapInto, Without
<1>7. \A k \in DOMAIN recounts \ {c} :
         k \in DOMAIN recounts' /\ recounts'[k] = recounts[k] /\ k \in DOMAIN calls' /\ calls'[k] = calls[k]
  BY <1>2, <1>3 DEF Without, PgInv, RecountsInv
<1>8. DOMAIN recounts' = DOMAIN recounts \ {c} /\ \A t : EventsOf(t)' = EventsOf(t)
  BY <1>2 DEF Without, EventsOf
<1>9. CASE c \notin DOMAIN recounts
  <2>1. UNCHANGED <<rows, overtaken>>
    BY <1>9 DEF Recount
  <2>2. PgTypeOK'
    BY <1>2, <1>6, <2>1 DEF PgInv, PgTypeOK, circuit
  <2> QED BY <1>2, <1>3, <1>5, <1>7, <1>8, <1>9, <2>1, <2>2, CountKept DEF PgInv, tables
<1>10. CASE c \in DOMAIN recounts
  <2>1. /\ rows' = [rows EXCEPT ![s] = recounts[c]]
        /\ overtaken' = IF recounts[c] < rows[s] THEN overtaken \cup {s} ELSE overtaken
    BY <1>10 DEF Recount
  <2>2. /\ s \in DOMAIN rows /\ rows[s] \in Nat /\ recounts[c] \in Nat
        /\ recounts[c] <= Cardinality(EventsOf(s)) /\ Cardinality(EventsOf(s)) \in Nat
    BY <1>10, EventsOfFinite DEF PgInv, PgTypeOK, RecountsInv, MapInto
  <2>3. /\ DOMAIN rows' = DOMAIN rows /\ rows'[s] = recounts[c]
        /\ \A t \in DOMAIN rows : t # s => rows'[t] = rows[t]
    BY <2>1, <2>2 DEF PgInv, PgTypeOK, MapInto
  <2>4. MapInto(rows', Session, Nat) /\ overtaken' \subseteq Session /\ overtaken \subseteq overtaken'
    BY <1>1, <2>1, <2>2, <2>3 DEF PgInv, PgTypeOK, MapInto
  <2>5. PgTypeOK'
    BY <1>2, <1>6, <2>4 DEF PgInv, PgTypeOK, circuit
  <2>6. RecountsInv'
    BY <1>7, <1>8, <2>3 DEF PgInv, RecountsInv
  <2>7. CountInv'
    <3> SUFFICES ASSUME NEW t \in DOMAIN rows \ (stale \cup overtaken'), rows'[t] # Cardinality(EventsOf(t))
                 PROVE  \/ \E k \in DOMAIN calls' : Uncounted(calls'[k]) /\ calls'[k].sid = t
                        \/ \E k \in DOMAIN recounts' :
                               calls'[k].sid = t /\ recounts'[k] = Cardinality(EventsOf(t))
      BY <1>2, <1>8, <2>3 DEF CountInv
    <3>1. \/ rows[t] = Cardinality(EventsOf(t))
          \/ \E k \in DOMAIN calls : Uncounted(calls[k]) /\ calls[k].sid = t
          \/ \E k \in DOMAIN recounts : calls[k].sid = t /\ recounts[k] = Cardinality(EventsOf(t))
      BY <2>4 DEF PgInv, CountInv
    <3>2. CASE rows[t] = Cardinality(EventsOf(t))
      <4>1. t = s
        BY <2>3, <3>2
      <4> QED BY <2>1, <2>2, <2>3, <3>2, <4>1
    <3>3. CASE \E k \in DOMAIN calls : Uncounted(calls[k]) /\ calls[k].sid = t
      BY <1>3, <1>5, <3>3
    <3>4. ASSUME NEW k \in DOMAIN recounts, calls[k].sid = t, recounts[k] = Cardinality(EventsOf(t))
          PROVE  \E d \in DOMAIN recounts' : calls'[d].sid = t /\ recounts'[d] = Cardinality(EventsOf(t))
      <4>1. k # c
        BY <2>3, <3>4
      <4> QED BY <1>7, <3>4, <4>1
    <3> QED BY <3>1, <3>2, <3>3, <3>4
  <2> QED BY <2>5, <2>6, <2>7 DEF PgInv
<1> QED BY <1>9, <1>10

LEMMA PgInitInv == ASSUME PgInit PROVE PgInv
<1>1. NewBreaker \in Breaker
  BY BreakerAssumption DEF NewBreaker, Breaker
<1> QED BY <1>1 DEF PgInit, PgInv, PgTypeOK, RecountsInv, CountInv, NoKeys, MapInto

LEMMA PgStepInv ==
    ASSUME PgInv, PgNext
    PROVE  PgInv'
<1>1. ASSUME NEW c \in Call, Rejected(c) PROVE PgInv'
  <2>1. c \in DOMAIN calls /\ c \notin DOMAIN recounts /\ UNCHANGED recounts
    BY <1>1 DEF Rejected, Waits, PgInv, RecountsInv
  <2>2. recounts' = Without(recounts, {c})
    BY <2>1 DEF Without, PgInv, PgTypeOK, MapInto
  <2> QED BY <1>1, <2>1, <2>2, FailsKeeps DEF Rejected, PgInv, PgTypeOK
<1>2. ASSUME NEW c \in Call, Retry(c) PROVE PgInv'
  <2>1. c \in DOMAIN calls /\ calls[c] \in CallState /\ breaker \in Breaker
        /\ faults \in Nat /\ given \subseteq Session \cup Event
    BY <1>2 DEF Retry, Waits, PgInv, PgTypeOK, MapInto
  <2>2. Execute(c, calls[c], breaker) /\ UNCHANGED <<tables, cooled, recounts, faults, given, overtaken>>
    BY <1>2 DEF Retry
  <2>3. calls[c].statement <= calls[c].statement /\ calls[c].pc # "write"
    BY <1>2, <2>1 DEF CallState, Retry, Waits
  <2> QED BY <2>1, <2>2, <2>3, ExecuteKeeps
<1>3. CASE Cool
  BY <1>3, CountKept DEF Cool, PgInv, PgTypeOK, RecountsInv, tables, history
<1>4. ASSUME NEW c \in Call, Advance(c) PROVE PgInv'
  BY <1>1, <1>2, <1>4, ApplyKeeps, SnapshotKeeps, RecountKeeps, AnsweredKeeps DEF Advance
<1> QED BY <1>3, <1>4, StartKeeps, LostKeeps DEF PgNext

LEMMA PgInvariant == Spec => []PgInv
<1>1. Init => PgInv
  BY PgInitInv DEF Init
<1>2. PgInv /\ [Next]_vars => PgInv'
  <2> SUFFICES ASSUME PgInv, [Next]_vars PROVE PgInv'
    OBVIOUS
  <2>1. CASE PgNext
    BY <2>1, PgStepInv
  <2>2. CASE UNCHANGED pgVars
    BY <2>2, CountKept DEF pgVars, PgInv, PgTypeOK, RecountsInv, history, circuit, tables
  <2> QED BY <2>1, <2>2 DEF Next, vars, Booting, Serving
<1> QED BY <1>1, <1>2, PTL DEF Spec

\* The tables, the calls in flight and the circuit breaker of the Postgres
\* adapter keep their shapes, the breaker's two counters within their limits.
THEOREM PgTypeCorrect == Spec => []PgTypeOK
BY PgInvariant, PTL DEF PgInv

\* However the statements of appends, saves, deletes and retries interleave,
\* probe_sessions.event_count is the number of stored events once no append of
\* the session is under way, unless a failure left it behind or a recount wrote an
\* older number over a newer one: those are the only two ways to lose the count.
THEOREM CountsAgree == Spec => []CountAgrees
<1>1. PgInv => CountAgrees
  <2> SUFFICES ASSUME PgInv, NEW s \in DOMAIN rows \ (stale \cup overtaken),
                      \A c \in DOMAIN calls : calls[c].kind = "append" => calls[c].sid # s
               PROVE  rows[s] = Cardinality(EventsOf(s))
    BY DEF CountAgrees, Counted
  <2>1. \A c \in DOMAIN recounts : calls[c].sid # s
    BY DEF PgInv, RecountsInv
  <2>2. \A c \in DOMAIN calls : ~(Uncounted(calls[c]) /\ calls[c].sid = s)
    BY DEF Uncounted
  <2> QED BY <2>1, <2>2 DEF PgInv, CountInv
<1> QED BY <1>1, PgInvariant, PTL

\* A result that comes back never leaves the circuit half-open.
LEMMA BreakerMoves ==
    ASSUME NEW b \in Breaker
    PROVE  /\ Succeeded(b).state # "half-open"
           /\ Failed(b).state # "half-open"
<1>1. Succeeded(b).state # "half-open"
  BY DEF Succeeded, NewBreaker, Breaker
<1>2. Failed(b).state # "half-open"
  BY DEF Failed, Breaker
<1> QED BY <1>1, <1>2

\* execute leaves the circuit half-open only with a call of its own on the way, or
\* as it was, with whoever was on the way.
LEMMA ExecuteProbes ==
    ASSUME PgTypeOK, NEW c \in Call, NEW call \in CallState, NEW b \in Breaker, Execute(c, call, b),
           b.state = "half-open" => InFlight \ {c} # {}
    PROVE  ProbeOnItsWay'
<1>1. CASE Admits(b, cooled)
  <2>1. calls' = Put(calls, c, [call EXCEPT !.pc = "query"])
    BY <1>1 DEF Execute
  <2>2. c \in DOMAIN calls' /\ calls'[c].pc = "query"
    BY <2>1 DEF Put, CallState
  <2> QED BY <2>2 DEF ProbeOnItsWay, InFlight
<1>2. CASE ~Admits(b, cooled)
  <2>1. calls' = Without(calls, {c}) /\ breaker' = b
    BY <1>2 DEF Execute
  <2>2. InFlight \ {c} \subseteq InFlight'
    BY <2>1 DEF InFlight, Without
  <2> QED BY <2>1, <2>2 DEF ProbeOnItsWay
<1> QED BY <1>1, <1>2

LEMMA ProbeStep ==
    ASSUME PgTypeOK, ProbeOnItsWay, PgNext
    PROVE  ProbeOnItsWay'
<1>0. /\ breaker \in Breaker /\ cooled \in BOOLEAN
      /\ \A c \in DOMAIN calls : c \in Call /\ calls[c] \in CallState
  BY DEF PgTypeOK, MapInto
<1>1. ASSUME NEW c \in Call, NEW s \in Session, Start(c, s) PROVE ProbeOnItsWay'
  <2>1. PICK kind \in CallKinds, e \in Session \cup Event :
          Begin(c, kind, s, e) /\ (kind = "append" => e \in Event)
    BY <1>1 DEF Start, CallKinds, SaveSession, DeleteSession, UpdateSessionStatus, AppendEvents, Read,
                LoadSession, ListSessions, GetEvents, GetEventCount, ListSessionsPaginated,
                GetEventsWithTotal
  <2> DEFINE call == [kind |-> kind, sid |-> s, event |-> e, pc |-> "query",
                      statement |-> 1, attempt |-> 1, valid |-> TRUE]
  <2>2. call \in CallState
    BY <2>1 DEF CallState
  <2>3. Execute(c, call, breaker) /\ InFlight \ {c} = InFlight
    BY <2>1 DEF Begin, InFlight
  <2> HIDE DEF call
  <2> QED BY <1>0, <2>2, <2>3, ExecuteProbes DEF ProbeOnItsWay
<1>2. ASSUME NEW c \in Call, Apply(c) PROVE ProbeOnItsWay'
  <2>1. c \in DOMAIN calls /\ calls[c] \in CallState /\ breaker' = breaker
    BY <1>0, <1>2 DEF Apply, Waits, circuit
  <2>2. PICK valid : calls' = [calls EXCEPT ![c].pc = "answer", ![c].valid = valid]
    BY <1>2 DEF Apply
  <2>3. c \in InFlight'
    BY <2>1, <2>2 DEF InFlight, CallState
  <2> QED BY <2>3 DEF ProbeOnItsWay
<1>7. ASSUME NEW c \in Call, SnapshotCount(c) \/ Recount(c) PROVE ProbeOnItsWay'
  <2>1. c \in DOMAIN calls /\ calls[c] \in CallState
    BY <1>0, <1>7 DEF SnapshotCount, Recount, Waits
  <2>2. \/ calls' = [calls EXCEPT ![c].pc = "write"]
        \/ calls' = [calls EXCEPT ![c].pc = "answer", ![c].valid = TRUE]
    BY <1>7 DEF SnapshotCount, Recount
  <2>3. c \in InFlight'
    BY <2>1, <2>2 DEF InFlight, CallState
  <2> QED BY <2>3 DEF ProbeOnItsWay
<1>3. ASSUME NEW c \in Call, Answered(c) PROVE ProbeOnItsWay'
  <2>1. /\ c \in DOMAIN calls /\ calls[c] \in CallState
        /\ Succeeded(breaker) \in Breaker /\ Succeeded(breaker).state # "half-open"
    BY <1>0, <1>3, BreakerType, BreakerMoves DEF Answered, Waits
  <2>2. CASE calls[c].statement < Statements(calls[c].kind)
    <3> DEFINE next == [calls[c] EXCEPT !.statement = @ + 1, !.attempt = 1]
    <3>1. calls[c].statement = 1
      BY <2>1, <2>2 DEF CallState, Statements
    <3>2. next \in CallState
      BY <2>1, <3>1, CallUpdate
    <3>3. Execute(c, next, Succeeded(breaker))
      BY <1>3, <2>2 DEF Answered
    <3> HIDE DEF next
    <3> QED BY <2>1, <3>2, <3>3, ExecuteProbes
  <2>3. CASE ~(calls[c].statement < Statements(calls[c].kind))
    BY <1>3, <2>1, <2>3 DEF Answered, ProbeOnItsWay
  <2> QED BY <2>2, <2>3
<1>4. ASSUME NEW c \in Call, Rejected(c) \/ Lost(c) PROVE ProbeOnItsWay'
  <2>1. breaker' = Failed(breaker)
    BY <1>4 DEF Rejected, Lost, Fails
  <2> QED BY <1>0, <2>1, BreakerMoves DEF ProbeOnItsWay
<1>5. ASSUME NEW c \in Call, Retry(c) PROVE ProbeOnItsWay'
  <2>1. Execute(c, calls[c], breaker) /\ c \in DOMAIN calls /\ calls[c].pc = "sleep"
    BY <1>5 DEF Retry, Waits
  <2>2. InFlight \ {c} = InFlight
    BY <2>1 DEF InFlight
  <2> QED BY <1>0, <2>1, <2>2, ExecuteProbes DEF ProbeOnItsWay
<1>6. CASE Cool
  BY <1>6 DEF Cool, ProbeOnItsWay, InFlight
<1> QED BY <1>1, <1>2, <1>3, <1>4, <1>5, <1>6, <1>7 DEF PgNext, Advance

\* A half-open circuit is never left to itself: some call is on its way whose
\* result closes or reopens it (withRetry, StorageCircuitBreaker).
THEOREM ProbesAreAnswered == Spec => []ProbeOnItsWay
<1>1. Init => ProbeOnItsWay
  BY DEF Init, PgInit, NewBreaker, ProbeOnItsWay
<1>2. PgTypeOK /\ ProbeOnItsWay /\ [Next]_vars => ProbeOnItsWay'
  <2> SUFFICES ASSUME PgTypeOK, ProbeOnItsWay, [Next]_vars PROVE ProbeOnItsWay'
    OBVIOUS
  <2>1. CASE PgNext
    BY <2>1, ProbeStep
  <2>2. CASE UNCHANGED pgVars
    BY <2>2 DEF pgVars, circuit, ProbeOnItsWay, InFlight
  <2> QED BY <2>1, <2>2 DEF Next, vars, Booting, Serving
<1> QED BY <1>1, <1>2, PgTypeCorrect, PTL DEF Spec

-----------------------------------------------------------------------------
(* The file adapter: types *)

Shown == (SUBSET Patch) \cup {None}
Line == {Garbage} \cup UNION {Range(b) : b \in Batches}
SessionFiles == [json : Shown, tmp : Shown, lines : Seq(Line), torn : BOOLEAN]

WriteRecord ==
    [kind : {"save", "update", "append", "delete"}, dir : Dir, item : Dir \cup Patch \cup Batches,
     pc : {"mkdir", "load", "tmp", "rename", "append", "rm", "unlock"},
     after : Writer \cup {None}, seen : SUBSET Patch]
WriteState ==
    {write \in WriteRecord :
        /\ write.kind = "save" => write.item = write.dir /\ write.pc \in {"mkdir", "tmp", "rename"}
        /\ write.kind = "update" => write.item \in Patch /\ write.pc \in {"load", "tmp", "rename"}
        /\ write.kind = "append" => write.item \in Batches /\ write.pc = "append"
        /\ write.kind = "delete" => write.item = write.dir /\ write.pc \in {"rm", "unlock"}
        /\ write.kind \in {"save", "delete"} => write.after = None
        /\ write.after # None => write.pc \in {"load", "append"}}

FileTypeOK ==
    /\ MapInto(disk, Dir, SessionFiles)
    /\ MapInto(chain, Dir, Writer)
    /\ MapInto(writes, Writer, WriteState)
    /\ issued \subseteq Dir \cup Patch \cup Batches
    /\ durable \in [Dir -> SUBSET (Dir \cup Patch \cup Batches)]
    /\ crashes \in Nat

\* The calls of a session that go through withWriteLock.
Locked(d) == {w \in DOMAIN writes : writes[w].kind \in {"update", "append"} /\ writes[w].dir = d}

\* Until its save has resolved nobody knows a session, and it is saved once.
KnownOnceSaved ==
    /\ \A d \in Dir : d \in durable[d] => d \in issued
    /\ \A d \in Dir : d \notin durable[d] => durable[d] = {} /\ d \notin DOMAIN chain
    /\ \A w \in DOMAIN writes :
         writes[w].kind = "save" <=> writes[w].dir \notin durable[writes[w].dir]
    /\ \A w \in DOMAIN writes : writes[w].kind = "save" =>
         /\ writes[w].dir \in issued
         /\ \A v \in DOMAIN writes : writes[v].kind = "save" /\ writes[v].dir = writes[w].dir => v = w

\* A directory that deleteSession has removed does not come back.
GoneForGood ==
    \A w \in DOMAIN writes : writes[w].pc = "unlock" => writes[w].dir \notin DOMAIN disk

\* The calls that the chain of a session holds, first to last.
Queue(d, q) ==
    /\ \A i, j \in 1..Len(q) : q[i] = q[j] => i = j
    /\ \A w \in Locked(d) : \E i \in 1..Len(q) : q[i] = w
    /\ \A i \in 1..Len(q) :
         /\ q[i] \in Locked(d)
         /\ writes[q[i]].after = IF i = 1 THEN None ELSE q[i - 1]
    /\ d \in DOMAIN chain <=> q # <<>>
    /\ q # <<>> => chain[d] = q[Len(q)]

\* As long as its directory is there, the pending calls of a session form one
\* chain, whose head alone runs.  (deleteSession may break the chain of a
\* session that is gone.)
OneChain == \A d \in DOMAIN disk : \E q \in Seq(Writer) : Queue(d, q)

\* What an update writes holds its patch and all those that have resolved; the
\* .tmp is its own.
NothingDropped ==
    /\ UpdatesSurvive
    /\ \A w \in DOMAIN writes : LET d == writes[w].dir IN
         writes[w].kind = "update" /\ writes[w].pc \in {"tmp", "rename"} /\ d \in DOMAIN disk =>
            /\ durable[d] \cap Patch \subseteq writes[w].seen
            /\ writes[w].item \in writes[w].seen
            /\ writes[w].pc = "rename" => disk[d].tmp = writes[w].seen

\* The events that were acknowledged and are on no line of the file: a torn
\* line has cost one, or will when the next batch continues it.
Acked(d) == UNION {Range(b) : b \in durable[d] \cap Batches}
Missing(d) == Acked(d) \ Range(disk[d].lines)
FewMissing ==
    \A d \in DOMAIN disk :
        /\ IsFiniteSet(Missing(d))
        /\ Cardinality(Missing(d)) + (IF disk[d].torn THEN 1 ELSE 0) <= crashes

FileInv == FileTypeOK /\ KnownOnceSaved /\ GoneForGood /\ OneChain /\ NothingDropped

\* What Settle does to the calls that go on.
LEMMA SettleCalls ==
    ASSUME FileTypeOK, NEW w \in DOMAIN writes, Settle(w)
    PROVE  /\ DOMAIN writes' = DOMAIN writes \ {w}
           /\ MapInto(writes', Writer, WriteState) /\ MapInto(chain', Dir, Writer)
           /\ \A v \in DOMAIN writes' :
                /\ writes'[v].kind = writes[v].kind /\ writes'[v].dir = writes[v].dir
                /\ writes'[v].item = writes[v].item /\ writes'[v].pc = writes[v].pc
                /\ writes'[v].seen = writes[v].seen
                /\ writes'[v].after = IF writes[v].after = w THEN None ELSE writes[v].after
<1>1. /\ writes' = [v \in DOMAIN writes \ {w} |->
                      [writes[v] EXCEPT !.after = IF @ = w THEN None ELSE @]]
      /\ MapInto(writes, Writer, WriteState)
  BY DEF Settle, FileTypeOK
<1>2. ASSUME NEW v \in DOMAIN writes \ {w}
      PROVE  /\ writes'[v] \in WriteState
             /\ writes'[v].kind = writes[v].kind /\ writes'[v].dir = writes[v].dir
             /\ writes'[v].item = writes[v].item /\ writes'[v].pc = writes[v].pc
             /\ writes'[v].seen = writes[v].seen
             /\ writes'[v].after = IF writes[v].after = w THEN None ELSE writes[v].after
  <2>1. writes[v] \in WriteState /\ writes[v] \in WriteRecord
    BY <1>1 DEF MapInto, WriteState
  <2>2. writes'[v] = [writes[v] EXCEPT !.after = IF writes[v].after = w THEN None ELSE writes[v].after]
    BY <1>1
  <2>3. /\ writes'[v].kind = writes[v].kind /\ writes'[v].dir = writes[v].dir
        /\ writes'[v].item = writes[v].item /\ writes'[v].pc = writes[v].pc
        /\ writes'[v].seen = writes[v].seen
        /\ writes'[v].after = IF writes[v].after = w THEN None ELSE writes[v].after
    BY <2>1, <2>2 DEF WriteRecord
  <2>4. writes'[v] \in WriteRecord
    BY <2>1, <2>2 DEF WriteRecord
  <2>5. writes'[v] \in WriteState
    BY <2>1, <2>3, <2>4 DEF WriteState
  <2> QED BY <2>3, <2>5
<1>3. MapInto(chain', Dir, Writer)
  BY DEF Settle, FileTypeOK, MapInto, Without
<1>4. DOMAIN writes' = DOMAIN writes \ {w}
  BY <1>1
<1>5. MapInto(writes', Writer, WriteState)
  <2>1. DOMAIN writes' \subseteq Writer /\ writes' = [v \in DOMAIN writes' |-> writes'[v]]
    BY <1>1, <1>4 DEF MapInto
  <2> QED BY <1>2, <1>4, <2>1 DEF MapInto
<1> QED BY <1>2, <1>3, <1>4, <1>5

\* What a file operation does to its call.
LEMMA StepCalls ==
    ASSUME FileTypeOK, NEW w \in DOMAIN writes, NEW pc, Step(w, pc),
           [writes[w] EXCEPT !.pc = pc] \in WriteState
    PROVE  /\ DOMAIN writes' = DOMAIN writes
           /\ MapInto(writes', Writer, WriteState)
           /\ \A v \in DOMAIN writes \ {w} : writes'[v] = writes[v]
           /\ writes'[w].kind = writes[w].kind /\ writes'[w].dir = writes[w].dir
           /\ writes'[w].item = writes[w].item /\ writes'[w].pc = pc
           /\ writes'[w].seen = writes[w].seen /\ writes'[w].after = writes[w].after
<1>1. writes[w] \in WriteRecord /\ writes' = [writes EXCEPT ![w].pc = pc]
  BY DEF FileTypeOK, MapInto, WriteState, Step
<1>2. /\ DOMAIN writes' = DOMAIN writes
      /\ writes'[w] = [writes[w] EXCEPT !.pc = pc]
      /\ \A v \in DOMAIN writes \ {w} : writes'[v] = writes[v]
      /\ writes' = [v \in DOMAIN writes |-> writes'[v]]
  BY <1>1 DEF FileTypeOK, MapInto
<1>3. MapInto(writes', Writer, WriteState)
  BY <1>2 DEF FileTypeOK, MapInto
<1>4. /\ writes'[w].kind = writes[w].kind /\ writes'[w].dir = writes[w].dir
      /\ writes'[w].item = writes[w].item /\ writes'[w].pc = pc
      /\ writes'[w].seen = writes[w].seen /\ writes'[w].after = writes[w].after
  BY <1>1, <1>2 DEF WriteRecord
<1> QED BY <1>2, <1>3, <1>4

\* What a new call looks like.
LEMMA NewCalls ==
    ASSUME FileTypeOK, NEW w \in Writer, w \notin DOMAIN writes,
           NEW kind, NEW d \in Dir, NEW item, NEW pc, NEW after, New(w, kind, d, item, pc, after),
           [kind |-> kind, dir |-> d, item |-> item, pc |-> pc, after |-> after, seen |-> {}] \in WriteState
    PROVE  /\ DOMAIN writes' = DOMAIN writes \cup {w}
           /\ MapInto(writes', Writer, WriteState)
           /\ \A v \in DOMAIN writes : writes'[v] = writes[v]
           /\ writes'[w].kind = kind /\ writes'[w].dir = d /\ writes'[w].item = item
           /\ writes'[w].pc = pc /\ writes'[w].after = after /\ writes'[w].seen = {}
<1>1. writes' = Put(writes, w, [kind |-> kind, dir |-> d, item |-> item, pc |-> pc,
                                after |-> after, seen |-> {}])
  BY DEF New
<1>2. /\ DOMAIN writes' = DOMAIN writes \cup {w}
      /\ \A v \in DOMAIN writes : writes'[v] = writes[v]
      /\ writes'[w] = [kind |-> kind, dir |-> d, item |-> item, pc |-> pc, after |-> after, seen |-> {}]
  BY <1>1 DEF Put
<1>3. writes' = [v \in DOMAIN writes' |-> writes'[v]]
  BY <1>1 DEF Put
<1>4. MapInto(writes', Writer, WriteState)
  BY <1>2, <1>3 DEF FileTypeOK, MapInto
<1> QED BY <1>2, <1>4

\* What the place of a call tells about it.
LEMMA DoingCall ==
    ASSUME FileTypeOK, NEW w, NEW pc, Doing(w, pc)
    PROVE  /\ w \in DOMAIN writes /\ w \in Writer /\ writes[w] \in WriteState
           /\ writes[w].pc = pc /\ writes[w].after = None /\ writes[w].dir \in Dir
           /\ pc = "mkdir" => writes[w].kind = "save"
           /\ pc = "load" => writes[w].kind = "update"
           /\ pc \in {"tmp", "rename"} => writes[w].kind \in {"save", "update"}
           /\ pc = "append" => writes[w].kind = "append"
           /\ pc \in {"rm", "unlock"} => writes[w].kind = "delete"
<1>1. w \in DOMAIN writes /\ w \in Writer /\ writes[w] \in WriteState
      /\ writes[w].pc = pc /\ writes[w].after = None
  BY DEF Doing, FileTypeOK, MapInto
<1>2. writes[w].kind \in {"save", "update", "append", "delete"} /\ writes[w].dir \in Dir
  BY <1>1 DEF WriteState, WriteRecord
<1> QED BY <1>1, <1>2 DEF WriteState

-----------------------------------------------------------------------------
(* The file adapter: one chain per session *)

\* A step that neither starts nor ends a locked call.
LEMMA ChainKept ==
    ASSUME OneChain, DOMAIN disk' \subseteq DOMAIN disk, UNCHANGED chain,
           \A w \in DOMAIN writes : writes[w].kind \in {"update", "append"} =>
                /\ w \in DOMAIN writes'
                /\ writes'[w].kind = writes[w].kind /\ writes'[w].dir = writes[w].dir
                /\ writes'[w].after = writes[w].after,
           \A w \in DOMAIN writes' : writes'[w].kind \in {"update", "append"} =>
                w \in DOMAIN writes /\ writes[w].kind = writes'[w].kind
    PROVE  OneChain'
<1> SUFFICES ASSUME NEW d \in DOMAIN disk' PROVE (\E q \in Seq(Writer) : Queue(d, q))'
  BY DEF OneChain
<1>1. PICK q \in Seq(Writer) : Queue(d, q)
  BY DEF OneChain
<1>2. Locked(d)' = Locked(d)
  BY DEF Locked
<1>3. \A w \in Locked(d) : writes'[w].after = writes[w].after
  BY DEF Locked
<1>4. Queue(d, q)'
  BY <1>1, <1>2, <1>3 DEF Queue
<1> QED BY <1>4

\* withWriteLock puts a call at the end of the chain of its session.
LEMMA ChainGrows ==
    ASSUME FileTypeOK, OneChain, UNCHANGED disk, NEW w \in Writer, w \notin DOMAIN writes, NEW e \in Dir,
           DOMAIN writes' = DOMAIN writes \cup {w},
           \A v \in DOMAIN writes : writes'[v] = writes[v],
           writes'[w].kind \in {"update", "append"}, writes'[w].dir = e,
           writes'[w].after = IF e \in DOMAIN chain THEN chain[e] ELSE None,
           chain' = Put(chain, e, w)
    PROVE  OneChain'
<1> SUFFICES ASSUME NEW d \in DOMAIN disk PROVE (\E q \in Seq(Writer) : Queue(d, q))'
  BY DEF OneChain
<1>1. PICK q \in Seq(Writer) : Queue(d, q)
  BY DEF OneChain
<1>2. \A i \in 1..Len(q) : q[i] \in Locked(d) /\ q[i] \in DOMAIN writes /\ q[i] # w
  BY <1>1 DEF Queue, Locked
<1>3. CASE d # e
  <2>1. Locked(d)' = Locked(d)
    BY <1>3 DEF Locked
  <2>2. (d \in DOMAIN chain' <=> d \in DOMAIN chain) /\ (d \in DOMAIN chain => chain'[d] = chain[d])
    BY <1>3 DEF Put
  <2>3. \A i \in 1..Len(q) : writes'[q[i]].after = writes[q[i]].after
    BY <1>2
  <2>4. (d \in DOMAIN chain' <=> q # <<>>) /\ (q # <<>> => chain'[d] = q[Len(q)])
    BY <1>1, <2>2 DEF Queue
  <2>5. Queue(d, q)'
    BY <1>1, <2>1, <2>3, <2>4 DEF Queue
  <2> QED BY <2>5
<1>4. CASE d = e
  <2> DEFINE r == Append(q, w)
  <2>1. r \in Seq(Writer) /\ Len(r) = Len(q) + 1 /\ r[Len(q) + 1] = w
        /\ \A i \in 1..Len(q) : r[i] = q[i]
    BY AppendProperties
  <2>2. Locked(d)' = Locked(d) \cup {w}
    BY <1>4 DEF Locked
  <2>3. d \in DOMAIN chain' /\ chain'[d] = w
    BY <1>4 DEF Put
  <2>4. writes'[w].after = IF Len(q) = 0 THEN None ELSE q[Len(q)]
    BY <1>1, <1>4, EmptySeq DEF Queue
  <2> HIDE DEF r
  <2>5. r # <<>> /\ Len(q) \in Nat
    BY <2>1
  <2>6. \A i, j \in 1..Len(r) : r[i] = r[j] => i = j
    BY <1>1, <1>2, <2>1, <2>5 DEF Queue
  <2>7. \A v \in Locked(d)' : \E i \in 1..Len(r) : r[i] = v
    <3> SUFFICES ASSUME NEW v \in Locked(d)' PROVE \E i \in 1..Len(r) : r[i] = v
      OBVIOUS
    <3>1. CASE v = w
      BY <2>1, <2>5, <3>1
    <3>2. CASE v \in Locked(d)
      <4>1. PICK i \in 1..Len(q) : q[i] = v
        BY <1>1, <3>2 DEF Queue
      <4> QED BY <2>1, <2>5, <4>1
    <3> QED BY <2>2, <3>1, <3>2
  <2>8. \A i \in 1..Len(r) : r[i] \in Locked(d)'
                             /\ writes'[r[i]].after = IF i = 1 THEN None ELSE r[i - 1]
    <3> SUFFICES ASSUME NEW i \in 1..Len(r)
                 PROVE  r[i] \in Locked(d)' /\ writes'[r[i]].after = IF i = 1 THEN None ELSE r[i - 1]
      OBVIOUS
    <3>1. CASE i \in 1..Len(q)
      BY <1>1, <1>2, <2>1, <2>2, <2>5, <3>1 DEF Queue
    <3>2. CASE i = Len(q) + 1
      BY <2>1, <2>2, <2>4, <2>5, <3>2
    <3> QED BY <2>1, <2>5, <3>1, <3>2
  <2>9. Queue(d, r)'
    BY <2>1, <2>3, <2>5, <2>6, <2>7, <2>8 DEF Queue
  <2> QED BY <2>1, <2>9
<1> QED BY <1>3, <1>4

\* A call that runs is the head of the chain of its session.
LEMMA HeadRuns ==
    ASSUME NEW d, NEW q \in Seq(Writer), Queue(d, q), NEW w \in Locked(d), writes[w].after = None
    PROVE  q # <<>> /\ Len(q) \in Nat \ {0} /\ q[1] = w
<1>1. PICK i \in 1..Len(q) : q[i] = w
  BY DEF Queue
<1>2. i = 1
  <2> SUFFICES ASSUME i # 1 PROVE FALSE
    OBVIOUS
  <2>1. i - 1 \in 1..Len(q) /\ q[i - 1] = None
    BY <1>1 DEF Queue
  <2> QED BY <2>1, FileAssumption, ElementOfSeq
<1> QED BY <1>1, <1>2, EmptySeq

\* The head of a chain settles and the next call takes its place.
LEMMA ChainSettles ==
    ASSUME FileTypeOK, OneChain, DOMAIN disk' \subseteq DOMAIN disk,
           NEW w \in DOMAIN writes, Settle(w), writes[w].after = None
    PROVE  OneChain'
<1> SUFFICES ASSUME NEW d \in DOMAIN disk' PROVE (\E q \in Seq(Writer) : Queue(d, q))'
  BY DEF OneChain
<1>1. PICK q \in Seq(Writer) : Queue(d, q)
  BY DEF OneChain
<1>2. /\ DOMAIN writes' = DOMAIN writes \ {w}
      /\ \A v \in DOMAIN writes' :
           /\ writes'[v].kind = writes[v].kind /\ writes'[v].dir = writes[v].dir
           /\ writes'[v].after = IF writes[v].after = w THEN None ELSE writes[v].after
  BY SettleCalls
<1>3. chain' = Without(chain, {e \in DOMAIN chain : chain[e] = w})
  BY DEF Settle
<1>4. Locked(d)' = Locked(d) \ {w}
  BY <1>2 DEF Locked
<1>5. (d \in DOMAIN chain' <=> d \in DOMAIN chain /\ chain[d] # w)
      /\ (d \in DOMAIN chain' => chain'[d] = chain[d])
  BY <1>3 DEF Without
<1>6. \A i \in 1..Len(q) : q[i] \in Locked(d) /\ q[i] \in DOMAIN writes
  BY <1>1 DEF Queue, Locked
<1>7. CASE w \notin Locked(d)
  <2>1. \A i \in 1..Len(q) : q[i] # w /\ q[i] \in Locked(d)' /\ q[i] \in DOMAIN writes'
    BY <1>2, <1>4, <1>6, <1>7
  <2>2. \A i \in 1..Len(q) : writes'[q[i]].after = IF i = 1 THEN None ELSE q[i - 1]
    <3> SUFFICES ASSUME NEW i \in 1..Len(q)
                 PROVE  writes'[q[i]].after = IF i = 1 THEN None ELSE q[i - 1]
      OBVIOUS
    <3>1. i # 1 => i - 1 \in 1..Len(q)
      OBVIOUS
    <3> QED BY <1>1, <1>2, <2>1, <3>1 DEF Queue
  <2>3. (q # <<>> => chain[d] # w) /\ Locked(d)' = Locked(d)
    <3>1. q # <<>> => Len(q) \in 1..Len(q)
      BY EmptySeq
    <3> QED BY <1>1, <1>4, <1>7, <2>1, <3>1 DEF Queue
  <2>4. Queue(d, q)'
    BY <1>1, <1>5, <2>1, <2>2, <2>3 DEF Queue
  <2> QED BY <2>4
<1>8. CASE w \in Locked(d)
  <2> DEFINE r == Tail(q)
  <2>1. q # <<>> /\ Len(q) \in Nat \ {0} /\ q[1] = w
    BY <1>1, <1>8, HeadRuns
  <2>2. /\ r \in Seq(Writer) /\ Len(r) = Len(q) - 1
        /\ \A i \in 1..Len(r) : r[i] = q[i + 1]
    BY <2>1, HeadTailProperties
  <2> HIDE DEF r
  <2>3. \A i, j \in 1..Len(r) : r[i] = r[j] => i = j
    <3> SUFFICES ASSUME NEW i \in 1..Len(r), NEW j \in 1..Len(r), r[i] = r[j] PROVE i = j
      OBVIOUS
    <3>1. i + 1 \in 1..Len(q) /\ j + 1 \in 1..Len(q) /\ q[i + 1] = q[j + 1]
      BY <2>1, <2>2
    <3>2. i + 1 = j + 1
      BY <1>1, <3>1 DEF Queue
    <3> QED BY <3>2
  <2>4. \A v \in Locked(d)' : \E i \in 1..Len(r) : r[i] = v
    <3> SUFFICES ASSUME NEW v \in Locked(d)' PROVE \E i \in 1..Len(r) : r[i] = v
      OBVIOUS
    <3>1. PICK i \in 1..Len(q) : q[i] = v
      BY <1>1, <1>4 DEF Queue
    <3>2. i # 1
      BY <1>4, <2>1, <3>1
    <3>3. i - 1 \in 1..Len(r) /\ r[i - 1] = v
      BY <2>1, <2>2, <3>1, <3>2
    <3> QED BY <3>3
  <2>5. \A i \in 1..Len(r) : r[i] \in Locked(d)'
                             /\ writes'[r[i]].after = IF i = 1 THEN None ELSE r[i - 1]
    <3> SUFFICES ASSUME NEW i \in 1..Len(r)
                 PROVE  r[i] \in Locked(d)' /\ writes'[r[i]].after = IF i = 1 THEN None ELSE r[i - 1]
      OBVIOUS
    <3>1. i + 1 \in 1..Len(q) /\ r[i] = q[i + 1] /\ 1 \in 1..Len(q) /\ i \in 1..Len(q)
      BY <2>1, <2>2
    <3>2. r[i] # w /\ r[i] \in Locked(d) /\ r[i] \in DOMAIN writes'
      BY <1>1, <1>2, <1>6, <2>1, <3>1 DEF Queue
    <3>3. writes[r[i]].after = q[i]
      BY <1>1, <3>1 DEF Queue
    <3>4. i # 1 => q[i] # w /\ q[i] = r[i - 1]
      BY <1>1, <2>1, <2>2, <3>1 DEF Queue
    <3> QED BY <1>2, <1>4, <2>1, <3>2, <3>3, <3>4
  <2>6. (d \in DOMAIN chain' <=> r # <<>>) /\ (r # <<>> => chain'[d] = r[Len(r)])
    <3>1. d \in DOMAIN chain /\ chain[d] = q[Len(q)]
      BY <1>1, <2>1 DEF Queue
    <3>2. r # <<>> <=> Len(q) # 1
      BY <2>1, <2>2, EmptySeq
    <3>3. q[Len(q)] = w <=> Len(q) = 1
      <4>1. 1 \in 1..Len(q) /\ Len(q) \in 1..Len(q)
        BY <2>1
      <4> QED BY <1>1, <2>1, <4>1 DEF Queue
    <3>4. r # <<>> => q[Len(q)] = r[Len(r)]
      BY <2>1, <2>2, <3>2
    <3> QED BY <1>5, <3>1, <3>2, <3>3, <3>4
  <2>7. Queue(d, r)'
    BY <2>3, <2>4, <2>5, <2>6 DEF Queue
  <2> QED BY <2>2, <2>7
<1> QED BY <1>7, <1>8

\* At most one locked call of a session runs.
LEMMA OneRunner ==
    ASSUME OneChain, NEW d \in DOMAIN disk, NEW v \in Locked(d), NEW w \in Locked(d),
           writes[v].after = None, writes[w].after = None
    PROVE  v = w
<1>1. PICK q \in Seq(Writer) : Queue(d, q)
  BY DEF OneChain
<1>2. q[1] = v /\ q[1] = w
  BY <1>1, HeadRuns
<1> QED BY <1>2

-----------------------------------------------------------------------------
(* The file adapter: what its steps keep *)

\* A step after which nothing new is known of a session.
LEMMA KnownKept ==
    ASSUME KnownOnceSaved, UNCHANGED <<durable, issued>>, DOMAIN chain' \subseteq DOMAIN chain,
           \A w \in DOMAIN writes' : w \in DOMAIN writes
                /\ writes'[w].kind = writes[w].kind /\ writes'[w].dir = writes[w].dir
    PROVE  KnownOnceSaved'
BY DEF KnownOnceSaved

\* A call resolves; a save makes its session known.
LEMMA KnownResolved ==
    ASSUME FileTypeOK, KnownOnceSaved, UNCHANGED issued,
           NEW w \in DOMAIN writes, Settle(w), writes[w].kind # "delete",
           durable' = [durable EXCEPT ![writes[w].dir] = @ \cup {writes[w].item}]
    PROVE  KnownOnceSaved'
<1> DEFINE d == writes[w].dir
<1>1. /\ DOMAIN writes' = DOMAIN writes \ {w}
      /\ \A v \in DOMAIN writes' : writes'[v].kind = writes[v].kind /\ writes'[v].dir = writes[v].dir
  BY SettleCalls
<1>2. writes[w] \in WriteState /\ d \in Dir /\ \A v \in DOMAIN writes : writes[v].dir \in Dir
  BY DEF FileTypeOK, MapInto, WriteState, WriteRecord
<1>3. /\ durable'[d] = durable[d] \cup {writes[w].item}
      /\ \A e \in Dir : e # d => durable'[e] = durable[e]
  BY <1>2 DEF FileTypeOK
<1>4. DOMAIN chain' \subseteq DOMAIN chain
  BY DEF Settle, Without
<1>5. CASE writes[w].kind = "save"
  <2>1. writes[w].item = d
    BY <1>2, <1>5 DEF WriteState
  <2>2. d \in durable'[d] /\ d \in issued
    BY <1>3, <1>5, <2>1 DEF KnownOnceSaved
  <2>3. \A v \in DOMAIN writes' : writes[v].dir # d
    BY <1>1, <1>5 DEF KnownOnceSaved
  <2> HIDE DEF d
  <2>4. \A v \in DOMAIN writes' :
            writes'[v].dir \in Dir \ {d} /\ durable'[writes'[v].dir] = durable[writes[v].dir]
    BY <1>1, <1>2, <1>3, <2>3
  <2> QED BY <1>1, <1>3, <1>4, <2>2, <2>4 DEF KnownOnceSaved
<1>6. CASE writes[w].kind # "save"
  <2>1. d \in durable[d]
    BY <1>6 DEF KnownOnceSaved
  <2>2. \A e \in Dir : e \in durable'[e] <=> e \in durable[e]
    BY <1>3, <2>1
  <2>3. \A e \in Dir : e \notin durable'[e] => durable'[e] = {}
    BY <1>3, <2>1, <2>2 DEF KnownOnceSaved
  <2> QED BY <1>1, <1>2, <1>4, <2>2, <2>3 DEF KnownOnceSaved
<1> QED BY <1>5, <1>6

\* A step that neither resolves a call nor touches session.json and its .tmp.
LEMMA DroppedKept ==
    ASSUME NothingDropped, UNCHANGED durable, DOMAIN disk' \subseteq DOMAIN disk,
           \A d \in DOMAIN disk' : disk'[d].json = disk[d].json /\ disk'[d].tmp = disk[d].tmp,
           \A w \in DOMAIN writes' : writes'[w].kind = "update" /\ writes'[w].pc \in {"tmp", "rename"} =>
                /\ w \in DOMAIN writes
                /\ writes'[w].kind = writes[w].kind /\ writes'[w].dir = writes[w].dir
                /\ writes'[w].item = writes[w].item /\ writes'[w].pc = writes[w].pc
                /\ writes'[w].seen = writes[w].seen
    PROVE  NothingDropped'
<1>1. UpdatesSurvive'
  BY DEF NothingDropped, UpdatesSurvive
<1> QED BY <1>1 DEF NothingDropped

\* A call that rejects, and one that settles without a trace in the directory.
LEMMA RejectKeeps ==
    ASSUME FileInv, NEW w, NEW pc, Doing(w, pc), Reject(w), UNCHANGED <<disk, issued, crashes>>
    PROVE  FileInv'
<1>1. w \in DOMAIN writes /\ writes[w].after = None
  BY DEF Doing
<1> USE DEF FileInv
<1>2. Settle(w) /\ UNCHANGED durable
  BY DEF Reject
<1>3. FileTypeOK'
  BY <1>1, <1>2, SettleCalls DEF FileTypeOK
<1>4. KnownOnceSaved'
  <2>1. DOMAIN chain' \subseteq DOMAIN chain
    BY <1>2 DEF Settle, Without
  <2> QED BY <1>1, <1>2, <2>1, SettleCalls, KnownKept
<1>5. GoneForGood'
  BY <1>1, <1>2, SettleCalls DEF GoneForGood
<1>6. OneChain'
  BY <1>1, <1>2, ChainSettles
<1>7. NothingDropped'
  BY <1>1, <1>2, SettleCalls, DroppedKept
<1> QED BY <1>3, <1>4, <1>5, <1>6, <1>7

LEMMA SaveIssued ==
    ASSUME FileInv, NEW w \in Writer, NEW d \in Dir, FileSaveSession(w, d)
    PROVE  FileInv'
<1> USE DEF FileInv
<1>1. /\ d \notin issued /\ issued' = issued \cup {d} /\ w \notin DOMAIN writes
      /\ New(w, "save", d, d, "mkdir", None) /\ UNCHANGED <<disk, chain, durable, crashes>>
  BY DEF FileSaveSession, Unlocked
<1>2. [kind |-> "save", dir |-> d, item |-> d, pc |-> "mkdir", after |-> None, seen |-> {}] \in WriteState
  BY DEF WriteState, WriteRecord
<1>3. /\ DOMAIN writes' = DOMAIN writes \cup {w} /\ MapInto(writes', Writer, WriteState)
      /\ \A v \in DOMAIN writes : writes'[v] = writes[v]
      /\ writes'[w].kind = "save" /\ writes'[w].dir = d /\ writes'[w].pc = "mkdir"
  BY <1>1, <1>2, NewCalls
<1>4. FileTypeOK'
  BY <1>1, <1>3 DEF FileTypeOK
<1>5. KnownOnceSaved'
  <2>1. d \notin durable[d] /\ \A v \in DOMAIN writes : writes[v].kind = "save" => writes[v].dir # d
    BY <1>1 DEF KnownOnceSaved
  <2> QED BY <1>1, <1>3, <2>1 DEF KnownOnceSaved
<1>6. GoneForGood'
  BY <1>1, <1>3 DEF GoneForGood
<1>7. OneChain'
  BY <1>1, <1>3, ChainKept
<1>8. NothingDropped'
  BY <1>1, <1>3, DroppedKept
<1> QED BY <1>4, <1>5, <1>6, <1>7, <1>8

LEMMA DeleteIssued ==
    ASSUME FileInv, NEW w \in Writer, NEW d \in Dir, FileDeleteSession(w, d)
    PROVE  FileInv'
<1> USE DEF FileInv
<1>1. /\ d \in durable[d] /\ w \notin DOMAIN writes
      /\ New(w, "delete", d, d, "rm", None) /\ UNCHANGED <<disk, chain, durable, crashes, issued>>
  BY DEF FileDeleteSession, Unlocked
<1>2. [kind |-> "delete", dir |-> d, item |-> d, pc |-> "rm", after |-> None, seen |-> {}] \in WriteState
  BY DEF WriteState, WriteRecord
<1>3. /\ DOMAIN writes' = DOMAIN writes \cup {w} /\ MapInto(writes', Writer, WriteState)
      /\ \A v \in DOMAIN writes : writes'[v] = writes[v]
      /\ writes'[w].kind = "delete" /\ writes'[w].dir = d /\ writes'[w].pc = "rm"
  BY <1>1, <1>2, NewCalls
<1>4. FileTypeOK'
  BY <1>1, <1>3 DEF FileTypeOK
<1>5. KnownOnceSaved'
  BY <1>1, <1>3 DEF KnownOnceSaved
<1>6. GoneForGood'
  BY <1>1, <1>3 DEF GoneForGood
<1>7. OneChain'
  BY <1>1, <1>3, ChainKept
<1>8. NothingDropped'
  BY <1>1, <1>3, DroppedKept
<1> QED BY <1>4, <1>5, <1>6, <1>7, <1>8

\* updateSessionStatus and appendEvents queue behind the session's last call.
LEMMA LockedIssued ==
    ASSUME FileInv, NEW w \in Writer, NEW d \in Dir, NEW kind, NEW item, NEW pc,
           d \in durable[d], issued' = issued \cup {item},
           WithWriteLock(w, kind, d, item, pc),
           \/ kind = "update" /\ item \in Patch /\ pc = "load"
           \/ kind = "append" /\ item \in Batches /\ pc = "append"
    PROVE  FileInv'
<1> DEFINE after == IF d \in DOMAIN chain THEN chain[d] ELSE None
<1> USE DEF FileInv
<1>1. /\ w \notin DOMAIN writes /\ New(w, kind, d, item, pc, after)
      /\ chain' = Put(chain, d, w) /\ UNCHANGED <<disk, durable, crashes>>
  BY DEF WithWriteLock
<1>2. after \in Writer \cup {None}
  BY DEF FileTypeOK, MapInto
<1> HIDE DEF after
<1>3. [kind |-> kind, dir |-> d, item |-> item, pc |-> pc, after |-> after, seen |-> {}] \in WriteState
  BY <1>2 DEF WriteState, WriteRecord
<1>4. /\ DOMAIN writes' = DOMAIN writes \cup {w} /\ MapInto(writes', Writer, WriteState)
      /\ \A v \in DOMAIN writes : writes'[v] = writes[v]
      /\ writes'[w].kind = kind /\ writes'[w].dir = d /\ writes'[w].pc = pc
      /\ writes'[w].after = after
  BY <1>1, <1>3, NewCalls
<1>5. FileTypeOK'
  <2>1. MapInto(chain', Dir, Writer)
    BY <1>1 DEF FileTypeOK, MapInto, Put
  <2> QED BY <1>1, <1>4, <2>1 DEF FileTypeOK
<1>6. KnownOnceSaved'
  <2>1. DOMAIN chain' = DOMAIN chain \cup {d}
    BY <1>1 DEF Put
  <2> QED BY <1>1, <1>4, <2>1 DEF KnownOnceSaved
<1>7. GoneForGood'
  BY <1>1, <1>4 DEF GoneForGood
<1>8. OneChain'
  BY <1>1, <1>4, ChainGrows DEF after
<1>9. NothingDropped'
  BY <1>1, <1>4, DroppedKept
<1> QED BY <1>5, <1>6, <1>7, <1>8, <1>9

LEMMA IssueKeeps ==
    ASSUME FileInv, NEW w \in Writer, NEW d \in Dir, Issue(w, d)
    PROVE  FileInv'
<1>1. ASSUME NEW p \in Patch, FileUpdateSessionStatus(w, d, p) PROVE FileInv'
  <2>1. d \in durable[d] /\ issued' = issued \cup {p} /\ WithWriteLock(w, "update", d, p, "load")
    BY <1>1 DEF FileUpdateSessionStatus
  <2> QED BY <2>1, LockedIssued
<1>2. ASSUME NEW b \in Batches, FileAppendEvents(w, d, b) PROVE FileInv'
  <2>1. d \in durable[d] /\ issued' = issued \cup {b} /\ WithWriteLock(w, "append", d, b, "append")
    BY <1>2 DEF FileAppendEvents
  <2> QED BY <2>1, LockedIssued
<1> QED BY <1>1, <1>2, SaveIssued, DeleteIssued DEF Issue

LEMMA MkdirKeeps ==
    ASSUME FileInv, NEW w, Mkdir(w), UNCHANGED <<issued, crashes>>
    PROVE  FileInv'
<1>0. PICK d : d = writes[w].dir
  OBVIOUS
<1> USE DEF FileInv
<1>1. /\ w \in DOMAIN writes /\ writes[w] \in WriteState /\ d \in Dir /\ writes[w].kind = "save"
      /\ Step(w, "tmp") /\ UNCHANGED <<chain, durable>> /\ Doing(w, "mkdir")
  BY <1>0, DoingCall DEF Mkdir
<1>2. [writes[w] EXCEPT !.pc = "tmp"] \in WriteState
  BY <1>1 DEF WriteState, WriteRecord
<1>3. /\ DOMAIN writes' = DOMAIN writes /\ MapInto(writes', Writer, WriteState)
      /\ \A v \in DOMAIN writes \ {w} : writes'[v] = writes[v]
      /\ writes'[w].kind = "save" /\ writes'[w].dir = d /\ writes'[w].pc = "tmp"
      /\ writes'[w].after = writes[w].after
  BY <1>0, <1>1, <1>2, StepCalls
<1>4. /\ DOMAIN disk' = DOMAIN disk \cup {d} /\ \A e \in DOMAIN disk : disk'[e] = disk[e]
      /\ d \notin DOMAIN disk => disk'[d] = SessionDir
      /\ disk' = [e \in DOMAIN disk' |-> disk'[e]]
  BY <1>0 DEF Mkdir, Put, FileTypeOK, MapInto
<1>5. SessionDir \in SessionFiles
  BY EmptySeq DEF SessionDir, SessionFiles, Shown
<1>6. d \notin durable[d] /\ durable[d] = {} /\ d \notin DOMAIN chain /\ Locked(d)' = {}
      /\ \A v \in DOMAIN writes : writes[v].dir = d => v = w
  <2>1. d \notin durable[d] /\ durable[d] = {} /\ d \notin DOMAIN chain
    BY <1>0, <1>1 DEF KnownOnceSaved
  <2>2. \A v \in DOMAIN writes : writes[v].dir = d => v = w
    BY <1>0, <1>1, <2>1 DEF KnownOnceSaved
  <2> QED BY <1>3, <2>1, <2>2 DEF Locked
<1>7. FileTypeOK'
  BY <1>1, <1>3, <1>4, <1>5 DEF FileTypeOK, MapInto
<1>8. KnownOnceSaved'
  BY <1>0, <1>1, <1>3, KnownKept
<1>9. GoneForGood'
  BY <1>3, <1>4, <1>6 DEF GoneForGood
<1>10. OneChain'
  <2>1. ASSUME NEW e \in DOMAIN disk, e # d PROVE (\E q \in Seq(Writer) : Queue(e, q))'
    <3>1. Locked(e)' = Locked(e) /\ \A v \in Locked(e) : writes'[v].after = writes[v].after
      BY <1>1, <1>3 DEF Locked
    <3>2. PICK q \in Seq(Writer) : Queue(e, q)
      BY DEF OneChain
    <3>3. Queue(e, q)'
      BY <1>1, <3>1, <3>2 DEF Queue
    <3> QED BY <3>3
  <2>2. (\E q \in Seq(Writer) : Queue(d, q))'
    <3>1. /\ <<>> \in Seq(Writer) /\ 1..Len(<<>>) = {}
          /\ d \notin DOMAIN chain'
      BY <1>1, <1>6, EmptySeq
    <3>2. Queue(d, <<>>)'
      BY <1>6, <3>1 DEF Queue
    <3> QED BY <3>1, <3>2
  <2>3. \A e \in DOMAIN disk' : (\E q \in Seq(Writer) : Queue(e, q))'
    BY <1>4, <2>1, <2>2
  <2> QED BY <2>3 DEF OneChain
<1>11. NothingDropped'
  <2>1. UpdatesSurvive'
    BY <1>1, <1>4, <1>6 DEF NothingDropped, UpdatesSurvive, SessionDir
  <2> QED BY <1>1, <1>3, <1>4, <1>6, <2>1 DEF NothingDropped
<1> QED BY <1>7, <1>8, <1>9, <1>10, <1>11

\* The update reads session.json: what it will write is all that was shown.
LEMMA LoadKeeps ==
    ASSUME FileInv, NEW w, Load(w), UNCHANGED <<issued, crashes>>
    PROVE  FileInv'
<1>0. PICK d : d = writes[w].dir
  OBVIOUS
<1> USE DEF FileInv
<1>1. /\ w \in DOMAIN writes /\ w \in Writer /\ writes[w] \in WriteState /\ d \in Dir
      /\ writes[w].kind = "update" /\ Doing(w, "load") /\ writes[w].after = None
  BY <1>0, DoingCall DEF Load
<1>2. CASE ~(d \in DOMAIN disk /\ disk[d].json # None)
  BY <1>0, <1>1, <1>2, RejectKeeps DEF Load
<1>3. CASE d \in DOMAIN disk /\ disk[d].json # None
  <2> DEFINE seen == disk[d].json \cup {writes[w].item}
  <2>1. /\ writes' = [writes EXCEPT ![w].pc = "tmp", ![w].seen = seen]
        /\ UNCHANGED <<disk, chain, durable>>
    BY <1>0, <1>3 DEF Load
  <2>2. writes[w].item \in Patch /\ seen \in SUBSET Patch
    <3>1. writes[w].item \in Patch
      BY <1>1 DEF WriteState
    <3>2. disk[d].json \in Shown
      BY <1>3 DEF FileTypeOK, MapInto, SessionFiles
    <3> QED BY <1>3, <3>1, <3>2 DEF Shown
  <2>3. durable[d] \cap Patch \subseteq seen /\ writes[w].item \in seen
    BY <1>3 DEF NothingDropped, UpdatesSurvive
  <2> HIDE DEF seen
  <2>4. /\ DOMAIN writes' = DOMAIN writes
        /\ writes'[w] = [writes[w] EXCEPT !.pc = "tmp", !.seen = seen]
        /\ \A v \in DOMAIN writes \ {w} : writes'[v] = writes[v]
        /\ writes' = [v \in DOMAIN writes |-> writes'[v]]
    BY <1>1, <2>1 DEF FileTypeOK, MapInto
  <2>5. writes[w] \in WriteRecord
    BY <1>1 DEF WriteState
  <2>6. /\ writes'[w].kind = "update" /\ writes'[w].dir = d /\ writes'[w].item = writes[w].item
        /\ writes'[w].pc = "tmp" /\ writes'[w].seen = seen /\ writes'[w].after = None
        /\ writes'[w] \in WriteRecord
    BY <1>0, <1>1, <2>2, <2>4, <2>5 DEF WriteRecord
  <2>7. writes'[w] \in WriteState
    BY <2>2, <2>6 DEF WriteState
  <2>8. FileTypeOK'
    BY <2>1, <2>4, <2>7 DEF FileTypeOK, MapInto
  <2>9. KnownOnceSaved'
    BY <1>0, <1>1, <2>1, <2>4, <2>6, KnownKept
  <2>10. GoneForGood'
    BY <2>1, <2>4, <2>6 DEF GoneForGood
  <2>11. OneChain'
    BY <1>0, <1>1, <2>1, <2>4, <2>6, ChainKept
  <2>12. NothingDropped'
    <3>1. UpdatesSurvive'
      BY <2>1 DEF NothingDropped, UpdatesSurvive
    <3> QED BY <2>1, <2>3, <2>4, <2>6, <3>1 DEF NothingDropped
  <2> QED BY <2>8, <2>9, <2>10, <2>11, <2>12
<1> QED BY <1>2, <1>3

\* While an update of a session that is there is between its read and its
\* rename, no other call writes that session.json or resolves an update of it.
LEMMA Exclusive ==
    ASSUME FileInv, NEW d \in DOMAIN disk, NEW w \in DOMAIN writes, writes[w].dir = d,
           writes[w].kind \in {"save", "update", "append"}, writes[w].after = None,
           NEW v \in DOMAIN writes, writes[v].dir = d, writes[v].kind = "update",
           writes[v].pc \in {"tmp", "rename"}
    PROVE  v = w
<1>1. writes[v].after = None
  BY DEF FileInv, FileTypeOK, MapInto, WriteState
<1>2. CASE writes[w].kind = "save"
  BY <1>2 DEF FileInv, KnownOnceSaved
<1>3. CASE writes[w].kind # "save"
  BY <1>1, <1>3, OneRunner DEF FileInv, Locked
<1> QED BY <1>2, <1>3

LEMMA WriteTmpKeeps ==
    ASSUME FileInv, NEW w, WriteTmp(w), UNCHANGED <<issued, crashes>>
    PROVE  FileInv'
<1>0. PICK d : d = writes[w].dir
  OBVIOUS
<1> USE DEF FileInv
<1>1. /\ w \in DOMAIN writes /\ writes[w] \in WriteState /\ d \in Dir
      /\ writes[w].kind \in {"save", "update"} /\ writes[w].pc = "tmp"
      /\ Doing(w, "tmp") /\ writes[w].after = None
  BY <1>0, DoingCall DEF WriteTmp
<1>2. CASE d \notin DOMAIN disk
  BY <1>0, <1>1, <1>2, RejectKeeps DEF WriteTmp
<1>3. CASE d \in DOMAIN disk
  <2>1. /\ disk' = [disk EXCEPT ![d].tmp = writes[w].seen]
        /\ Step(w, "rename") /\ UNCHANGED <<chain, durable>>
    BY <1>0, <1>3 DEF WriteTmp
  <2>2. [writes[w] EXCEPT !.pc = "rename"] \in WriteState /\ writes[w].seen \in SUBSET Patch
    BY <1>1 DEF WriteState, WriteRecord
  <2>3. /\ DOMAIN writes' = DOMAIN writes /\ MapInto(writes', Writer, WriteState)
        /\ \A v \in DOMAIN writes \ {w} : writes'[v] = writes[v]
        /\ writes'[w].kind = writes[w].kind /\ writes'[w].dir = d
        /\ writes'[w].item = writes[w].item /\ writes'[w].pc = "rename"
        /\ writes'[w].seen = writes[w].seen /\ writes'[w].after = writes[w].after
    BY <1>0, <1>1, <2>1, <2>2, StepCalls
  <2>4. /\ DOMAIN disk' = DOMAIN disk /\ disk' = [e \in DOMAIN disk |-> disk'[e]]
        /\ disk'[d] = [disk[d] EXCEPT !.tmp = writes[w].seen]
        /\ \A e \in DOMAIN disk \ {d} : disk'[e] = disk[e]
    BY <1>3, <2>1 DEF FileTypeOK, MapInto
  <2>5. /\ disk[d] \in SessionFiles /\ disk'[d] \in SessionFiles
        /\ disk'[d].tmp = writes[w].seen /\ disk'[d].json = disk[d].json
    BY <1>3, <2>2, <2>4 DEF FileTypeOK, MapInto, SessionFiles, Shown
  <2>6. FileTypeOK'
    BY <2>1, <2>3, <2>4, <2>5 DEF FileTypeOK, MapInto
  <2>7. KnownOnceSaved'
    BY <1>0, <2>1, <2>3, KnownKept
  <2>8. GoneForGood'
    BY <2>3, <2>4 DEF GoneForGood
  <2>9. OneChain'
    BY <1>0, <2>1, <2>3, <2>4, ChainKept
  <2>10. NothingDropped'
    <3>1. UpdatesSurvive'
      BY <2>1, <2>4, <2>5 DEF NothingDropped, UpdatesSurvive
    <3>2. ASSUME NEW v \in DOMAIN writes', writes'[v].kind = "update", writes'[v].pc \in {"tmp", "rename"},
                 writes'[v].dir \in DOMAIN disk'
          PROVE  /\ durable'[writes'[v].dir] \cap Patch \subseteq writes'[v].seen
                 /\ writes'[v].item \in writes'[v].seen
                 /\ writes'[v].pc = "rename" => disk'[writes'[v].dir].tmp = writes'[v].seen
      <4>1. CASE v = w
        BY <1>0, <1>1, <1>3, <2>1, <2>3, <2>5, <3>2, <4>1 DEF NothingDropped
      <4>2. CASE v # w
        <5>1. writes'[v] = writes[v] /\ v \in DOMAIN writes
          BY <2>3, <4>2
        <5>2. writes[v].dir # d
          BY <1>0, <1>1, <1>3, <3>2, <4>2, <5>1, Exclusive
        <5> QED BY <2>1, <2>4, <3>2, <5>1, <5>2 DEF NothingDropped
      <4> QED BY <4>1, <4>2
    <3> QED BY <3>1, <3>2 DEF NothingDropped
  <2> QED BY <2>6, <2>7, <2>8, <2>9, <2>10
<1> QED BY <1>2, <1>3

\* The rename shows what the update has read and its own patch, and no other
\* update has resolved since.
LEMMA RenameKeeps ==
    ASSUME FileInv, NEW w, Rename(w), UNCHANGED <<issued, crashes>>
    PROVE  FileInv'
<1>0. PICK d : d = writes[w].dir
  OBVIOUS
<1> USE DEF FileInv
<1>1. /\ w \in DOMAIN writes /\ writes[w] \in WriteState /\ d \in Dir
      /\ writes[w].kind \in {"save", "update"} /\ writes[w].pc = "rename"
      /\ Doing(w, "rename") /\ writes[w].after = None
  BY <1>0, DoingCall DEF Rename
<1>2. CASE ~(d \in DOMAIN disk /\ disk[d].tmp # None)
  BY <1>0, <1>1, <1>2, RejectKeeps DEF Rename
<1>3. CASE d \in DOMAIN disk /\ disk[d].tmp # None
  <2>1. /\ disk' = [disk EXCEPT ![d].json = disk[d].tmp, ![d].tmp = None]
        /\ Settle(w) /\ durable' = [durable EXCEPT ![d] = @ \cup {writes[w].item}]
    BY <1>0, <1>3 DEF Rename, Resolve
  <2>2. /\ DOMAIN writes' = DOMAIN writes \ {w}
        /\ MapInto(writes', Writer, WriteState) /\ MapInto(chain', Dir, Writer)
        /\ \A v \in DOMAIN writes' :
             /\ writes'[v].kind = writes[v].kind /\ writes'[v].dir = writes[v].dir
             /\ writes'[v].item = writes[v].item /\ writes'[v].pc = writes[v].pc
             /\ writes'[v].seen = writes[v].seen
    BY <1>1, <2>1, SettleCalls
  <2>3. /\ DOMAIN disk' = DOMAIN disk /\ disk' = [e \in DOMAIN disk |-> disk'[e]]
        /\ disk'[d] = [disk[d] EXCEPT !.json = disk[d].tmp, !.tmp = None]
        /\ \A e \in DOMAIN disk \ {d} : disk'[e] = disk[e]
    BY <1>3, <2>1 DEF FileTypeOK, MapInto
  <2>4. /\ disk[d] \in SessionFiles /\ disk'[d] \in SessionFiles
        /\ disk'[d].json = disk[d].tmp
    BY <1>3, <2>3 DEF FileTypeOK, MapInto, SessionFiles, Shown
  <2>5. /\ durable'[d] = durable[d] \cup {writes[w].item}
        /\ \A e \in Dir : e # d => durable'[e] = durable[e]
        /\ durable' \in [Dir -> SUBSET (Dir \cup Patch \cup Batches)]
    BY <1>1, <2>1 DEF FileTypeOK, WriteState, WriteRecord
  <2>6. FileTypeOK'
    BY <2>2, <2>3, <2>4, <2>5 DEF FileTypeOK, MapInto
  <2>7. KnownOnceSaved'
    BY <1>0, <1>1, <2>1, KnownResolved
  <2>8. GoneForGood'
    BY <2>2, <2>3 DEF GoneForGood
  <2>9. OneChain'
    BY <1>1, <2>1, <2>3, ChainSettles
  <2>10. durable'[d] \cap Patch \subseteq disk'[d].json
    <3>1. CASE writes[w].kind = "save"
      <4>1. durable[d] = {} /\ writes[w].item = d
        BY <1>0, <1>1, <3>1 DEF KnownOnceSaved, WriteState
      <4> QED BY <1>1, <2>5, <4>1, FileAssumption
    <3>2. CASE writes[w].kind = "update"
      <4>1. /\ durable[d] \cap Patch \subseteq writes[w].seen
            /\ writes[w].item \in writes[w].seen
            /\ disk[d].tmp = writes[w].seen
        BY <1>0, <1>1, <1>3, <3>2 DEF NothingDropped
      <4> QED BY <2>4, <2>5, <4>1
    <3> QED BY <1>1, <3>1, <3>2
  <2>11. NothingDropped'
    <3>1. UpdatesSurvive'
      <4>1. DOMAIN disk \subseteq Dir
        BY DEF FileTypeOK, MapInto
      <4> QED BY <2>3, <2>5, <2>10, <4>1 DEF NothingDropped, UpdatesSurvive
    <3>2. ASSUME NEW v \in DOMAIN writes', writes'[v].kind = "update", writes'[v].pc \in {"tmp", "rename"},
                 writes'[v].dir \in DOMAIN disk'
          PROVE  /\ durable'[writes'[v].dir] \cap Patch \subseteq writes'[v].seen
                 /\ writes'[v].item \in writes'[v].seen
                 /\ writes'[v].pc = "rename" => disk'[writes'[v].dir].tmp = writes'[v].seen
      <4>1. v \in DOMAIN writes /\ v # w
        BY <2>2
      <4>2. writes[v].dir # d
        BY <1>0, <1>1, <1>3, <2>2, <3>2, <4>1, Exclusive
      <4>3. writes[v].dir \in Dir /\ writes'[v].dir = writes[v].dir
        BY <2>2, <4>1 DEF FileTypeOK, MapInto, WriteState, WriteRecord
      <4>4. durable'[writes[v].dir] = durable[writes[v].dir] /\ disk'[writes[v].dir] = disk[writes[v].dir]
        BY <2>3, <2>5, <3>2, <4>2, <4>3
      <4> QED BY <2>2, <2>3, <3>2, <4>1, <4>3, <4>4 DEF NothingDropped
    <3> QED BY <3>1, <3>2 DEF NothingDropped
  <2> QED BY <2>6, <2>7, <2>8, <2>9, <2>11
<1> QED BY <1>2, <1>3

\* The lines that n events of a batch make.
NewLines(f, b, n) == [i \in 1..n |-> IF i = 1 /\ f.torn THEN Garbage ELSE b[i]]

LEMMA AppendedLines ==
    ASSUME NEW f \in SessionFiles, NEW b \in Batches, NEW n \in 0..Len(b),
           NEW lines, lines = f.lines \o NewLines(f, b, n)
    PROVE  /\ lines \in Seq(Line)
           /\ Range(f.lines) \subseteq Range(lines)
           /\ \A i \in 1..n : i # 1 \/ ~f.torn => b[i] \in Range(lines)
<1> DEFINE new == NewLines(f, b, n)
<1>1. b \in Seq(Range(b)) /\ Len(b) \in Nat /\ n \in Nat /\ 1..n \subseteq 1..Len(b)
  BY FileAssumption, LenProperties
<1>2. \A i \in 1..n : (IF i = 1 /\ f.torn THEN Garbage ELSE b[i]) \in Line
  <2>1. \A i \in 1..n : b[i] \in Range(b)
    BY <1>1, ElementOfSeq
  <2>2. Range(b) \in {Range(c) : c \in Batches}
    OBVIOUS
  <2>3. Garbage \in Line /\ Range(b) \subseteq Line
    BY <2>2 DEF Line
  <2> QED BY <2>1, <2>3
<1>3. new \in Seq(Line) /\ Len(new) = n
  BY <1>1, <1>2 DEF NewLines
<1>4. f.lines \in Seq(Line)
  BY DEF SessionFiles
<1>5. \A i \in 1..n : i # 1 \/ ~f.torn => new[i] = b[i]
  BY DEF NewLines
<1>10. lines = f.lines \o new
  OBVIOUS
<1> HIDE DEF new
<1>6. /\ lines \in Seq(Line)
      /\ Len(lines) = Len(f.lines) + n
      /\ \A i \in 1..(Len(f.lines) + n) : lines[i] =
                 IF i <= Len(f.lines) THEN f.lines[i] ELSE new[i - Len(f.lines)]
  <2>1. /\ f.lines \o new \in Seq(Line)
        /\ Len(f.lines \o new) = Len(f.lines) + Len(new)
        /\ \A i \in 1..(Len(f.lines) + Len(new)) : (f.lines \o new)[i] =
                 IF i <= Len(f.lines) THEN f.lines[i] ELSE new[i - Len(f.lines)]
    BY <1>3, <1>4, ConcatProperties
  <2> QED BY <1>3, <1>10, <2>1
<1>7. Len(f.lines) \in Nat /\ DOMAIN f.lines = 1..Len(f.lines) /\ DOMAIN lines = 1..(Len(f.lines) + n)
  BY <1>4, <1>6, LenProperties
<1>8. Range(f.lines) \subseteq Range(lines)
  <2> SUFFICES ASSUME NEW i \in DOMAIN f.lines PROVE f.lines[i] \in Range(lines)
    BY DEF Range
  <2>1. i \in DOMAIN lines /\ lines[i] = f.lines[i]
    BY <1>1, <1>6, <1>7
  <2> QED BY <2>1 DEF Range
<1>9. \A i \in 1..n : i # 1 \/ ~f.torn => b[i] \in Range(lines)
  <2> SUFFICES ASSUME NEW i \in 1..n, i # 1 \/ ~f.torn PROVE b[i] \in Range(lines)
    OBVIOUS
  <2>1. /\ Len(f.lines) + i \in 1..(Len(f.lines) + n) /\ ~(Len(f.lines) + i <= Len(f.lines))
        /\ (Len(f.lines) + i) - Len(f.lines) = i
    BY <1>1, <1>7
  <2>2. Len(f.lines) + i \in DOMAIN lines /\ lines[Len(f.lines) + i] = new[i]
    BY <1>6, <1>7, <2>1
  <2> QED BY <1>5, <2>2 DEF Range
<1> QED BY <1>6, <1>8, <1>9

\* What an append, or the part of it that a crash lets through, does to disk.
Appends(d, b, n, torn) ==
    /\ DOMAIN disk' = DOMAIN disk /\ disk' = [e \in DOMAIN disk |-> disk'[e]]
    /\ \A e \in DOMAIN disk \ {d} : disk'[e] = disk[e]
    /\ disk'[d] \in SessionFiles
    /\ disk'[d].json = disk[d].json /\ disk'[d].tmp = disk[d].tmp
    /\ disk'[d].torn <=> torn
    /\ Range(disk[d].lines) \subseteq Range(disk'[d].lines)
    /\ \A i \in 1..n : i # 1 \/ ~disk[d].torn => b[i] \in Range(disk'[d].lines)

LEMMA AppendedDisk ==
    ASSUME FileTypeOK, NEW d \in DOMAIN disk, NEW b \in Batches, NEW n \in 0..Len(b),
           \/ disk' = [disk EXCEPT ![d] = Appended(@, b, n, n < Len(b))]
           \/ n = Len(b) /\ disk' = [disk EXCEPT ![d] = Appended(@, b, n, FALSE)]
    PROVE  Appends(d, b, n, n < Len(b))
<1>1. disk[d] \in SessionFiles /\ disk = [e \in DOMAIN disk |-> disk[e]]
  BY DEF FileTypeOK, MapInto
<1>2. PICK lines : lines = disk[d].lines \o NewLines(disk[d], b, n)
  OBVIOUS
<1>3. /\ lines \in Seq(Line) /\ Range(disk[d].lines) \subseteq Range(lines)
      /\ \A i \in 1..n : i # 1 \/ ~disk[d].torn => b[i] \in Range(lines)
  <2>1. PICK f \in SessionFiles : f = disk[d]
    BY <1>1
  <2>2. lines = f.lines \o NewLines(f, b, n)
    BY <1>2, <2>1
  <2>3. /\ lines \in Seq(Line) /\ Range(f.lines) \subseteq Range(lines)
        /\ \A i \in 1..n : i # 1 \/ ~f.torn => b[i] \in Range(lines)
    BY <2>2, AppendedLines, Zenon
  <2> QED BY <2>1, <2>3
<1>4. Len(b) \in Nat
  BY FileAssumption, LenProperties
<1>5. disk' = [disk EXCEPT ![d] = [@ EXCEPT !.lines = lines, !.torn = n < Len(b)]]
  <2>1. CASE disk' = [disk EXCEPT ![d] = Appended(@, b, n, n < Len(b))]
    BY <1>2, <2>1 DEF Appended, NewLines
  <2>2. CASE n = Len(b) /\ disk' = [disk EXCEPT ![d] = Appended(@, b, n, FALSE)]
    <3>1. (n < Len(b)) = FALSE
      BY <1>4, <2>2
    <3> QED BY <1>2, <2>2, <3>1 DEF Appended, NewLines
  <2> QED BY <2>1, <2>2
<1>6. /\ DOMAIN disk' = DOMAIN disk /\ disk' = [e \in DOMAIN disk |-> disk'[e]]
      /\ \A e \in DOMAIN disk \ {d} : disk'[e] = disk[e]
      /\ disk'[d] = [disk[d] EXCEPT !.lines = lines, !.torn = n < Len(b)]
  BY <1>1, <1>5
<1>7. /\ disk'[d] \in SessionFiles
      /\ disk'[d].json = disk[d].json /\ disk'[d].tmp = disk[d].tmp
      /\ disk'[d].torn <=> n < Len(b)
      /\ disk'[d].lines = lines
  <2>1. (n < Len(b)) \in BOOLEAN
    OBVIOUS
  <2>2. PICK torn \in BOOLEAN : torn = (n < Len(b))
    BY <2>1
  <2>3. /\ disk'[d] = [disk[d] EXCEPT !.lines = lines, !.torn = torn]
        /\ disk[d] \in [json : Shown, tmp : Shown, lines : Seq(Line), torn : BOOLEAN]
    BY <1>1, <1>6, <2>2 DEF SessionFiles
  <2>4. /\ disk'[d] \in SessionFiles
        /\ disk'[d].json = disk[d].json /\ disk'[d].tmp = disk[d].tmp
        /\ disk'[d].torn = torn /\ disk'[d].lines = lines
    BY <1>3, <2>3 DEF SessionFiles
  <2> QED BY <2>2, <2>4
<1> QED BY <1>3, <1>6, <1>7 DEF Appends

LEMMA AppendFileKeeps ==
    ASSUME FileInv, NEW w, AppendFile(w), UNCHANGED <<issued, crashes>>
    PROVE  FileInv'
<1>0. PICK d, b : d = writes[w].dir /\ b = writes[w].item
  OBVIOUS
<1> USE DEF FileInv
<1>1. /\ w \in DOMAIN writes /\ writes[w] \in WriteState /\ d \in Dir /\ b \in Batches
      /\ writes[w].kind = "append" /\ Doing(w, "append") /\ writes[w].after = None
  <2>1. /\ w \in DOMAIN writes /\ writes[w] \in WriteState /\ d \in Dir
        /\ writes[w].kind = "append" /\ Doing(w, "append") /\ writes[w].after = None
    BY <1>0, DoingCall DEF AppendFile
  <2> QED BY <1>0, <2>1 DEF WriteState
<1>2. CASE d \notin DOMAIN disk
  BY <1>0, <1>1, <1>2, RejectKeeps DEF AppendFile
<1>3. CASE d \in DOMAIN disk
  <2>1. /\ disk' = [disk EXCEPT ![d] = Appended(@, b, Len(b), FALSE)]
        /\ Settle(w) /\ durable' = [durable EXCEPT ![d] = @ \cup {b}]
    BY <1>0, <1>3 DEF AppendFile, Resolve
  <2>2. /\ DOMAIN writes' = DOMAIN writes \ {w}
        /\ MapInto(writes', Writer, WriteState) /\ MapInto(chain', Dir, Writer)
        /\ \A v \in DOMAIN writes' :
             /\ writes'[v].kind = writes[v].kind /\ writes'[v].dir = writes[v].dir
             /\ writes'[v].item = writes[v].item /\ writes'[v].pc = writes[v].pc
             /\ writes'[v].seen = writes[v].seen
    BY <1>1, <2>1, SettleCalls
  <2>3. Appends(d, b, Len(b), Len(b) < Len(b))
    <3>1. Len(b) \in 0..Len(b)
      BY <1>1, FileAssumption, LenProperties
    <3> QED BY <1>1, <1>3, <2>1, <3>1, AppendedDisk
  <2>4. /\ disk'[d] \in SessionFiles
        /\ disk'[d].json = disk[d].json /\ disk'[d].tmp = disk[d].tmp
        /\ DOMAIN disk' = DOMAIN disk /\ disk' = [e \in DOMAIN disk |-> disk'[e]]
        /\ \A e \in DOMAIN disk \ {d} : disk'[e] = disk[e]
    BY <2>3 DEF Appends
  <2>5. /\ durable'[d] = durable[d] \cup {b}
        /\ \A e \in Dir : e # d => durable'[e] = durable[e]
        /\ durable' \in [Dir -> SUBSET (Dir \cup Patch \cup Batches)]
    BY <1>1, <2>1 DEF FileTypeOK
  <2>6. FileTypeOK'
    BY <2>2, <2>4, <2>5 DEF FileTypeOK, MapInto
  <2>7. KnownOnceSaved'
    BY <1>0, <1>1, <2>1, KnownResolved
  <2>8. GoneForGood'
    BY <2>2, <2>4 DEF GoneForGood
  <2>9. OneChain'
    BY <1>1, <2>1, <2>4, ChainSettles
  <2>10. \A e \in Dir : durable'[e] \cap Patch = durable[e] \cap Patch
    BY <1>1, <2>5, FileAssumption
  <2>11. /\ DOMAIN disk \subseteq Dir
         /\ \A e \in DOMAIN disk : disk'[e].json = disk[e].json /\ disk'[e].tmp = disk[e].tmp
    BY <2>4 DEF FileTypeOK, MapInto
  <2>12. NothingDropped'
    <3>1. UpdatesSurvive'
      BY <2>4, <2>10, <2>11 DEF NothingDropped, UpdatesSurvive
    <3> QED BY <2>2, <2>4, <2>10, <2>11, <3>1 DEF NothingDropped
  <2> QED BY <2>6, <2>7, <2>8, <2>9, <2>12
<1> QED BY <1>2, <1>3

LEMMA RemoveDirKeeps ==
    ASSUME FileInv, NEW w, RemoveDir(w), UNCHANGED <<issued, crashes>>
    PROVE  FileInv'
<1>0. PICK d : d = writes[w].dir
  OBVIOUS
<1> USE DEF FileInv
<1>1. /\ w \in DOMAIN writes /\ writes[w] \in WriteState /\ d \in Dir /\ writes[w].kind = "delete"
      /\ disk' = Without(disk, {d}) /\ Step(w, "unlock") /\ UNCHANGED <<chain, durable>>
  BY <1>0, DoingCall DEF RemoveDir
<1>2. [writes[w] EXCEPT !.pc = "unlock"] \in WriteState
  BY <1>1 DEF WriteState, WriteRecord
<1>3. /\ DOMAIN writes' = DOMAIN writes /\ MapInto(writes', Writer, WriteState)
      /\ \A v \in DOMAIN writes \ {w} : writes'[v] = writes[v]
      /\ writes'[w].kind = "delete" /\ writes'[w].dir = d /\ writes'[w].pc = "unlock"
      /\ writes'[w].after = writes[w].after
  BY <1>0, <1>1, <1>2, StepCalls
<1>4. /\ DOMAIN disk' = DOMAIN disk \ {d} /\ \A e \in DOMAIN disk' : disk'[e] = disk[e]
      /\ disk' = [e \in DOMAIN disk' |-> disk'[e]]
  BY <1>1 DEF Without
<1>5. FileTypeOK'
  BY <1>1, <1>3, <1>4 DEF FileTypeOK, MapInto
<1>6. KnownOnceSaved'
  BY <1>0, <1>1, <1>3, KnownKept
<1>7. GoneForGood'
  BY <1>3, <1>4 DEF GoneForGood
<1>8. OneChain'
  BY <1>1, <1>3, <1>4, ChainKept
<1>9. NothingDropped'
  BY <1>1, <1>3, <1>4, DroppedKept
<1> QED BY <1>5, <1>6, <1>7, <1>8, <1>9

\* The entry of writeLocks that deleteSession drops is one of a session that
\* is gone.
LEMMA DropLockKeeps ==
    ASSUME FileInv, NEW w, DropLock(w), UNCHANGED <<issued, crashes>>
    PROVE  FileInv'
<1>0. PICK d : d = writes[w].dir
  OBVIOUS
<1> USE DEF FileInv
<1>1. /\ w \in DOMAIN writes /\ writes[w].kind = "delete" /\ d \notin DOMAIN disk
      /\ writes' = Without(writes, {w}) /\ chain' = Without(chain, {d}) /\ UNCHANGED <<disk, durable>>
  BY <1>0, DoingCall DEF DropLock, GoneForGood
<1>2. /\ DOMAIN writes' = DOMAIN writes \ {w} /\ \A v \in DOMAIN writes' : writes'[v] = writes[v]
      /\ DOMAIN chain' = DOMAIN chain \ {d} /\ \A e \in DOMAIN chain' : chain'[e] = chain[e]
      /\ writes' = [v \in DOMAIN writes' |-> writes'[v]] /\ chain' = [e \in DOMAIN chain' |-> chain'[e]]
  BY <1>1 DEF Without
<1>3. FileTypeOK'
  BY <1>1, <1>2 DEF FileTypeOK, MapInto
<1>4. KnownOnceSaved'
  BY <1>1, <1>2, KnownKept
<1>5. GoneForGood'
  BY <1>1, <1>2 DEF GoneForGood
<1>6. OneChain'
  <2> SUFFICES ASSUME NEW e \in DOMAIN disk PROVE (\E q \in Seq(Writer) : Queue(e, q))'
    BY <1>1 DEF OneChain
  <2>1. PICK q \in Seq(Writer) : Queue(e, q)
    BY DEF OneChain
  <2>2. Locked(e)' = Locked(e) /\ \A v \in Locked(e) : writes'[v] = writes[v]
    BY <1>1, <1>2 DEF Locked
  <2>3. e # d
    BY <1>1
  <2>4. Queue(e, q)'
    BY <1>2, <2>1, <2>2, <2>3 DEF Queue
  <2> QED BY <2>4
<1>7. NothingDropped'
  BY <1>1, <1>2, DroppedKept
<1> QED BY <1>3, <1>4, <1>5, <1>6, <1>7

\* What a crash makes of the directories: an append may have been cut short.
LEMMA CrashDisk ==
    ASSUME FileTypeOK, Crash
    PROVE  \/ UNCHANGED disk
           \/ \E d \in DOMAIN disk, b \in Batches : \E n \in 0..Len(b) : Appends(d, b, n, n < Len(b))
<1> SUFFICES ASSUME NEW w \in DOMAIN writes, Doing(w, "append"), writes[w].dir \in DOMAIN disk,
                    NEW n \in 0..Len(writes[w].item),
                    disk' = [disk EXCEPT ![writes[w].dir] =
                               Appended(@, writes[w].item, n, n < Len(writes[w].item))]
             PROVE  \E d \in DOMAIN disk, b \in Batches : \E m \in 0..Len(b) : Appends(d, b, m, m < Len(b))
  BY DEF Crash
<1>1. PICK d \in DOMAIN disk, b \in Batches : d = writes[w].dir /\ b = writes[w].item
  BY DoingCall DEF WriteState
<1>2. Appends(d, b, n, n < Len(b))
  BY <1>1, AppendedDisk
<1> QED BY <1>1, <1>2

LEMMA CrashKeeps ==
    ASSUME FileInv, Crash
    PROVE  FileInv'
<1> USE DEF FileInv
<1>1. /\ DOMAIN writes' = {} /\ DOMAIN chain' = {}
      /\ writes' = [w \in {} |-> w] /\ chain' = [d \in {} |-> d]
      /\ crashes' = crashes + 1 /\ UNCHANGED <<issued, durable>>
  BY DEF Crash, NoKeys
<1>2. /\ MapInto(disk', Dir, SessionFiles) /\ DOMAIN disk' = DOMAIN disk
      /\ \A e \in DOMAIN disk : disk'[e].json = disk[e].json /\ disk'[e].tmp = disk[e].tmp
  <2>1. CASE UNCHANGED disk
    BY <2>1 DEF FileTypeOK
  <2>2. ASSUME NEW d \in DOMAIN disk, NEW b \in Batches, NEW n \in 0..Len(b), Appends(d, b, n, n < Len(b))
        PROVE  /\ MapInto(disk', Dir, SessionFiles) /\ DOMAIN disk' = DOMAIN disk
               /\ \A e \in DOMAIN disk : disk'[e].json = disk[e].json /\ disk'[e].tmp = disk[e].tmp
    BY <2>2 DEF Appends, FileTypeOK, MapInto
  <2> QED BY <2>1, <2>2, CrashDisk
<1>3. FileTypeOK'
  BY <1>1, <1>2 DEF FileTypeOK, MapInto
<1>4. KnownOnceSaved'
  BY <1>1, KnownKept
<1>5. GoneForGood'
  BY <1>1 DEF GoneForGood
<1>6. OneChain'
  <2>1. ASSUME NEW e \in DOMAIN disk' PROVE (\E q \in Seq(Writer) : Queue(e, q))'
    <3>1. /\ <<>> \in Seq(Writer) /\ 1..Len(<<>>) = {} /\ Locked(e)' = {}
          /\ e \notin DOMAIN chain'
      BY <1>1, EmptySeq DEF Locked
    <3>2. Queue(e, <<>>)'
      BY <3>1 DEF Queue
    <3> QED BY <3>1, <3>2
  <2> QED BY <2>1 DEF OneChain
<1>7. NothingDropped'
  BY <1>1, <1>2, DroppedKept
<1> QED BY <1>3, <1>4, <1>5, <1>6, <1>7

LEMMA FileInitInv == ASSUME FileInit PROVE FileInv
<1>1. DOMAIN disk = {} /\ DOMAIN chain = {} /\ DOMAIN writes = {}
      /\ disk = [d \in {} |-> d] /\ chain = [d \in {} |-> d] /\ writes = [w \in {} |-> w]
      /\ issued = {} /\ durable = [d \in Dir |-> {}] /\ crashes = 0
  BY DEF FileInit, NoKeys
<1>2. FileTypeOK
  BY <1>1 DEF FileTypeOK, MapInto
<1>3. KnownOnceSaved /\ GoneForGood /\ OneChain
  BY <1>1 DEF KnownOnceSaved, GoneForGood, OneChain
<1>4. NothingDropped
  BY <1>1 DEF NothingDropped, UpdatesSurvive
<1> QED BY <1>2, <1>3, <1>4 DEF FileInv

LEMMA FileStepInv ==
    ASSUME FileInv, FileNext
    PROVE  FileInv'
<1>1. ASSUME NEW w \in Writer, Proceed(w) PROVE FileInv'
  BY <1>1, MkdirKeeps, LoadKeeps, WriteTmpKeeps, RenameKeeps, AppendFileKeeps, RemoveDirKeeps,
     DropLockKeeps DEF Proceed
<1> QED BY <1>1, IssueKeeps, CrashKeeps DEF FileNext

LEMMA FileStutterInv ==
    ASSUME FileInv, UNCHANGED fileVars
    PROVE  FileInv'
<1> USE DEF fileVars, FileInv
<1>1. FileTypeOK' /\ KnownOnceSaved' /\ GoneForGood'
  BY DEF FileTypeOK, KnownOnceSaved, GoneForGood
<1>2. OneChain'
  BY ChainKept
<1>3. NothingDropped'
  BY DroppedKept
<1> QED BY <1>1, <1>2, <1>3

LEMMA FileInvariant == Spec => []FileInv
<1>1. Init => FileInv
  BY FileInitInv DEF Init
<1>2. FileInv /\ [Next]_vars => FileInv'
  BY FileStepInv, FileStutterInv DEF Next, vars, Booting, Serving
<1> QED BY <1>1, <1>2, PTL DEF Spec

\* The directories of the file adapter, its write locks and its calls in
\* flight keep their shapes.
THEOREM FileTypeCorrect == Spec => []FileTypeOK
BY FileInvariant, PTL DEF FileInv

\* Whatever updates of a session queue in withWriteLock, and wherever the
\* process crashes, a patch whose updateSessionStatus has resolved is in
\* session.json as long as the session is there.
THEOREM UpdatesKept == Spec => []UpdatesSurvive
<1>1. FileInv => UpdatesSurvive
  BY DEF FileInv, NothingDropped
<1> QED BY <1>1, FileInvariant, PTL

\* As long as its directory is there, one locked call of a session runs at a
\* time, the others waiting in the order in which they were made.
THEOREM LocksChain == Spec => []OneChain
<1>1. FileInv => OneChain
  BY DEF FileInv
<1> QED BY <1>1, FileInvariant, PTL

-----------------------------------------------------------------------------
(* The file adapter: a crash costs one event *)

\* A step that acknowledges nothing and leaves the lines of a session, or adds
\* to them.
LEMMA MissingKept ==
    ASSUME FileTypeOK, FewMissing, UNCHANGED durable, crashes' \in Nat, crashes <= crashes',
           DOMAIN disk' \subseteq DOMAIN disk,
           \A d \in DOMAIN disk' :
               /\ Range(disk[d].lines) \subseteq Range(disk'[d].lines)
               /\ disk'[d].torn => disk[d].torn \/ crashes < crashes'
    PROVE  FewMissing'
<1> SUFFICES ASSUME NEW d \in DOMAIN disk'
             PROVE  /\ IsFiniteSet(Missing(d)')
                    /\ Cardinality(Missing(d)') + (IF disk'[d].torn THEN 1 ELSE 0) <= crashes'
  BY DEF FewMissing
<1>1. Missing(d)' \subseteq Missing(d)
  BY DEF Missing, Acked
<1>2. IsFiniteSet(Missing(d)) /\ Cardinality(Missing(d)) + (IF disk[d].torn THEN 1 ELSE 0) <= crashes
  BY DEF FewMissing
<1>3. IsFiniteSet(Missing(d)') /\ Cardinality(Missing(d)') <= Cardinality(Missing(d))
      /\ Cardinality(Missing(d)') \in Nat /\ Cardinality(Missing(d)) \in Nat
  BY <1>1, <1>2, FS_Subset, FS_CardinalityType
<1>4. crashes \in Nat
  BY DEF FileTypeOK
<1> QED BY <1>2, <1>3, <1>4

\* An acknowledged batch is on the file, but for the event that continued a
\* torn line.
LEMMA MissingOne ==
    ASSUME FileInv, FewMissing, NEW d \in DOMAIN disk, NEW b \in Batches,
           Appends(d, b, Len(b), FALSE), durable' = [durable EXCEPT ![d] = @ \cup {b}], UNCHANGED crashes
    PROVE  FewMissing'
<1>1. /\ d \in Dir /\ DOMAIN disk \subseteq Dir /\ crashes \in Nat /\ disk'[d].torn = FALSE
      /\ durable'[d] = durable[d] \cup {b} /\ \A e \in DOMAIN disk \ {d} : durable'[e] = durable[e]
      /\ DOMAIN disk' = DOMAIN disk /\ \A e \in DOMAIN disk \ {d} : disk'[e] = disk[e]
  <2>1. disk'[d] \in SessionFiles /\ ~disk'[d].torn
    BY DEF Appends
  <2>2. disk'[d].torn = FALSE
    BY <2>1 DEF SessionFiles
  <2> QED BY <2>2 DEF FileInv, FileTypeOK, MapInto, Appends
<1>2. ASSUME NEW e \in DOMAIN disk, e # d
      PROVE  /\ IsFiniteSet(Missing(e)')
             /\ Cardinality(Missing(e)') + (IF disk'[e].torn THEN 1 ELSE 0) <= crashes'
  <2>1. Missing(e)' = Missing(e) /\ disk'[e].torn = disk[e].torn
    BY <1>1, <1>2 DEF Missing, Acked
  <2> QED BY <2>1 DEF FewMissing
<1>3. /\ IsFiniteSet(Missing(d)')
      /\ Cardinality(Missing(d)') + (IF disk'[d].torn THEN 1 ELSE 0) <= crashes'
  <2>1. /\ IsFiniteSet(Missing(d))
        /\ Cardinality(Missing(d)) + (IF disk[d].torn THEN 1 ELSE 0) <= crashes
        /\ Cardinality(Missing(d)) \in Nat
    BY FS_CardinalityType DEF FewMissing
  <2>2. Acked(d)' = Acked(d) \cup Range(b)
    BY <1>1 DEF Acked
  <2>3. Range(b) = {b[i] : i \in 1..Len(b)}
    BY FileAssumption, LenProperties DEF Range
  <2>4. /\ Range(disk[d].lines) \subseteq Range(disk'[d].lines)
        /\ \A i \in 1..Len(b) : i # 1 \/ ~disk[d].torn => b[i] \in Range(disk'[d].lines)
    BY DEF Appends
  <2>5. CASE ~disk[d].torn
    <3>1. Missing(d)' \subseteq Missing(d)
      BY <2>2, <2>3, <2>4, <2>5 DEF Missing
    <3>2. IsFiniteSet(Missing(d)') /\ Cardinality(Missing(d)') <= Cardinality(Missing(d))
          /\ Cardinality(Missing(d)') \in Nat
      BY <2>1, <3>1, FS_Subset, FS_CardinalityType
    <3> QED BY <1>1, <2>1, <2>5, <3>2
  <2>6. CASE disk[d].torn
    <3>1. Missing(d)' \subseteq Missing(d) \cup {b[1]}
      BY <2>2, <2>3, <2>4 DEF Missing
    <3>2. IsFiniteSet(Missing(d) \cup {b[1]}) /\ Cardinality(Missing(d) \cup {b[1]}) <= Cardinality(Missing(d)) + 1
          /\ Cardinality(Missing(d) \cup {b[1]}) \in Nat
      <4>1. /\ IsFiniteSet(Missing(d) \cup {b[1]})
            /\ Cardinality(Missing(d) \cup {b[1]}) =
                 IF b[1] \in Missing(d) THEN Cardinality(Missing(d)) ELSE Cardinality(Missing(d)) + 1
        BY <2>1, FS_AddElement
      <4> QED BY <2>1, <4>1
    <3>3. IsFiniteSet(Missing(d)') /\ Cardinality(Missing(d)') <= Cardinality(Missing(d) \cup {b[1]})
          /\ Cardinality(Missing(d)') \in Nat
      BY <3>1, <3>2, FS_Subset, FS_CardinalityType
    <3> QED BY <1>1, <2>1, <2>6, <3>2, <3>3
  <2> QED BY <2>5, <2>6
<1> QED BY <1>1, <1>2, <1>3 DEF FewMissing

LEMMA FewMissingStep ==
    ASSUME FileInv, FewMissing, FileNext
    PROVE  FewMissing'
<1> USE DEF FileInv
<1>0. crashes \in Nat /\ FileTypeOK
  BY DEF FileTypeOK
<1>1. ASSUME UNCHANGED <<durable, crashes>>, DOMAIN disk' \subseteq DOMAIN disk,
             \A d \in DOMAIN disk' : disk'[d].lines = disk[d].lines /\ disk'[d].torn = disk[d].torn
      PROVE  FewMissing'
  BY <1>0, <1>1, MissingKept
<1>2. ASSUME NEW w \in Writer, NEW d \in Dir, Issue(w, d) PROVE FewMissing'
  <2>1. UNCHANGED <<disk, durable, crashes>>
    BY <1>2 DEF Issue, FileSaveSession, FileUpdateSessionStatus, FileAppendEvents, FileDeleteSession,
                Unlocked, WithWriteLock
  <2> QED BY <1>1, <2>1
<1>3. ASSUME NEW w \in Writer, Proceed(w) PROVE FewMissing'
  <2>0. PICK d : d = writes[w].dir
    OBVIOUS
  <2>1. UNCHANGED <<issued, crashes>> /\ disk = [e \in DOMAIN disk |-> disk[e]]
        /\ \A e \in DOMAIN disk : disk[e] \in SessionFiles
    BY <1>0, <1>3 DEF Proceed, FileTypeOK, MapInto
  <2>2. CASE Mkdir(w)
    <3>1. /\ w \in DOMAIN writes /\ writes[w].kind = "save" /\ d \in Dir /\ UNCHANGED durable
      BY <1>0, <2>0, <2>2, DoingCall DEF Mkdir
    <3>2. durable[d] = {}
      BY <2>0, <3>1 DEF KnownOnceSaved
    <3>3. CASE d \in DOMAIN disk
      BY <1>1, <2>0, <2>1, <2>2, <3>1, <3>3 DEF Mkdir
    <3>4. CASE d \notin DOMAIN disk
      <4>1. /\ DOMAIN disk' = DOMAIN disk \cup {d} /\ \A e \in DOMAIN disk : disk'[e] = disk[e]
            /\ disk'[d] = SessionDir
        BY <2>0, <2>2, <3>4 DEF Mkdir, Put
      <4>2. ASSUME NEW e \in DOMAIN disk
            PROVE  /\ IsFiniteSet(Missing(e)')
                   /\ Cardinality(Missing(e)') + (IF disk'[e].torn THEN 1 ELSE 0) <= crashes'
        <5>1. Missing(e)' = Missing(e) /\ disk'[e] = disk[e]
          BY <3>1, <4>1 DEF Missing, Acked
        <5> QED BY <2>1, <5>1 DEF FewMissing
      <4>3. Missing(d)' = {} /\ disk'[d].torn = FALSE
        BY <3>1, <3>2, <4>1 DEF Missing, Acked, SessionDir
      <4>4. IsFiniteSet({}) /\ Cardinality({}) = 0
        BY FS_EmptySet
      <4>5. /\ IsFiniteSet(Missing(d)')
            /\ Cardinality(Missing(d)') + (IF disk'[d].torn THEN 1 ELSE 0) <= crashes'
        BY <1>0, <2>1, <4>3, <4>4
      <4> QED BY <4>1, <4>2, <4>5 DEF FewMissing
    <3> QED BY <3>3, <3>4
  <2>3. CASE Load(w)
    BY <1>1, <2>1, <2>3 DEF Load, Reject
  <2>4. CASE WriteTmp(w)
    <3>1. CASE d \in DOMAIN disk
      <4>1. disk' = [disk EXCEPT ![d].tmp = writes[w].seen] /\ UNCHANGED durable
        BY <2>0, <2>4, <3>1 DEF WriteTmp
      <4>2. DOMAIN disk' = DOMAIN disk
            /\ \A e \in DOMAIN disk : disk'[e].lines = disk[e].lines /\ disk'[e].torn = disk[e].torn
        BY <2>1, <4>1 DEF SessionFiles
      <4> QED BY <1>1, <2>1, <4>1, <4>2
    <3>2. CASE d \notin DOMAIN disk
      BY <1>1, <2>0, <2>1, <2>4, <3>2 DEF WriteTmp, Reject
    <3> QED BY <3>1, <3>2
  <2>5. CASE Rename(w)
    <3>1. CASE d \in DOMAIN disk /\ disk[d].tmp # None
      <4>1. /\ disk' = [disk EXCEPT ![d].json = disk[d].tmp, ![d].tmp = None]
            /\ durable' = [durable EXCEPT ![d] = @ \cup {writes[w].item}]
        BY <2>0, <2>5, <3>1 DEF Rename, Resolve
      <4>2. DOMAIN disk' = DOMAIN disk
            /\ \A e \in DOMAIN disk : disk'[e].lines = disk[e].lines /\ disk'[e].torn = disk[e].torn
        BY <2>1, <3>1, <4>1 DEF SessionFiles
      <4>3. writes[w].item \notin Batches
        <5>1. writes[w] \in WriteState /\ writes[w].kind \in {"save", "update"} /\ writes[w].dir \in Dir
          BY <1>0, <2>5, DoingCall DEF Rename
        <5> QED BY <5>1, FileAssumption DEF WriteState
      <4>4. \A e \in DOMAIN disk : Acked(e)' = Acked(e)
        <5>1. \A e \in DOMAIN disk : durable'[e] \cap Batches = durable[e] \cap Batches
          BY <1>0, <4>1, <4>3 DEF FileTypeOK, MapInto
        <5> QED BY <5>1 DEF Acked
      <4>5. \A e \in DOMAIN disk : Missing(e)' = Missing(e)
        BY <4>2, <4>4 DEF Missing
      <4> QED BY <2>1, <4>2, <4>5 DEF FewMissing
    <3>2. CASE ~(d \in DOMAIN disk /\ disk[d].tmp # None)
      BY <1>1, <2>0, <2>1, <2>5, <3>2 DEF Rename, Reject
    <3> QED BY <3>1, <3>2
  <2>6. CASE AppendFile(w)
    <3>0. PICK b : b = writes[w].item
      OBVIOUS
    <3>1. b \in Batches /\ Len(b) \in Nat
      <4>1. writes[w] \in WriteState /\ writes[w].kind = "append"
        BY <1>0, <2>6, DoingCall DEF AppendFile
      <4> QED BY <3>0, <4>1, FileAssumption, LenProperties DEF WriteState
    <3>2. CASE d \in DOMAIN disk
      <4>1. /\ disk' = [disk EXCEPT ![d] = Appended(@, b, Len(b), FALSE)]
            /\ durable' = [durable EXCEPT ![d] = @ \cup {b}]
        BY <2>0, <2>6, <3>0, <3>2 DEF AppendFile, Resolve
      <4>2. Appends(d, b, Len(b), Len(b) < Len(b)) /\ (Len(b) < Len(b)) = FALSE
        <5>1. PICK n \in 0..Len(b) : n = Len(b)
          BY <3>1
        <5>2. Appends(d, b, n, n < Len(b))
          BY <1>0, <3>1, <3>2, <4>1, <5>1, AppendedDisk
        <5> QED BY <3>1, <5>1, <5>2
      <4>3. Appends(d, b, Len(b), FALSE)
        BY <4>2 DEF Appends
      <4> QED BY <2>1, <3>1, <3>2, <4>1, <4>3, MissingOne
    <3>3. CASE d \notin DOMAIN disk
      BY <1>1, <2>0, <2>1, <2>6, <3>3 DEF AppendFile, Reject
    <3> QED BY <3>2, <3>3
  <2>7. CASE RemoveDir(w) \/ DropLock(w)
    BY <1>1, <2>1, <2>7 DEF RemoveDir, DropLock, Without
  <2> QED BY <1>3, <2>2, <2>3, <2>4, <2>5, <2>6, <2>7 DEF Proceed
<1>4. CASE Crash
  <2>1. UNCHANGED durable /\ crashes' = crashes + 1
    BY <1>4 DEF Crash
  <2>2. CASE UNCHANGED disk
    BY <1>0, <2>1, <2>2, MissingKept
  <2>3. ASSUME NEW d \in DOMAIN disk, NEW b \in Batches, NEW n \in 0..Len(b), Appends(d, b, n, n < Len(b))
        PROVE  FewMissing'
    <3>1. DOMAIN disk' = DOMAIN disk
          /\ \A e \in DOMAIN disk : Range(disk[e].lines) \subseteq Range(disk'[e].lines)
      BY <2>3 DEF Appends
    <3> QED BY <1>0, <2>1, <3>1, MissingKept
  <2> QED BY <1>0, <1>4, <2>2, <2>3, CrashDisk
<1> QED BY <1>2, <1>3, <1>4 DEF FileNext

\* A crash costs events.jsonl at most one event whose appendEvents resolves:
\* of the batches that were acknowledged, no more events are on no line of it
\* than the process has crashed.
THEOREM LinesKept == Spec => []FewMissing
<1>1. Init => FewMissing
  BY DEF Init, FileInit, FewMissing, NoKeys
<1>2. FileInv /\ FewMissing /\ [Next]_vars => FewMissing'
  <2> SUFFICES ASSUME FileInv, FewMissing, [Next]_vars PROVE FewMissing'
    OBVIOUS
  <2>1. CASE FileNext
    BY <2>1, FewMissingStep
  <2>2. CASE UNCHANGED fileVars
    BY <2>2, MissingKept DEF fileVars, FileInv, FileTypeOK
  <2> QED BY <2>1, <2>2 DEF Next, vars, Booting, Serving
<1> QED BY <1>1, <1>2, FileInvariant, PTL DEF Spec
-----------------------------------------------------------------------------
(* The file adapter: what is read back *)

\* A set of numbers that is not empty has a least one.
LEMMA NatLeast ==
    ASSUME NEW S, S \subseteq Nat, S # {}
    PROVE  \E x \in S : \A y \in S : x <= y
<1>1. PICK x \in S : \A y \in S : ~(<<y, x>> \in OpToRel(<, Nat))
  BY NatLessThanWellFounded, WFMin
<1>2. \A y \in S : ~(y < x)
  BY <1>1 DEF OpToRel
<1> QED BY <1>2

LEMMA MaxOfAll ==
    ASSUME NEW m \in Nat, NEW S, S \subseteq 1..m, m \in S
    PROVE  Max(S) = m
<1>1. \A y \in S : m >= y
  OBVIOUS
<1>2. \A x \in S : (\A y \in S : x >= y) => x = m
  OBVIOUS
<1> QED BY <1>1, <1>2 DEF Max

\* What a line adds to what has been found, and the function that FoldLeft makes
\* of it, on sets of positions up to n.
Found(found, e, filter) == IF e = Garbage \/ e \notin filter THEN found ELSE Append(found, e)

Finds(g, lines, filter, n) ==
    g = [S \in SUBSET (1..n) |-> IF S = {} THEN <<>> ELSE Found(g[S \ {Max(S)}], lines[Max(S)], filter)]

\* There is such a function: at the least n without one, the last line would
\* extend the one for n - 1.
LEMMA FindsExist ==
    ASSUME NEW lines, NEW filter, NEW k \in Nat, NEW n \in 0..k
    PROVE  \E g : Finds(g, lines, filter, n)
<1> DEFINE Has(m) == \E g : Finds(g, lines, filter, m)
           Bad == {m \in 0..k : ~Has(m)}
<1>1. CASE Bad = {}
  BY <1>1
<1>2. CASE Bad # {}
  <2>0. Bad \subseteq Nat
    <3> HIDE DEF Has
    <3> QED OBVIOUS
  <2>1. PICK m \in Bad : \A j \in Bad : m <= j
    <3> HIDE DEF Bad
    <3> QED BY <1>2, <2>0, NatLeast
  <2>2. CASE m = 0
    <3> DEFINE g == [S \in SUBSET (1..0) |-> <<>>]
    <3>1. \A S \in SUBSET (1..0) : S = {}
      OBVIOUS
    <3>2. Finds(g, lines, filter, 0)
      BY <3>1 DEF Finds
    <3> QED BY <3>2, <2>1, <2>2
  <2>3. CASE m # 0
    <3>1. m - 1 \in 0..k /\ m \in Nat /\ m - 1 \in Nat /\ ~(m <= m - 1)
      BY <2>1, <2>3
    <3>2. Has(m - 1)
      BY <3>1, <2>1
    <3> HIDE DEF Bad
    <3>3. PICK g : Finds(g, lines, filter, m - 1)
      BY <3>2
    <3> DEFINE h == [S \in SUBSET (1..m) |-> IF m \in S THEN Found(g[S \ {m}], lines[m], filter) ELSE g[S]]
    <3>4. ASSUME NEW S \in SUBSET (1..m)
          PROVE  h[S] = IF S = {} THEN <<>> ELSE Found(h[S \ {Max(S)}], lines[Max(S)], filter)
      <4>1. CASE m \in S
        <5>1. Max(S) = m
          BY <4>1, <3>1, MaxOfAll
        <5>2. S \ {m} \in SUBSET (1..m) /\ m \notin S \ {m}
          OBVIOUS
        <5>3. h[S \ {m}] = g[S \ {m}]
          BY <5>2
        <5>4. h[S] = Found(g[S \ {m}], lines[m], filter)
          BY <4>1
        <5> QED BY <5>1, <5>3, <5>4, <4>1
      <4>2. CASE m \notin S
        <5>1. S \in SUBSET (1..m - 1)
          BY <4>2, <3>1
        <5>2. g[S] = IF S = {} THEN <<>> ELSE Found(g[S \ {Max(S)}], lines[Max(S)], filter)
          BY <5>1, <3>3 DEF Finds
        <5>3. h[S] = g[S]
          BY <4>2
        <5>4. CASE S # {}
          <6>1. S \ {Max(S)} \in SUBSET (1..m) /\ m \notin S \ {Max(S)}
            BY <4>2
          <6>2. h[S \ {Max(S)}] = g[S \ {Max(S)}]
            BY <6>1
          <6> QED BY <6>2, <5>2, <5>3, <5>4
        <5> QED BY <5>2, <5>3, <5>4
      <4> QED BY <4>1, <4>2
    <3>5. Finds(h, lines, filter, m)
      BY <3>4 DEF Finds
    <3> QED BY <3>5, <2>1 DEF Bad
  <2> QED BY <2>2, <2>3
<1> QED BY <1>1, <1>2

\* The pass over the file goes through one result for each line.
LEMMA EventSteps ==
    ASSUME NEW T, NEW lines \in Seq(T), NEW filter
    PROVE  \E r : /\ r[0] = <<>>
                  /\ \A i \in 1..Len(lines) : r[i] = Found(r[i - 1], lines[i], filter)
                  /\ Events(lines, filter) = r[Len(lines)]
<1> DEFINE n == Len(lines)
<1>1. n \in Nat /\ DOMAIN lines = 1..n /\ n \in 0..n
  BY LenProperties
<1>2. PICK g : Finds(g, lines, filter, n)
  BY <1>1, FindsExist
<1>3. PICK h : /\ h = [S \in SUBSET (DOMAIN lines) |-> IF S = {} THEN <<>>
                         ELSE IF lines[Max(S)] = Garbage \/ lines[Max(S)] \notin filter THEN h[S \ {Max(S)}]
                              ELSE Append(h[S \ {Max(S)}], lines[Max(S)])]
               /\ Events(lines, filter) = h[DOMAIN lines]
  <2>1. g = [S \in SUBSET (DOMAIN lines) |-> IF S = {} THEN <<>>
               ELSE IF lines[Max(S)] = Garbage \/ lines[Max(S)] \notin filter THEN g[S \ {Max(S)}]
                    ELSE Append(g[S \ {Max(S)}], lines[Max(S)])]
    BY <1>1, <1>2 DEF Finds, Found
  <2> QED BY <2>1 DEF Events, FoldLeft, MapThenFoldSet
<1> DEFINE r == [i \in 0..n |-> h[1..i]]
<1>4. r[0] = <<>>
  BY <1>1, <1>3
<1>5. ASSUME NEW i \in 1..n PROVE r[i] = Found(r[i - 1], lines[i], filter)
  <2>1. 1..i \in SUBSET (1..n) /\ i \in 1..i /\ 1..i # {} /\ i \in Nat /\ i - 1 \in 0..n /\ i \in 0..n
    <3> HIDE DEF n
    <3>1. n \in Nat /\ i \in Nat /\ 1 <= i /\ i <= n
      BY <1>1
    <3>2. \A j \in 1..i : j \in 1..n
      BY <3>1
    <3>3. i \in 1..i /\ i - 1 \in 0..n /\ i \in 0..n
      BY <3>1
    <3> QED BY <3>1, <3>2, <3>3
  <2>2. Max(1..i) = i
    BY <2>1, MaxOfAll
  <2>3. 1..i \ {i} = 1..(i - 1)
    <3>1. i \in Int /\ i - 1 \in Int
      BY <2>1
    <3>2. ASSUME NEW j PROVE j \in 1..i \ {i} <=> j \in 1..(i - 1)
      BY ONLY <3>1
    <3> QED BY ONLY <3>2
  <2>4. h[1..i] = Found(h[1..i \ {i}], lines[i], filter)
    BY <2>1, <2>2, <1>1, <1>3 DEF Found
  <2> QED BY <2>1, <2>3, <2>4
<1>6. r[n] = h[DOMAIN lines]
  BY <1>1
<1> HIDE DEF r
<1> QED BY <1>3, <1>4, <1>5, <1>6

\* The pass finds the events of the file that the filter holds, and no more than
\* there are.
LEMMA EventsAre ==
    ASSUME NEW T, NEW lines \in Seq(T), NEW filter
    PROVE  /\ Events(lines, filter) \in Seq(T)
           /\ Range(Events(lines, filter)) = {e \in Range(lines) : e # Garbage /\ e \in filter}
           /\ Len(Events(lines, filter)) <= Len(Events(lines, Range(lines)))
<1>1. PICK r : /\ r[0] = <<>>
               /\ \A i \in 1..Len(lines) : r[i] = Found(r[i - 1], lines[i], filter)
               /\ Events(lines, filter) = r[Len(lines)]
  BY EventSteps
<1>2. PICK q : /\ q[0] = <<>>
               /\ \A i \in 1..Len(lines) : q[i] = Found(q[i - 1], lines[i], Range(lines))
               /\ Events(lines, Range(lines)) = q[Len(lines)]
  BY EventSteps
<1>3. Len(lines) \in Nat /\ \A i \in 1..Len(lines) : lines[i] \in T
  BY LenProperties
<1> DEFINE Fine(i) == /\ r[i] \in Seq(T) /\ q[i] \in Seq(T) /\ Len(r[i]) <= Len(q[i])
                      /\ \A e : (\E j \in 1..Len(r[i]) : r[i][j] = e)
                            <=> \E j \in 1..i : lines[j] = e /\ e # Garbage /\ e \in filter
           Bad == {i \in 0..Len(lines) : ~Fine(i)}
<1>4. CASE Bad = {}
  <2>1. Fine(Len(lines))
    <3> HIDE DEF Fine
    <3> QED BY <1>3, <1>4
  <2>2. \A s \in Seq(T) : Range(s) = {s[j] : j \in 1..Len(s)}
    BY DEF Range
  <2>3. Range(r[Len(lines)]) = {e \in Range(lines) : e # Garbage /\ e \in filter}
    BY <2>1, <2>2
  <2> QED BY <1>1, <1>2, <2>1, <2>3
<1>5. CASE Bad # {}
  <2>0. Bad \subseteq Nat
    <3> HIDE DEF Fine
    <3> QED OBVIOUS
  <2>1. PICK m \in Bad : \A k \in Bad : m <= k
    <3> HIDE DEF Bad
    <3> QED BY <1>5, <2>0, NatLeast
  <2>2. CASE m = 0
    <3>1. Fine(0)
      BY <1>1, <1>2
    <3> HIDE DEF Fine
    <3> QED BY <3>1, <2>1, <2>2
  <2>3. CASE m # 0
    <3>1. m \in 1..Len(lines) /\ m - 1 \in 0..Len(lines) /\ ~(m <= m - 1) /\ m \in Nat
      <4> HIDE DEF Fine
      <4> QED BY <2>1, <2>3, <1>3
    <3>2. Fine(m - 1)
      <4> HIDE DEF Fine
      <4> QED BY <3>1, <2>1
    <3>3. /\ lines[m] \in T /\ r[m] = Found(r[m - 1], lines[m], filter)
          /\ q[m] = Found(q[m - 1], lines[m], Range(lines)) /\ lines[m] \in Range(lines)
      <4> HIDE DEF Fine
      <4>1. r[m] = Found(r[m - 1], lines[m], filter) /\ q[m] = Found(q[m - 1], lines[m], Range(lines))
        BY ONLY <1>1, <1>2, <3>1
      <4>2. lines[m] \in T /\ lines[m] \in Range(lines)
        BY <1>3, <3>1 DEF Range
      <4> QED BY ONLY <4>1, <4>2
    <3> DEFINE u == r[m - 1]
               v == q[m - 1]
               e == lines[m]
    <3>4. u \in Seq(T) /\ v \in Seq(T) /\ Len(u) <= Len(v) /\ Len(u) \in Nat /\ Len(v) \in Nat
      BY <3>2, LenProperties
    <3>5. /\ Append(u, e) \in Seq(T) /\ Len(Append(u, e)) = Len(u) + 1
          /\ \A j \in 1..Len(u) : Append(u, e)[j] = u[j]
          /\ Append(u, e)[Len(u) + 1] = e
      BY <3>3, <3>4, AppendProperties
    <3>6. Append(v, e) \in Seq(T) /\ Len(Append(v, e)) = Len(v) + 1
      BY <3>3, <3>4, AppendProperties
    <3>7. \A x : (\E j \in 1..Len(u) : u[j] = x)
             <=> \E j \in 1..m - 1 : lines[j] = x /\ x # Garbage /\ x \in filter
      BY <3>2
    <3>8. \A j : j \in 1..m <=> j \in 1..m - 1 \/ j = m
      BY <3>1
    <3> HIDE DEF u, v, e, Fine
    <3>9. CASE e = Garbage \/ e \notin filter
      <4>1. r[m] = u /\ (q[m] = v \/ q[m] = Append(v, e))
        BY <3>3, <3>9 DEF Found, u, v, e
      <4>2. \A x : (\E j \in 1..Len(u) : u[j] = x)
               <=> \E j \in 1..m : lines[j] = x /\ x # Garbage /\ x \in filter
        BY <3>7, <3>8, <3>9 DEF e
      <4>3. q[m] \in Seq(T) /\ Len(u) <= Len(q[m])
        <5>1. CASE q[m] = v
          BY ONLY <5>1, <3>4
        <5>2. CASE q[m] = Append(v, e)
          BY ONLY <5>2, <3>4, <3>6
        <5> QED BY ONLY <4>1, <5>1, <5>2
      <4> QED BY <4>1, <4>2, <4>3, <3>4, <2>1 DEF Fine
    <3>10. CASE ~(e = Garbage \/ e \notin filter)
      <4>1. r[m] = Append(u, e) /\ q[m] = Append(v, e)
        BY <3>3, <3>10 DEF Found, u, v, e
      <4>2. ASSUME NEW x
            PROVE  (\E j \in 1..Len(u) + 1 : Append(u, e)[j] = x) <=> (\E j \in 1..Len(u) : u[j] = x) \/ x = e
        <5>1. \A j : j \in 1..Len(u) + 1 <=> j \in 1..Len(u) \/ j = Len(u) + 1
          BY <3>4
        <5> QED BY <5>1, <3>5
      <4>3. \A x : (\E j \in 1..Len(r[m]) : r[m][j] = x)
               <=> \E j \in 1..m : lines[j] = x /\ x # Garbage /\ x \in filter
        <5>1. \A x : (\E j \in 1..Len(r[m]) : r[m][j] = x) <=> (\E j \in 1..Len(u) : u[j] = x) \/ x = e
          BY ONLY <4>1, <4>2, <3>5
        <5>2. \A x : (\E j \in 1..m : lines[j] = x /\ x # Garbage /\ x \in filter)
                 <=> (\E j \in 1..m - 1 : lines[j] = x /\ x # Garbage /\ x \in filter) \/ x = e
          BY ONLY <3>8, <3>10 DEF e
        <5> QED BY ONLY <5>1, <5>2, <3>7
      <4>4. Len(r[m]) <= Len(q[m])
        BY <4>1, <3>4, <3>5, <3>6
      <4> QED BY <4>1, <4>3, <4>4, <3>5, <3>6, <2>1 DEF Fine
    <3> QED BY <3>9, <3>10
  <2> QED BY <2>2, <2>3
<1> QED BY <1>4, <1>5

\* What is not read back of what was acknowledged is on no line.
LEMMA ReadBack == ASSUME FileInv, FewMissing PROVE TornLineEatsOne
<1> SUFFICES ASSUME NEW d \in DOMAIN disk
             PROVE  /\ Cardinality(Acked(d) \ Range(FileGetEvents(d, Acked(d), 0, 0))) <= crashes
                    /\ Len(FileGetEvents(d, Acked(d), 0, 0)) <= FileGetEventCount(d)
  BY DEF TornLineEatsOne, Acked
<1> DEFINE lines == disk[d].lines
           found == Events(lines, Acked(d))
<1>1. lines \in Seq(Line) /\ crashes \in Nat
  BY DEF FileInv, FileTypeOK, MapInto, SessionFiles
<1>2. /\ found \in Seq(Line) /\ Range(found) = {e \in Range(lines) : e # Garbage /\ e \in Acked(d)}
      /\ Len(found) <= Len(Events(lines, Range(lines)))
  <2> HIDE DEF lines
  <2> QED BY <1>1, EventsAre
<1>3. FileGetEvents(d, Acked(d), 0, 0) = found
  <2>1. SubSeq(found, 1, Len(found)) = found
    <3> HIDE DEF found
    <3> QED BY <1>2
  <2>2. FileGetEvents(d, Acked(d), 0, 0) = SubSeq(found, 0 + 1, Len(found))
    BY DEF FileGetEvents, Readable
  <2> QED BY <2>1, <2>2
<1>4. Garbage \notin Acked(d)
  BY FileAssumption DEF Acked
<1>5. Acked(d) \ Range(found) = Missing(d)
  <2> HIDE DEF found
  <2> QED BY <1>2, <1>4 DEF Missing
<1>6. Cardinality(Missing(d)) <= crashes
  <2>1. Cardinality(Missing(d)) \in Nat
    BY FS_CardinalityType DEF FewMissing
  <2> QED BY <2>1, <1>1 DEF FewMissing
<1>7. FileGetEventCount(d) = Len(Events(lines, Range(lines)))
  BY DEF FileGetEventCount, Readable
<1> HIDE DEF found
<1> QED BY <1>2, <1>3, <1>5, <1>6, <1>7

\* A crash costs at most one event whose append resolves, the first one after the
\* torn line: for every set of calls and batches and any number of crashes, all
\* but that many of the events acknowledged are read back, and what is read back
\* is counted.
THEOREM EventsReadBack == Spec => []TornLineEatsOne
BY FileInvariant, LinesKept, ReadBack, PTL

=============================================================================
