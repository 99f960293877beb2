------------------------ MODULE SessionManagerProofs ------------------------
(***************************************************************************)
(* Proofs about SessionManager, for every set of sessions and clients and  *)
(* every value of the caps.                                                *)
(***************************************************************************)
EXTENDS SessionManager, FiniteSetTheorems, SequenceTheorems, TLAPS

-----------------------------------------------------------------------------
(* Lists without repetition: the catalog of the memory adapter *)

Distinct(q) == \A i, j \in 1..Len(q) : q[i] = q[j] => i = j

\* A list that names every session of the set once.
Lists(q, S) == Distinct(q) /\ InSeq(q) = S

LEMMA AppendLists ==
    ASSUME NEW T, NEW q \in Seq(T), NEW x \in T, NEW S, Lists(q, S), x \notin S
    PROVE  Lists(Append(q, x), S \cup {x})
<1> DEFINE r == Append(q, x)
<1>1. /\ Len(r) = Len(q) + 1 /\ Len(q) \in Nat
      /\ \A i \in 1..Len(q) : r[i] = q[i]
      /\ r[Len(q) + 1] = x
  BY AppendProperties, LenProperties
<1>2. \A i \in 1..Len(q) : q[i] # x
  BY DEF Lists, InSeq
<1> HIDE DEF r
<1>3. \A i \in 1..Len(r) : i \in 1..Len(q) \/ i = Len(q) + 1
  BY <1>1
<1>4. Distinct(r)
  <2> SUFFICES ASSUME NEW i \in 1..Len(r), NEW j \in 1..Len(r), r[i] = r[j] PROVE i = j
    BY DEF Distinct
  <2> QED BY <1>1, <1>2, <1>3 DEF Lists, Distinct
<1>5. InSeq(r) = S \cup {x}
  <2>1. 1..Len(q) \subseteq 1..Len(r) /\ Len(q) + 1 \in 1..Len(r)
    BY <1>1
  <2> QED BY <1>1, <1>3, <2>1 DEF Lists, InSeq
<1> QED BY <1>4, <1>5 DEF Lists, r

\* A list without its i-th element.
LEMMA CutLists ==
    ASSUME NEW T, NEW q \in Seq(T), NEW S, Lists(q, S), NEW i \in 1..Len(q), NEW r \in Seq(T),
           Len(r) = Len(q) - 1,
           \A j \in 1..Len(r) : r[j] = IF j < i THEN q[j] ELSE q[j + 1]
    PROVE  Lists(r, S \ {q[i]})
<1>0. Len(q) \in Nat /\ Len(r) \in Nat
  BY LenProperties
<1> DEFINE At1(j) == IF j < i THEN j ELSE j + 1
<1>1. \A j \in 1..Len(r) : At1(j) \in 1..Len(q) /\ At1(j) # i /\ r[j] = q[At1(j)]
  BY <1>0
<1>2. \A j, k \in 1..Len(r) : At1(j) = At1(k) => j = k
  BY <1>0
<1>3. \A j \in 1..Len(q) : j # i => \E k \in 1..Len(r) : At1(k) = j
  <2> SUFFICES ASSUME NEW j \in 1..Len(q), j # i PROVE \E k \in 1..Len(r) : At1(k) = j
    OBVIOUS
  <2>1. CASE j < i
    BY <1>0, <2>1
  <2>2. CASE j > i
    <3>1. j - 1 \in 1..Len(r) /\ ~(j - 1 < i) /\ (j - 1) + 1 = j
      BY <1>0, <2>2
    <3> QED BY <3>1
  <2> QED BY <1>0, <2>1, <2>2
<1> HIDE DEF At1
<1>4. Distinct(r)
  BY <1>1, <1>2 DEF Lists, Distinct
<1>5. InSeq(r) = S \ {q[i]}
  <2>1. ASSUME NEW x \in InSeq(r) PROVE x \in S \ {q[i]}
    <3>1. PICK j \in 1..Len(r) : r[j] = x
      BY <2>1 DEF InSeq
    <3> QED BY <1>1, <3>1 DEF Lists, Distinct, InSeq
  <2>2. ASSUME NEW x \in S \ {q[i]} PROVE x \in InSeq(r)
    <3>1. PICK j \in 1..Len(q) : q[j] = x
      BY <2>2 DEF Lists, InSeq
    <3>2. PICK k \in 1..Len(r) : At1(k) = j
      BY <1>3, <2>2, <3>1
    <3> QED BY <1>1, <3>1, <3>2 DEF InSeq
  <2> QED BY <2>1, <2>2
<1> QED BY <1>4, <1>5 DEF Lists

LEMMA OmitLists ==
    ASSUME NEW T, NEW q \in Seq(T), NEW x, NEW S, Lists(q, S)
    PROVE  Lists(Omit(q, x), S \ {x})
<1>1. CASE x \in InSeq(q)
  <2> DEFINE i == CHOOSE i \in 1..Len(q) : q[i] = x
             r == SubSeq(q, 1, i - 1) \o SubSeq(q, i + 1, Len(q))
  <2>1. i \in 1..Len(q) /\ q[i] = x
    BY <1>1 DEF InSeq
  <2>2. Omit(q, x) = r
    BY <1>1 DEF Omit
  <2> HIDE DEF i
  <2>3. /\ r \in Seq(T) /\ Len(r) = Len(q) - 1
        /\ \A j \in 1..Len(r) : r[j] = IF j < i THEN q[j] ELSE q[j + 1]
    <3> DEFINE u == SubSeq(q, 1, i - 1)
               v == SubSeq(q, i + 1, Len(q))
    <3>1. /\ u \in Seq(T) /\ Len(u) = i - 1 /\ \A j \in 1..(i - 1) : u[j] = q[j]
          /\ Len(q) \in Nat /\ i \in Nat
      BY <2>1
    <3>2. /\ v \in Seq(T) /\ Len(v) = Len(q) - i
          /\ \A j \in 1..(Len(q) - i) : v[j] = q[j + i]
      BY <2>1
    <3> HIDE DEF u, v
    <3>3. r = u \o v
      BY DEF u, v
    <3> HIDE DEF r
    <3>4. /\ r \in Seq(T) /\ Len(r) = Len(u) + Len(v)
          /\ \A j \in 1..Len(r) : r[j] = IF j <= Len(u) THEN u[j] ELSE v[j - Len(u)]
      <4>1. u \in Seq(T) /\ v \in Seq(T)
        BY <3>1, <3>2
      <4> QED BY <4>1, <3>3, ConcatProperties
    <3>5. Len(r) = Len(q) - 1
      <4> DEFINE n == Len(q)
      <4>1. n \in Int /\ i \in Int /\ Len(u) = i - 1 /\ Len(v) = n - i /\ Len(r) = Len(u) + Len(v)
        BY <3>1, <3>2, <3>4
      <4> HIDE DEF n
      <4>2. Len(r) = n - 1
        BY ONLY <4>1
      <4> QED BY <4>2 DEF n
    <3>6. ASSUME NEW j \in 1..Len(r) PROVE r[j] = IF j < i THEN q[j] ELSE q[j + 1]
      <4>1. CASE j < i
        BY <2>1, <3>1, <3>4, <4>1
      <4>2. CASE ~(j < i)
        <5>1. /\ j - Len(u) \in 1..(Len(q) - i) /\ ~(j <= Len(u))
              /\ (j - Len(u)) + i = j + 1
          BY ONLY <2>1, <3>1, <3>5, <4>2, j \in 1..Len(r)
        <5> QED BY <3>2, <3>4, <4>2, <5>1
      <4> QED BY <4>1, <4>2
    <3> QED BY <3>4, <3>5, <3>6
  <2> HIDE DEF r
  <2> QED BY <2>1, <2>2, <2>3, CutLists
<1>2. CASE x \notin InSeq(q)
  BY <1>2 DEF Omit, Lists
<1> QED BY <1>1, <1>2

LEMMA TailLists ==
    ASSUME NEW T, NEW q \in Seq(T), NEW S, Lists(q, S), q # <<>>
    PROVE  Lists(Tail(q), S \ {Head(q)}) /\ Head(q) \in S
<1>1. Len(q) \in Nat /\ Len(q) >= 1 /\ Head(q) = q[1]
  BY LenProperties, EmptySeq
<1>2. /\ Tail(q) \in Seq(T) /\ Len(Tail(q)) = Len(q) - 1
      /\ \A j \in 1..Len(Tail(q)) : Tail(q)[j] = IF j < 1 THEN q[j] ELSE q[j + 1]
  BY <1>1
<1>3. 1 \in 1..Len(q)
  BY <1>1
<1>4. Head(q) \in S
  BY <1>1, <1>3 DEF Lists, InSeq
<1>5. Lists(Tail(q), S \ {q[1]})
  BY <1>2, <1>3, CutLists
<1> QED BY <1>1, <1>4, <1>5

\* A list is as long as the set is large.
LEMMA ListLength ==
    ASSUME NEW T, NEW q \in Seq(T), NEW S, Lists(q, S)
    PROVE  IsFiniteSet(S) /\ Cardinality(S) = Len(q)
<1>0. Len(q) \in Nat
  BY LenProperties
<1>1. IsFiniteSet(1..Len(q)) /\ Cardinality(1..Len(q)) = Len(q)
  <2>1. /\ IsFiniteSet(1..Len(q))
        /\ Cardinality(1..Len(q)) = IF 1 > Len(q) THEN 0 ELSE Len(q) - 1 + 1
    <3>1. 1 \in Int /\ Len(q) \in Int
      BY <1>0
    <3> QED BY <3>1, FS_Interval, Zenon
  <2> QED BY <1>0, <2>1
<1> DEFINE f == [i \in 1..Len(q) |-> q[i]]
<1>2. f \in Bijection(1..Len(q), S)
  <2>1. /\ f \in [1..Len(q) -> S]
        /\ \A i \in 1..Len(q) : f[i] = q[i]
        /\ \A x \in S : \E i \in 1..Len(q) : q[i] = x
    BY DEF Lists, InSeq
  <2> HIDE DEF f
  <2>2. f \in Surjection(1..Len(q), S)
    BY <2>1 DEF Surjection
  <2>3. \A i, j \in 1..Len(q) : f[i] = f[j] => i = j
    BY <2>1 DEF Lists, Distinct
  <2>4. f \in Injection(1..Len(q), S)
    BY <2>1, <2>3 DEF Injection, IsInjective
  <2> QED BY <2>2, <2>4 DEF Bijection
<1>3. IsFiniteSet(S) /\ Cardinality(S) = Cardinality(1..Len(q))
  <2> HIDE DEF f
  <2> QED BY <1>1, <1>2, FS_Bijection DEF ExistsBijection
<1> QED BY <1>1, <1>3

USE SessionManagerAssumption

-----------------------------------------------------------------------------
(* Maps, sequences and the cache *)

LEMMA PutInto ==
    ASSUME NEW m, NEW K, NEW V, MapInto(m, K, V), NEW k \in K, NEW v \in V
    PROVE  MapInto(Put(m, k, v), K, V)
BY DEF MapInto, Put

LEMMA WithoutInto ==
    ASSUME NEW m, NEW K, NEW V, MapInto(m, K, V), NEW E
    PROVE  MapInto(Without(m, E), K, V)
BY DEF MapInto, Without

LEMMA NewestType ==
    ASSUME NEW n \in Nat, NEW S, NEW q \in Seq(S)
    PROVE  Newest(n, q) \in Seq(S)
BY DEF Newest

LEMMA OldestType ==
    ASSUME NEW n \in Nat, NEW S, NEW q \in Seq(S)
    PROVE  Oldest(n, q) \in Seq(S)
BY DEF Oldest

LEMMA OmitType ==
    ASSUME NEW S, NEW q \in Seq(S), NEW x
    PROVE  Omit(q, x) \in Seq(S)
<1>1. CASE x \in InSeq(q)
  <2> DEFINE i == CHOOSE i \in 1..Len(q) : q[i] = x
  <2>1. i \in 1..Len(q)
    BY <1>1 DEF InSeq
  <2>2. SubSeq(q, 1, i - 1) \in Seq(S) /\ SubSeq(q, i + 1, Len(q)) \in Seq(S)
    <3> HIDE DEF i
    <3> QED BY <2>1
  <2>3. Omit(q, x) = SubSeq(q, 1, i - 1) \o SubSeq(q, i + 1, Len(q))
    BY <1>1 DEF Omit
  <2> HIDE DEF i
  <2> QED BY ONLY <2>2, <2>3, ConcatProperties
<1>2. CASE x \notin InSeq(q)
  BY <1>2 DEF Omit
<1> QED BY <1>1, <1>2

Cached == [events : Seq(Batch), at : Time]

LEMMA StoredType ==
    ASSUME NEW q \in Seq(Batch), NEW b \in Batch
    PROVE  Stored(q, b) \in Seq(Batch)
<1>1. Append(q, b) \in Seq(Batch)
  OBVIOUS
<1>2. Newest(StoreCap, Append(q, b)) \in Seq(Batch)
  BY <1>1, NewestType
<1> QED BY <1>1, <1>2 DEF Stored

LEMMA CorrelatorType ==
    ASSUME NEW q \in Seq(Batch), now \in Time
    PROVE  Correlator(q) \in Cached
<1>1. Newest(CorrelatorCap, q) \in Seq(Batch)
  BY NewestType
<1> QED BY <1>1 DEF Correlator, Cached

LEMMA InsertType ==
    ASSUME MapInto(correlators, Session, Cached), NEW s \in Session,
           NEW e \in Cached, Insert(s, e)
    PROVE  MapInto(correlators', Session, Cached)
<1>1. PICK E : correlators' = Without(Put(correlators, s, e), E)
  BY DEF Insert
<1>2. MapInto(Put(correlators, s, e), Session, Cached)
  BY PutInto
<1> QED BY <1>1, <1>2, WithoutInto

\* Insertion keeps the cache at or under its cap.
LEMMA InsertBounded ==
    ASSUME DOMAIN correlators \subseteq Session, NEW s \in Session, NEW e, Insert(s, e)
    PROVE  Cardinality(DOMAIN correlators') <= MaxCorrelators
<1> DEFINE m == Put(correlators, s, e)
<1>1. PICK E \in Victims(m, s) : correlators' = Without(m, E)
  BY DEF Insert
<1>2. DOMAIN m \subseteq Session /\ DOMAIN correlators' = DOMAIN m \ E
  BY <1>1 DEF Put, Without
<1>3. IsFiniteSet(DOMAIN m) /\ Cardinality(DOMAIN m) \in Nat
  BY <1>2, FS_Subset, FS_CardinalityType
<1>4. CASE Cardinality(DOMAIN m) <= MaxCorrelators
  <2>1. E = {}
    BY <1>1, <1>4 DEF Victims
  <2> QED BY <2>1, <1>2, <1>4
<1>5. CASE ~(Cardinality(DOMAIN m) <= MaxCorrelators)
  <2>1. /\ E \subseteq DOMAIN m
        /\ Cardinality(E) = Cardinality(DOMAIN m) - EvictTarget
    BY <1>1, <1>5 DEF Victims
  <2>2. Cardinality(DOMAIN m \ E) = Cardinality(DOMAIN m) - Cardinality(E)
    BY <2>1, <1>3, FS_Difference, FS_Subset, DOMAIN m \cap E = E
  <2>3. Cardinality(DOMAIN m \ E) = EvictTarget
    BY <2>1, <2>2, <1>3
  <2> QED BY <2>3, <1>2
<1> QED BY <1>4, <1>5

-----------------------------------------------------------------------------
(* Requests *)

OpType == MapInto(op, Client, Suspended) /\ answer \in [Client -> Answers]

LEMMA BeginType ==
    ASSUME OpType, NEW c \in Client, NEW r \in Suspended, Begin(c, r)
    PROVE  OpType'
<1>1. MapInto(op', Client, Suspended)
  BY PutInto DEF OpType, Begin
<1> QED BY <1>1 DEF OpType, Begin, Answers

LEMMA GotoType ==
    ASSUME OpType, NEW c \in DOMAIN op, NEW pc \in Pcs, Goto(c, pc)
    PROVE  OpType'
BY DEF OpType, Goto, MapInto, Suspended

LEMMA ReplyType ==
    ASSUME OpType, NEW c \in Client, NEW a \in Answers, Reply(c, a)
    PROVE  OpType'
<1>1. MapInto(op', Client, Suspended)
  BY WithoutInto DEF OpType, Reply
<1> QED BY <1>1 DEF OpType, Reply

Rebuilding == [pc : {"load", "read", "set"}, events : Seq(Batch)]

LEMMA SettleType ==
    ASSUME OpType, MapInto(rebuilds, Session, Rebuilding),
           NEW s, NEW a \in Answers, Settle(s, a)
    PROVE  OpType' /\ MapInto(rebuilds', Session, Rebuilding)
<1>1. MapInto(op', Client, Suspended) /\ MapInto(rebuilds', Session, Rebuilding)
  BY WithoutInto DEF OpType, Settle
<1> QED BY <1>1 DEF OpType, Settle

LEMMA RequestType ==
    ASSUME NEW kind \in Kinds, NEW pc \in Pcs, NEW s \in Session
    PROVE  Request(kind, pc, s) \in Suspended
BY DEF Request, Suspended, Status

LEMMA Strings ==
    /\ Kinds = {"create", "ingest", "timeline", "delete", "update"}
    /\ {"save", "saved", "check", "load", "append", "feed", "found", "set", "reload",
        "remove", "removed", "lookup", "owner", "join"} \subseteq Pcs
    /\ {"ok", "empty", "missing", "failed"} \subseteq Answers
BY DEF Kinds, Pcs, Answers

-----------------------------------------------------------------------------
(* Type correctness *)

LEMMA InitType == Init => TypeOK
BY DEF Init, TypeOK, MapInto, NoKeys, NoPurge, Time, Answers

StoreType == MapInto(store, Session, SessionRecord) /\ catalog \in Seq(Session)

LEMMA SaveType ==
    ASSUME StoreType, now \in Time, NEW s \in Session, Save(s)
    PROVE  StoreType'
<1> DEFINE new == [status |-> "idle", started |-> now, ended |-> Never, events |-> <<>>]
<1>1. new \in SessionRecord
  BY DEF SessionRecord, Status
<1>2. MapInto(Without(store, Overflow), Session, SessionRecord)
  BY WithoutInto DEF StoreType
<1>3. MapInto(store', Session, SessionRecord)
  BY <1>1, <1>2, PutInto DEF Save
<1>4. catalog # <<>> => Tail(catalog) \in Seq(Session)
  BY DEF StoreType
<1>5. Overflow # {} => catalog # <<>>
  BY DEF Overflow, StoreType
<1>6. catalog' \in Seq(Session)
  BY <1>4, <1>5 DEF Save, StoreType
<1> QED BY <1>3, <1>6 DEF StoreType

LEMMA RemoveType ==
    ASSUME StoreType, NEW s, Remove(s)
    PROVE  StoreType'
<1>1. MapInto(store', Session, SessionRecord)
  BY WithoutInto DEF StoreType, Remove
<1>2. catalog' \in Seq(Session)
  BY OmitType DEF StoreType, Remove
<1> QED BY <1>1, <1>2 DEF StoreType

LEMMA AppendEventsType ==
    ASSUME StoreType, NEW s \in DOMAIN store, NEW b \in Batch, AppendEvents(s, b)
    PROVE  StoreType'
<1>1. store[s].events \in Seq(Batch)
  BY DEF StoreType, MapInto, SessionRecord
<1>2. Stored(store[s].events, b) \in Seq(Batch)
  BY <1>1, StoredType
<1> QED BY <1>2 DEF StoreType, AppendEvents, MapInto, SessionRecord

LEMMA SetStatusType ==
    ASSUME StoreType, now \in Time, NEW s \in DOMAIN store, NEW to \in Status, SetStatus(s, to)
    PROVE  StoreType'
BY DEF StoreType, SetStatus, MapInto, SessionRecord

LEMMA StoredEventsType ==
    ASSUME StoreType, NEW s
    PROVE  StoredEvents(s) \in Seq(Batch)
BY DEF StoreType, StoredEvents, MapInto, SessionRecord

\* TypeOK, grouped by who disturbs what.
RestType ==
    /\ used \subseteq Session
    /\ purge \in [pc : {"off", "next", "removed"}, todo : SUBSET Session,
                  sid : SUBSET Session]
    /\ gauge \in Int
    /\ now \in Time
    /\ restarts \in 0..MaxRestarts
    /\ hooks \in [Session -> SUBSET Hooks]
    /\ MapInto(owner, Batch, Session)
    /\ persisted \subseteq Batch
    /\ acked \subseteq Batch

LEMMA TypeParts ==
    TypeOK <=> /\ StoreType
               /\ MapInto(correlators, Session, Cached)
               /\ MapInto(rebuilds, Session, Rebuilding)
               /\ OpType
               /\ RestType
BY DEF TypeOK, StoreType, OpType, RestType, Cached, Rebuilding

LEMMA ArriveType ==
    ASSUME TypeOK, NEW c \in Client, Arrive(c)
    PROVE  TypeOK'
<1>0. /\ StoreType /\ OpType /\ RestType
      /\ MapInto(correlators, Session, Cached)
      /\ MapInto(rebuilds, Session, Rebuilding)
  BY TypeParts
<1>1. CASE CreateStart(c)
  <2>1. PICK s \in Session :
          /\ Begin(c, Request("create", "save", s))
          /\ used' = used \cup {s}
          /\ Insert(s, Correlator(<<>>))
    BY <1>1 DEF CreateStart
  <2>2. OpType'
    BY <1>0, <2>1, BeginType, RequestType, Strings
  <2>3. Correlator(<<>>) \in Cached
    BY <1>0, CorrelatorType, <<>> \in Seq(Batch) DEF RestType
  <2>4. MapInto(correlators', Session, Cached)
    BY <1>0, <2>1, <2>3, InsertType
  <2> QED BY <1>0, <1>1, <2>1, <2>2, <2>4
          DEF TypeOK, StoreType, OpType, RestType, Cached, Rebuilding, CreateStart,
              storage, clock, history
<1>2. CASE DeleteStart(c)
  <2>1. OpType'
    BY <1>0, <1>2, BeginType, RequestType, Strings DEF DeleteStart, RestType
  <2> QED BY <1>0, <1>2, <2>1
          DEF TypeOK, StoreType, OpType, RestType, Cached, Rebuilding, DeleteStart,
              storage, clock, history, Aside
<1>3. CASE UpdateStart(c)
  <2>1. PICK s \in used, to \in Targets :
          Begin(c, [Request("update", "load", s) EXCEPT !.to = to])
    BY <1>3 DEF UpdateStart
  <2>2. [Request("update", "load", s) EXCEPT !.to = to] \in Suspended
    BY <1>0, <2>1 DEF Request, Suspended, Kinds, Pcs, Status, RestType, SessionManagerAssumption
  <2>3. OpType'
    BY <1>0, <2>1, <2>2, BeginType
  <2> QED BY <1>0, <1>3, <2>3
          DEF TypeOK, StoreType, OpType, RestType, Cached, Rebuilding, UpdateStart,
              storage, clock, history, Aside
<1>4. CASE IngestStart(c)
  <2>1. PICK s \in used, b \in Batch :
          /\ Begin(c, [Request("ingest", "check", s) EXCEPT !.batch = b])
          /\ owner' = Put(owner, b, s)
    BY <1>4 DEF IngestStart
  <2>2. [Request("ingest", "check", s) EXCEPT !.batch = b] \in Suspended
    BY <1>0, <2>1 DEF Request, Suspended, Kinds, Pcs, Status, RestType
  <2>3. OpType'
    BY <1>0, <2>1, <2>2, BeginType
  <2>4. MapInto(owner', Batch, Session)
    BY <1>0, <2>1, PutInto DEF RestType
  <2> QED BY <1>0, <1>4, <2>3, <2>4
          DEF TypeOK, StoreType, OpType, RestType, Cached, Rebuilding, IngestStart,
              storage, clock, Aside
<1>5. CASE TimelineStart(c)
  <2>1. PICK s \in used :
          Begin(c, [Request("timeline", "lookup", s) EXCEPT !.due = AckedFor(s)])
    BY <1>5 DEF TimelineStart
  <2>2. [Request("timeline", "lookup", s) EXCEPT !.due = AckedFor(s)] \in Suspended
    BY <1>0, <2>1 DEF Request, Suspended, Kinds, Pcs, Status, RestType, AckedFor
  <2>3. OpType'
    BY <1>0, <2>1, <2>2, BeginType
  <2> QED BY <1>0, <1>5, <2>3
          DEF TypeOK, StoreType, OpType, RestType, Cached, Rebuilding, TimelineStart,
              storage, clock, history, Aside
<1> QED BY <1>1, <1>2, <1>3, <1>4, <1>5 DEF Arrive

\* An ingest request carries a batch that was sent to its session.
IngestSends ==
    \A c \in DOMAIN op : op[c].kind = "ingest" =>
        op[c].batch \in DOMAIN owner /\ owner[op[c].batch] = op[c].sid

LEMMA HandleType ==
    ASSUME TypeOK, IngestSends, NEW c \in Client, Handle(c)
    PROVE  TypeOK'
<1>0. /\ StoreType /\ OpType /\ RestType
      /\ MapInto(correlators, Session, Cached)
      /\ MapInto(rebuilds, Session, Rebuilding)
  BY TypeParts
<1>1. c \in DOMAIN op /\ op[c] \in Suspended
  BY <1>0 DEF Handle, At, CreateSave, CreateDone, DeleteLoad, DeleteRemove, DeleteDone,
     UpdateLoad, UpdateGauge, UpdateSet, UpdateDone, IngestCheck, IngestLoad,
     IngestAppend, IngestFeed, TimelineHit, TimelineMiss, OpType, MapInto
<1>2. /\ op[c].sid \in Session /\ op[c].from \in Status /\ op[c].to \in Status
      /\ op[c].batch \in Batch \cup {0}
  BY <1>1 DEF Suspended
<1> USE DEF storage, clock, history, Aside
<1>a. CASE CreateSave(c)
  <2>1. StoreType'
    BY <1>0, <1>2, <1>a, SaveType DEF CreateSave, RestType
  <2>2. OpType'
    BY <1>0, <1>1, <1>a, GotoType, Strings DEF CreateSave
  <2> QED BY <1>0, <1>a, <2>1, <2>2
          DEF TypeOK, StoreType, OpType, RestType, Cached, Rebuilding, CreateSave, Save
<1>b. CASE CreateDone(c)
  <2>1. OpType'
    BY <1>0, <1>b, ReplyType, Strings DEF CreateDone
  <2> QED BY <1>0, <1>2, <1>b, <2>1
          DEF TypeOK, StoreType, OpType, RestType, Cached, Rebuilding, CreateDone, Emit, Hooks
<1>c. CASE DeleteLoad(c)
  <2>1. OpType'
    BY <1>0, <1>1, <1>c, ReplyType, GotoType, Strings DEF DeleteLoad
  <2> QED BY <1>0, <1>c, <2>1
          DEF TypeOK, StoreType, OpType, RestType, Cached, Rebuilding, DeleteLoad
<1>d. CASE DeleteRemove(c)
  <2>1. StoreType'
    BY <1>0, <1>d, RemoveType DEF DeleteRemove
  <2>2. OpType'
    BY <1>0, <1>1, <1>d, GotoType, Strings DEF DeleteRemove
  <2> QED BY <1>0, <1>d, <2>1, <2>2
          DEF TypeOK, StoreType, OpType, RestType, Cached, Rebuilding, DeleteRemove, Remove
<1>e. CASE DeleteDone(c)
  <2>1. OpType'
    BY <1>0, <1>e, ReplyType, Strings DEF DeleteDone
  <2>2. MapInto(correlators', Session, Cached)
    BY <1>0, <1>e, WithoutInto DEF DeleteDone
  <2> QED BY <1>0, <1>2, <1>e, <2>1, <2>2
          DEF TypeOK, StoreType, OpType, RestType, Cached, Rebuilding, DeleteDone, Emit, Hooks
<1>f. CASE UpdateLoad(c)
  <2>1. CASE op[c].sid \in DOMAIN store
    <3>1. store[op[c].sid].status \in Status
      BY <1>0, <2>1 DEF StoreType, MapInto, SessionRecord
    <3>2. OpType'
      BY <1>0, <1>f, <2>1, <3>1 DEF UpdateLoad, OpType, MapInto, Suspended, Pcs
    <3> QED BY <1>0, <1>f, <3>2
            DEF TypeOK, StoreType, OpType, RestType, Cached, Rebuilding, UpdateLoad
  <2>2. CASE op[c].sid \notin DOMAIN store
    <3>1. OpType'
      BY <1>0, <1>f, <2>2, ReplyType, Strings DEF UpdateLoad
    <3> QED BY <1>0, <1>f, <3>1
            DEF TypeOK, StoreType, OpType, RestType, Cached, Rebuilding, UpdateLoad
  <2> QED BY <2>1, <2>2
<1>g. CASE UpdateGauge(c)
  <2>1. OpType'
    BY <1>0, <1>1, <1>g, GotoType, Strings DEF UpdateGauge
  <2>2. gauge' \in Int
    BY <1>0, <1>g DEF UpdateGauge, GaugeAfter, RestType
  <2> QED BY <1>0, <1>g, <2>1, <2>2
          DEF TypeOK, StoreType, OpType, RestType, Cached, Rebuilding, UpdateGauge
<1>h. CASE UpdateSet(c)
  <2>1. OpType'
    BY <1>0, <1>1, <1>h, ReplyType, GotoType, Strings DEF UpdateSet
  <2>2. StoreType' /\ UNCHANGED persisted
    BY <1>0, <1>2, <1>h, SetStatusType DEF UpdateSet, RestType, SetStatus, StoreType
  <2> QED BY <1>0, <1>h, <2>1, <2>2
          DEF TypeOK, StoreType, OpType, RestType, Cached, Rebuilding, UpdateSet
<1>i. CASE UpdateDone(c)
  <2>1. OpType'
    BY <1>0, <1>i, ReplyType, Strings DEF UpdateDone
  <2>2. hooks' \in [Session -> SUBSET Hooks]
    BY <1>0, <1>2, <1>i DEF UpdateDone, Emit, Hooks, RestType
  <2> QED BY <1>0, <1>i, <2>1, <2>2
          DEF TypeOK, StoreType, OpType, RestType, Cached, Rebuilding, UpdateDone
<1>j. CASE IngestCheck(c)
  <2>1. OpType'
    BY <1>0, <1>1, <1>j, ReplyType, GotoType, Strings DEF IngestCheck
  <2> QED BY <1>0, <1>j, <2>1
          DEF TypeOK, StoreType, OpType, RestType, Cached, Rebuilding, IngestCheck
<1>k. CASE IngestLoad(c)
  <2>1. OpType'
    BY <1>0, <1>1, <1>k, ReplyType, GotoType, Strings DEF IngestLoad
  <2> QED BY <1>0, <1>k, <2>1
          DEF TypeOK, StoreType, OpType, RestType, Cached, Rebuilding, IngestLoad
<1>l. CASE IngestAppend(c)
  <2>1. OpType'
    BY <1>0, <1>1, <1>l, ReplyType, GotoType, Strings DEF IngestAppend
  <2>2. op[c].batch \in Batch
    BY <1>0, <1>1, <1>l DEF IngestAppend, At, IngestSends, RestType, MapInto
  <2>3. StoreType' /\ persisted' \subseteq Batch
    BY <1>0, <1>l, <2>2, AppendEventsType DEF IngestAppend, AppendEvents, StoreType, RestType
  <2> QED BY <1>0, <1>l, <2>1, <2>3
          DEF TypeOK, StoreType, OpType, RestType, Cached, Rebuilding, IngestAppend
<1>m. CASE IngestFeed(c)
  <2>1. OpType'
    BY <1>0, <1>m, ReplyType, Strings DEF IngestFeed
  <2>2. op[c].batch \in Batch
    BY <1>0, <1>1, <1>m DEF IngestFeed, At, IngestSends, RestType, MapInto
  <2>3. MapInto(correlators', Session, Cached)
    <3>1. CASE op[c].sid \in DOMAIN correlators
      <4>1. correlators[op[c].sid].events \in Seq(Batch)
        BY <1>0, <3>1 DEF MapInto, Cached
      <4>2. Correlator(Append(correlators[op[c].sid].events, op[c].batch)) \in Cached
        BY <1>0, <2>2, <4>1, CorrelatorType, AppendProperties DEF RestType
      <4> QED BY <1>0, <1>m, <3>1, <4>2 DEF IngestFeed, Feed, MapInto
    <3>2. CASE op[c].sid \notin DOMAIN correlators
      <4>1. Correlator(<<op[c].batch>>) \in Cached
        BY <1>0, <2>2, CorrelatorType, <<op[c].batch>> \in Seq(Batch) DEF RestType
      <4> QED BY <1>0, <1>2, <1>m, <3>2, <4>1, InsertType DEF IngestFeed, Feed
    <3> QED BY <3>1, <3>2
  <2> QED BY <1>0, <1>m, <2>1, <2>2, <2>3
          DEF TypeOK, StoreType, OpType, RestType, Cached, Rebuilding, IngestFeed
<1>n. CASE TimelineHit(c)
  <2>1. OpType'
    BY <1>0, <1>n, ReplyType, Strings DEF TimelineHit
  <2>2. MapInto(correlators', Session, Cached)
    BY <1>0, <1>n DEF TimelineHit, MapInto, Cached, RestType
  <2> QED BY <1>0, <1>n, <2>1, <2>2
          DEF TypeOK, StoreType, OpType, RestType, Cached, Rebuilding, TimelineHit
<1>o. CASE TimelineMiss(c)
  <2>1. OpType'
    BY <1>0, <1>1, <1>o, ReplyType, GotoType, Strings DEF TimelineMiss
  <2>2. MapInto(rebuilds', Session, Rebuilding)
    <3>1. [pc |-> "load", events |-> <<>>] \in Rebuilding
      BY DEF Rebuilding
    <3> QED BY <1>0, <1>2, <1>o, <3>1, PutInto DEF TimelineMiss
  <2> QED BY <1>0, <1>o, <2>1, <2>2
          DEF TypeOK, StoreType, OpType, RestType, Cached, Rebuilding, TimelineMiss
<1> QED BY <1>a, <1>b, <1>c, <1>d, <1>e, <1>f, <1>g, <1>h, <1>i, <1>j, <1>k, <1>l,
           <1>m, <1>n, <1>o DEF Handle

LEMMA RebuildType ==
    ASSUME TypeOK, NEW s \in Session, Rebuild(s) \/ RebuildThrows(s)
    PROVE  TypeOK'
<1>0. /\ StoreType /\ OpType /\ RestType
      /\ MapInto(correlators, Session, Cached)
      /\ MapInto(rebuilds, Session, Rebuilding)
  BY TypeParts
<1> USE DEF storage, clock, history
<1>1. CASE RebuildLoad(s)
  <2>1. OpType' /\ MapInto(rebuilds', Session, Rebuilding)
    <3>1. CASE s \in DOMAIN store
      <4>1. MapInto(rebuilds', Session, Rebuilding)
        <5>1. rebuilds' = [rebuilds EXCEPT ![s].pc = "read"] /\ s \in DOMAIN rebuilds
          BY <1>1, <3>1 DEF RebuildLoad
        <5>2. [rebuilds[s] EXCEPT !.pc = "read"] \in Rebuilding
          BY <1>0, <5>1 DEF MapInto, Rebuilding
        <5> QED BY <1>0, <5>1, <5>2 DEF MapInto
      <4>2. UNCHANGED <<op, answer>>
        BY <1>1, <3>1 DEF RebuildLoad
      <4> QED BY <1>0, <4>1, <4>2 DEF OpType, MapInto
    <3>2. CASE s \notin DOMAIN store
      BY <1>0, <1>1, <3>2, SettleType, Strings DEF RebuildLoad
    <3> QED BY <3>1, <3>2
  <2> QED BY <1>0, <1>1, <2>1
          DEF TypeOK, StoreType, OpType, RestType, Cached, Rebuilding, RebuildLoad
<1>2. CASE RebuildRead(s)
  <2>1. Oldest(RebuildLimit, StoredEvents(s)) \in Seq(Batch)
    BY <1>0, OldestType, StoredEventsType
  <2>2. MapInto(rebuilds', Session, Rebuilding)
    BY <1>0, <1>2, <2>1 DEF RebuildRead, MapInto, Rebuilding
  <2> QED BY <1>0, <1>2, <2>2
          DEF TypeOK, StoreType, OpType, RestType, Cached, Rebuilding, RebuildRead
<1>3. CASE RebuildSet(s)
  <2>1. OpType' /\ MapInto(rebuilds', Session, Rebuilding)
    BY <1>0, <1>3, SettleType, Strings DEF RebuildSet
  <2>2. rebuilds[s].events \in Seq(Batch)
    BY <1>0, <1>3 DEF RebuildSet, MapInto, Rebuilding
  <2>3. MapInto(correlators', Session, Cached)
    BY <1>0, <1>3, <2>2, CorrelatorType, InsertType DEF RebuildSet, RestType
  <2> QED BY <1>0, <1>3, <2>1, <2>3
          DEF TypeOK, StoreType, OpType, RestType, Cached, Rebuilding, RebuildSet
<1>4. CASE RebuildThrows(s)
  <2>1. OpType' /\ MapInto(rebuilds', Session, Rebuilding)
    BY <1>0, <1>4, SettleType, Strings DEF RebuildThrows
  <2> QED BY <1>0, <1>4, <2>1
          DEF TypeOK, StoreType, OpType, RestType, Cached, Rebuilding, RebuildThrows
<1> QED BY <1>1, <1>2, <1>3, <1>4 DEF Rebuild

LEMMA PurgeType ==
    ASSUME TypeOK, Purge \/ PurgeThrows
    PROVE  TypeOK'
<1>0. /\ StoreType /\ OpType /\ RestType
      /\ MapInto(correlators, Session, Cached)
      /\ MapInto(rebuilds, Session, Rebuilding)
  BY TypeParts
<1> USE DEF storage, clock, history
<1>1. CASE PurgeList
  <2>1. Expired \subseteq Session
    BY <1>0 DEF Expired, StoreType, MapInto
  <2> QED BY <1>0, <1>1, <2>1
          DEF TypeOK, StoreType, OpType, RestType, Cached, Rebuilding, PurgeList
<1>2. CASE PurgeRemove
  <2>1. PICK s \in purge.todo :
          /\ Remove(s)
          /\ purge' = [pc |-> "removed", todo |-> purge.todo \ {s}, sid |-> {s}]
    BY <1>2 DEF PurgeRemove
  <2>2. StoreType' /\ UNCHANGED persisted
    BY <1>0, <2>1, RemoveType DEF Remove
  <2>3. purge' \in [pc : {"off", "next", "removed"}, todo : SUBSET Session,
                    sid : SUBSET Session]
    BY <1>0, <2>1 DEF RestType
  <2> QED BY <1>0, <1>2, <2>2, <2>3
          DEF TypeOK, StoreType, OpType, RestType, Cached, Rebuilding, PurgeRemove
<1>3. CASE PurgeForget
  <2>1. MapInto(correlators', Session, Cached)
    BY <1>0, <1>3, WithoutInto DEF PurgeForget
  <2> QED BY <1>0, <1>3, <2>1
          DEF TypeOK, StoreType, OpType, RestType, Cached, Rebuilding, PurgeForget, NoPurge
<1>4. CASE PurgeThrows
  BY <1>0, <1>4
     DEF TypeOK, StoreType, OpType, RestType, Cached, Rebuilding, PurgeThrows, NoPurge
<1> QED BY <1>1, <1>2, <1>3, <1>4 DEF Purge

LEMMA StepType ==
    ASSUME TypeOK, IngestSends, [Next]_vars
    PROVE  TypeOK'
<1>0. /\ StoreType /\ OpType /\ RestType
      /\ MapInto(correlators, Session, Cached)
      /\ MapInto(rebuilds, Session, Rebuilding)
  BY TypeParts
<1> USE DEF storage, clock, history
<1>1. ASSUME NEW c \in Client, RequestThrows(c) PROVE TypeOK'
  <2>1. OpType'
    BY <1>0, <1>1, ReplyType, Strings DEF RequestThrows
  <2> QED BY <1>0, <1>1, <2>1
          DEF TypeOK, StoreType, OpType, RestType, Cached, Rebuilding, RequestThrows, Aside
<1>2. CASE Tick
  BY <1>0, <1>2 DEF TypeOK, StoreType, OpType, RestType, Cached, Rebuilding, Tick, Time
<1>3. CASE Restart
  <2>1. OpType'
    BY <1>0, <1>3 DEF Restart, OpType, MapInto, NoKeys, Answers
  <2>2. MapInto(correlators', Session, Cached) /\ MapInto(rebuilds', Session, Rebuilding)
    BY <1>3 DEF Restart, MapInto, NoKeys
  <2> QED BY <1>0, <1>3, <2>1, <2>2
          DEF TypeOK, StoreType, OpType, RestType, Cached, Rebuilding, Restart, NoPurge
<1>4. CASE UNCHANGED vars
  BY <1>4 DEF TypeOK, vars, MapInto, Time
<1> QED
  BY <1>1, <1>2, <1>3, <1>4, ArriveType, HandleType, RebuildType, PurgeType DEF Next

\* A request keeps its kind, session and batch from one step to the next.
Kept(d) ==
    /\ d \in DOMAIN op
    /\ op'[d].kind = op[d].kind
    /\ op'[d].sid = op[d].sid
    /\ op'[d].batch = op[d].batch

LEMMA HandleKeeps ==
    ASSUME TypeOK, NEW c \in Client, Handle(c), NEW d \in DOMAIN op'
    PROVE  Kept(d) /\ owner' = owner
<1>0. MapInto(op, Client, Suspended)
  BY DEF TypeOK
<1>1. owner' = owner
  BY DEF Handle, CreateSave, CreateDone, DeleteLoad, DeleteRemove, DeleteDone,
     UpdateLoad, UpdateGauge, UpdateSet, UpdateDone, IngestCheck, IngestLoad,
     IngestAppend, IngestFeed, TimelineHit, TimelineMiss, history
<1>2. c \in DOMAIN op
  BY DEF Handle, At, CreateSave, CreateDone, DeleteLoad, DeleteRemove, DeleteDone,
     UpdateLoad, UpdateGauge, UpdateSet, UpdateDone, IngestCheck, IngestLoad,
     IngestAppend, IngestFeed, TimelineHit, TimelineMiss
<1>3. \/ \E a : Reply(c, a)
      \/ \E pc : Goto(c, pc)
      \/ \E from : op' = [op EXCEPT ![c].pc = "found", ![c].from = from]
  BY DEF Handle, CreateSave, CreateDone, DeleteLoad, DeleteRemove, DeleteDone,
     UpdateLoad, UpdateGauge, UpdateSet, UpdateDone, IngestCheck, IngestLoad,
     IngestAppend, IngestFeed, TimelineHit, TimelineMiss
<1>4. op[c] \in Suspended
  BY <1>0, <1>2 DEF MapInto
<1>5. ASSUME NEW a, Reply(c, a) PROVE Kept(d)
  BY <1>5 DEF Reply, Without, Kept
<1>6. ASSUME NEW pc, Goto(c, pc) PROVE Kept(d)
  BY <1>2, <1>4, <1>6 DEF Goto, Kept, Suspended
<1>7. ASSUME NEW from, op' = [op EXCEPT ![c].pc = "found", ![c].from = from] PROVE Kept(d)
  BY <1>2, <1>4, <1>7 DEF Kept, Suspended
<1> QED BY <1>1, <1>3, <1>5, <1>6, <1>7

LEMMA OthersKeep ==
    ASSUME TypeOK, [Next]_vars, \A c \in Client : ~Arrive(c) /\ ~Handle(c),
           NEW d \in DOMAIN op'
    PROVE  d \in DOMAIN op /\ op'[d] = op[d] /\ owner' = owner
<1>1. ASSUME NEW c \in Client, RequestThrows(c) PROVE d \in DOMAIN op /\ op'[d] = op[d] /\ owner' = owner
  BY <1>1 DEF RequestThrows, Reply, Without, history
<1>2. ASSUME NEW s \in Session, Rebuild(s) \/ RebuildThrows(s)
      PROVE  d \in DOMAIN op /\ op'[d] = op[d] /\ owner' = owner
  BY <1>2 DEF Rebuild, RebuildLoad, RebuildRead, RebuildSet, RebuildThrows, Settle, Without, history
<1>3. CASE Purge \/ PurgeThrows \/ Tick
  BY <1>3 DEF Purge, PurgeList, PurgeRemove, PurgeForget, PurgeThrows, Tick, history
<1>4. CASE Restart
  BY <1>4 DEF Restart, NoKeys
<1>5. CASE UNCHANGED vars
  BY <1>5 DEF vars
<1> QED BY <1>1, <1>2, <1>3, <1>4, <1>5 DEF Next

LEMMA StepIngestSends ==
    ASSUME TypeOK, IngestSends, [Next]_vars
    PROVE  IngestSends'
<1> SUFFICES ASSUME NEW d \in DOMAIN op', op'[d].kind = "ingest"
             PROVE  op'[d].batch \in DOMAIN owner' /\ owner'[op'[d].batch] = op'[d].sid
  BY DEF IngestSends
<1>1. ASSUME NEW c \in Client, Arrive(c)
      PROVE  op'[d].batch \in DOMAIN owner' /\ owner'[op'[d].batch] = op'[d].sid
  <2>1. CASE IngestStart(c)
    <3>1. PICK s \in used, b \in Batch :
            /\ b \notin DOMAIN owner \/ owner[b] = s
            /\ Begin(c, [Request("ingest", "check", s) EXCEPT !.batch = b])
            /\ owner' = Put(owner, b, s)
      BY <2>1 DEF IngestStart
    <3>2. CASE d = c
      BY <3>1, <3>2 DEF Begin, Put, Request
    <3>3. CASE d # c
      BY <3>1, <3>3 DEF Begin, Put, IngestSends
    <3> QED BY <3>2, <3>3
  <2>2. CASE ~IngestStart(c)
    <3>1. PICK r : Begin(c, r) /\ r.kind # "ingest" /\ owner' = owner
      BY <1>1, <2>2 DEF Arrive, CreateStart, DeleteStart, UpdateStart, TimelineStart, Request, history
    <3> QED BY <3>1 DEF Begin, Put, IngestSends
  <2> QED BY <2>1, <2>2
<1>2. ASSUME NEW c \in Client, Handle(c)
      PROVE  op'[d].batch \in DOMAIN owner' /\ owner'[op'[d].batch] = op'[d].sid
  BY <1>2, HandleKeeps DEF Kept, IngestSends
<1>3. CASE \A c \in Client : ~Arrive(c) /\ ~Handle(c)
  BY <1>3, OthersKeep DEF IngestSends
<1> QED BY <1>1, <1>2, <1>3

\* Every reachable state is type-correct: no handler, rebuild, purge, fault or
\* restart takes a variable out of the type the TypeScript code declares.
THEOREM TypeCorrect == Spec => []TypeOK
<1>1. Init => TypeOK /\ IngestSends
  BY InitType DEF Init, IngestSends, NoKeys
<1>2. TypeOK /\ IngestSends /\ [Next]_vars => TypeOK' /\ IngestSends'
  BY StepType, StepIngestSends
<1> QED BY <1>1, <1>2, PTL DEF Spec

-----------------------------------------------------------------------------
(* The caps on correlators and rebuilds *)

LEMMA StepMemoryBounded ==
    ASSUME TypeOK, MemoryBounded, [Next]_vars
    PROVE  MemoryBounded'
<1>0. /\ DOMAIN correlators \subseteq Session /\ IsFiniteSet(DOMAIN correlators)
      /\ DOMAIN rebuilds \subseteq Session /\ IsFiniteSet(DOMAIN rebuilds)
  BY FS_Subset DEF TypeOK, MapInto
<1>1. ASSUME DOMAIN correlators' \subseteq DOMAIN correlators
      PROVE  Cardinality(DOMAIN correlators') <= MaxCorrelators
  BY <1>0, <1>1, FS_Subset, FS_CardinalityType DEF MemoryBounded
<1>2. ASSUME DOMAIN rebuilds' \subseteq DOMAIN rebuilds
      PROVE  Cardinality(DOMAIN rebuilds') <= MaxRebuilds
  BY <1>0, <1>2, FS_Subset, FS_CardinalityType DEF MemoryBounded
<1>3. ASSUME NEW s \in Session, NEW e, Insert(s, e), DOMAIN rebuilds' \subseteq DOMAIN rebuilds
      PROVE  MemoryBounded'
  BY <1>0, <1>2, <1>3, InsertBounded DEF MemoryBounded
<1>4. ASSUME DOMAIN correlators' \subseteq DOMAIN correlators,
             DOMAIN rebuilds' \subseteq DOMAIN rebuilds
      PROVE  MemoryBounded'
  BY <1>1, <1>2, <1>4 DEF MemoryBounded
<1> USE DEF Aside
<1>5. ASSUME NEW c \in Client, Arrive(c) PROVE MemoryBounded'
  <2>1. CASE CreateStart(c)
    BY <1>3, <2>1 DEF CreateStart
  <2>2. CASE ~CreateStart(c)
    BY <1>4, <1>5, <2>2 DEF Arrive, DeleteStart, UpdateStart, IngestStart, TimelineStart
  <2> QED BY <2>1, <2>2
<1>6. ASSUME NEW c \in Client, Handle(c) PROVE MemoryBounded'
  <2>1. CASE IngestFeed(c)
    <3>1. op[c].sid \in Session
      BY <2>1 DEF IngestFeed, At, TypeOK, MapInto, Suspended
    <3> QED BY <1>3, <1>4, <2>1, <3>1 DEF IngestFeed, Feed
  <2>2. CASE TimelineMiss(c)
    <3>1. CASE DOMAIN rebuilds' \subseteq DOMAIN rebuilds
      BY <1>4, <2>2, <3>1 DEF TimelineMiss
    <3>2. CASE ~(DOMAIN rebuilds' \subseteq DOMAIN rebuilds)
      <4>1. PICK s : /\ Cardinality(DOMAIN rebuilds) < MaxRebuilds
                     /\ DOMAIN rebuilds' = DOMAIN rebuilds \cup {s}
        BY <2>2, <3>2 DEF TimelineMiss, Put
      <4>2. Cardinality(DOMAIN rebuilds') <= MaxRebuilds
        <5>1. Cardinality(DOMAIN rebuilds) \in Nat
          BY <1>0, FS_CardinalityType
        <5>2. Cardinality(DOMAIN rebuilds \cup {s}) <= Cardinality(DOMAIN rebuilds) + 1
          <6>1. Cardinality(DOMAIN rebuilds \cup {s}) =
                  IF s \in DOMAIN rebuilds THEN Cardinality(DOMAIN rebuilds)
                  ELSE Cardinality(DOMAIN rebuilds) + 1
            BY <1>0, FS_AddElement, Zenon
          <6> QED BY <5>1, <6>1
        <5>3. Cardinality(DOMAIN rebuilds \cup {s}) \in Nat
          BY <1>0, FS_AddElement, FS_CardinalityType
        <5> QED BY <4>1, <5>1, <5>2, <5>3
      <4> QED BY <1>1, <2>2, <4>2 DEF TimelineMiss, MemoryBounded
    <3> QED BY <3>1, <3>2
  <2>3. CASE ~IngestFeed(c) /\ ~TimelineMiss(c)
    BY <1>4, <1>6, <2>3 DEF Handle, CreateSave, CreateDone, DeleteLoad, DeleteRemove, DeleteDone,
       UpdateLoad, UpdateGauge, UpdateSet, UpdateDone, IngestCheck, IngestLoad,
       IngestAppend, TimelineHit, Without
  <2> QED BY <2>1, <2>2, <2>3
<1>7. ASSUME NEW s \in Session, Rebuild(s) \/ RebuildThrows(s) PROVE MemoryBounded'
  <2>1. CASE RebuildSet(s)
    BY <1>3, <2>1 DEF RebuildSet, Settle, Without
  <2>2. CASE ~RebuildSet(s)
    BY <1>4, <1>7, <2>2 DEF Rebuild, RebuildLoad, RebuildRead, RebuildThrows, Settle, Without
  <2> QED BY <2>1, <2>2
<1>8. CASE \/ Purge \/ PurgeThrows \/ Tick \/ UNCHANGED vars
           \/ \E c \in Client : RequestThrows(c)
  BY <1>4, <1>8 DEF Purge, PurgeList, PurgeRemove, PurgeForget, PurgeThrows, Tick,
     RequestThrows, vars, Without
<1>9. CASE Restart
  BY <1>4, <1>9 DEF Restart, NoKeys
<1> QED BY <1>5, <1>6, <1>7, <1>8, <1>9 DEF Next

\* For every number of sessions and clients, the process holds at most
\* MAX_CORRELATORS correlators and runs at most MAX_CONCURRENT_REBUILDS rebuilds.
THEOREM MemoryIsBounded == Spec => []MemoryBounded
<1>1. Init => MemoryBounded
  BY FS_EmptySet DEF Init, MemoryBounded, NoKeys
<1>2. TypeOK /\ MemoryBounded /\ [Next]_vars => MemoryBounded'
  BY StepMemoryBounded
<1> QED BY <1>1, <1>2, TypeCorrect, PTL DEF Spec

-----------------------------------------------------------------------------
(* What the cache shows was persisted for that very session *)

LEMMA InNewest ==
    ASSUME NEW n \in Nat, NEW S, NEW q \in Seq(S)
    PROVE  InSeq(Newest(n, q)) \subseteq InSeq(q)
BY DEF InSeq, Newest

LEMMA InOldest ==
    ASSUME NEW n \in Nat, NEW S, NEW q \in Seq(S)
    PROVE  InSeq(Oldest(n, q)) \subseteq InSeq(q)
BY DEF InSeq, Oldest

LEMMA InAppend ==
    ASSUME NEW S, NEW q \in Seq(S), NEW b \in S
    PROVE  InSeq(Append(q, b)) = InSeq(q) \cup {b}
<1> DEFINE r == Append(q, b)
<1>1. /\ Len(r) = Len(q) + 1 /\ Len(q) \in Nat
      /\ \A i \in 1..Len(q) : r[i] = q[i]
      /\ r[Len(q) + 1] = b
  BY AppendProperties, LenProperties
<1> HIDE DEF r
<1>2. \A i \in 1..Len(r) : r[i] \in InSeq(q) \cup {b}
  <2>1. \A i \in 1..Len(r) : i \in 1..Len(q) \/ i = Len(q) + 1
    BY ONLY <1>1
  <2> QED BY ONLY <1>1, <2>1 DEF InSeq
<1>3. \A x \in InSeq(q) \cup {b} : \E i \in 1..Len(r) : x = r[i]
  <2>1. ASSUME NEW x \in InSeq(q)
        PROVE  \E i \in 1..Len(r) : x = r[i]
    <3>1. PICK i \in 1..Len(q) : x = q[i]
      BY <2>1 DEF InSeq
    <3>2. i \in 1..Len(r) /\ x = r[i]
      BY <1>1, <3>1
    <3> QED BY <3>2
  <2>2. Len(q) + 1 \in 1..Len(r) /\ b = r[Len(q) + 1]
    BY <1>1
  <2> QED BY <2>1, <2>2
<1>4. InSeq(r) = InSeq(q) \cup {b}
  BY <1>2, <1>3 DEF InSeq
<1> QED BY <1>4 DEF r

LEMMA InStored ==
    ASSUME NEW q \in Seq(Batch), NEW b \in Batch
    PROVE  /\ InSeq(Stored(q, b)) \subseteq InSeq(q) \cup {b}
           /\ Backend = "postgres" => InSeq(Stored(q, b)) = InSeq(q) \cup {b}
<1>1. Append(q, b) \in Seq(Batch) /\ InSeq(Append(q, b)) = InSeq(q) \cup {b}
  BY InAppend, AppendProperties
<1>2. InSeq(Newest(StoreCap, Append(q, b))) \subseteq InSeq(q) \cup {b}
  BY <1>1, InNewest
<1> HIDE DEF InSeq, Newest
<1> QED BY <1>1, <1>2 DEF Stored

LEMMA InsertShape ==
    ASSUME NEW s, NEW e, Insert(s, e), NEW x \in DOMAIN correlators'
    PROVE  \/ x = s /\ correlators'[x] = e
           \/ x # s /\ x \in DOMAIN correlators /\ correlators'[x] = correlators[x]
BY DEF Insert, Put, Without

\* A batch is fed only after its append has stored it.
FedIsPersisted ==
    \A c \in DOMAIN op : op[c].kind = "ingest" /\ op[c].pc = "feed" => op[c].batch \in persisted

\* What was sent stays sent, what was stored stays stored.
LEMMA HistoryGrows ==
    ASSUME TypeOK, [Next]_vars
    PROVE  /\ persisted \subseteq persisted'
           /\ \A b \in DOMAIN owner : b \in DOMAIN owner' /\ owner'[b] = owner[b]
           /\ \A s : Mine(s) \subseteq Mine(s)'
<1>1. \A b \in DOMAIN owner : b \in DOMAIN owner' /\ owner'[b] = owner[b]
  <2>1. ASSUME NEW c \in Client, IngestStart(c)
        PROVE  \A b \in DOMAIN owner : b \in DOMAIN owner' /\ owner'[b] = owner[b]
    BY <2>1 DEF IngestStart, Put
  <2>2. ASSUME NEW c \in Client, Arrive(c), ~IngestStart(c) PROVE owner' = owner
    BY <2>2 DEF Arrive, CreateStart, DeleteStart, UpdateStart, TimelineStart, history
  <2>3. ASSUME NEW c \in Client, Handle(c) PROVE owner' = owner
    BY <2>3 DEF Handle, CreateSave, CreateDone, DeleteLoad, DeleteRemove, DeleteDone,
       UpdateLoad, UpdateGauge, UpdateSet, UpdateDone, IngestCheck, IngestLoad,
       IngestAppend, IngestFeed, TimelineHit, TimelineMiss, history
  <2>4. CASE \A c \in Client : ~Arrive(c) /\ ~Handle(c)
    <3>1. ASSUME NEW c \in Client, RequestThrows(c) PROVE owner' = owner
      BY <3>1 DEF RequestThrows, history
    <3>2. ASSUME NEW s \in Session, Rebuild(s) \/ RebuildThrows(s) PROVE owner' = owner
      BY <3>2 DEF Rebuild, RebuildLoad, RebuildRead, RebuildSet, RebuildThrows, history
    <3>3. CASE Purge \/ PurgeThrows \/ Tick \/ Restart \/ UNCHANGED vars
      BY <3>3 DEF Purge, PurgeList, PurgeRemove, PurgeForget, PurgeThrows, Tick, Restart,
         history, vars
    <3> QED BY <2>4, <3>1, <3>2, <3>3 DEF Next
  <2> QED BY <2>1, <2>2, <2>3, <2>4
<1>2. persisted \subseteq persisted'
  <2> USE DEF storage
  <2>1. ASSUME NEW c \in Client, Arrive(c) PROVE persisted' = persisted
    BY <2>1 DEF Arrive, CreateStart, DeleteStart, UpdateStart, IngestStart, TimelineStart
  <2>2. ASSUME NEW c \in Client, Handle(c) PROVE persisted \subseteq persisted'
    BY <2>2 DEF Handle, CreateSave, CreateDone, DeleteLoad, DeleteRemove, DeleteDone,
       UpdateLoad, UpdateGauge, UpdateSet, UpdateDone, IngestCheck, IngestLoad,
       IngestAppend, IngestFeed, TimelineHit, TimelineMiss, Save, Remove, SetStatus, AppendEvents
  <2>3. ASSUME NEW c \in Client, RequestThrows(c) PROVE persisted' = persisted
    BY <2>3 DEF RequestThrows
  <2>4. ASSUME NEW s \in Session, Rebuild(s) \/ RebuildThrows(s) PROVE persisted' = persisted
    BY <2>4 DEF Rebuild, RebuildLoad, RebuildRead, RebuildSet, RebuildThrows
  <2>5. CASE Purge \/ PurgeThrows \/ Tick \/ Restart \/ UNCHANGED vars
    BY <2>5 DEF Purge, PurgeList, PurgeRemove, PurgeForget, PurgeThrows, Tick, Restart, Remove, vars
  <2> QED BY <2>1, <2>2, <2>3, <2>4, <2>5 DEF Next
<1> QED BY <1>1, <1>2 DEF Mine

\* Requests arrive at their first await; only createSession names a fresh session.
LEMMA ArriveBegins ==
    ASSUME NEW c \in Client, Arrive(c)
    PROVE  \E r : /\ Begin(c, r)
                  /\ r.pc \in {"save", "load", "check", "lookup"}
                  /\ r.kind = "create" => CreateStart(c) /\ r.sid \notin used /\ used' = used \cup {r.sid}
                  /\ r.kind # "create" => r.sid \in used /\ used' = used /\ correlators' = correlators
<1>1. CASE CreateStart(c)
  <2>1. PICK s \in Session \ used : Begin(c, Request("create", "save", s)) /\ used' = used \cup {s}
    BY <1>1 DEF CreateStart
  <2>2. /\ Request("create", "save", s).pc = "save"
        /\ Request("create", "save", s).kind = "create"
        /\ Request("create", "save", s).sid = s
    BY DEF Request
  <2> QED BY <1>1, <2>1, <2>2
<1>2. CASE DeleteStart(c)
  <2>1. PICK s \in used : Begin(c, Request("delete", "load", s))
    BY <1>2 DEF DeleteStart
  <2>2. /\ Request("delete", "load", s).pc = "load"
        /\ Request("delete", "load", s).kind = "delete"
        /\ Request("delete", "load", s).sid = s
    BY DEF Request
  <2> QED BY <1>2, <2>1, <2>2 DEF DeleteStart, Aside
<1>3. CASE UpdateStart(c)
  <2>1. PICK s \in used, to \in Targets :
          Begin(c, [Request("update", "load", s) EXCEPT !.to = to])
    BY <1>3 DEF UpdateStart
  <2> DEFINE r == [Request("update", "load", s) EXCEPT !.to = to]
  <2>2. r.pc = "load" /\ r.kind = "update" /\ r.sid = s
    BY DEF Request
  <2>3. Begin(c, r) /\ UNCHANGED <<used, correlators>>
    BY <1>3, <2>1 DEF UpdateStart, Aside
  <2> HIDE DEF r
  <2> QED BY <2>1, <2>2, <2>3
<1>4. CASE IngestStart(c)
  <2>1. PICK s \in used, b \in Batch :
          Begin(c, [Request("ingest", "check", s) EXCEPT !.batch = b])
    BY <1>4 DEF IngestStart
  <2> DEFINE r == [Request("ingest", "check", s) EXCEPT !.batch = b]
  <2>2. r.pc = "check" /\ r.kind = "ingest" /\ r.sid = s
    BY DEF Request
  <2>3. Begin(c, r) /\ UNCHANGED <<used, correlators>>
    BY <1>4, <2>1 DEF IngestStart, Aside
  <2> HIDE DEF r
  <2> QED BY <2>1, <2>2, <2>3
<1>5. CASE TimelineStart(c)
  <2>1. PICK s \in used :
          Begin(c, [Request("timeline", "lookup", s) EXCEPT !.due = AckedFor(s)])
    BY <1>5 DEF TimelineStart
  <2> DEFINE r == [Request("timeline", "lookup", s) EXCEPT !.due = AckedFor(s)]
  <2>2. r.pc = "lookup" /\ r.kind = "timeline" /\ r.sid = s
    BY DEF Request
  <2>3. Begin(c, r) /\ UNCHANGED <<used, correlators>>
    BY <1>5, <2>1 DEF TimelineStart, Aside
  <2> HIDE DEF r
  <2> QED BY <2>1, <2>2, <2>3
<1> QED BY <1>1, <1>2, <1>3, <1>4, <1>5 DEF Arrive

LEMMA StepFedIsPersisted ==
    ASSUME TypeOK, FedIsPersisted, [Next]_vars
    PROVE  FedIsPersisted'
<1> SUFFICES ASSUME NEW d \in DOMAIN op', op'[d].kind = "ingest", op'[d].pc = "feed"
             PROVE  op'[d].batch \in persisted'
  BY DEF FedIsPersisted
<1>0. persisted \subseteq persisted' /\ MapInto(op, Client, Suspended)
  BY HistoryGrows DEF TypeOK
<1>1. ASSUME d \in DOMAIN op, op'[d] = op[d] PROVE op'[d].batch \in persisted'
  BY <1>0, <1>1 DEF FedIsPersisted
<1>2. ASSUME NEW c \in Client, Arrive(c) PROVE op'[d].batch \in persisted'
  <2>1. PICK r : Begin(c, r) /\ r.pc # "feed"
    BY <1>2, ArriveBegins
  <2> QED BY <1>1, <2>1 DEF Begin, Put
<1>3. ASSUME NEW c \in Client, Handle(c) PROVE op'[d].batch \in persisted'
  <2>1. CASE IngestAppend(c)
    <3>1. CASE d = c
      BY <2>1, <3>1, <1>0 DEF IngestAppend, At, AppendEvents, Goto, Reply, Without, MapInto, Suspended
    <3>2. CASE d # c
      BY <1>1, <2>1, <3>2 DEF IngestAppend, Goto, Reply, Without
    <3> QED BY <3>1, <3>2
  <2>2. CASE ~IngestAppend(c)
    <3>1. \/ \E a : Reply(c, a)
          \/ \E pc : Goto(c, pc) /\ pc # "feed"
          \/ \E from : op' = [op EXCEPT ![c].pc = "found", ![c].from = from]
      BY <1>3, <2>2 DEF Handle, CreateSave, CreateDone, DeleteLoad, DeleteRemove, DeleteDone,
         UpdateLoad, UpdateGauge, UpdateSet, UpdateDone, IngestCheck, IngestLoad,
         IngestFeed, TimelineHit, TimelineMiss
    <3>2. CASE d = c
      <4>1. \A pc : Goto(c, pc) => op'[d].pc = pc
        BY <1>0, <3>2 DEF Goto, MapInto, Suspended
      <4>2. \A from : op' = [op EXCEPT ![c].pc = "found", ![c].from = from] => op'[d].pc = "found"
        BY <1>0, <3>2 DEF MapInto, Suspended
      <4>3. \A a : ~Reply(c, a)
        BY <3>2 DEF Reply, Without
      <4> QED BY <3>1, <4>1, <4>2, <4>3
    <3>3. CASE d # c
      BY <1>1, <3>1, <3>3 DEF Goto, Reply, Without
    <3> QED BY <3>2, <3>3
  <2> QED BY <2>1, <2>2
<1>4. CASE \A c \in Client : ~Arrive(c) /\ ~Handle(c)
  BY <1>1, <1>4, OthersKeep
<1> QED BY <1>2, <1>3, <1>4

\* Steps that leave every correlator's and rebuild's events, and storage, alone
\* or drop some of them.
Shrinks(m) == DOMAIN m' \subseteq DOMAIN m /\ \A x \in DOMAIN m' : m'[x].events = m[x].events

LEMMA CorrelatorsShow ==
    ASSUME TypeOK, IngestSends, FedIsPersisted, OnlyStoredEvents, [Next]_vars,
           NEW x \in DOMAIN correlators'
    PROVE  InSeq(correlators'[x].events) \subseteq Mine(x)'
<1>0. /\ MapInto(correlators, Session, Cached) /\ MapInto(rebuilds, Session, Rebuilding)
      /\ MapInto(op, Client, Suspended) /\ MapInto(owner, Batch, Session)
      /\ Mine(x) \subseteq Mine(x)'
  BY HistoryGrows DEF TypeOK, Cached, Rebuilding
<1>1. ASSUME Shrinks(correlators) PROVE InSeq(correlators'[x].events) \subseteq Mine(x)'
  BY <1>0, <1>1 DEF Shrinks, OnlyStoredEvents
<1>2. ASSUME NEW s, NEW q \in Seq(Batch), Insert(s, Correlator(q)), InSeq(q) \subseteq Mine(s)
      PROVE  InSeq(correlators'[x].events) \subseteq Mine(x)'
  <2>1. Correlator(q).events = Newest(CorrelatorCap, q)
    BY DEF Correlator
  <2>2. InSeq(Correlator(q).events) \subseteq Mine(s)
    BY <1>2, <2>1, InNewest
  <2>3. CASE x = s /\ correlators'[x] = Correlator(q)
    BY <1>0, <2>2, <2>3
  <2>4. CASE x # s /\ x \in DOMAIN correlators /\ correlators'[x] = correlators[x]
    BY <1>0, <2>4 DEF OnlyStoredEvents
  <2> QED BY <1>2, <2>3, <2>4, InsertShape
<1>3. ASSUME NEW c \in Client, Arrive(c) PROVE InSeq(correlators'[x].events) \subseteq Mine(x)'
  <2>1. CASE CreateStart(c)
    <3>1. PICK s : Insert(s, Correlator(<<>>))
      BY <2>1 DEF CreateStart
    <3>2. <<>> \in Seq(Batch) /\ InSeq(<<>>) = {}
      BY DEF InSeq
    <3> QED BY <1>2, <3>1, <3>2
  <2>2. CASE ~CreateStart(c)
    BY <1>1, <1>3, <2>2, ArriveBegins, correlators' = correlators
       DEF Shrinks, Arrive, DeleteStart, UpdateStart, IngestStart, TimelineStart
  <2> QED BY <2>1, <2>2
<1>4. ASSUME NEW c \in Client, Handle(c) PROVE InSeq(correlators'[x].events) \subseteq Mine(x)'
  <2>1. CASE IngestFeed(c)
    <3> DEFINE s == op[c].sid
               b == op[c].batch
    <3>1. /\ b \in Batch /\ b \in persisted /\ b \in DOMAIN owner /\ owner[b] = s
          /\ Feed(s, b)
      BY <1>0, <2>1 DEF IngestFeed, At, IngestSends, FedIsPersisted, MapInto
    <3>2. b \in Mine(s)
      BY <3>1 DEF Mine
    <3> HIDE DEF s, b
    <3>3. CASE s \in DOMAIN correlators
      <4> DEFINE q == correlators[s].events
                 e == Correlator(Append(q, b))
      <4>1. q \in Seq(Batch) /\ InSeq(q) \subseteq Mine(s)
        BY <1>0, <3>3 DEF MapInto, Cached, OnlyStoredEvents
      <4>2. correlators' = [correlators EXCEPT ![s] = e]
        BY <3>1, <3>3 DEF Feed
      <4> HIDE DEF q
      <4>3. Append(q, b) \in Seq(Batch) /\ InSeq(Append(q, b)) \subseteq Mine(s)
        BY <3>1, <3>2, <4>1, InAppend, AppendProperties
      <4>4. InSeq(e.events) \subseteq Mine(s)
        BY <4>3, InNewest DEF Correlator
      <4> HIDE DEF e
      <4>5. CASE x = s
        BY <1>0, <4>2, <4>4, <4>5, <3>3
      <4>6. CASE x # s
        BY <1>0, <4>2, <4>6 DEF OnlyStoredEvents
      <4> QED BY <4>5, <4>6
    <3>4. CASE s \notin DOMAIN correlators
      <4>1. Insert(s, Correlator(<<b>>))
        BY <3>1, <3>4 DEF Feed
      <4>2. <<b>> \in Seq(Batch) /\ InSeq(<<b>>) \subseteq Mine(s)
        BY <3>1, <3>2 DEF InSeq
      <4> QED BY <1>2, <4>1, <4>2
    <3> QED BY <3>3, <3>4
  <2>2. CASE TimelineHit(c)
    <3>1. Shrinks(correlators)
      BY <1>0, <2>2 DEF TimelineHit, Shrinks, MapInto, Cached
    <3> QED BY <1>1, <3>1
  <2>3. CASE DeleteDone(c)
    <3>1. Shrinks(correlators)
      BY <2>3 DEF DeleteDone, Shrinks, Without
    <3> QED BY <1>1, <3>1
  <2>4. CASE ~IngestFeed(c) /\ ~TimelineHit(c) /\ ~DeleteDone(c)
    <3>1. correlators' = correlators
      BY <1>4, <2>4 DEF Handle, CreateSave, CreateDone, DeleteLoad, DeleteRemove,
         UpdateLoad, UpdateGauge, UpdateSet, UpdateDone, IngestCheck, IngestLoad,
         IngestAppend, TimelineMiss
    <3> QED BY <1>1, <3>1 DEF Shrinks
  <2> QED BY <2>1, <2>2, <2>3, <2>4
<1>5. ASSUME NEW s \in Session, Rebuild(s) \/ RebuildThrows(s)
      PROVE  InSeq(correlators'[x].events) \subseteq Mine(x)'
  <2>1. CASE RebuildSet(s)
    <3>1. /\ rebuilds[s].events \in Seq(Batch) /\ InSeq(rebuilds[s].events) \subseteq Mine(s)
          /\ Insert(s, Correlator(rebuilds[s].events))
      BY <1>0, <2>1 DEF RebuildSet, MapInto, Rebuilding, OnlyStoredEvents
    <3> QED BY <1>2, <3>1
  <2>2. CASE ~RebuildSet(s)
    <3>1. correlators' = correlators
      BY <1>5, <2>2 DEF Rebuild, RebuildLoad, RebuildRead, RebuildThrows
    <3> QED BY <1>1, <3>1 DEF Shrinks
  <2> QED BY <2>1, <2>2
<1>6. CASE \/ Purge \/ PurgeThrows \/ Tick \/ Restart \/ UNCHANGED vars
           \/ \E c \in Client : RequestThrows(c)
  <2>1. Shrinks(correlators)
    BY <1>6 DEF Purge, PurgeList, PurgeRemove, PurgeForget, PurgeThrows, Tick, Restart,
       RequestThrows, vars, Without, NoKeys, Shrinks
  <2> QED BY <1>1, <2>1
<1> QED BY <1>3, <1>4, <1>5, <1>6 DEF Next

LEMMA RebuildsShow ==
    ASSUME TypeOK, OnlyStoredEvents, [Next]_vars, NEW x \in DOMAIN rebuilds'
    PROVE  InSeq(rebuilds'[x].events) \subseteq Mine(x)'
<1>0. /\ MapInto(rebuilds, Session, Rebuilding) /\ StoreType
      /\ Mine(x) \subseteq Mine(x)'
  BY HistoryGrows DEF TypeOK, Rebuilding, StoreType
<1>1. ASSUME Shrinks(rebuilds) PROVE InSeq(rebuilds'[x].events) \subseteq Mine(x)'
  BY <1>0, <1>1 DEF Shrinks, OnlyStoredEvents
<1>2. ASSUME NEW c \in Client, TimelineMiss(c)
      PROVE  InSeq(rebuilds'[x].events) \subseteq Mine(x)'
  <2>1. CASE rebuilds' = rebuilds
    BY <1>1, <2>1 DEF Shrinks
  <2>2. CASE rebuilds' # rebuilds
    <3>1. rebuilds' = Put(rebuilds, op[c].sid, [pc |-> "load", events |-> <<>>])
      BY <1>2, <2>2 DEF TimelineMiss
    <3>2. InSeq(<<>>) = {}
      BY DEF InSeq
    <3> QED BY <1>0, <3>1, <3>2 DEF Put, OnlyStoredEvents
  <2> QED BY <2>1, <2>2
<1>3. ASSUME NEW s \in Session, Rebuild(s) \/ RebuildThrows(s)
      PROVE  InSeq(rebuilds'[x].events) \subseteq Mine(x)'
  <2>1. CASE RebuildRead(s)
    <3> DEFINE q == StoredEvents(s)
    <3>1. q \in Seq(Batch) /\ InSeq(q) \subseteq Mine(s)
      <4>1. CASE s \in DOMAIN store
        BY <1>0, <4>1, StoredEventsType DEF StoredEvents, OnlyStoredEvents
      <4>2. CASE s \notin DOMAIN store
        BY <4>2 DEF StoredEvents, InSeq
      <4> QED BY <4>1, <4>2
    <3> HIDE DEF q
    <3>2. InSeq(Oldest(RebuildLimit, q)) \subseteq Mine(s)
      BY <3>1, InOldest
    <3>3. rebuilds' = [rebuilds EXCEPT ![s] = [pc |-> "set", events |-> Oldest(RebuildLimit, q)]]
      BY <2>1 DEF RebuildRead, q
    <3> QED BY <1>0, <3>2, <3>3 DEF OnlyStoredEvents
  <2>2. CASE RebuildLoad(s) /\ s \in DOMAIN store
    <3>1. Shrinks(rebuilds)
      <4>1. rebuilds' = [rebuilds EXCEPT ![s].pc = "read"] /\ s \in DOMAIN rebuilds
        BY <2>2 DEF RebuildLoad
      <4>2. \A y \in DOMAIN rebuilds : rebuilds[y] \in Rebuilding
        BY <1>0 DEF MapInto
      <4> QED BY <4>1, <4>2 DEF Shrinks, Rebuilding
    <3> QED BY <1>1, <3>1
  <2>3. CASE ~RebuildRead(s) /\ ~(RebuildLoad(s) /\ s \in DOMAIN store)
    <3>1. rebuilds' = Without(rebuilds, {s})
      BY <1>3, <2>3 DEF Rebuild, RebuildLoad, RebuildSet, RebuildThrows, Settle
    <3>2. Shrinks(rebuilds)
      BY <3>1 DEF Without, Shrinks
    <3> QED BY <1>1, <3>2
  <2> QED BY <2>1, <2>2, <2>3
<1>4. CASE /\ \A c \in Client : ~TimelineMiss(c)
           /\ \A s \in Session : ~Rebuild(s) /\ ~RebuildThrows(s)
  <2> USE DEF Aside
  <2>1. ASSUME NEW c \in Client, Arrive(c) PROVE rebuilds' = rebuilds
    BY <2>1 DEF Arrive, CreateStart, DeleteStart, UpdateStart, IngestStart, TimelineStart
  <2>2. ASSUME NEW c \in Client, Handle(c) PROVE rebuilds' = rebuilds
    BY <1>4, <2>2 DEF Handle, CreateSave, CreateDone, DeleteLoad, DeleteRemove, DeleteDone,
       UpdateLoad, UpdateGauge, UpdateSet, UpdateDone, IngestCheck, IngestLoad,
       IngestAppend, IngestFeed, TimelineHit
  <2>3. ASSUME NEW c \in Client, RequestThrows(c) PROVE rebuilds' = rebuilds
    BY <2>3 DEF RequestThrows
  <2>4. CASE Purge \/ PurgeThrows \/ Tick \/ UNCHANGED vars
    <3>1. rebuilds' = rebuilds
      BY <2>4 DEF Purge, PurgeList, PurgeRemove, PurgeForget, PurgeThrows, Tick, vars
    <3> QED BY <1>1, <3>1 DEF Shrinks
  <2>5. CASE Restart
    BY <2>5 DEF Restart, NoKeys
  <2>6. ASSUME rebuilds' = rebuilds PROVE Shrinks(rebuilds)
    BY <2>6 DEF Shrinks
  <2> QED BY <1>1, <1>4, <2>1, <2>2, <2>3, <2>4, <2>5, <2>6 DEF Next
<1> QED BY <1>2, <1>3, <1>4

\* What one step can do to the events of a session in storage.
LEMMA StoreShape ==
    ASSUME TypeOK, [Next]_vars, NEW x \in DOMAIN store'
    PROVE  \/ x \in DOMAIN store /\ store'[x].events = store[x].events
           \/ /\ store'[x].events = <<>>
              /\ \E c \in Client : CreateSave(c) /\ op[c].sid = x
           \/ \E c \in Client :
                /\ IngestAppend(c) /\ op[c].sid = x /\ x \in DOMAIN store
                /\ op[c].batch \in persisted'
                /\ store'[x].events = Stored(store[x].events, op[c].batch)
<1> DEFINE Same == x \in DOMAIN store /\ store'[x].events = store[x].events
<1> USE DEF storage
<1>0. MapInto(store, Session, SessionRecord)
  BY DEF TypeOK
<1>1. ASSUME NEW c \in Client, Arrive(c) PROVE Same
  BY <1>1 DEF Arrive, CreateStart, DeleteStart, UpdateStart, IngestStart, TimelineStart
<1>2. ASSUME NEW c \in Client, CreateSave(c)
      PROVE  Same \/ (store'[x].events = <<>> /\ op[c].sid = x)
  BY <1>2 DEF CreateSave, Save, Put, Without
<1>3. ASSUME NEW c \in Client, IngestAppend(c)
      PROVE  \/ Same
             \/ /\ op[c].sid = x /\ x \in DOMAIN store /\ op[c].batch \in persisted'
                /\ store'[x].events = Stored(store[x].events, op[c].batch)
  <2>1. CASE op[c].sid \notin DOMAIN store
    BY <1>3, <2>1 DEF IngestAppend
  <2>2. CASE op[c].sid \in DOMAIN store /\ x = op[c].sid
    BY <1>0, <1>3, <2>2 DEF IngestAppend, AppendEvents, MapInto, SessionRecord
  <2>3. CASE op[c].sid \in DOMAIN store /\ x # op[c].sid
    BY <1>3, <2>3 DEF IngestAppend, AppendEvents
  <2> QED BY <2>1, <2>2, <2>3
<1>4. ASSUME NEW c \in Client, UpdateSet(c) PROVE Same
  <2>1. CASE op[c].sid \notin DOMAIN store
    BY <1>4, <2>1 DEF UpdateSet
  <2>2. CASE op[c].sid \in DOMAIN store
    BY <1>0, <1>4, <2>2 DEF UpdateSet, SetStatus, MapInto, SessionRecord
  <2> QED BY <2>1, <2>2
<1>5. ASSUME NEW c \in Client, Handle(c), ~CreateSave(c), ~IngestAppend(c), ~UpdateSet(c)
      PROVE  Same
  BY <1>5 DEF Handle, CreateDone, DeleteLoad, DeleteRemove, DeleteDone,
     UpdateLoad, UpdateGauge, UpdateDone, IngestCheck, IngestLoad,
     IngestFeed, TimelineHit, TimelineMiss, Remove, Without
<1>6. ASSUME NEW c \in Client, RequestThrows(c) PROVE Same
  BY <1>6 DEF RequestThrows
<1>7. ASSUME NEW s \in Session, Rebuild(s) \/ RebuildThrows(s) PROVE Same
  BY <1>7 DEF Rebuild, RebuildLoad, RebuildRead, RebuildSet, RebuildThrows
<1>8. CASE Purge \/ PurgeThrows \/ Tick \/ Restart \/ UNCHANGED vars
  BY <1>8 DEF Purge, PurgeList, PurgeRemove, PurgeForget, PurgeThrows, Tick, Restart,
     Remove, Without, vars
<1> QED BY <1>1, <1>2, <1>3, <1>4, <1>5, <1>6, <1>7, <1>8 DEF Next

LEMMA StoreShows ==
    ASSUME TypeOK, IngestSends, OnlyStoredEvents, [Next]_vars, NEW x \in DOMAIN store'
    PROVE  InSeq(store'[x].events) \subseteq Mine(x)'
<1>0. /\ Mine(x) \subseteq Mine(x)'
      /\ \A b \in DOMAIN owner : b \in DOMAIN owner' /\ owner'[b] = owner[b]
  BY HistoryGrows
<1>1. CASE x \in DOMAIN store /\ store'[x].events = store[x].events
  BY <1>0, <1>1 DEF OnlyStoredEvents
<1>2. CASE store'[x].events = <<>>
  BY <1>2 DEF InSeq
<1>3. ASSUME NEW c \in Client, IngestAppend(c), op[c].sid = x, x \in DOMAIN store,
             op[c].batch \in persisted',
             store'[x].events = Stored(store[x].events, op[c].batch)
      PROVE  InSeq(store'[x].events) \subseteq Mine(x)'
  <2>1. /\ op[c].batch \in DOMAIN owner /\ owner[op[c].batch] = x
        /\ op[c].batch \in Batch /\ store[x].events \in Seq(Batch)
    BY <1>3 DEF IngestAppend, At, IngestSends, TypeOK, MapInto, SessionRecord
  <2>2. op[c].batch \in Mine(x)'
    BY <1>0, <1>3, <2>1 DEF Mine
  <2>3. InSeq(store'[x].events) \subseteq InSeq(store[x].events) \cup {op[c].batch}
    BY <1>3, <2>1, InStored
  <2> QED BY <1>0, <1>3, <2>2, <2>3 DEF OnlyStoredEvents
<1> QED BY <1>1, <1>2, <1>3, StoreShape

\* However requests, rebuilds, evictions, faults and restarts interleave, a
\* timeline only shows events that were sent to its session and persisted.
THEOREM NothingUnstoredIsShown == Spec => []OnlyStoredEvents
<1> DEFINE IInv == IngestSends /\ FedIsPersisted /\ OnlyStoredEvents
<1>1. Init => IInv
  BY DEF Init, IngestSends, FedIsPersisted, OnlyStoredEvents, NoKeys
<1>2. TypeOK /\ IInv /\ [Next]_vars => IInv'
  <2> SUFFICES ASSUME TypeOK, IInv, [Next]_vars PROVE IInv'
    OBVIOUS
  <2>1. OnlyStoredEvents'
    BY CorrelatorsShow, RebuildsShow, StoreShows DEF OnlyStoredEvents
  <2> QED BY <2>1, StepIngestSends, StepFedIsPersisted
<1> QED BY <1>1, <1>2, TypeCorrect, PTL DEF Spec

-----------------------------------------------------------------------------
(* Deleted sessions stay deleted, acknowledged batches stay stored *)

Creating(c, s) == c \in DOMAIN op /\ op[c].kind = "create" /\ op[c].pc = "save" /\ op[c].sid = s

\* Ids are handed out once: nobody refers to a session that was never created,
\* and between generateSessionId and saveSession there is one creator, no stored
\* session and no stored batch.
IdsAreFresh ==
    /\ DOMAIN store \subseteq used
    /\ \A c \in DOMAIN op : op[c].sid \in used
    /\ \A b \in persisted : b \in DOMAIN owner /\ owner[b] \in used
    /\ \A c \in DOMAIN op :
         Creating(c, op[c].sid) =>
            /\ op[c].sid \notin DOMAIN store
            /\ \A b \in persisted : owner[b] # op[c].sid
            /\ \A d \in DOMAIN op : Creating(d, op[c].sid) => d = c

\* A handler moves its own request only, and never back to saveSession.
LEMMA HandleMoves ==
    ASSUME TypeOK, NEW c \in Client, Handle(c), NEW d \in DOMAIN op'
    PROVE  /\ d # c => d \in DOMAIN op /\ op'[d] = op[d]
           /\ d = c => op'[d].pc # "save"
           /\ d = c /\ op'[d].pc = "feed" => IngestAppend(c) /\ op[c].sid \in DOMAIN store
<1>0. MapInto(op, Client, Suspended)
  BY DEF TypeOK
<1>1. \/ \E a : Reply(c, a)
      \/ \E pc : Goto(c, pc) /\ pc # "save" /\ pc # "feed"
      \/ \E from : op' = [op EXCEPT ![c].pc = "found", ![c].from = from]
      \/ Goto(c, "feed") /\ IngestAppend(c) /\ op[c].sid \in DOMAIN store
  BY DEF Handle, CreateSave, CreateDone, DeleteLoad, DeleteRemove, DeleteDone,
     UpdateLoad, UpdateGauge, UpdateSet, UpdateDone, IngestCheck, IngestLoad,
     IngestAppend, IngestFeed, TimelineHit, TimelineMiss
<1>2. c \in DOMAIN op
  BY DEF Handle, At, CreateSave, CreateDone, DeleteLoad, DeleteRemove, DeleteDone,
     UpdateLoad, UpdateGauge, UpdateSet, UpdateDone, IngestCheck, IngestLoad,
     IngestAppend, IngestFeed, TimelineHit, TimelineMiss
<1>3. op[c] \in Suspended
  BY <1>0, <1>2 DEF MapInto
<1>4. CASE d # c
  BY <1>1, <1>4 DEF Reply, Goto, Without
<1>5. CASE d = c
  <2>1. \A a : ~Reply(c, a)
    BY <1>5 DEF Reply, Without
  <2>2. \A pc : Goto(c, pc) => op'[d].pc = pc
    BY <1>2, <1>3, <1>5 DEF Goto, Suspended
  <2>3. \A from : op' = [op EXCEPT ![c].pc = "found", ![c].from = from] => op'[d].pc = "found"
    BY <1>2, <1>3, <1>5 DEF Suspended
  <2> QED BY <1>1, <1>5, <2>1, <2>2, <2>3
<1> QED BY <1>4, <1>5

\* A request that is creating a session was creating it before, or arrives now.
LEMMA CreatingWas ==
    ASSUME TypeOK, [Next]_vars, NEW d, NEW s, Creating(d, s)'
    PROVE  \/ Creating(d, s) /\ ~CreateSave(d)
           \/ s \notin used /\ CreateStart(d)
<1>0. d \in DOMAIN op' /\ op'[d].pc = "save" /\ op'[d].kind = "create" /\ op'[d].sid = s
  BY DEF Creating
<1>1. ~CreateSave(d)
  <2> SUFFICES ASSUME CreateSave(d) PROVE FALSE
    OBVIOUS
  <2>1. d \in DOMAIN op /\ op[d] \in Suspended /\ Goto(d, "saved")
    BY DEF CreateSave, At, TypeOK, MapInto
  <2> QED BY <1>0, <2>1 DEF Goto, Suspended
<1>2. ASSUME d \in DOMAIN op, op'[d] = op[d] PROVE Creating(d, s) /\ ~CreateSave(d)
  BY <1>0, <1>1, <1>2 DEF Creating
<1>3. ASSUME NEW c \in Client, Arrive(c)
      PROVE  (Creating(d, s) /\ ~CreateSave(d)) \/ (s \notin used /\ CreateStart(d))
  <2>1. PICK r : Begin(c, r) /\ (r.kind = "create" => CreateStart(c) /\ r.sid \notin used)
    BY <1>3, ArriveBegins
  <2>2. CASE d = c
    BY <1>0, <2>1, <2>2 DEF Begin, Put
  <2>3. CASE d # c
    BY <1>0, <1>2, <2>1, <2>3 DEF Begin, Put
  <2> QED BY <2>2, <2>3
<1>4. ASSUME NEW c \in Client, Handle(c) PROVE Creating(d, s) /\ ~CreateSave(d)
  BY <1>0, <1>2, <1>4, HandleMoves
<1>5. CASE \A c \in Client : ~Arrive(c) /\ ~Handle(c)
  BY <1>0, <1>2, <1>5, OthersKeep
<1> QED BY <1>3, <1>4, <1>5

\* Only an append to a session that exists persists a batch.
LEMMA PersistedShape ==
    ASSUME TypeOK, [Next]_vars, NEW b \in persisted', b \notin persisted
    PROVE  \E c \in Client : /\ IngestAppend(c) /\ op[c].batch = b
                             /\ op[c].sid \in DOMAIN store
<1> USE DEF storage
<1>1. ASSUME NEW c \in Client, Arrive(c) PROVE persisted' = persisted
  BY <1>1 DEF Arrive, CreateStart, DeleteStart, UpdateStart, IngestStart, TimelineStart
<1>2. ASSUME NEW c \in Client, Handle(c), ~IngestAppend(c) PROVE persisted' = persisted
  BY <1>2 DEF Handle, CreateSave, CreateDone, DeleteLoad, DeleteRemove, DeleteDone,
     UpdateLoad, UpdateGauge, UpdateSet, UpdateDone, IngestCheck, IngestLoad,
     IngestFeed, TimelineHit, TimelineMiss, Save, Remove, SetStatus
<1>3. ASSUME NEW c \in Client, IngestAppend(c)
      PROVE  op[c].batch = b /\ op[c].sid \in DOMAIN store
  BY <1>3 DEF IngestAppend, AppendEvents
<1>4. ASSUME NEW c \in Client, RequestThrows(c) PROVE persisted' = persisted
  BY <1>4 DEF RequestThrows
<1>5. ASSUME NEW s \in Session, Rebuild(s) \/ RebuildThrows(s) PROVE persisted' = persisted
  BY <1>5 DEF Rebuild, RebuildLoad, RebuildRead, RebuildSet, RebuildThrows
<1>6. CASE Purge \/ PurgeThrows \/ Tick \/ Restart \/ UNCHANGED vars
  BY <1>6 DEF Purge, PurgeList, PurgeRemove, PurgeForget, PurgeThrows, Tick, Restart, Remove, vars
<1> QED BY <1>1, <1>2, <1>3, <1>4, <1>5, <1>6 DEF Next

LEMMA UsedGrows ==
    ASSUME TypeOK, [Next]_vars
    PROVE  /\ used \subseteq used'
           /\ \A d \in DOMAIN op' : (d \in DOMAIN op /\ op'[d].sid = op[d].sid) \/ op'[d].sid \in used'
<1>1. ASSUME NEW c \in Client, Arrive(c)
      PROVE  /\ used \subseteq used'
             /\ \A d \in DOMAIN op' : (d \in DOMAIN op /\ op'[d].sid = op[d].sid) \/ op'[d].sid \in used'
  <2>1. PICK r : Begin(c, r) /\ r.sid \in used' /\ used \subseteq used'
    BY <1>1, ArriveBegins
  <2> QED BY <2>1 DEF Begin, Put
<1>2. ASSUME NEW c \in Client, Handle(c) PROVE used' = used
  BY <1>2 DEF Handle, CreateSave, CreateDone, DeleteLoad, DeleteRemove, DeleteDone,
     UpdateLoad, UpdateGauge, UpdateSet, UpdateDone, IngestCheck, IngestLoad,
     IngestAppend, IngestFeed, TimelineHit, TimelineMiss, Aside
<1>3. CASE \A c \in Client : ~Arrive(c) /\ ~Handle(c)
  <2>1. ASSUME NEW c \in Client, RequestThrows(c) PROVE used' = used
    BY <2>1 DEF RequestThrows, Aside
  <2>2. ASSUME NEW s \in Session, Rebuild(s) \/ RebuildThrows(s) PROVE used' = used
    BY <2>2 DEF Rebuild, RebuildLoad, RebuildRead, RebuildSet, RebuildThrows, clock
  <2>3. ASSUME Purge \/ PurgeThrows \/ Tick \/ Restart \/ UNCHANGED vars PROVE used' = used
    BY <2>3 DEF Purge, PurgeList, PurgeRemove, PurgeForget, PurgeThrows, Tick, Restart, vars, clock
  <2>4. used' = used
    BY <1>3, <2>1, <2>2, <2>3 DEF Next
  <2> QED BY <1>3, <2>4, OthersKeep
<1> QED BY <1>1, <1>2, <1>3, HandleKeeps DEF Kept

LEMMA StepIdsAreFresh ==
    ASSUME TypeOK, IngestSends, IdsAreFresh, [Next]_vars
    PROVE  IdsAreFresh'
<1>0. /\ used \subseteq used'
      /\ \A b \in DOMAIN owner : b \in DOMAIN owner' /\ owner'[b] = owner[b]
  BY UsedGrows, HistoryGrows
<1>1. \A c \in Client : CreateSave(c) => Creating(c, op[c].sid)
  BY DEF CreateSave, At, Creating
<1>2. DOMAIN store' \subseteq used'
  <2> SUFFICES ASSUME NEW x \in DOMAIN store' PROVE x \in used
    BY <1>0
  <2> QED BY <1>1, StoreShape DEF IdsAreFresh, Creating
<1>3. \A d \in DOMAIN op' : op'[d].sid \in used'
  BY <1>0, UsedGrows DEF IdsAreFresh
<1>4. ASSUME NEW b \in persisted'
      PROVE  /\ b \in DOMAIN owner /\ owner[b] \in used
             /\ b \in persisted \/ owner[b] \in DOMAIN store
  <2>1. CASE b \in persisted
    BY <2>1 DEF IdsAreFresh
  <2>2. CASE b \notin persisted
    <3>1. PICK c \in Client : IngestAppend(c) /\ op[c].batch = b /\ op[c].sid \in DOMAIN store
      BY <2>2, PersistedShape
    <3>2. b \in DOMAIN owner /\ owner[b] = op[c].sid /\ c \in DOMAIN op
      BY <3>1 DEF IngestAppend, At, IngestSends
    <3> QED BY <3>1, <3>2 DEF IdsAreFresh
  <2> QED BY <2>1, <2>2
<1>5. ASSUME NEW c, NEW s, Creating(c, s)'
      PROVE  /\ s \notin DOMAIN store'
             /\ \A b \in persisted' : owner'[b] # s
             /\ \A d : Creating(d, s)' => d = c
  <2>1. CASE Creating(c, s) /\ ~CreateSave(c)
    <3>1. /\ s \notin DOMAIN store /\ s \in used
          /\ \A b \in persisted : owner[b] # s
          /\ \A d \in DOMAIN op : Creating(d, s) => d = c
      BY <2>1 DEF IdsAreFresh, Creating
    <3>2. s \notin DOMAIN store'
      BY <1>1, <2>1, <3>1, StoreShape DEF Creating
    <3>3. \A b \in persisted' : owner'[b] # s
      BY <1>0, <1>4, <3>1
    <3>4. \A d : Creating(d, s)' => d = c
      BY <3>1, CreatingWas DEF Creating
    <3> QED BY <3>2, <3>3, <3>4
  <2>2. CASE s \notin used /\ CreateStart(c)
    <3>1. store' = store
      BY <2>2 DEF CreateStart, storage
    <3>2. \A d : Creating(d, s) => FALSE
      BY <2>2 DEF Creating, IdsAreFresh
    <3>3. \A d : Creating(d, s)' => d = c
      <4> SUFFICES ASSUME NEW d, Creating(d, s)', d # c PROVE FALSE
        OBVIOUS
      <4>1. d \in DOMAIN op /\ op'[d] = op[d]
        BY <2>2 DEF CreateStart, Begin, Put, Creating
      <4> QED BY <3>2, <4>1 DEF Creating
    <3> QED BY <1>0, <1>4, <2>2, <3>1, <3>3 DEF IdsAreFresh
  <2> QED BY <1>5, <2>1, <2>2, CreatingWas
<1> QED BY <1>0, <1>2, <1>3, <1>4, <1>5 DEF IdsAreFresh

\* Once a delete or a purge removed a session no late append, status update or
\* rebuild brings it back, whichever storage adapter is used.
THEOREM DeletedNeverReappears == Spec => DeletedStaysDeleted
<1>1. ASSUME TypeOK, [Next]_vars
      PROVE  [\A s \in used :
                s \notin DOMAIN store
                /\ (\A c \in DOMAIN op : ~(op[c].kind = "create" /\ op[c].sid = s))
                   => s \notin DOMAIN store']_vars
  <2> SUFFICES ASSUME NEW s \in used, s \notin DOMAIN store, s \in DOMAIN store'
               PROVE  \E c \in DOMAIN op : op[c].kind = "create" /\ op[c].sid = s
    OBVIOUS
  <2>1. PICK c \in Client : CreateSave(c) /\ op[c].sid = s
    BY <1>1, StoreShape
  <2> QED BY <2>1 DEF CreateSave, At
<1> QED BY <1>1, TypeCorrect, PTL DEF Spec, DeletedStaysDeleted

-----------------------------------------------------------------------------
(* A 201 is a promise that storage keeps *)

\* AckedIsStored is inductive once it also covers the batch that was appended
\* but not answered yet.
AckedInv ==
    /\ AckedIsStored
    /\ acked \subseteq persisted
    /\ \A c \in DOMAIN op :
         op[c].kind = "ingest" /\ op[c].pc = "feed" /\ op[c].sid \in DOMAIN store
            => op[c].batch \in InSeq(store[op[c].sid].events)

LEMMA StepAckedInv ==
    ASSUME Backend = "postgres", TypeOK, IngestSends, FedIsPersisted, IdsAreFresh, AckedInv,
           [Next]_vars
    PROVE  AckedInv'
<1>0. /\ persisted \subseteq persisted'
      /\ \A b \in DOMAIN owner : b \in DOMAIN owner' /\ owner'[b] = owner[b]
      /\ \A b \in persisted : b \in DOMAIN owner
  BY HistoryGrows DEF IdsAreFresh
<1>1. ASSUME NEW b \in persisted, NEW s, owner[b] = s, s \in DOMAIN store',
             s \in DOMAIN store => b \in InSeq(store[s].events)
      PROVE  b \in InSeq(store'[s].events)
  <2>1. ASSUME NEW c \in Client, CreateSave(c), op[c].sid = s PROVE FALSE
    BY <1>1, <2>1 DEF IdsAreFresh, Creating, CreateSave, At
  <2>2. ASSUME NEW c \in Client, IngestAppend(c), op[c].sid = s, s \in DOMAIN store,
               store'[s].events = Stored(store[s].events, op[c].batch)
        PROVE  b \in InSeq(store'[s].events)
    <3>1. op[c].batch \in Batch /\ store[s].events \in Seq(Batch)
      BY <2>2 DEF IngestAppend, At, IngestSends, TypeOK, MapInto, SessionRecord
    <3> QED BY <1>1, <2>2, <3>1, InStored
  <2>3. CASE s \in DOMAIN store /\ store'[s].events = store[s].events
    BY <1>1, <2>3
  <2> QED BY <1>1, <2>1, <2>2, <2>3, StoreShape
<1>2. ASSUME NEW b \in acked'
      PROVE  /\ b \in persisted
             /\ owner[b] \in DOMAIN store => b \in InSeq(store[owner[b]].events)
  <2>1. CASE b \in acked
    BY <2>1 DEF AckedInv, AckedIsStored
  <2>2. ASSUME NEW c \in Client, IngestFeed(c), b = op[c].batch
        PROVE  /\ b \in persisted
               /\ owner[b] \in DOMAIN store => b \in InSeq(store[owner[b]].events)
    BY <2>2 DEF IngestFeed, At, IngestSends, FedIsPersisted, AckedInv
  <2>3. ASSUME NEW c \in Client, Arrive(c) PROVE acked' = acked
    BY <2>3 DEF Arrive, CreateStart, DeleteStart, UpdateStart, IngestStart, TimelineStart, history
  <2>4. ASSUME NEW c \in Client, Handle(c), ~IngestFeed(c) PROVE acked' = acked
    BY <2>4 DEF Handle, CreateSave, CreateDone, DeleteLoad, DeleteRemove, DeleteDone,
       UpdateLoad, UpdateGauge, UpdateSet, UpdateDone, IngestCheck, IngestLoad,
       IngestAppend, TimelineHit, TimelineMiss, history
  <2>5. ASSUME NEW c \in Client, IngestFeed(c) PROVE acked' = acked \cup {op[c].batch}
    BY <2>5 DEF IngestFeed
  <2>6. ASSUME NEW c \in Client, RequestThrows(c) PROVE acked' = acked
    BY <2>6 DEF RequestThrows, history
  <2>7. ASSUME NEW s \in Session, Rebuild(s) \/ RebuildThrows(s) PROVE acked' = acked
    BY <2>7 DEF Rebuild, RebuildLoad, RebuildRead, RebuildSet, RebuildThrows, history
  <2>8. CASE Purge \/ PurgeThrows \/ Tick \/ Restart \/ UNCHANGED vars
    BY <2>1, <2>8 DEF Purge, PurgeList, PurgeRemove, PurgeForget, PurgeThrows, Tick, Restart,
       history, vars
  <2> QED BY <2>1, <2>2, <2>3, <2>4, <2>5, <2>6, <2>7, <2>8 DEF Next
<1>3. acked' \subseteq persisted'
  BY <1>0, <1>2
<1>4. AckedIsStored'
  BY <1>0, <1>1, <1>2 DEF AckedIsStored
<1>5. ASSUME NEW d \in DOMAIN op', op'[d].kind = "ingest", op'[d].pc = "feed",
             op'[d].sid \in DOMAIN store'
      PROVE  op'[d].batch \in InSeq(store'[op'[d].sid].events)
  <2>1. ASSUME d \in DOMAIN op, op'[d] = op[d]
        PROVE  op'[d].batch \in InSeq(store'[op'[d].sid].events)
    <3>1. op[d].batch \in persisted /\ owner[op[d].batch] = op[d].sid
      BY <1>5, <2>1 DEF FedIsPersisted, IngestSends
    <3>2. op[d].sid \in DOMAIN store => op[d].batch \in InSeq(store[op[d].sid].events)
      BY <1>5, <2>1 DEF AckedInv
    <3> QED BY <1>1, <1>5, <2>1, <3>1, <3>2
  <2>2. ASSUME NEW c \in Client, Arrive(c)
        PROVE  op'[d].batch \in InSeq(store'[op'[d].sid].events)
    <3>1. PICK r : Begin(c, r) /\ r.pc # "feed"
      BY <2>2, ArriveBegins
    <3> QED BY <1>5, <2>1, <3>1 DEF Begin, Put
  <2>3. ASSUME NEW c \in Client, Handle(c)
        PROVE  op'[d].batch \in InSeq(store'[op'[d].sid].events)
    <3>1. CASE d # c
      BY <2>1, <2>3, <3>1, HandleMoves
    <3>2. CASE d = c
      <4> DEFINE s == op[c].sid
                 b == op[c].batch
      <4>1. IngestAppend(c) /\ s \in DOMAIN store /\ op'[d].sid = s /\ op'[d].batch = b
        BY <1>5, <2>3, <3>2, HandleMoves, HandleKeeps DEF Kept
      <4>2. b \in Batch /\ store[s].events \in Seq(Batch)
        BY <4>1 DEF IngestAppend, At, IngestSends, TypeOK, MapInto, SessionRecord
      <4>3. store'[s].events = Stored(store[s].events, b)
        BY <4>1 DEF IngestAppend, AppendEvents, TypeOK, MapInto, SessionRecord
      <4>4. b \in InSeq(store'[s].events)
        BY <4>2, <4>3, InStored
      <4> QED BY <4>1, <4>4
    <3> QED BY <3>1, <3>2
  <2>4. CASE \A c \in Client : ~Arrive(c) /\ ~Handle(c)
    BY <2>1, <2>4, OthersKeep
  <2> QED BY <2>2, <2>3, <2>4
<1> QED BY <1>3, <1>4, <1>5 DEF AckedInv

\* With the Postgres adapter, which has no event cap, a batch answered 201 is
\* in storage for as long as its session is, across rejected calls, retried
\* batches, purges, deletes and restarts.
THEOREM AckedSurvives == Backend = "postgres" => (Spec => []AckedIsStored)
<1> SUFFICES ASSUME Backend = "postgres" PROVE Spec => []AckedIsStored
  OBVIOUS
<1> DEFINE IInv == IngestSends /\ FedIsPersisted /\ IdsAreFresh /\ AckedInv
<1>1. Init => IInv
  BY DEF Init, IngestSends, FedIsPersisted, IdsAreFresh, AckedInv, AckedIsStored, NoKeys
<1>2. TypeOK /\ IInv /\ [Next]_vars => IInv'
  BY StepIngestSends, StepFedIsPersisted, StepIdsAreFresh, StepAckedInv
<1>3. IInv => AckedIsStored
  BY DEF AckedInv
<1> QED BY <1>1, <1>2, <1>3, TypeCorrect, PTL DEF Spec

-----------------------------------------------------------------------------
(* Rebuilds and those who wait for them *)

Waits(d) == op[d].pc \in {"owner", "join"}

\* Nobody begins or ceases to wait, and no rebuild begins or ends.
SameWaiters ==
    /\ DOMAIN rebuilds' = DOMAIN rebuilds
    /\ \A d \in DOMAIN op : Waits(d) => d \in DOMAIN op' /\ op'[d] = op[d]
    /\ \A d \in DOMAIN op' : Waits(d)' => d \in DOMAIN op /\ op'[d] = op[d]

LEMMA StillOwned == ASSUME RebuildHasOneOwner, SameWaiters PROVE RebuildHasOneOwner'
<1>1. ASSUME NEW s PROVE Waiting(s)' = Waiting(s) /\ \A d \in Waiting(s) : op'[d] = op[d]
  BY DEF SameWaiters, Waiting, Waits
<1>2. ASSUME NEW s \in DOMAIN rebuilds'
      PROVE  \E c \in Waiting(s)' :
                /\ op'[c].pc = "owner"
                /\ \A d \in Waiting(s)' : op'[d].pc = "owner" => d = c
  BY <1>1, <1>2 DEF SameWaiters, RebuildHasOneOwner
<1>3. ASSUME NEW c \in DOMAIN op', op'[c].pc \in {"owner", "join"}
      PROVE  op'[c].sid \in DOMAIN rebuilds'
  BY <1>3 DEF SameWaiters, RebuildHasOneOwner, Waits
<1> QED BY <1>2, <1>3 DEF RebuildHasOneOwner

LEMMA SettledOwned ==
    ASSUME RebuildHasOneOwner, NEW s, NEW a, Settle(s, a) PROVE RebuildHasOneOwner'
<1>1. /\ DOMAIN rebuilds' = DOMAIN rebuilds \ {s}
      /\ DOMAIN op' = DOMAIN op \ Waiting(s)
      /\ \A d \in DOMAIN op' : op'[d] = op[d]
  BY DEF Settle, Without
<1>2. ASSUME NEW x, x # s PROVE Waiting(x)' = Waiting(x)
  BY <1>1, <1>2 DEF Waiting
<1>3. ASSUME NEW x \in DOMAIN rebuilds'
      PROVE  \E c \in Waiting(x)' :
                /\ op'[c].pc = "owner"
                /\ \A d \in Waiting(x)' : op'[d].pc = "owner" => d = c
  <2>1. x # s /\ x \in DOMAIN rebuilds /\ Waiting(x)' = Waiting(x)
    BY <1>1, <1>2
  <2>2. \A d \in Waiting(x) : op'[d] = op[d]
    BY <1>1, <2>1 DEF Waiting
  <2> QED BY <2>1, <2>2 DEF RebuildHasOneOwner
<1>4. ASSUME NEW c \in DOMAIN op', op'[c].pc \in {"owner", "join"}
      PROVE  op'[c].sid \in DOMAIN rebuilds'
  BY <1>1, <1>4 DEF RebuildHasOneOwner, Waiting
<1> QED BY <1>3, <1>4 DEF RebuildHasOneOwner

\* A timeline request that misses the cache joins, gives up, or becomes the owner.
LEMMA MissedOwned ==
    ASSUME TypeOK, RebuildHasOneOwner, NEW c \in Client, TimelineMiss(c)
    PROVE  RebuildHasOneOwner'
<1> DEFINE s == op[c].sid
<1>0. c \in DOMAIN op /\ op[c] \in Suspended /\ op[c].pc = "lookup"
  BY DEF TimelineMiss, At, TypeOK, MapInto
<1>1. CASE s \in DOMAIN rebuilds /\ Goto(c, "join") /\ UNCHANGED rebuilds
  <2>1. /\ DOMAIN op' = DOMAIN op /\ op'[c].pc = "join" /\ op'[c].sid = s
        /\ \A d \in DOMAIN op : d # c => op'[d] = op[d]
    BY <1>0, <1>1 DEF Goto, Suspended
  <2>2. ASSUME NEW x \in DOMAIN rebuilds'
        PROVE  \E e \in Waiting(x)' :
                  /\ op'[e].pc = "owner"
                  /\ \A d \in Waiting(x)' : op'[d].pc = "owner" => d = e
    <3>1. PICK e \in Waiting(x) :
            op[e].pc = "owner" /\ \A d \in Waiting(x) : op[d].pc = "owner" => d = e
      BY <1>1 DEF RebuildHasOneOwner
    <3>2. e # c /\ e \in Waiting(x)' /\ op'[e].pc = "owner"
      BY <1>0, <2>1, <3>1 DEF Waiting
    <3>3. \A d \in Waiting(x)' : op'[d].pc = "owner" => d # c /\ d \in Waiting(x)
      BY <2>1 DEF Waiting
    <3> QED BY <2>1, <3>1, <3>2, <3>3 DEF Waiting
  <2>3. \A d \in DOMAIN op' : op'[d].pc \in {"owner", "join"} => op'[d].sid \in DOMAIN rebuilds'
    BY <1>1, <2>1 DEF RebuildHasOneOwner
  <2> QED BY <2>2, <2>3 DEF RebuildHasOneOwner
<1>2. CASE Reply(c, "missing") /\ UNCHANGED rebuilds
  <2>1. SameWaiters
    BY <1>0, <1>2 DEF Reply, Without, SameWaiters, Waits
  <2> QED BY <2>1, StillOwned
<1>3. CASE /\ s \notin DOMAIN rebuilds /\ Goto(c, "owner")
           /\ rebuilds' = Put(rebuilds, s, [pc |-> "load", events |-> <<>>])
  <2>1. /\ DOMAIN op' = DOMAIN op /\ op'[c].pc = "owner" /\ op'[c].sid = s
        /\ \A d \in DOMAIN op : d # c => op'[d] = op[d]
        /\ DOMAIN rebuilds' = DOMAIN rebuilds \cup {s}
    BY <1>0, <1>3 DEF Goto, Suspended, Put
  <2>2. Waiting(s) = {}
    BY <1>3 DEF Waiting, RebuildHasOneOwner
  <2>3. Waiting(s)' = {c}
    <3>1. c \in Waiting(s)'
      BY <1>0, <2>1 DEF Waiting
    <3>2. ASSUME NEW d \in Waiting(s)', d # c PROVE FALSE
      <4>1. d \in DOMAIN op /\ op'[d] = op[d]
        BY <2>1, <3>2 DEF Waiting
      <4>2. d \in Waiting(s)
        BY <2>1, <3>2, <4>1 DEF Waiting
      <4> QED BY <2>2, <4>2
    <3> QED BY <3>1, <3>2
  <2>4. ASSUME NEW x \in DOMAIN rebuilds, x # s
        PROVE  Waiting(x)' = Waiting(x) /\ c \notin Waiting(x)
    BY <1>0, <2>1, <2>4 DEF Waiting
  <2>5. ASSUME NEW x \in DOMAIN rebuilds'
        PROVE  \E e \in Waiting(x)' :
                  /\ op'[e].pc = "owner"
                  /\ \A d \in Waiting(x)' : op'[d].pc = "owner" => d = e
    <3>1. CASE x = s
      BY <2>1, <2>3, <3>1
    <3>2. CASE x # s
      <4>1. x \in DOMAIN rebuilds /\ Waiting(x)' = Waiting(x) /\ c \notin Waiting(x)
        BY <2>1, <2>4, <3>2
      <4>2. \A d \in Waiting(x) : op'[d] = op[d]
        BY <2>1, <4>1 DEF Waiting
      <4> QED BY <4>1, <4>2 DEF RebuildHasOneOwner
    <3> QED BY <3>1, <3>2
  <2>6. \A d \in DOMAIN op' : op'[d].pc \in {"owner", "join"} => op'[d].sid \in DOMAIN rebuilds'
    BY <2>1 DEF RebuildHasOneOwner
  <2> QED BY <2>5, <2>6 DEF RebuildHasOneOwner
<1> QED BY <1>1, <1>2, <1>3 DEF TimelineMiss

LEMMA StepOneOwner ==
    ASSUME TypeOK, RebuildHasOneOwner, [Next]_vars PROVE RebuildHasOneOwner'
<1>0. \A c \in DOMAIN op : op[c] \in Suspended
  BY DEF TypeOK, MapInto
<1> USE DEF Aside
<1>1. ASSUME NEW c \in Client, Arrive(c) PROVE RebuildHasOneOwner'
  <2>1. PICK r : Begin(c, r) /\ r.pc \in {"save", "load", "check", "lookup"}
    BY <1>1, ArriveBegins
  <2>2. rebuilds' = rebuilds
    BY <1>1 DEF Arrive, CreateStart, DeleteStart, UpdateStart, IngestStart, TimelineStart
  <2>3. SameWaiters
    BY <2>1, <2>2 DEF Begin, Put, SameWaiters, Waits
  <2> QED BY <2>3, StillOwned
<1>2. ASSUME NEW c \in Client, Handle(c), ~TimelineMiss(c) PROVE RebuildHasOneOwner'
  <2>1. c \in DOMAIN op /\ ~Waits(c) /\ rebuilds' = rebuilds
    BY <1>2 DEF Handle, CreateSave, CreateDone, DeleteLoad, DeleteRemove, DeleteDone,
       UpdateLoad, UpdateGauge, UpdateSet, UpdateDone, IngestCheck, IngestLoad,
       IngestAppend, IngestFeed, TimelineHit, At, Waits
  <2>2. \/ \E a : Reply(c, a)
        \/ \E pc : Goto(c, pc) /\ pc \notin {"owner", "join"}
        \/ \E from : op' = [op EXCEPT ![c].pc = "found", ![c].from = from]
    BY <1>2 DEF Handle, CreateSave, CreateDone, DeleteLoad, DeleteRemove, DeleteDone,
       UpdateLoad, UpdateGauge, UpdateSet, UpdateDone, IngestCheck, IngestLoad,
       IngestAppend, IngestFeed, TimelineHit
  <2>3. ASSUME NEW a, Reply(c, a) PROVE SameWaiters
    BY <2>1, <2>3 DEF Reply, Without, SameWaiters, Waits
  <2>4. ASSUME NEW pc, Goto(c, pc), pc \notin {"owner", "join"} PROVE SameWaiters
    <3>1. /\ DOMAIN op' = DOMAIN op /\ op'[c].pc = pc
          /\ \A d \in DOMAIN op : d # c => op'[d] = op[d]
      BY <1>0, <2>1, <2>4 DEF Goto, Suspended
    <3> QED BY <2>1, <2>4, <3>1 DEF SameWaiters, Waits
  <2>5. ASSUME NEW from, op' = [op EXCEPT ![c].pc = "found", ![c].from = from] PROVE SameWaiters
    <3>1. /\ DOMAIN op' = DOMAIN op /\ op'[c].pc = "found"
          /\ \A d \in DOMAIN op : d # c => op'[d] = op[d]
      BY <1>0, <2>1, <2>5 DEF Suspended
    <3> QED BY <2>1, <3>1 DEF SameWaiters, Waits
  <2> QED BY <2>2, <2>3, <2>4, <2>5, StillOwned
<1>3. ASSUME NEW s \in Session, Rebuild(s) \/ RebuildThrows(s) PROVE RebuildHasOneOwner'
  <2>1. ASSUME NEW a, Settle(s, a) PROVE RebuildHasOneOwner'
    BY <2>1, SettledOwned
  <2>2. CASE DOMAIN rebuilds' = DOMAIN rebuilds /\ UNCHANGED op
    BY <2>2, StillOwned DEF SameWaiters, Waits
  <2> QED BY <1>3, <2>1, <2>2 DEF Rebuild, RebuildLoad, RebuildRead, RebuildSet, RebuildThrows
<1>4. ASSUME NEW c \in Client, RequestThrows(c) PROVE RebuildHasOneOwner'
  <2>1. SameWaiters
    BY <1>4 DEF RequestThrows, Reply, Without, SameWaiters, Waits
  <2> QED BY <2>1, StillOwned
<1>5. CASE Purge \/ PurgeThrows \/ Tick \/ UNCHANGED vars
  <2>1. UNCHANGED <<op, rebuilds>>
    BY <1>5 DEF Purge, PurgeList, PurgeRemove, PurgeForget, PurgeThrows, Tick, vars
  <2> QED BY <2>1, StillOwned DEF SameWaiters, Waits
<1>6. CASE Restart
  BY <1>6 DEF Restart, NoKeys, RebuildHasOneOwner
<1> QED BY <1>1, <1>2, <1>3, <1>4, <1>5, <1>6, MissedOwned DEF Next

\* A rebuild that coalesces requests always has one owner, who will clear its
\* slot, and nobody waits for a rebuild that has ended - for every number of
\* requests and slots, and wherever storage rejects or the process restarts.
THEOREM RebuildsAreOwned == Spec => []RebuildHasOneOwner
<1>1. Init => RebuildHasOneOwner
  BY DEF Init, NoKeys, RebuildHasOneOwner
<1> QED BY <1>1, StepOneOwner, TypeCorrect, PTL DEF Spec

-----------------------------------------------------------------------------
(* Webhooks tell of what has happened *)

LEMMA FreshAlways == Spec => [](TypeOK /\ IngestSends /\ IdsAreFresh)
<1>1. Init => IngestSends /\ IdsAreFresh
  BY DEF Init, IngestSends, IdsAreFresh, NoKeys
<1> QED BY <1>1, StepIngestSends, StepIdsAreFresh, TypeCorrect, PTL DEF Spec

\* The session has been created, and nobody is about to save it.
Born(s) == s \in used /\ \A c \in DOMAIN op : ~Creating(c, s)

LEMMA StoredIsBorn == ASSUME IdsAreFresh, NEW s \in DOMAIN store PROVE Born(s)
BY DEF IdsAreFresh, Born, Creating

\* A session is created once, so it stays created, and once gone it is gone.
LEMMA BornStays ==
    ASSUME TypeOK, [Next]_vars, NEW s, Born(s)
    PROVE  Born(s)' /\ (s \notin DOMAIN store => s \notin DOMAIN store')
<1>1. s \in used'
  BY UsedGrows DEF Born
<1>2. ASSUME NEW c \in DOMAIN op', Creating(c, s)' PROVE FALSE
  <2>1. Creating(c, s)
    BY <1>2, CreatingWas DEF Born
  <2> QED BY <2>1 DEF Born, Creating
<1>3. ASSUME s \notin DOMAIN store, s \in DOMAIN store' PROVE FALSE
  <2>1. PICK c \in Client : CreateSave(c) /\ op[c].sid = s
    BY <1>3, StoreShape
  <2> QED BY <2>1 DEF CreateSave, At, Born, Creating
<1> QED BY <1>1, <1>2, <1>3 DEF Born

\* The end time of a session is never taken back.
LEMMA EndedStays ==
    ASSUME TypeOK, [Next]_vars, NEW s \in DOMAIN store, s \in DOMAIN store', Born(s),
           store[s].ended # Never
    PROVE  store'[s].ended # Never
<1>0. /\ MapInto(store, Session, SessionRecord) /\ now \in Time /\ now # Never
      /\ store[s] \in SessionRecord
  BY DEF TypeOK, Time, Never, MapInto
<1> USE DEF storage
<1>1. ASSUME NEW c \in Client, Arrive(c) PROVE store' = store
  BY <1>1 DEF Arrive, CreateStart, DeleteStart, UpdateStart, IngestStart, TimelineStart
<1>2. ASSUME NEW c \in Client, CreateSave(c) PROVE store'[s] = store[s]
  <2>1. op[c].sid # s
    BY <1>2 DEF CreateSave, At, Born, Creating
  <2> QED BY <1>2, <2>1 DEF CreateSave, Save, Put, Without
<1>3. ASSUME NEW c \in Client, IngestAppend(c) PROVE store'[s].ended = store[s].ended
  BY <1>0, <1>3 DEF IngestAppend, AppendEvents, SessionRecord
<1>4. ASSUME NEW c \in Client, UpdateSet(c) PROVE store'[s].ended # Never
  <2>1. CASE op[c].sid \notin DOMAIN store
    BY <1>4, <2>1 DEF UpdateSet
  <2>2. CASE op[c].sid \in DOMAIN store
    <3>1. SetStatus(op[c].sid, op[c].to)
      BY <1>4, <2>2 DEF UpdateSet
    <3>2. store'[s].ended \in {now, store[s].ended}
      BY <1>0, <3>1 DEF SetStatus, SessionRecord
    <3> QED BY <1>0, <3>2
  <2> QED BY <2>1, <2>2
<1>5. ASSUME NEW c \in Client, Handle(c), ~CreateSave(c), ~IngestAppend(c), ~UpdateSet(c)
      PROVE  store'[s] = store[s]
  BY <1>5 DEF Handle, CreateDone, DeleteLoad, DeleteRemove, DeleteDone,
     UpdateLoad, UpdateGauge, UpdateDone, IngestCheck, IngestLoad,
     IngestFeed, TimelineHit, TimelineMiss, Remove, Without
<1>6. ASSUME NEW c \in Client, RequestThrows(c) PROVE store' = store
  BY <1>6 DEF RequestThrows
<1>7. ASSUME NEW x \in Session, Rebuild(x) \/ RebuildThrows(x) PROVE store' = store
  BY <1>7 DEF Rebuild, RebuildLoad, RebuildRead, RebuildSet, RebuildThrows
<1>8. CASE Purge \/ PurgeThrows \/ Tick \/ Restart \/ UNCHANGED vars
  <2>1. store'[s] = store[s]
    BY <1>8 DEF Purge, PurgeList, PurgeRemove, PurgeForget, PurgeThrows, Tick, Restart,
       Remove, Without, vars
  <2> QED BY <2>1
<1> QED BY <1>1, <1>2, <1>3, <1>4, <1>5, <1>6, <1>7, <1>8 DEF Next

\* Who gets to the awaits of a delete and of a status update, and from where.
LEMMA HandleReaches ==
    ASSUME TypeOK, NEW c \in Client, Handle(c), c \in DOMAIN op'
    PROVE  /\ c \in DOMAIN op /\ op'[c].sid = op[c].sid /\ op'[c].to = op[c].to
           /\ op'[c].pc \in {"remove", "found"} => op[c].sid \in DOMAIN store /\ UNCHANGED store
           /\ op'[c].pc = "removed" => DeleteRemove(c)
           /\ op'[c].pc = "set" => op[c].pc = "found"
           /\ op'[c].pc = "reload" => UpdateSet(c) /\ op[c].pc = "set"
<1>1. c \in DOMAIN op
  BY DEF Handle, At, CreateSave, CreateDone, DeleteLoad, DeleteRemove, DeleteDone,
     UpdateLoad, UpdateGauge, UpdateSet, UpdateDone, IngestCheck, IngestLoad,
     IngestAppend, IngestFeed, TimelineHit, TimelineMiss
<1>2. op[c] \in Suspended
  BY <1>1 DEF TypeOK, MapInto
<1>3. \/ \E a : Reply(c, a)
      \/ \E pc : Goto(c, pc) /\ pc \notin {"remove", "removed", "found", "set", "reload"}
      \/ Goto(c, "remove") /\ op[c].sid \in DOMAIN store /\ UNCHANGED store
      \/ /\ op' = [op EXCEPT ![c].pc = "found", ![c].from = store[op[c].sid].status]
         /\ op[c].sid \in DOMAIN store /\ UNCHANGED store
      \/ DeleteRemove(c) /\ Goto(c, "removed")
      \/ op[c].pc = "found" /\ Goto(c, "set")
      \/ UpdateSet(c) /\ op[c].pc = "set" /\ Goto(c, "reload")
  <2>1. ASSUME UpdateSet(c) PROVE Reply(c, "failed") \/ (op[c].pc = "set" /\ Goto(c, "reload"))
    BY <2>1 DEF UpdateSet, At
  <2>2. ASSUME DeleteLoad(c) \/ UpdateLoad(c)
        PROVE  \/ Reply(c, "missing")
               \/ Goto(c, "remove") /\ op[c].sid \in DOMAIN store /\ UNCHANGED store
               \/ /\ op' = [op EXCEPT ![c].pc = "found", ![c].from = store[op[c].sid].status]
                  /\ op[c].sid \in DOMAIN store /\ UNCHANGED store
    BY <2>2 DEF DeleteLoad, UpdateLoad, storage
  <2>3. ASSUME DeleteRemove(c) \/ UpdateGauge(c)
        PROVE  \/ DeleteRemove(c) /\ Goto(c, "removed")
               \/ op[c].pc = "found" /\ Goto(c, "set")
    BY <2>3 DEF DeleteRemove, UpdateGauge, At
  <2>4. ASSUME ~UpdateSet(c), ~DeleteLoad(c), ~UpdateLoad(c), ~DeleteRemove(c), ~UpdateGauge(c)
        PROVE  \/ \E a : Reply(c, a)
               \/ \E pc : Goto(c, pc) /\ pc \notin {"remove", "removed", "found", "set", "reload"}
    <3>1. ASSUME CreateDone(c) \/ DeleteDone(c) \/ UpdateDone(c) \/ IngestFeed(c) \/ TimelineHit(c)
          PROVE  \E a : Reply(c, a)
      BY <3>1 DEF CreateDone, DeleteDone, UpdateDone, IngestFeed, TimelineHit
    <3>2. ASSUME CreateSave(c) \/ IngestCheck(c) \/ IngestLoad(c)
          PROVE  \/ \E a : Reply(c, a)
                 \/ \E pc : Goto(c, pc) /\ pc \notin {"remove", "removed", "found", "set", "reload"}
      BY <3>2 DEF CreateSave, IngestCheck, IngestLoad
    <3>3. ASSUME IngestAppend(c) \/ TimelineMiss(c)
          PROVE  \/ \E a : Reply(c, a)
                 \/ \E pc : Goto(c, pc) /\ pc \notin {"remove", "removed", "found", "set", "reload"}
      BY <3>3 DEF IngestAppend, TimelineMiss
    <3> QED BY <2>4, <3>1, <3>2, <3>3 DEF Handle
  <2> QED BY <2>1, <2>2, <2>3, <2>4
<1>4. \A a : ~Reply(c, a)
  BY DEF Reply, Without
<1>5. \A pc : Goto(c, pc) => op'[c].pc = pc /\ op'[c].sid = op[c].sid /\ op'[c].to = op[c].to
  BY <1>1, <1>2 DEF Goto, Suspended
<1>6. \A from : op' = [op EXCEPT ![c].pc = "found", ![c].from = from]
                  => op'[c].pc = "found" /\ op'[c].sid = op[c].sid /\ op'[c].to = op[c].to
  BY <1>1, <1>2 DEF Suspended
<1>7. CASE \E pc : Goto(c, pc) /\ pc \notin {"remove", "removed", "found", "set", "reload"}
  BY <1>1, <1>5, <1>7
<1>8. CASE \/ Goto(c, "remove") /\ op[c].sid \in DOMAIN store /\ UNCHANGED store
           \/ /\ op' = [op EXCEPT ![c].pc = "found", ![c].from = store[op[c].sid].status]
              /\ op[c].sid \in DOMAIN store /\ UNCHANGED store
  <2>1. /\ op'[c].pc \in {"remove", "found"} /\ op[c].sid \in DOMAIN store /\ UNCHANGED store
        /\ op'[c].sid = op[c].sid /\ op'[c].to = op[c].to
    BY <1>5, <1>6, <1>8
  <2> QED BY <1>1, <2>1
<1>9. CASE DeleteRemove(c) /\ Goto(c, "removed")
  BY <1>1, <1>5, <1>9
<1>10. CASE op[c].pc = "found" /\ Goto(c, "set")
  BY <1>1, <1>5, <1>10
<1>11. CASE UpdateSet(c) /\ op[c].pc = "set" /\ Goto(c, "reload")
  BY <1>1, <1>5, <1>11
<1> QED BY <1>3, <1>4, <1>7, <1>8, <1>9, <1>10, <1>11

\* Webhooks are emitted by three handlers, each for its own session.
LEMMA HooksShape ==
    ASSUME TypeOK, [Next]_vars, NEW s \in Session, NEW h \in hooks'[s], h \notin hooks[s]
    PROVE  \/ h = "session.created"
           \/ h = "session.deleted" /\ \E c \in Client : DeleteDone(c) /\ op[c].sid = s
           \/ /\ h \in {"session.completed", "session.error"}
              /\ \E c \in Client : UpdateDone(c) /\ op[c].sid = s /\ op[c].to \in Terminal
<1>0. hooks \in [Session -> SUBSET Hooks]
  BY DEF TypeOK
<1>1. ASSUME NEW x, NEW hook, Emit(x, hook) PROVE x = s /\ h = hook
  BY <1>0, <1>1 DEF Emit
<1>2. ASSUME UNCHANGED hooks PROVE FALSE
  BY <1>2
<1>3. ASSUME NEW c \in Client, Arrive(c) PROVE UNCHANGED hooks
  BY <1>3 DEF Arrive, CreateStart, DeleteStart, UpdateStart, IngestStart, TimelineStart
<1>4. ASSUME NEW c \in Client, CreateDone(c) PROVE h = "session.created"
  BY <1>1, <1>4 DEF CreateDone
<1>5. ASSUME NEW c \in Client, DeleteDone(c) PROVE h = "session.deleted" /\ op[c].sid = s
  BY <1>1, <1>5 DEF DeleteDone
<1>6. ASSUME NEW c \in Client, UpdateDone(c)
      PROVE  op[c].sid = s /\ op[c].to \in Terminal /\ h \in {"session.completed", "session.error"}
  BY <1>1, <1>2, <1>6 DEF UpdateDone
<1>7. ASSUME NEW c \in Client, Handle(c), ~CreateDone(c), ~DeleteDone(c), ~UpdateDone(c)
      PROVE  UNCHANGED hooks
  BY <1>7 DEF Handle, CreateSave, DeleteLoad, DeleteRemove,
     UpdateLoad, UpdateGauge, UpdateSet, IngestCheck, IngestLoad,
     IngestAppend, IngestFeed, TimelineHit, TimelineMiss
<1>8. ASSUME NEW c \in Client, RequestThrows(c) PROVE UNCHANGED hooks
  BY <1>8 DEF RequestThrows
<1>9. ASSUME NEW x \in Session, Rebuild(x) \/ RebuildThrows(x) PROVE UNCHANGED hooks
  BY <1>9 DEF Rebuild, RebuildLoad, RebuildRead, RebuildSet, RebuildThrows
<1>10. ~(Purge \/ PurgeThrows \/ Tick \/ Restart \/ UNCHANGED vars)
  <2> SUFFICES ASSUME Purge \/ PurgeThrows \/ Tick \/ Restart \/ UNCHANGED vars
               PROVE  UNCHANGED hooks
    BY <1>2
  <2> QED BY DEF Purge, PurgeList, PurgeRemove, PurgeForget, PurgeThrows, Tick, Restart, vars
<1> QED BY <1>2, <1>3, <1>4, <1>5, <1>6, <1>7, <1>8, <1>9, <1>10 DEF Next

Told == {"session.deleted", "session.completed", "session.error"}

\* A handler that is past its lookup, or has told of it, knows a session that
\* was created; one that is past its write knows what the write has done.
HooksInv ==
    /\ \A c \in DOMAIN op :
         op[c].pc \in {"remove", "removed", "found", "set", "reload"} => Born(op[c].sid)
    /\ \A c \in DOMAIN op : op[c].pc = "removed" => op[c].sid \notin DOMAIN store
    /\ \A c \in DOMAIN op :
         op[c].pc = "reload" /\ op[c].to \in Terminal /\ op[c].sid \in DOMAIN store
            => store[op[c].sid].ended # Never
    /\ \A s \in Session : hooks[s] \cap Told # {} => Born(s)
    /\ HooksTellTheTruth

LEMMA StepHooks ==
    ASSUME TypeOK, IngestSends, IdsAreFresh, HooksInv, [Next]_vars
    PROVE  HooksInv'
<1>0. /\ \A c \in DOMAIN op : op[c] \in Suspended
      /\ hooks \in [Session -> SUBSET Hooks]
      /\ now \in Time /\ now # Never
      /\ \A s \in DOMAIN store : store[s] \in SessionRecord
  BY DEF TypeOK, MapInto, Time, Never
<1>1. ASSUME NEW d \in DOMAIN op'
      PROVE  \/ d \in DOMAIN op /\ op'[d] = op[d]
             \/ op'[d].pc \in {"save", "load", "check", "lookup"}
             \/ d \in Client /\ Handle(d)
  <2>1. ASSUME NEW c \in Client, Arrive(c)
        PROVE  (d \in DOMAIN op /\ op'[d] = op[d]) \/ op'[d].pc \in {"save", "load", "check", "lookup"}
    <3>1. PICK r : Begin(c, r) /\ r.pc \in {"save", "load", "check", "lookup"}
      BY <2>1, ArriveBegins
    <3> QED BY <3>1 DEF Begin, Put
  <2>2. ASSUME NEW c \in Client, Handle(c) PROVE (d \in DOMAIN op /\ op'[d] = op[d]) \/ d = c
    BY <2>2, HandleMoves
  <2>3. CASE \A c \in Client : ~Arrive(c) /\ ~Handle(c)
    BY <2>3, OthersKeep
  <2> QED BY <2>1, <2>2, <2>3
<1>2. ASSUME NEW d \in DOMAIN op', op'[d].pc \in {"remove", "removed", "found", "set", "reload"},
             NEW s, s = op'[d].sid
      PROVE  Born(s)'
  <2>1. CASE d \in DOMAIN op /\ op'[d] = op[d]
    BY <1>2, <2>1, BornStays DEF HooksInv
  <2>2. CASE d \in Client /\ Handle(d)
    <3>1. op'[d].sid = op[d].sid /\ d \in DOMAIN op
      BY <2>2, HandleReaches
    <3>2. CASE op'[d].pc \in {"remove", "found"}
      <4>1. op[d].sid \in DOMAIN store
        BY <2>2, <3>2, HandleReaches
      <4>2. Born(s)
        BY <1>2, <3>1, <4>1, StoredIsBorn
      <4> QED BY <4>2, BornStays
    <3>3. CASE op'[d].pc = "removed"
      <4>1. op[d].pc = "remove"
        BY <2>2, <3>3, HandleReaches DEF DeleteRemove, At
      <4>2. Born(s)
        BY <1>2, <3>1, <4>1 DEF HooksInv
      <4> QED BY <4>2, BornStays
    <3>4. CASE op'[d].pc \in {"set", "reload"}
      <4>1. op[d].pc \in {"found", "set"}
        BY <2>2, <3>4, HandleReaches
      <4>2. Born(s)
        BY <1>2, <3>1, <4>1 DEF HooksInv
      <4> QED BY <4>2, BornStays
    <3> QED BY <1>2, <3>2, <3>3, <3>4
  <2> QED BY <1>1, <1>2, <2>1, <2>2
<1>3. ASSUME NEW d \in DOMAIN op', op'[d].pc = "removed"
      PROVE  op'[d].sid \notin DOMAIN store'
  <2>1. CASE d \in DOMAIN op /\ op'[d] = op[d]
    BY <1>3, <2>1, BornStays DEF HooksInv
  <2>2. CASE d \in Client /\ Handle(d)
    <3>1. op'[d].sid = op[d].sid /\ DeleteRemove(d)
      BY <1>3, <2>2, HandleReaches
    <3> QED BY <3>1 DEF DeleteRemove, Remove, Without
  <2> QED BY <1>1, <1>3, <2>1, <2>2
<1>4. ASSUME NEW d \in DOMAIN op', op'[d].pc = "reload", op'[d].to \in Terminal,
             op'[d].sid \in DOMAIN store'
      PROVE  store'[op'[d].sid].ended # Never
  <2>1. CASE d \in DOMAIN op /\ op'[d] = op[d]
    <3>1. Born(op[d].sid) /\ (op[d].sid \in DOMAIN store => store[op[d].sid].ended # Never)
      BY <1>4, <2>1 DEF HooksInv
    <3>2. op[d].sid \in DOMAIN store
      BY <1>4, <2>1, <3>1, BornStays
    <3> QED BY <1>4, <2>1, <3>1, <3>2, EndedStays
  <2>2. CASE d \in Client /\ Handle(d)
    <3> DEFINE s == op[d].sid
    <3>1. op'[d].sid = s /\ op'[d].to = op[d].to /\ UpdateSet(d) /\ op[d].pc = "set" /\ d \in DOMAIN op
      BY <1>4, <2>2, HandleReaches
    <3>2. s \in DOMAIN store
      <4>1. Born(s)
        BY <3>1 DEF HooksInv
      <4> QED BY <1>4, <3>1, <4>1, BornStays
    <3>3. SetStatus(s, op[d].to)
      BY <3>1, <3>2 DEF UpdateSet
    <3>4. store'[s].ended = now
      BY <1>0, <1>4, <3>1, <3>2, <3>3 DEF SetStatus, SessionRecord
    <3> QED BY <1>0, <3>1, <3>4
  <2> QED BY <1>1, <1>4, <2>1, <2>2
<1>5. ASSUME NEW s \in Session, NEW h \in hooks'[s] \cap Told
      PROVE  /\ Born(s)
             /\ h = "session.deleted" => s \notin DOMAIN store
             /\ h # "session.deleted" /\ s \in DOMAIN store => store[s].ended # Never
  <2>1. CASE h \in hooks[s]
    <3>1. Born(s)
      BY <2>1, <1>5 DEF HooksInv
    <3>2. h = "session.deleted" => s \notin DOMAIN store
      BY <2>1 DEF HooksInv, HooksTellTheTruth
    <3>3. h # "session.deleted" => {"session.completed", "session.error"} \cap hooks[s] # {}
      BY <1>5, <2>1 DEF Told
    <3>4. h # "session.deleted" /\ s \in DOMAIN store => store[s].ended # Never
      BY <3>3 DEF HooksInv, HooksTellTheTruth
    <3> QED BY <3>1, <3>2, <3>4
  <2>2. CASE h \notin hooks[s]
    <3>1. CASE h = "session.deleted" /\ \E c \in Client : DeleteDone(c) /\ op[c].sid = s
      BY <3>1 DEF DeleteDone, At, HooksInv
    <3>2. CASE /\ h \in {"session.completed", "session.error"}
               /\ \E c \in Client : UpdateDone(c) /\ op[c].sid = s /\ op[c].to \in Terminal
      BY <3>2 DEF UpdateDone, At, HooksInv
    <3> QED BY <1>5, <2>2, <3>1, <3>2, HooksShape DEF Told
  <2> QED BY <2>1, <2>2
<1>6. \A s \in Session : hooks'[s] \cap Told # {} => Born(s)'
  BY <1>5, BornStays
<1>7. ASSUME NEW s \in Session, "session.deleted" \in hooks'[s] PROVE s \notin DOMAIN store'
  <2>1. "session.deleted" \in hooks'[s] \cap Told
    BY <1>7 DEF Told
  <2> QED BY <2>1, <1>5, BornStays
<1>8. ASSUME NEW s \in Session, s \in DOMAIN store',
             {"session.completed", "session.error"} \cap hooks'[s] # {}
      PROVE  store'[s].ended # Never
  <2>1. PICK h \in hooks'[s] \cap Told : h # "session.deleted"
    BY <1>8 DEF Told
  <2>2. Born(s) /\ (s \in DOMAIN store => store[s].ended # Never)
    BY <1>5, <2>1
  <2>3. s \in DOMAIN store
    BY <1>8, <2>2, BornStays
  <2> QED BY <1>8, <2>2, <2>3, EndedStays
<1> QED BY <1>2, <1>3, <1>4, <1>6, <1>7, <1>8 DEF HooksInv, HooksTellTheTruth

\* For every number of requests and sessions, whatever rejects and whatever is
\* purged: who has received session.deleted will not find the session again, and
\* who has received session.completed or session.error finds an end time on it.
THEOREM HooksAreTrue == Spec => []HooksTellTheTruth
<1>1. Init => HooksInv
  BY DEF Init, HooksInv, HooksTellTheTruth, NoKeys
<1>2. HooksInv => HooksTellTheTruth
  BY DEF HooksInv
<1> QED BY <1>1, <1>2, StepHooks, FreshAlways, PTL DEF Spec

-----------------------------------------------------------------------------
(* A rebuild reads what was acknowledged before it *)

LEMMA DistinctIsShort ==
    ASSUME NEW q \in Seq(Batch), Distinct(q)
    PROVE  Len(q) <= MaxBatches
<1> SUFFICES ASSUME Len(q) > MaxBatches PROVE FALSE
  OBVIOUS
<1>0. Len(q) \in Nat /\ Len(q) >= 1
  BY LenProperties
<1>1. IsFiniteSet(1..Len(q)) /\ Cardinality(1..Len(q)) = Len(q)
  <2>1. /\ IsFiniteSet(1..Len(q))
        /\ Cardinality(1..Len(q)) = IF 1 > Len(q) THEN 0 ELSE Len(q) - 1 + 1
    <3>1. 1 \in Int /\ Len(q) \in Int
      BY <1>0
    <3> QED BY <3>1, FS_Interval, Zenon
  <2> QED BY <1>0, <2>1
<1>2. IsFiniteSet(Batch) /\ Cardinality(Batch) = MaxBatches
  BY FS_Interval DEF Batch
<1>3. q \in [1..Len(q) -> Batch]
  BY LenProperties
<1>4. Cardinality(Batch) < Cardinality(1..Len(q))
  BY <1>0, <1>1, <1>2
<1>5. \E x, y \in 1..Len(q) : x # y /\ q[x] = q[y]
  BY <1>1, <1>2, <1>3, <1>4, FS_PigeonHole
<1> QED BY <1>5 DEF Distinct

LEMMA AppendDistinct ==
    ASSUME NEW q \in Seq(Batch), NEW b \in Batch, Distinct(q), b \notin InSeq(q)
    PROVE  Distinct(Append(q, b))
<1> DEFINE r == Append(q, b)
<1>1. /\ Len(r) = Len(q) + 1 /\ Len(q) \in Nat
      /\ \A i \in 1..Len(q) : r[i] = q[i]
      /\ r[Len(q) + 1] = b
  BY AppendProperties, LenProperties
<1>2. \A i \in 1..Len(q) : q[i] # b
  BY DEF InSeq
<1> HIDE DEF r
<1>3. ASSUME NEW i \in 1..Len(r), NEW j \in 1..Len(r), r[i] = r[j] PROVE i = j
  <2>1. (i \in 1..Len(q) \/ i = Len(q) + 1) /\ (j \in 1..Len(q) \/ j = Len(q) + 1)
    BY <1>1
  <2> QED BY <1>1, <1>2, <1>3, <2>1 DEF Distinct
<1>4. Distinct(r)
  BY <1>3 DEF Distinct
<1> QED BY <1>4 DEF r

LEMMA EmptyDistinct == Distinct(<<>>)
BY DEF Distinct

\* Postgres stores an event id once.
StoredOnce == \A s \in DOMAIN store : Distinct(store[s].events)

LEMMA StepStoredOnce ==
    ASSUME Backend = "postgres", TypeOK, IngestSends, StoredOnce, [Next]_vars
    PROVE  StoredOnce'
<1> SUFFICES ASSUME NEW x \in DOMAIN store' PROVE Distinct(store'[x].events)
  BY DEF StoredOnce
<1>1. ASSUME NEW c \in Client, IngestAppend(c), op[c].sid = x, x \in DOMAIN store,
             store'[x].events = Stored(store[x].events, op[c].batch)
      PROVE  Distinct(store'[x].events)
  <2>1. op[c].batch \in Batch /\ store[x].events \in Seq(Batch)
    BY <1>1 DEF IngestAppend, At, IngestSends, TypeOK, MapInto, SessionRecord
  <2> QED BY <1>1, <2>1, AppendDistinct DEF Stored, StoredOnce
<1>2. CASE x \in DOMAIN store /\ store'[x].events = store[x].events
  BY <1>2 DEF StoredOnce
<1>3. CASE store'[x].events = <<>>
  BY <1>3, EmptyDistinct
<1> QED BY <1>1, <1>2, <1>3, StoreShape

\* Only ingestEvents acknowledges, the batch it carries.
LEMMA AckedShape ==
    ASSUME TypeOK, [Next]_vars
    PROVE  \/ acked' = acked
           \/ \E c \in Client : IngestFeed(c) /\ acked' = acked \cup {op[c].batch}
<1>1. ASSUME NEW c \in Client, Arrive(c) PROVE acked' = acked
  BY <1>1 DEF Arrive, CreateStart, DeleteStart, UpdateStart, IngestStart, TimelineStart, history
<1>2. ASSUME NEW c \in Client, Handle(c), ~IngestFeed(c) PROVE acked' = acked
  BY <1>2 DEF Handle, CreateSave, CreateDone, DeleteLoad, DeleteRemove, DeleteDone,
     UpdateLoad, UpdateGauge, UpdateSet, UpdateDone, IngestCheck, IngestLoad,
     IngestAppend, TimelineHit, TimelineMiss, history
<1>3. ASSUME NEW c \in Client, IngestFeed(c) PROVE acked' = acked \cup {op[c].batch}
  BY <1>3 DEF IngestFeed
<1>4. ASSUME NEW c \in Client, RequestThrows(c) PROVE acked' = acked
  BY <1>4 DEF RequestThrows, history
<1>5. ASSUME NEW s \in Session, Rebuild(s) \/ RebuildThrows(s) PROVE acked' = acked
  BY <1>5 DEF Rebuild, RebuildLoad, RebuildRead, RebuildSet, RebuildThrows, history
<1>6. CASE Purge \/ PurgeThrows \/ Tick \/ Restart \/ UNCHANGED vars
  BY <1>6 DEF Purge, PurgeList, PurgeRemove, PurgeForget, PurgeThrows, Tick, Restart, history, vars
<1> QED BY <1>1, <1>2, <1>3, <1>4, <1>5, <1>6 DEF Next

\* What one step can do to a rebuild that is in progress after it.
LEMMA RebuildsShape ==
    ASSUME TypeOK, [Next]_vars, NEW x \in DOMAIN rebuilds'
    PROVE  \/ x \in DOMAIN rebuilds /\ rebuilds'[x] = rebuilds[x]
           \/ /\ rebuilds'[x] = [pc |-> "load", events |-> <<>>] /\ x \notin DOMAIN rebuilds
              /\ \E c \in Client : TimelineMiss(c) /\ op[c].sid = x
           \/ rebuilds'[x].pc = "read" /\ x \in DOMAIN store \cap DOMAIN rebuilds
           \/ RebuildRead(x)
<1> DEFINE Same == x \in DOMAIN rebuilds /\ rebuilds'[x] = rebuilds[x]
<1>0. MapInto(rebuilds, Session, Rebuilding)
  BY DEF TypeOK, Rebuilding
<1> USE DEF Aside
<1>1. ASSUME NEW c \in Client, Arrive(c) PROVE Same
  BY <1>1 DEF Arrive, CreateStart, DeleteStart, UpdateStart, IngestStart, TimelineStart
<1>2. ASSUME NEW c \in Client, TimelineMiss(c)
      PROVE  \/ Same
             \/ /\ rebuilds'[x] = [pc |-> "load", events |-> <<>>] /\ x \notin DOMAIN rebuilds
                /\ op[c].sid = x
  BY <1>2 DEF TimelineMiss, Put
<1>3. ASSUME NEW c \in Client, Handle(c), ~TimelineMiss(c) PROVE Same
  BY <1>3 DEF Handle, CreateSave, CreateDone, DeleteLoad, DeleteRemove, DeleteDone,
     UpdateLoad, UpdateGauge, UpdateSet, UpdateDone, IngestCheck, IngestLoad,
     IngestAppend, IngestFeed, TimelineHit
<1>4. ASSUME NEW c \in Client, RequestThrows(c) PROVE Same
  BY <1>4 DEF RequestThrows
<1>5. ASSUME NEW s \in Session, RebuildLoad(s)
      PROVE  Same \/ (rebuilds'[x].pc = "read" /\ x \in DOMAIN store \cap DOMAIN rebuilds)
  <2>1. CASE s \in DOMAIN store
    <3>1. s \in DOMAIN rebuilds /\ rebuilds' = [rebuilds EXCEPT ![s].pc = "read"]
      BY <1>5, <2>1 DEF RebuildLoad
    <3> QED BY <1>0, <2>1, <3>1 DEF MapInto, Rebuilding
  <2>2. CASE s \notin DOMAIN store
    BY <1>5, <2>2 DEF RebuildLoad, Settle, Without
  <2> QED BY <2>1, <2>2
<1>6. ASSUME NEW s \in Session, RebuildRead(s) PROVE Same \/ RebuildRead(x)
  BY <1>6 DEF RebuildRead
<1>7. ASSUME NEW s \in Session, RebuildSet(s) \/ RebuildThrows(s) PROVE Same
  BY <1>7 DEF RebuildSet, RebuildThrows, Settle, Without
<1>8. CASE Purge \/ PurgeThrows \/ Tick \/ Restart \/ UNCHANGED vars
  BY <1>8 DEF Purge, PurgeList, PurgeRemove, PurgeForget, PurgeThrows, Tick, Restart,
     NoKeys, vars
<1> QED BY <1>1, <1>2, <1>3, <1>4, <1>5, <1>6, <1>7, <1>8 DEF Next, Rebuild

\* What a request is due is fixed when it arrives.
LEMMA DueShape ==
    ASSUME TypeOK, [Next]_vars, NEW d \in DOMAIN op'
    PROVE  \/ d \in DOMAIN op /\ op'[d].due = op[d].due /\ op'[d].sid = op[d].sid
           \/ op'[d].due \subseteq AckedFor(op'[d].sid)
<1>0. MapInto(op, Client, Suspended)
  BY DEF TypeOK
<1> DEFINE Same == d \in DOMAIN op /\ op'[d].due = op[d].due /\ op'[d].sid = op[d].sid
<1>1. ASSUME NEW c \in Client, Arrive(c)
      PROVE  Same \/ op'[d].due \subseteq AckedFor(op'[d].sid)
  <2>1. PICK r : Begin(c, r) /\ r.due \subseteq AckedFor(r.sid)
    <3>1. \A kind, pc, s : Request(kind, pc, s).due = {}
      BY DEF Request
    <3>2. \A s, b : [Request("ingest", "check", s) EXCEPT !.batch = b].due = {}
      BY DEF Request
    <3>3. \A s, to : [Request("update", "load", s) EXCEPT !.to = to].due = {}
      BY DEF Request
    <3>4. ASSUME NEW s, NEW B
          PROVE  LET r == [Request("timeline", "lookup", s) EXCEPT !.due = B]
                 IN  r.due = B /\ r.sid = s
      BY DEF Request
    <3>5. CASE TimelineStart(c)
      <4>1. PICK s \in used :
              Begin(c, [Request("timeline", "lookup", s) EXCEPT !.due = AckedFor(s)])
        BY <3>5 DEF TimelineStart
      <4> DEFINE r == [Request("timeline", "lookup", s) EXCEPT !.due = AckedFor(s)]
      <4>2. Begin(c, r) /\ r.due = AckedFor(s) /\ r.sid = s
        BY <3>4, <4>1
      <4> HIDE DEF r
      <4> QED BY <4>2
    <3>6. CASE ~TimelineStart(c)
      <4>1. \E r : Begin(c, r) /\ r.due = {}
        BY <1>1, <3>1, <3>2, <3>3, <3>6
           DEF Arrive, CreateStart, DeleteStart, UpdateStart, IngestStart
      <4> QED BY <4>1
    <3> QED BY <3>5, <3>6
  <2> QED BY <2>1 DEF Begin, Put
<1>2. ASSUME NEW c \in Client, Handle(c) PROVE Same
  <2>1. CASE d # c
    BY <1>2, <2>1, HandleMoves
  <2>2. CASE d = c
    <3>1. c \in DOMAIN op /\ op[c] \in Suspended
      BY <1>0, <1>2, <2>2, HandleKeeps DEF Kept, MapInto
    <3>2. \/ \E a : Reply(c, a)
          \/ \E pc : Goto(c, pc)
          \/ \E from : op' = [op EXCEPT ![c].pc = "found", ![c].from = from]
      BY <1>2 DEF Handle, CreateSave, CreateDone, DeleteLoad, DeleteRemove, DeleteDone,
         UpdateLoad, UpdateGauge, UpdateSet, UpdateDone, IngestCheck, IngestLoad,
         IngestAppend, IngestFeed, TimelineHit, TimelineMiss
    <3>3. \A a : ~Reply(c, a)
      BY <2>2 DEF Reply, Without
    <3>4. ASSUME NEW pc, Goto(c, pc) PROVE Same
      BY <2>2, <3>1, <3>4 DEF Goto, Suspended
    <3>5. ASSUME NEW from, op' = [op EXCEPT ![c].pc = "found", ![c].from = from] PROVE Same
      BY <2>2, <3>1, <3>5 DEF Suspended
    <3> QED BY <3>2, <3>3, <3>4, <3>5
  <2> QED BY <2>1, <2>2
<1>3. CASE \A c \in Client : ~Arrive(c) /\ ~Handle(c)
  BY <1>3, OthersKeep
<1> QED BY <1>1, <1>2, <1>3

\* A request owns the rebuild it has started; that one has not read anything yet.
LEMMA OwnerShape ==
    ASSUME TypeOK, [Next]_vars, NEW d \in DOMAIN op', op'[d].pc = "owner"
    PROVE  \/ d \in DOMAIN op /\ op'[d] = op[d]
           \/ rebuilds'[op'[d].sid].pc = "load"
<1>1. ASSUME NEW c \in Client, Arrive(c) PROVE d \in DOMAIN op /\ op'[d] = op[d]
  <2>1. PICK r : Begin(c, r) /\ r.pc # "owner"
    BY <1>1, ArriveBegins
  <2> QED BY <2>1 DEF Begin, Put
<1>2. ASSUME NEW c \in Client, Handle(c), d = c PROVE rebuilds'[op'[d].sid].pc = "load"
  <2>0. c \in DOMAIN op /\ op[c] \in Suspended
    BY <1>2, HandleKeeps DEF Kept, TypeOK, MapInto
  <2>1. \A a : ~Reply(c, a)
    BY <1>2 DEF Reply, Without
  <2>2. \A pc : Goto(c, pc) => op'[c].pc = pc /\ op'[c].sid = op[c].sid
    BY <2>0 DEF Goto, Suspended
  <2>3. \A from : op' = [op EXCEPT ![c].pc = "found", ![c].from = from] => op'[c].pc = "found"
    BY <2>0 DEF Suspended
  <2>4. CASE TimelineMiss(c)
    <3>1. Goto(c, "owner") /\ rebuilds' = Put(rebuilds, op[c].sid, [pc |-> "load", events |-> <<>>])
      BY <1>2, <2>1, <2>2, <2>4 DEF TimelineMiss
    <3> QED BY <1>2, <2>2, <3>1 DEF Put
  <2>5. CASE ~TimelineMiss(c)
    <3>1. \/ \E a : Reply(c, a)
          \/ \E pc : Goto(c, pc) /\ pc # "owner"
          \/ \E from : op' = [op EXCEPT ![c].pc = "found", ![c].from = from]
      BY <1>2, <2>5 DEF Handle, CreateSave, CreateDone, DeleteLoad, DeleteRemove, DeleteDone,
         UpdateLoad, UpdateGauge, UpdateSet, UpdateDone, IngestCheck, IngestLoad,
         IngestAppend, IngestFeed, TimelineHit
    <3> QED BY <1>2, <2>1, <2>2, <2>3, <3>1
  <2> QED BY <2>4, <2>5
<1>3. ASSUME NEW c \in Client, Handle(c), d # c PROVE d \in DOMAIN op /\ op'[d] = op[d]
  BY <1>3, HandleMoves
<1>4. CASE \A c \in Client : ~Arrive(c) /\ ~Handle(c)
  BY <1>4, OthersKeep
<1> QED BY <1>1, <1>2, <1>3, <1>4

\* A request is due what had been acknowledged for its session when it came; a
\* rebuild past its lookup is of a session that was created; and what a
\* rebuild has read holds what its owner is due.
DueInv ==
    /\ \A c \in DOMAIN op : op[c].due \subseteq AckedFor(op[c].sid)
    /\ \A s \in DOMAIN rebuilds : rebuilds[s].pc \in {"read", "set"} => Born(s)
    /\ \A c \in DOMAIN op :
         LET s == op[c].sid
         IN  op[c].pc = "owner" /\ s \in DOMAIN rebuilds \cap DOMAIN store /\ rebuilds[s].pc = "set"
               => op[c].due \subseteq InSeq(rebuilds[s].events)

LEMMA StepDue ==
    ASSUME Backend = "postgres", MaxBatches <= RebuildLimit,
           TypeOK, IngestSends, IdsAreFresh, AckedInv, StoredOnce, DueInv, [Next]_vars
    PROVE  DueInv'
<1>0. /\ MapInto(rebuilds, Session, Rebuilding) /\ MapInto(store, Session, SessionRecord)
      /\ MapInto(op, Client, Suspended)
  BY DEF TypeOK, Rebuilding
<1>1. ASSUME NEW s PROVE AckedFor(s) \subseteq AckedFor(s)'
  <2>1. acked \subseteq acked'
    BY AckedShape
  <2>2. \A b \in acked : b \in DOMAIN owner /\ owner'[b] = owner[b]
    BY HistoryGrows DEF AckedInv, IdsAreFresh
  <2> QED BY <2>1, <2>2 DEF AckedFor
<1>2. ASSUME NEW d \in DOMAIN op', NEW s, s = op'[d].sid
      PROVE  op'[d].due \subseteq AckedFor(s)'
  <2>1. op'[d].due \subseteq AckedFor(s)
    BY <1>2, DueShape DEF DueInv
  <2> QED BY <1>1, <2>1
<1>3. ASSUME NEW s \in DOMAIN rebuilds', rebuilds'[s].pc \in {"read", "set"}
      PROVE  Born(s)
  <2>1. CASE s \in DOMAIN rebuilds /\ rebuilds'[s] = rebuilds[s]
    BY <1>3, <2>1 DEF DueInv
  <2>2. CASE rebuilds'[s] = [pc |-> "load", events |-> <<>>]
    BY <1>3, <2>2
  <2>3. CASE s \in DOMAIN store
    BY <2>3, StoredIsBorn
  <2>4. CASE RebuildRead(s)
    BY <2>4 DEF RebuildRead, DueInv
  <2> QED BY <2>1, <2>2, <2>3, <2>4, RebuildsShape
<1>4. ASSUME NEW d \in DOMAIN op', op'[d].pc = "owner",
             NEW s, s = op'[d].sid, s \in DOMAIN rebuilds', s \in DOMAIN store',
             rebuilds'[s].pc = "set"
      PROVE  op'[d].due \subseteq InSeq(rebuilds'[s].events)
  <2>1. d \in DOMAIN op /\ op'[d] = op[d]
    BY <1>4, OwnerShape
  <2>2. Born(s) /\ s \in DOMAIN store
    BY <1>3, <1>4, BornStays
  <2>3. CASE s \in DOMAIN rebuilds /\ rebuilds'[s] = rebuilds[s]
    BY <1>4, <2>1, <2>2, <2>3 DEF DueInv
  <2>4. CASE RebuildRead(s)
    <3> DEFINE q == store[s].events
    <3>1. q \in Seq(Batch) /\ Distinct(q)
      BY <1>0, <2>2 DEF MapInto, SessionRecord, StoredOnce
    <3>2. rebuilds'[s] = [pc |-> "set", events |-> Oldest(RebuildLimit, q)]
      BY <2>2, <2>4 DEF RebuildRead, StoredEvents
    <3>3. \A b \in op[d].due : b \in InSeq(q)
      BY <1>4, <2>1, <2>2 DEF DueInv, AckedFor, AckedInv, AckedIsStored
    <3> HIDE DEF q
    <3>4. Len(q) <= RebuildLimit
      BY <3>1, DistinctIsShort, LenProperties
    <3>5. Oldest(RebuildLimit, q) = q
      BY <3>4 DEF Oldest
    <3> QED BY <2>1, <3>2, <3>3, <3>5
  <2>5. CASE rebuilds'[s].pc \in {"load", "read"}
    BY <1>4, <2>5
  <2> QED BY <2>3, <2>4, <2>5, <1>4, RebuildsShape
<1>5. \A s \in DOMAIN rebuilds' : rebuilds'[s].pc \in {"read", "set"} => Born(s)'
  BY <1>3, BornStays
<1>6. \A d \in DOMAIN op' : op'[d].due \subseteq {b \in acked' : owner'[b] = op'[d].sid}
  BY <1>2 DEF AckedFor
<1>7. \A d \in DOMAIN op' : \A s :
         op'[d].pc = "owner" /\ s = op'[d].sid /\ s \in DOMAIN rebuilds' \cap DOMAIN store' /\ rebuilds'[s].pc = "set"
           => op'[d].due \subseteq InSeq(rebuilds'[s].events)
  BY <1>4
<1> QED BY <1>5, <1>6, <1>7 DEF DueInv, AckedFor

\* An owner that is answered "ok" is answered by its own rebuild.
LEMMA OwnerAnswered ==
    ASSUME TypeOK, [Next]_vars, NEW c \in DOMAIN op, op[c].pc = "owner",
           c \notin DOMAIN op', answer'[c] = "ok"
    PROVE  RebuildSet(op[c].sid)
<1>0. MapInto(op, Client, Suspended) /\ c \in Client
  BY DEF TypeOK, MapInto
<1>1. ASSUME NEW d \in Client, Arrive(d) PROVE FALSE
  <2>1. PICK r : Begin(d, r)
    BY <1>1, ArriveBegins
  <2> QED BY <2>1 DEF Begin, Put
<1>2. ASSUME NEW d \in Client, Handle(d) PROVE FALSE
  <2>1. d # c
    BY <1>2 DEF Handle, At, CreateSave, CreateDone, DeleteLoad, DeleteRemove, DeleteDone,
       UpdateLoad, UpdateGauge, UpdateSet, UpdateDone, IngestCheck, IngestLoad,
       IngestAppend, IngestFeed, TimelineHit, TimelineMiss
  <2>2. \/ \E a : Reply(d, a)
        \/ \E pc : Goto(d, pc)
        \/ \E from : op' = [op EXCEPT ![d].pc = "found", ![d].from = from]
    BY <1>2 DEF Handle, CreateSave, CreateDone, DeleteLoad, DeleteRemove, DeleteDone,
       UpdateLoad, UpdateGauge, UpdateSet, UpdateDone, IngestCheck, IngestLoad,
       IngestAppend, IngestFeed, TimelineHit, TimelineMiss
  <2> QED BY <2>1, <2>2 DEF Reply, Goto, Without
<1>3. ASSUME NEW d \in Client, RequestThrows(d) PROVE FALSE
  BY <1>3 DEF RequestThrows, Reply, Without
<1>4. ASSUME NEW s \in Session, Rebuild(s) \/ RebuildThrows(s) PROVE RebuildSet(op[c].sid)
  <2>1. PICK a : Settle(s, a)
    BY <1>4 DEF Rebuild, RebuildLoad, RebuildRead, RebuildSet, RebuildThrows
  <2>2. c \in Waiting(s) /\ op[c].sid = s
    BY <2>1 DEF Settle, Without, Waiting
  <2>3. \A b : Settle(s, b) => answer'[c] = b
    BY <1>0, <2>2 DEF Settle
  <2> QED BY <1>4, <2>2, <2>3 DEF Rebuild, RebuildLoad, RebuildRead, RebuildThrows
<1>5. CASE Purge \/ PurgeThrows \/ Tick \/ UNCHANGED vars
  BY <1>5 DEF Purge, PurgeList, PurgeRemove, PurgeForget, PurgeThrows, Tick, vars
<1>6. CASE Restart
  BY <1>0, <1>6 DEF Restart
<1> QED BY <1>1, <1>2, <1>3, <1>4, <1>5, <1>6 DEF Next

\* With the Postgres adapter, and as long as the batches of a session fit in
\* what a rebuild reads back, a request that started a rebuild is shown every
\* batch that was acknowledged before the request came and is still stored.
THEOREM RebuildsReadAcked ==
    Backend = "postgres" /\ MaxBatches <= RebuildLimit => (Spec => RebuildOwnerReadsAcked)
<1> SUFFICES ASSUME Backend = "postgres", MaxBatches <= RebuildLimit
             PROVE  Spec => RebuildOwnerReadsAcked
  OBVIOUS
<1> DEFINE IInv == IngestSends /\ FedIsPersisted /\ IdsAreFresh /\ AckedInv /\ StoredOnce /\ DueInv
<1>1. Init => IInv
  BY DEF Init, IngestSends, FedIsPersisted, IdsAreFresh, AckedInv, AckedIsStored, StoredOnce,
         DueInv, NoKeys
<1>2. TypeOK /\ IInv /\ [Next]_vars => IInv'
  BY StepIngestSends, StepFedIsPersisted, StepIdsAreFresh, StepAckedInv, StepStoredOnce, StepDue
<1>3. ASSUME TypeOK, IInv, [Next]_vars
      PROVE  [\A c \in DOMAIN op :
                op[c].pc = "owner" /\ c \notin DOMAIN op' /\ answer'[c] = "ok"
                   => \A b \in op[c].due :
                         op[c].sid \in DOMAIN store
                            => b \in InSeq(rebuilds[op[c].sid].events)]_vars
  <2> SUFFICES ASSUME NEW c \in DOMAIN op, op[c].pc = "owner", c \notin DOMAIN op', answer'[c] = "ok",
                      NEW b \in op[c].due, op[c].sid \in DOMAIN store
               PROVE  b \in InSeq(rebuilds[op[c].sid].events)
    OBVIOUS
  <2>1. RebuildSet(op[c].sid)
    BY <1>3, OwnerAnswered
  <2> QED BY <1>3, <2>1 DEF RebuildSet, DueInv
<1> QED BY <1>1, <1>2, <1>3, TypeCorrect, PTL DEF Spec, RebuildOwnerReadsAcked

-----------------------------------------------------------------------------
(* While nothing is evicted, the timeline is what storage holds *)

LEMMA NewestAll ==
    ASSUME NEW n \in Nat, MaxBatches <= n, NEW q \in Seq(Batch), Distinct(q)
    PROVE  Newest(n, q) = q
<1>1. Len(q) <= n
  BY DistinctIsShort, LenProperties
<1> QED BY <1>1 DEF Newest

LEMMA DistinctCount ==
    ASSUME NEW q \in Seq(Batch), Distinct(q)
    PROVE  Len(q) = Cardinality(InSeq(q))
<1>0. Len(q) \in Nat
  BY LenProperties
<1>1. IsFiniteSet(1..Len(q)) /\ Cardinality(1..Len(q)) = Len(q)
  <2>1. 1 \in Int /\ Len(q) \in Int
    BY <1>0
  <2>2. /\ IsFiniteSet(1..Len(q))
        /\ Cardinality(1..Len(q)) = IF 1 > Len(q) THEN 0 ELSE Len(q) - 1 + 1
    BY <2>1, FS_Interval, Zenon
  <2> QED BY <1>0, <2>2
<1>2. q \in [1..Len(q) -> InSeq(q)]
  BY LenProperties DEF InSeq
<1>3. q \in Bijection(1..Len(q), InSeq(q))
  BY <1>2 DEF Distinct, InSeq, Bijection, Injection, Surjection, IsInjective
<1>4. ExistsBijection(1..Len(q), InSeq(q))
  BY <1>3 DEF ExistsBijection
<1> QED BY <1>1, <1>4, FS_Bijection

LEMMA OccursOnce ==
    ASSUME NEW q \in Seq(Batch), Distinct(q), NEW b \in InSeq(q)
    PROVE  Occurrences(b, q) = 1
<1>1. PICK i \in 1..Len(q) : q[i] = b
  BY DEF InSeq
<1>2. {j \in 1..Len(q) : q[j] = b} = {i}
  BY <1>1 DEF Distinct
<1> QED BY <1>2, FS_Singleton DEF Occurrences

\* A batch is in flight once, and not any more once it has been acknowledged.
InFlight ==
    /\ acked \subseteq persisted
    /\ \A c \in DOMAIN op : op[c].kind = "ingest" =>
         /\ op[c].batch \notin acked
         /\ \A d \in DOMAIN op : op[d].kind = "ingest" /\ op[d].batch = op[c].batch => d = c

LEMMA FeedAcks ==
    ASSUME TypeOK, [Next]_vars, acked' # acked
    PROVE  \E c \in Client : /\ IngestFeed(c) /\ acked' = acked \cup {op[c].batch}
                             /\ DOMAIN op' = DOMAIN op \ {c}
BY AckedShape DEF IngestFeed, Reply, Without

LEMMA StepInFlight ==
    ASSUME TypeOK, IngestSends, FedIsPersisted, IdsAreFresh, InFlight, [Next]_vars
    PROVE  InFlight'
<1>0. MapInto(op, Client, Suspended)
  BY DEF TypeOK
<1>1. acked' \subseteq persisted'
  <2>1. persisted \subseteq persisted'
    BY HistoryGrows
  <2>2. CASE acked' = acked
    BY <2>1, <2>2 DEF InFlight
  <2>3. CASE acked' # acked
    <3>1. PICK c \in Client : IngestFeed(c) /\ acked' = acked \cup {op[c].batch}
      BY <2>3, FeedAcks
    <3>2. op[c].batch \in persisted
      BY <3>1 DEF IngestFeed, At, FedIsPersisted
    <3> QED BY <2>1, <3>1, <3>2 DEF InFlight
  <2> QED BY <2>2, <2>3
<1>2. ASSUME NEW c \in Client, IngestStart(c)
      PROVE  /\ acked' = acked /\ c \notin DOMAIN op
             /\ \A d \in DOMAIN op' : d = c \/ (d \in DOMAIN op /\ op'[d] = op[d])
             /\ op'[c].batch \notin acked
             /\ \A d \in DOMAIN op : op[d].kind = "ingest" => op[d].batch # op'[c].batch
  <2>1. PICK s \in used, b \in Batch :
          /\ \/ b \notin DOMAIN owner
             \/ b \in DOMAIN owner \ acked /\ \A d \in DOMAIN op : op[d].batch # b
          /\ Begin(c, [Request("ingest", "check", s) EXCEPT !.batch = b])
          /\ UNCHANGED acked
    BY <1>2 DEF IngestStart
  <2>2. [Request("ingest", "check", s) EXCEPT !.batch = b].batch = b
    BY DEF Request
  <2>3. op'[c].batch = b
    BY <2>1, <2>2 DEF Begin, Put
  <2>4. b \notin acked
    BY <2>1 DEF InFlight, IdsAreFresh
  <2>5. \A d \in DOMAIN op : op[d].kind = "ingest" => op[d].batch # b
    BY <2>1 DEF IngestSends
  <2> QED BY <2>1, <2>3, <2>4, <2>5 DEF Begin, Put
<1>3. ASSUME NEW d \in DOMAIN op', op'[d].kind = "ingest", \A c \in Client : ~IngestStart(c)
      PROVE  d \in DOMAIN op /\ op[d].kind = "ingest" /\ op'[d].batch = op[d].batch
  <2>1. ASSUME NEW c \in Client, Arrive(c)
        PROVE  d \in DOMAIN op /\ op[d].kind = "ingest" /\ op'[d].batch = op[d].batch
    <3>1. \E r : Begin(c, r) /\ r.kind # "ingest"
      <4>1. \A kind, pc, s : Request(kind, pc, s).kind = kind
        BY DEF Request
      <4>2. \A s, to : [Request("update", "load", s) EXCEPT !.to = to].kind = "update"
        BY DEF Request
      <4>3. \A s, B : [Request("timeline", "lookup", s) EXCEPT !.due = B].kind = "timeline"
        BY DEF Request
      <4>4. CASE CreateStart(c) \/ DeleteStart(c)
        BY <4>1, <4>4 DEF CreateStart, DeleteStart
      <4>5. CASE UpdateStart(c)
        BY <4>2, <4>5 DEF UpdateStart
      <4>6. CASE TimelineStart(c)
        BY <4>3, <4>6 DEF TimelineStart
      <4> QED BY <1>3, <2>1, <4>4, <4>5, <4>6 DEF Arrive
    <3> QED BY <1>3, <3>1 DEF Begin, Put
  <2>2. ASSUME NEW c \in Client, Handle(c)
        PROVE  d \in DOMAIN op /\ op[d].kind = "ingest" /\ op'[d].batch = op[d].batch
    BY <1>3, <2>2, HandleKeeps DEF Kept
  <2>3. CASE \A c \in Client : ~Arrive(c) /\ ~Handle(c)
    BY <1>3, <2>3, OthersKeep
  <2> QED BY <2>1, <2>2, <2>3
<1>4. CASE \E c \in Client : IngestStart(c)
  <2>1. PICK c \in Client : IngestStart(c)
    BY <1>4
  <2>2. /\ acked' = acked /\ c \notin DOMAIN op
        /\ \A d \in DOMAIN op' : d = c \/ (d \in DOMAIN op /\ op'[d] = op[d])
        /\ op'[c].batch \notin acked
        /\ \A d \in DOMAIN op : op[d].kind = "ingest" => op[d].batch # op'[c].batch
    BY <1>2, <2>1
  <2>3. ASSUME NEW d \in DOMAIN op', op'[d].kind = "ingest"
        PROVE  /\ op'[d].batch \notin acked'
               /\ \A e \in DOMAIN op' : op'[e].kind = "ingest" /\ op'[e].batch = op'[d].batch => e = d
    BY <2>2, <2>3 DEF InFlight
  <2> QED BY <1>1, <2>3 DEF InFlight
<1>5. CASE \A c \in Client : ~IngestStart(c)
  <2>1. ASSUME NEW d \in DOMAIN op', op'[d].kind = "ingest"
        PROVE  op'[d].batch \notin acked'
    <3>1. d \in DOMAIN op /\ op[d].kind = "ingest" /\ op'[d].batch = op[d].batch
      BY <1>3, <1>5, <2>1
    <3>2. CASE acked' = acked
      BY <3>1, <3>2 DEF InFlight
    <3>3. CASE acked' # acked
      <4>1. PICK c \in Client : /\ IngestFeed(c) /\ acked' = acked \cup {op[c].batch}
                                /\ DOMAIN op' = DOMAIN op \ {c}
        BY <3>3, FeedAcks
      <4>2. c \in DOMAIN op /\ op[c].kind = "ingest" /\ d # c
        BY <2>1, <4>1 DEF IngestFeed, At
      <4> QED BY <3>1, <4>1, <4>2 DEF InFlight
    <3> QED BY <3>2, <3>3
  <2>2. ASSUME NEW d \in DOMAIN op', op'[d].kind = "ingest",
               NEW e \in DOMAIN op', op'[e].kind = "ingest", op'[e].batch = op'[d].batch
        PROVE  e = d
    BY <1>3, <1>5, <2>2 DEF InFlight
  <2> QED BY <1>1, <2>1, <2>2 DEF InFlight
<1> QED BY <1>4, <1>5

\* What has been acknowledged for a session grows by the batch that is fed to it.
LEMMA AckedForShape ==
    ASSUME TypeOK, IngestSends, IdsAreFresh, InFlight, [Next]_vars, NEW x
    PROVE  \/ /\ AckedFor(x)' = AckedFor(x)
              /\ \A c \in Client : IngestFeed(c) => op[c].sid # x
           \/ \E c \in Client : /\ IngestFeed(c) /\ op[c].sid = x
                                /\ AckedFor(x)' = AckedFor(x) \cup {op[c].batch}
<1>1. \A b \in acked : b \in DOMAIN owner /\ owner'[b] = owner[b]
  BY HistoryGrows DEF InFlight, IdsAreFresh
<1>2. ASSUME NEW c \in Client, IngestFeed(c)
      PROVE  /\ op[c].batch \in DOMAIN owner /\ owner[op[c].batch] = op[c].sid
             /\ owner' = owner /\ acked' = acked \cup {op[c].batch}
  BY <1>2 DEF IngestFeed, At, IngestSends
<1>3. CASE \E c \in Client : IngestFeed(c) /\ op[c].sid = x
  <2>1. PICK c \in Client : IngestFeed(c) /\ op[c].sid = x
    BY <1>3
  <2>2. AckedFor(x)' = AckedFor(x) \cup {op[c].batch}
    BY <1>2, <2>1 DEF AckedFor
  <2> QED BY <2>1, <2>2
<1>4. CASE \A c \in Client : IngestFeed(c) => op[c].sid # x
  <2>1. CASE acked' = acked
    BY <1>1, <1>4, <2>1 DEF AckedFor
  <2>2. CASE acked' # acked
    <3>1. PICK c \in Client : IngestFeed(c) /\ op[c].sid # x
      BY <1>4, <2>2, FeedAcks
    <3> QED BY <1>2, <1>4, <3>1 DEF AckedFor
  <2> QED BY <2>1, <2>2
<1> QED BY <1>3, <1>4

NothingEvicted == Cardinality(Session) <= MaxCorrelators
NeverRestarts == Backend = "memory" \/ MaxRestarts = 0

LEMMA InsertKeeps ==
    ASSUME NothingEvicted, DOMAIN correlators \subseteq Session,
           NEW s \in Session, NEW e, Insert(s, e)
    PROVE  correlators' = Put(correlators, s, e)
<1> DEFINE m == Put(correlators, s, e)
<1>1. DOMAIN m \subseteq Session
  BY DEF Put
<1>2. /\ IsFiniteSet(DOMAIN m) /\ Cardinality(DOMAIN m) <= Cardinality(Session)
      /\ Cardinality(DOMAIN m) \in Nat /\ Cardinality(Session) \in Nat
  BY <1>1, FS_Subset, FS_CardinalityType
<1>3. Victims(m, s) = {{}}
  BY <1>2 DEF Victims, NothingEvicted
<1>4. correlators' = Without(m, {})
  BY <1>3 DEF Insert
<1> QED BY <1>4 DEF Without, Put

\* What one step can do to a correlator that is there.
LEMMA CacheShape ==
    ASSUME NothingEvicted, NeverRestarts, TypeOK, [Next]_vars, NEW x \in DOMAIN correlators
    PROVE  \/ /\ x \in DOMAIN correlators' /\ correlators'[x].events = correlators[x].events
              /\ \A c \in Client : IngestFeed(c) => op[c].sid # x
           \/ \E c \in Client : DeleteDone(c) /\ op[c].sid = x
           \/ PurgeForget /\ x \in purge.sid
           \/ x \notin used /\ \E c \in Client : CreateStart(c)
           \/ \E c \in Client :
                /\ IngestFeed(c) /\ op[c].sid = x /\ x \in DOMAIN correlators'
                /\ correlators'[x].events
                     = Newest(CorrelatorCap, Append(correlators[x].events, op[c].batch))
           \/ RebuildSet(x)
<1> DEFINE Same == x \in DOMAIN correlators' /\ correlators'[x].events = correlators[x].events
<1>0. MapInto(correlators, Session, Cached) /\ DOMAIN correlators \subseteq Session
  BY DEF TypeOK, Cached, MapInto
<1>1. ASSUME NEW s \in Session, NEW e, Insert(s, e), x # s PROVE Same
  BY <1>0, <1>1, InsertKeeps DEF Put
<1>2. ASSUME NEW c \in Client, IngestFeed(c), op[c].sid = x
      PROVE  /\ x \in DOMAIN correlators'
             /\ correlators'[x].events
                  = Newest(CorrelatorCap, Append(correlators[x].events, op[c].batch))
  <2>1. correlators' = [correlators EXCEPT
                          ![x] = Correlator(Append(correlators[x].events, op[c].batch))]
    BY <1>2 DEF IngestFeed, Feed
  <2> QED BY <2>1 DEF Correlator
<1>3. ASSUME NEW c \in Client, IngestFeed(c), op[c].sid # x PROVE Same
  <2>1. op[c].sid \in Session
    BY <1>3 DEF IngestFeed, At, TypeOK, MapInto, Suspended
  <2>2. CASE op[c].sid \in DOMAIN correlators
    BY <1>3, <2>2 DEF IngestFeed, Feed
  <2>3. CASE op[c].sid \notin DOMAIN correlators
    BY <1>1, <1>3, <2>1, <2>3 DEF IngestFeed, Feed
  <2> QED BY <2>2, <2>3
<1>4. CASE \E c \in Client : IngestFeed(c) /\ op[c].sid = x
  BY <1>2, <1>4
<1>5. CASE \A c \in Client : IngestFeed(c) => op[c].sid # x
  <2>1. ASSUME NEW c \in Client, Arrive(c)
        PROVE  Same \/ (x \notin used /\ CreateStart(c))
    <3>1. CASE CreateStart(c)
      <4>1. PICK s \in Session \ used : Insert(s, Correlator(<<>>))
        BY <3>1 DEF CreateStart
      <4> QED BY <1>1, <3>1, <4>1
    <3>2. CASE ~CreateStart(c)
      BY <2>1, <3>2 DEF Arrive, DeleteStart, UpdateStart, IngestStart, TimelineStart
    <3> QED BY <3>1, <3>2
  <2>2. ASSUME NEW c \in Client, IngestFeed(c) PROVE Same
    BY <1>3, <1>5, <2>2
  <2>3. ASSUME NEW c \in Client, TimelineHit(c) PROVE Same
    BY <1>0, <2>3 DEF TimelineHit, MapInto, Cached
  <2>4. ASSUME NEW c \in Client, DeleteDone(c) PROVE Same \/ op[c].sid = x
    BY <2>4 DEF DeleteDone, Without
  <2>5. ASSUME NEW c \in Client, Handle(c), ~IngestFeed(c), ~TimelineHit(c), ~DeleteDone(c)
        PROVE  Same
    BY <2>5 DEF Handle, CreateSave, CreateDone, DeleteLoad, DeleteRemove,
       UpdateLoad, UpdateGauge, UpdateSet, UpdateDone, IngestCheck, IngestLoad,
       IngestAppend, TimelineMiss
  <2>6. ASSUME NEW s \in Session, RebuildSet(s) PROVE Same \/ RebuildSet(x)
    BY <1>1, <2>6 DEF RebuildSet
  <2>7. ASSUME NEW s \in Session, RebuildLoad(s) \/ RebuildRead(s) \/ RebuildThrows(s) PROVE Same
    BY <2>7 DEF RebuildLoad, RebuildRead, RebuildThrows
  <2>8. ASSUME PurgeForget PROVE Same \/ x \in purge.sid
    BY <2>8 DEF PurgeForget, Without
  <2>9. ASSUME PurgeList \/ PurgeRemove \/ PurgeThrows \/ Tick \/ UNCHANGED vars PROVE Same
    BY <2>9 DEF PurgeList, PurgeRemove, PurgeThrows, Tick, vars
  <2>10. ASSUME NEW c \in Client, RequestThrows(c) PROVE Same
    BY <2>10 DEF RequestThrows
  <2>11. ~Restart
    BY DEF Restart, NeverRestarts, TypeOK
  <2>12. CASE Same
    BY <1>5, <2>12
  <2>13. CASE ~Same
    <3>1. ASSUME NEW c \in Client, Arrive(c) PROVE x \notin used /\ CreateStart(c)
      BY <2>1, <2>13, <3>1
    <3>2. ASSUME NEW c \in Client, Handle(c) PROVE DeleteDone(c) /\ op[c].sid = x
      BY <2>2, <2>3, <2>4, <2>5, <2>13, <3>2
    <3>3. ASSUME NEW s \in Session, Rebuild(s) \/ RebuildThrows(s) PROVE RebuildSet(x)
      BY <2>6, <2>7, <2>13, <3>3 DEF Rebuild
    <3>4. ASSUME Purge \/ PurgeThrows PROVE PurgeForget /\ x \in purge.sid
      BY <2>8, <2>9, <2>13, <3>4 DEF Purge
    <3> QED BY <2>9, <2>10, <2>11, <2>13, <3>1, <3>2, <3>3, <3>4 DEF Next
  <2> QED BY <2>12, <2>13
<1> QED BY <1>4, <1>5

\* purgeStale only ever names sessions that were created, and forgets the
\* correlator of one it has removed.
PurgeInv ==
    /\ \A s \in purge.todo : Born(s)
    /\ \A s \in purge.sid : Born(s) /\ s \notin DOMAIN store

LEMMA StepPurgeInv ==
    ASSUME TypeOK, IdsAreFresh, PurgeInv, [Next]_vars PROVE PurgeInv'
<1> USE DEF Aside
<1>1. ASSUME NEW s \in purge'.todo PROVE Born(s)
  <2>1. CASE s \in purge.todo
    BY <2>1 DEF PurgeInv
  <2>2. CASE s \notin purge.todo
    <3>1. ASSUME NEW c \in Client, Arrive(c) PROVE purge' = purge
      BY <3>1 DEF Arrive, CreateStart, DeleteStart, UpdateStart, IngestStart, TimelineStart
    <3>2. ASSUME NEW c \in Client, Handle(c) \/ RequestThrows(c) PROVE purge' = purge
      BY <3>2 DEF Handle, CreateSave, CreateDone, DeleteLoad, DeleteRemove, DeleteDone,
         UpdateLoad, UpdateGauge, UpdateSet, UpdateDone, IngestCheck, IngestLoad,
         IngestAppend, IngestFeed, TimelineHit, TimelineMiss, RequestThrows
    <3>3. ASSUME NEW x \in Session, Rebuild(x) \/ RebuildThrows(x) PROVE purge' = purge
      BY <3>3 DEF Rebuild, RebuildLoad, RebuildRead, RebuildSet, RebuildThrows
    <3>4. CASE PurgeList
      BY <3>4, StoredIsBorn DEF PurgeList, Expired
    <3>5. CASE PurgeRemove \/ PurgeForget \/ PurgeThrows \/ Tick \/ Restart \/ UNCHANGED vars
      BY <2>2, <3>5 DEF PurgeRemove, PurgeForget, PurgeThrows, Tick, Restart, NoPurge, vars
    <3> QED BY <2>2, <3>1, <3>2, <3>3, <3>4, <3>5 DEF Next, Purge
  <2> QED BY <2>1, <2>2
<1>2. ASSUME NEW s \in purge'.sid PROVE Born(s) /\ (s \notin DOMAIN store \/ s \notin DOMAIN store')
  <2>1. CASE s \in purge.sid
    BY <2>1 DEF PurgeInv
  <2>2. CASE s \notin purge.sid
    <3>1. ASSUME NEW c \in Client, Arrive(c) PROVE purge' = purge
      BY <3>1 DEF Arrive, CreateStart, DeleteStart, UpdateStart, IngestStart, TimelineStart
    <3>2. ASSUME NEW c \in Client, Handle(c) \/ RequestThrows(c) PROVE purge' = purge
      BY <3>2 DEF Handle, CreateSave, CreateDone, DeleteLoad, DeleteRemove, DeleteDone,
         UpdateLoad, UpdateGauge, UpdateSet, UpdateDone, IngestCheck, IngestLoad,
         IngestAppend, IngestFeed, TimelineHit, TimelineMiss, RequestThrows
    <3>3. ASSUME NEW x \in Session, Rebuild(x) \/ RebuildThrows(x) PROVE purge' = purge
      BY <3>3 DEF Rebuild, RebuildLoad, RebuildRead, RebuildSet, RebuildThrows
    <3>4. CASE PurgeRemove
      BY <3>4 DEF PurgeRemove, Remove, Without, PurgeInv
    <3>5. CASE PurgeList \/ PurgeForget \/ PurgeThrows \/ Tick \/ Restart \/ UNCHANGED vars
      BY <2>2, <3>5 DEF PurgeList, PurgeForget, PurgeThrows, Tick, Restart, NoPurge, vars
    <3> QED BY <2>2, <3>1, <3>2, <3>3, <3>4, <3>5 DEF Next, Purge
  <2> QED BY <2>1, <2>2
<1> QED BY <1>1, <1>2, BornStays DEF PurgeInv

\* A session in storage has a correlator with just what has been acknowledged,
\* one that is about to be saved has an empty one, and only sessions that are
\* gone are rebuilt.
CacheInv ==
    /\ \A s \in DOMAIN rebuilds : Born(s) /\ s \notin DOMAIN store
    /\ \A c \in DOMAIN op : Creating(c, op[c].sid) =>
         op[c].sid \in DOMAIN correlators /\ correlators[op[c].sid].events = <<>>
    /\ \A s \in DOMAIN store :
         /\ s \in DOMAIN correlators
         /\ Distinct(correlators[s].events)
         /\ InSeq(correlators[s].events) = AckedFor(s)

\* Nothing happens to the correlator of a session in storage but that it is fed.
LEMMA CachedIsKept ==
    ASSUME NothingEvicted, NeverRestarts, TypeOK, IdsAreFresh, HooksInv, PurgeInv, CacheInv,
           [Next]_vars, NEW x \in DOMAIN store
    PROVE  /\ x \in DOMAIN correlators'
           /\ \/ /\ correlators'[x].events = correlators[x].events
                 /\ \A c \in Client : IngestFeed(c) => op[c].sid # x
              \/ \E c \in Client :
                   /\ IngestFeed(c) /\ op[c].sid = x
                   /\ correlators'[x].events
                        = Newest(CorrelatorCap, Append(correlators[x].events, op[c].batch))
<1>1. x \in DOMAIN correlators /\ x \in used
  BY DEF CacheInv, IdsAreFresh
<1>2. ~\E c \in Client : DeleteDone(c) /\ op[c].sid = x
  BY DEF DeleteDone, At, HooksInv
<1>3. ~(PurgeForget /\ x \in purge.sid)
  BY DEF PurgeInv
<1>4. ~RebuildSet(x)
  BY DEF RebuildSet, CacheInv
<1> QED BY <1>1, <1>2, <1>3, <1>4, CacheShape

\* A session that is being created has an empty correlator until it is saved.
LEMMA CreatingIsCached ==
    ASSUME NothingEvicted, NeverRestarts, TypeOK, IngestSends, FedIsPersisted, IdsAreFresh,
           HooksInv, PurgeInv, CacheInv,
           [Next]_vars, NEW d, NEW x, Creating(d, x), Creating(d, x)' \/ CreateSave(d)
    PROVE  /\ x \in DOMAIN correlators' /\ correlators'[x].events = <<>>
           /\ \A c \in Client : IngestFeed(c) => op[c].sid # x
<1>1. x \in DOMAIN correlators /\ x \in used /\ correlators[x].events = <<>>
  BY DEF CacheInv, IdsAreFresh, Creating
<1>2. ~Born(x)
  BY DEF Born, Creating
<1>3. ~\E c \in Client : DeleteDone(c) /\ op[c].sid = x
  BY <1>2 DEF DeleteDone, At, HooksInv
<1>4. ~(PurgeForget /\ x \in purge.sid)
  BY <1>2 DEF PurgeInv
<1>5. ~RebuildSet(x)
  BY <1>2 DEF RebuildSet, CacheInv
<1>6. \A c \in Client : IngestFeed(c) => op[c].sid # x
  BY DEF IngestFeed, At, FedIsPersisted, IngestSends, IdsAreFresh, Creating
<1> QED BY <1>1, <1>3, <1>4, <1>5, <1>6, CacheShape

LEMMA StepCache ==
    ASSUME NothingEvicted, NeverRestarts, MaxBatches <= CorrelatorCap,
           TypeOK, IngestSends, FedIsPersisted, IdsAreFresh, HooksInv, InFlight, PurgeInv, CacheInv,
           [Next]_vars
    PROVE  CacheInv'
<1>0. MapInto(correlators, Session, Cached) /\ MapInto(op, Client, Suspended)
  BY DEF TypeOK, Cached
<1>1. ASSUME NEW s \in DOMAIN rebuilds' PROVE Born(s) /\ s \notin DOMAIN store
  <2>1. CASE s \in DOMAIN rebuilds
    BY <2>1 DEF CacheInv
  <2>2. ASSUME NEW c \in Client, TimelineMiss(c), op[c].sid = s
        PROVE  Born(s) /\ s \notin DOMAIN store
    <3>1. s \in used /\ s \notin DOMAIN correlators
      BY <2>2 DEF TimelineMiss, At, IdsAreFresh
    <3>2. s \notin DOMAIN store
      BY <3>1 DEF CacheInv
    <3>3. \A d \in DOMAIN op : ~Creating(d, s)
      BY <3>1 DEF CacheInv, Creating
    <3> QED BY <3>1, <3>2, <3>3 DEF Born
  <2>3. RebuildRead(s) => s \in DOMAIN rebuilds
    BY DEF RebuildRead
  <2> QED BY <2>1, <2>2, <2>3, RebuildsShape
<1>2. ASSUME NEW d, NEW s, Creating(d, s)'
      PROVE  s \in DOMAIN correlators' /\ correlators'[s].events = <<>>
  <2>1. CASE Creating(d, s)
    BY <1>2, <2>1, CreatingIsCached
  <2>2. CASE ~Creating(d, s)
    <3>1. CreateStart(d)
      BY <1>2, <2>2, CreatingWas
    <3>2. PICK x \in Session \ used :
            Begin(d, Request("create", "save", x)) /\ Insert(x, Correlator(<<>>))
      BY <3>1 DEF CreateStart
    <3>3. x = s
      BY <1>2, <3>2 DEF Begin, Put, Request, Creating
    <3>4. correlators' = Put(correlators, s, Correlator(<<>>))
      BY <1>0, <3>2, <3>3, InsertKeeps DEF MapInto
    <3>5. Correlator(<<>>).events = <<>>
      BY DEF Correlator, Newest
    <3> QED BY <3>4, <3>5 DEF Put
  <2> QED BY <2>1, <2>2
<1>3. ASSUME NEW s \in DOMAIN store'
      PROVE  /\ s \in DOMAIN correlators'
             /\ Distinct(correlators'[s].events)
             /\ InSeq(correlators'[s].events) = AckedFor(s)'
  <2>1. CASE s \in DOMAIN store
    <3> DEFINE q == correlators[s].events
    <3>1. q \in Seq(Batch) /\ Distinct(q) /\ InSeq(q) = AckedFor(s) /\ s \in DOMAIN correlators'
      BY <1>0, <2>1, CachedIsKept DEF CacheInv, MapInto, Cached
    <3>2. CASE correlators'[s].events = q /\ \A c \in Client : IngestFeed(c) => op[c].sid # s
      BY <3>1, <3>2, AckedForShape
    <3>3. ASSUME NEW c \in Client, IngestFeed(c), op[c].sid = s,
                 correlators'[s].events = Newest(CorrelatorCap, Append(q, op[c].batch))
          PROVE  /\ Distinct(correlators'[s].events)
                 /\ InSeq(correlators'[s].events) = AckedFor(s)'
      <4> DEFINE b == op[c].batch
      <4>1. /\ c \in DOMAIN op /\ op[c].kind = "ingest"
            /\ b \in Batch /\ b \notin acked
        BY <3>3 DEF IngestFeed, At, IngestSends, InFlight, TypeOK, MapInto
      <4>2. b \notin InSeq(q)
        BY <3>1, <4>1 DEF AckedFor
      <4>3. AckedFor(s)' = AckedFor(s) \cup {b}
        <5>1. \A e \in Client : IngestFeed(e) => acked' = acked \cup {op[e].batch}
          BY DEF IngestFeed
        <5>2. PICK e \in Client : IngestFeed(e) /\ AckedFor(s)' = AckedFor(s) \cup {op[e].batch}
          BY <3>3, AckedForShape
        <5>3. acked' = acked \cup {b} /\ acked' = acked \cup {op[e].batch}
          BY <3>3, <5>1, <5>2
        <5>4. op[e].batch = b
          BY <4>1, <5>2, <5>3 DEF IngestFeed, At, InFlight
        <5> QED BY <5>2, <5>4
      <4> HIDE DEF q, b
      <4>4. Append(q, b) \in Seq(Batch) /\ Distinct(Append(q, b)) /\ InSeq(Append(q, b)) = InSeq(q) \cup {b}
        BY <3>1, <4>1, <4>2, AppendDistinct, InAppend, AppendProperties
      <4>5. Newest(CorrelatorCap, Append(q, b)) = Append(q, b)
        BY <4>4, NewestAll
      <4>6. correlators'[s].events = Append(q, b)
        BY <3>3, <4>5 DEF b
      <4> QED BY <3>1, <4>3, <4>4, <4>6
    <3> QED BY <2>1, <3>1, <3>2, <3>3, CachedIsKept
  <2>2. CASE s \notin DOMAIN store
    <3>1. PICK c \in Client : CreateSave(c) /\ op[c].sid = s
      BY <2>2, StoreShape
    <3>2. Creating(c, s)
      BY <3>1 DEF CreateSave, At, Creating
    <3>3. /\ s \in DOMAIN correlators' /\ correlators'[s].events = <<>>
          /\ \A e \in Client : IngestFeed(e) => op[e].sid # s
      BY <3>1, <3>2, CreatingIsCached
    <3>4. AckedFor(s)' = AckedFor(s)
      BY <3>3, AckedForShape
    <3>5. AckedFor(s) = {}
      BY <3>2 DEF AckedFor, InFlight, IdsAreFresh, Creating
    <3>6. InSeq(<<>>) = {} /\ Distinct(<<>>)
      BY EmptyDistinct DEF InSeq
    <3> QED BY <3>3, <3>4, <3>5, <3>6
  <2> QED BY <2>1, <2>2
<1>4. \A s \in DOMAIN rebuilds' : Born(s)' /\ s \notin DOMAIN store'
  BY <1>1, BornStays
<1>5. \A d \in DOMAIN op' : \A s : Creating(d, s)'
        => s \in DOMAIN correlators' /\ correlators'[s].events = <<>>
  BY <1>2
<1>6. \A d \in DOMAIN op' : \A s :
        s = op'[d].sid /\ op'[d].kind = "create" /\ op'[d].pc = "save"
          => s \in DOMAIN correlators' /\ correlators'[s].events = <<>>
  BY <1>5 DEF Creating
<1>7. \A d \in DOMAIN op' :
        op'[d].kind = "create" /\ op'[d].pc = "save"
          => op'[d].sid \in DOMAIN correlators' /\ correlators'[op'[d].sid].events = <<>>
  BY <1>6
<1> QED BY <1>3, <1>4, <1>7 DEF CacheInv, Creating

TimelineInv ==
    /\ IngestSends /\ FedIsPersisted /\ IdsAreFresh /\ HooksInv
    /\ InFlight /\ PurgeInv /\ CacheInv

LEMMA InitTimeline == Init => TimelineInv
BY DEF Init, TimelineInv, IngestSends, FedIsPersisted, IdsAreFresh, HooksInv, HooksTellTheTruth,
       InFlight, PurgeInv, CacheInv, NoKeys, NoPurge

\* While no more sessions exist than correlators are kept, nothing restarts and
\* no correlator overflows, a batch answered 201 is on the timeline of its session
\* exactly once - for every number of requests, whatever rejects or is purged.
THEOREM AckedIsShown ==
    NothingEvicted /\ NeverRestarts /\ MaxBatches <= CorrelatorCap => (Spec => []AckedIsOnTimeline)
<1> SUFFICES ASSUME NothingEvicted, NeverRestarts, MaxBatches <= CorrelatorCap
             PROVE  Spec => []AckedIsOnTimeline
  OBVIOUS
<1>1. TypeOK /\ TimelineInv /\ [Next]_vars => TimelineInv'
  BY StepIngestSends, StepFedIsPersisted, StepIdsAreFresh, StepHooks, StepInFlight, StepPurgeInv,
     StepCache DEF TimelineInv
<1>2. TypeOK /\ TimelineInv => AckedIsOnTimeline
  <2> SUFFICES ASSUME TypeOK, TimelineInv, NEW b \in acked, owner[b] \in DOMAIN store
               PROVE  /\ owner[b] \in DOMAIN correlators
                      /\ Occurrences(b, correlators[owner[b]].events) = 1
    BY DEF AckedIsOnTimeline
  <2> DEFINE s == owner[b]
             q == correlators[s].events
  <2>1. s \in DOMAIN correlators /\ Distinct(q) /\ InSeq(q) = AckedFor(s)
    BY DEF TimelineInv, CacheInv
  <2>2. q \in Seq(Batch)
    BY <2>1 DEF TypeOK, MapInto
  <2>3. b \in InSeq(q)
    BY <2>1 DEF AckedFor
  <2> QED BY <2>1, <2>2, <2>3, OccursOnce
<1> QED BY <1>1, <1>2, InitTimeline, TypeCorrect, PTL DEF Spec

-----------------------------------------------------------------------------
(* At rest the timeline and storage agree *)

Unfed(s) ==
    {op[c].batch : c \in {d \in DOMAIN op :
                            op[d].kind = "ingest" /\ op[d].pc = "feed" /\ op[d].sid = s}}

\* Storage holds each batch once: what has been acknowledged, and what has been
\* appended by a request that has not fed it to the correlator yet.
HeldInv ==
    \A s \in DOMAIN store :
        /\ Distinct(store[s].events)
        /\ InSeq(store[s].events) = AckedFor(s) \cup Unfed(s)

\* Who is between the append and the feed stays there until it feeds.
LEMMA FeedersStay ==
    ASSUME NeverRestarts, "request" \notin Faults, TypeOK, [Next]_vars,
           NEW d \in DOMAIN op, op[d].kind = "ingest", op[d].pc = "feed"
    PROVE  IngestFeed(d) \/ (d \in DOMAIN op' /\ op'[d] = op[d])
<1>0. d \in Client
  BY DEF TypeOK, MapInto
<1>1. ASSUME NEW c \in Client, Arrive(c) PROVE d \in DOMAIN op' /\ op'[d] = op[d]
  <2>1. PICK r : Begin(c, r)
    BY <1>1, ArriveBegins
  <2> QED BY <2>1 DEF Begin, Put
<1>2. ASSUME NEW c \in Client, Handle(c), c # d PROVE d \in DOMAIN op' /\ op'[d] = op[d]
  <2>1. \/ \E a : Reply(c, a)
        \/ \E pc : Goto(c, pc)
        \/ \E from : op' = [op EXCEPT ![c].pc = "found", ![c].from = from]
    BY <1>2 DEF Handle, CreateSave, CreateDone, DeleteLoad, DeleteRemove, DeleteDone,
       UpdateLoad, UpdateGauge, UpdateSet, UpdateDone, IngestCheck, IngestLoad,
       IngestAppend, IngestFeed, TimelineHit, TimelineMiss
  <2> QED BY <1>2, <2>1 DEF Reply, Goto, Without
<1>3. ASSUME Handle(d) PROVE IngestFeed(d)
  BY <1>3 DEF Handle, At, CreateSave, CreateDone, DeleteLoad, DeleteRemove, DeleteDone,
     UpdateLoad, UpdateGauge, UpdateSet, UpdateDone, IngestCheck, IngestLoad,
     IngestAppend, TimelineHit, TimelineMiss
<1>4. ASSUME NEW s \in Session, Rebuild(s) \/ RebuildThrows(s)
      PROVE  d \in DOMAIN op' /\ op'[d] = op[d]
  <2>1. UNCHANGED op \/ op' = Without(op, Waiting(s))
    BY <1>4 DEF Rebuild, RebuildLoad, RebuildRead, RebuildSet, RebuildThrows, Settle
  <2>2. d \notin Waiting(s)
    BY DEF Waiting
  <2> QED BY <2>1, <2>2 DEF Without
<1>5. CASE Purge \/ PurgeThrows \/ Tick \/ UNCHANGED vars
  BY <1>5 DEF Purge, PurgeList, PurgeRemove, PurgeForget, PurgeThrows, Tick, vars
<1>6. ~Restart
  BY DEF Restart, NeverRestarts, TypeOK
<1>7. \A c \in Client : ~RequestThrows(c)
  BY DEF RequestThrows
<1> QED BY <1>0, <1>1, <1>2, <1>3, <1>4, <1>5, <1>6, <1>7 DEF Next

\* Who gets there has just appended.
LEMMA FeedersCome ==
    ASSUME TypeOK, [Next]_vars, NEW d \in DOMAIN op', op'[d].kind = "ingest", op'[d].pc = "feed"
    PROVE  \/ d \in DOMAIN op /\ op'[d] = op[d]
           \/ /\ d \in Client /\ IngestAppend(d) /\ op[d].sid \in DOMAIN store
              /\ op'[d].sid = op[d].sid /\ op'[d].batch = op[d].batch
<1>1. ASSUME NEW c \in Client, Arrive(c) PROVE d \in DOMAIN op /\ op'[d] = op[d]
  <2>1. PICK r : Begin(c, r) /\ r.pc # "feed"
    BY <1>1, ArriveBegins
  <2> QED BY <2>1 DEF Begin, Put
<1>2. ASSUME NEW c \in Client, Handle(c), d # c PROVE d \in DOMAIN op /\ op'[d] = op[d]
  BY <1>2, HandleMoves
<1>3. ASSUME NEW c \in Client, Handle(c), d = c
      PROVE  /\ d \in Client /\ IngestAppend(d) /\ op[d].sid \in DOMAIN store
             /\ op'[d].sid = op[d].sid /\ op'[d].batch = op[d].batch
  BY <1>3, HandleMoves, HandleKeeps DEF Kept
<1>4. CASE \A c \in Client : ~Arrive(c) /\ ~Handle(c)
  BY <1>4, OthersKeep
<1> QED BY <1>1, <1>2, <1>3, <1>4

\* An append moves its own request to the feed; other steps leave the unfed
\* batches of a session alone, or feed one.
LEMMA UnfedShape ==
    ASSUME NeverRestarts, "request" \notin Faults, TypeOK, IngestSends, InFlight, [Next]_vars, NEW s
    PROVE  /\ \A b \in Unfed(s)' :
                \/ b \in Unfed(s) /\ \A c \in Client : IngestFeed(c) => op[c].batch # b
                \/ \E c \in Client : /\ IngestAppend(c) /\ op[c].sid = s /\ op[c].batch = b
                                     /\ s \in DOMAIN store
           /\ \A b \in Unfed(s) :
                b \in Unfed(s)' \/ \E c \in Client : IngestFeed(c) /\ op[c].sid = s /\ op[c].batch = b
<1>1. ASSUME NEW d \in DOMAIN op', op'[d].kind = "ingest", op'[d].pc = "feed", op'[d].sid = s,
             NEW b, b = op'[d].batch
      PROVE  \/ b \in Unfed(s) /\ \A c \in Client : IngestFeed(c) => op[c].batch # b
             \/ \E c \in Client : /\ IngestAppend(c) /\ op[c].sid = s /\ op[c].batch = b
                                  /\ s \in DOMAIN store
  <2>1. CASE d \in DOMAIN op /\ op'[d] = op[d]
    <3>1. b \in Unfed(s)
      BY <1>1, <2>1 DEF Unfed
    <3>2. ASSUME NEW c \in Client, IngestFeed(c), op[c].batch = b PROVE FALSE
      <4>1. c \in DOMAIN op /\ op[c].kind = "ingest" /\ c \notin DOMAIN op'
        BY <3>2 DEF IngestFeed, At, Reply, Without
      <4>2. c = d
        BY <1>1, <2>1, <3>2, <4>1 DEF InFlight
      <4> QED BY <4>1, <4>2
    <3> QED BY <3>1, <3>2
  <2>2. CASE /\ d \in Client /\ IngestAppend(d) /\ op[d].sid \in DOMAIN store
             /\ op'[d].sid = op[d].sid /\ op'[d].batch = op[d].batch
    BY <1>1, <2>2
  <2> QED BY <1>1, <2>1, <2>2, FeedersCome
<1>2. ASSUME NEW b \in Unfed(s)
      PROVE  b \in Unfed(s)' \/ \E c \in Client : IngestFeed(c) /\ op[c].sid = s /\ op[c].batch = b
  <2>1. PICK d \in DOMAIN op : /\ op[d].kind = "ingest" /\ op[d].pc = "feed" /\ op[d].sid = s
                               /\ op[d].batch = b
    BY <1>2 DEF Unfed
  <2>2. d \in Client
    BY DEF TypeOK, MapInto
  <2>3. CASE IngestFeed(d)
    BY <2>1, <2>2, <2>3
  <2>4. CASE d \in DOMAIN op' /\ op'[d] = op[d]
    BY <2>1, <2>4 DEF Unfed
  <2> QED BY <2>1, <2>3, <2>4, FeedersStay
<1>3. ASSUME NEW b \in Unfed(s)'
      PROVE  \E d \in DOMAIN op' : /\ op'[d].kind = "ingest" /\ op'[d].pc = "feed" /\ op'[d].sid = s
                                   /\ b = op'[d].batch
  BY <1>3 DEF Unfed
<1> QED BY <1>1, <1>2, <1>3

LEMMA StepHeld ==
    ASSUME NeverRestarts, "request" \notin Faults, MaxBatches <= StoreCap,
           TypeOK, IngestSends, FedIsPersisted, IdsAreFresh, InFlight, HeldInv, [Next]_vars
    PROVE  HeldInv'
<1> SUFFICES ASSUME NEW s \in DOMAIN store'
             PROVE  /\ Distinct(store'[s].events)
                    /\ InSeq(store'[s].events) = (AckedFor(s) \cup Unfed(s))'
  BY DEF HeldInv
<1> DEFINE Held == AckedFor(s) \cup Unfed(s)
<1>1. ASSUME NEW c \in Client, IngestAppend(c), op[c].sid = s, s \in DOMAIN store,
             store'[s].events = Stored(store[s].events, op[c].batch)
      PROVE  /\ Distinct(store'[s].events)
             /\ InSeq(store'[s].events) = Held'
  <2> DEFINE q == store[s].events
             b == op[c].batch
  <2>1. /\ c \in DOMAIN op /\ op[c].kind = "ingest" /\ op[c].pc = "append" /\ b \in Batch
        /\ q \in Seq(Batch) /\ Distinct(q) /\ InSeq(q) = Held
    BY <1>1 DEF IngestAppend, At, IngestSends, TypeOK, MapInto, SessionRecord, HeldInv
  <2>2. b \notin InSeq(q)
    BY <2>1 DEF InFlight, AckedFor, Unfed
  <2>3. /\ DOMAIN op' = DOMAIN op /\ op'[c].pc = "feed" /\ op'[c].kind = "ingest"
        /\ op'[c].sid = s /\ op'[c].batch = b
    BY <1>1, <2>1 DEF IngestAppend, Goto, TypeOK, MapInto, Suspended
  <2>4. \A e \in Client : ~IngestFeed(e)
    BY <2>3 DEF IngestFeed, At, Reply, Without
  <2>5. AckedFor(s)' = AckedFor(s)
    BY <2>4, AckedForShape
  <2>6. b \in Unfed(s)'
    BY <2>1, <2>3 DEF Unfed
  <2>7. \A e \in Client : IngestAppend(e) => e = c
    BY <1>1, <2>1 DEF IngestAppend, At, Goto, Reply, Without, TypeOK, MapInto, Suspended
  <2>8. \A x \in Unfed(s)' : x \in Unfed(s) \/ x = b
    BY <2>7, UnfedShape
  <2>9. \A x \in Unfed(s) : x \in Unfed(s)'
    BY <2>4, UnfedShape
  <2>10. Held' = Held \cup {b}
    BY <2>5, <2>6, <2>8, <2>9
  <2> HIDE DEF q, b, Held
  <2>11. /\ Append(q, b) \in Seq(Batch) /\ Distinct(Append(q, b))
         /\ InSeq(Append(q, b)) = InSeq(q) \cup {b}
    BY <2>1, <2>2, AppendDistinct, InAppend, AppendProperties
  <2>12. Newest(StoreCap, Append(q, b)) = Append(q, b)
    BY <2>11, NewestAll
  <2>13. store'[s].events = Append(q, b)
    BY <1>1, <2>2, <2>12 DEF Stored, q, b
  <2> QED BY <2>1, <2>10, <2>11, <2>13
<1>2. CASE s \in DOMAIN store /\ store'[s].events = store[s].events
  <2>1. Distinct(store[s].events) /\ InSeq(store[s].events) = Held
    BY <1>2 DEF HeldInv
  <2>2. ASSUME NEW c \in Client, IngestAppend(c), op[c].sid = s PROVE op[c].batch \in Held
    <3>1. store'[s].events = Stored(store[s].events, op[c].batch)
      BY <1>2, <2>2 DEF IngestAppend, AppendEvents, TypeOK, MapInto, SessionRecord
    <3>2. /\ op[c].batch \in Batch /\ store[s].events \in Seq(Batch)
      BY <1>2, <2>2 DEF IngestAppend, At, IngestSends, TypeOK, MapInto, SessionRecord
    <3>3. CASE op[c].batch \in InSeq(store[s].events)
      BY <2>1, <3>3
    <3>4. CASE op[c].batch \notin InSeq(store[s].events)
      <4>1. /\ Append(store[s].events, op[c].batch) \in Seq(Batch)
            /\ Distinct(Append(store[s].events, op[c].batch))
            /\ op[c].batch \in InSeq(Append(store[s].events, op[c].batch))
        BY <2>1, <3>2, <3>4, AppendDistinct, InAppend, AppendProperties
      <4>2. Stored(store[s].events, op[c].batch) = Append(store[s].events, op[c].batch)
        BY <3>4, <4>1, NewestAll DEF Stored
      <4> QED BY <1>2, <2>1, <3>1, <4>1, <4>2
    <3> QED BY <3>3, <3>4
  <2>3. CASE \E c \in Client : IngestFeed(c) /\ op[c].sid = s
    <3>1. PICK c \in Client : IngestFeed(c) /\ op[c].sid = s /\ AckedFor(s)' = AckedFor(s) \cup {op[c].batch}
      BY <2>3, AckedForShape
    <3>2. op[c].batch \in Unfed(s)
      BY <3>1 DEF IngestFeed, At, Unfed
    <3>3. \A x \in Unfed(s)' : x \in Held
      BY <2>2, UnfedShape
    <3>4. \A x \in Unfed(s) : x \in Unfed(s)' \/ x \in AckedFor(s)'
      <4>1. \A e \in Client : IngestFeed(e) => acked' = acked \cup {op[e].batch}
        BY DEF IngestFeed
      <4>2. ASSUME NEW e \in Client, IngestFeed(e) PROVE op[e].batch = op[c].batch
        BY <3>1, <4>1, <4>2 DEF IngestFeed, At, InFlight
      <4> QED BY <3>1, <4>2, UnfedShape
    <3>5. Held' = Held
      BY <3>1, <3>2, <3>3, <3>4
    <3> QED BY <1>2, <2>1, <3>5
  <2>4. CASE ~\E c \in Client : IngestFeed(c) /\ op[c].sid = s
    <3>1. AckedFor(s)' = AckedFor(s)
      BY <2>4, AckedForShape
    <3>2. \A x \in Unfed(s)' : x \in Held
      BY <2>2, UnfedShape
    <3>3. \A x \in Unfed(s) : x \in Unfed(s)'
      BY <2>4, UnfedShape
    <3>4. Held' = Held
      BY <3>1, <3>2, <3>3
    <3> QED BY <1>2, <2>1, <3>4
  <2> QED BY <2>3, <2>4
<1>3. ASSUME NEW c \in Client, CreateSave(c), op[c].sid = s, store'[s].events = <<>>
      PROVE  /\ Distinct(store'[s].events)
             /\ InSeq(store'[s].events) = Held'
  <2>1. Creating(c, s)
    BY <1>3 DEF CreateSave, At, Creating
  <2>2. /\ s \notin DOMAIN store /\ \A b \in persisted : owner[b] # s
    BY <2>1 DEF IdsAreFresh, Creating
  <2>3. AckedFor(s) = {} /\ Unfed(s) = {}
    BY <2>2 DEF AckedFor, Unfed, InFlight, FedIsPersisted, IngestSends
  <2>4. \A e \in Client : IngestFeed(e) => op[e].sid # s
    BY <2>3 DEF IngestFeed, At, Unfed
  <2>5. AckedFor(s)' = {}
    BY <2>3, <2>4, AckedForShape
  <2>6. Unfed(s)' = {}
    BY <2>2, <2>3, UnfedShape
  <2>7. InSeq(<<>>) = {} /\ Distinct(<<>>)
    BY EmptyDistinct DEF InSeq
  <2> QED BY <1>3, <2>5, <2>6, <2>7
<1> QED BY <1>1, <1>2, <1>3, StoreShape

\* While no more sessions exist than correlators are kept, nothing restarts or
\* rejects a request, and no cap is reached: whenever nothing is in flight the
\* timeline of a stored session shows exactly the batches that storage holds.
THEOREM TimelineIsStorage ==
    /\ NothingEvicted /\ NeverRestarts /\ "request" \notin Faults
    /\ MaxBatches <= CorrelatorCap /\ MaxBatches <= StoreCap
    => (Spec => []TimelineMatchesStorage)
<1> SUFFICES ASSUME NothingEvicted, NeverRestarts, "request" \notin Faults,
                    MaxBatches <= CorrelatorCap, MaxBatches <= StoreCap
             PROVE  Spec => []TimelineMatchesStorage
  OBVIOUS
<1>1. TypeOK /\ TimelineInv /\ [Next]_vars => TimelineInv'
  BY StepIngestSends, StepFedIsPersisted, StepIdsAreFresh, StepHooks, StepInFlight, StepPurgeInv,
     StepCache DEF TimelineInv
<1>2. Init => HeldInv
  BY DEF Init, HeldInv, NoKeys
<1>3. TypeOK /\ TimelineInv /\ HeldInv /\ [Next]_vars => HeldInv'
  BY StepHeld DEF TimelineInv
<1>4. TypeOK /\ TimelineInv /\ HeldInv => TimelineMatchesStorage
  <2> SUFFICES ASSUME TypeOK, TimelineInv, HeldInv, Quiet,
                      NEW s \in DOMAIN store \cap DOMAIN correlators
               PROVE  /\ Len(correlators[s].events) = Len(store[s].events)
                      /\ InSeq(correlators[s].events) = InSeq(store[s].events)
    BY DEF TimelineMatchesStorage
  <2>1. Unfed(s) = {}
    BY DEF Quiet, Unfed
  <2>2. /\ Distinct(correlators[s].events) /\ InSeq(correlators[s].events) = AckedFor(s)
        /\ Distinct(store[s].events) /\ InSeq(store[s].events) = AckedFor(s) \cup Unfed(s)
    BY DEF TimelineInv, CacheInv, HeldInv
  <2>3. correlators[s].events \in Seq(Batch) /\ store[s].events \in Seq(Batch)
    BY DEF TypeOK, MapInto, SessionRecord
  <2>4. InSeq(correlators[s].events) = InSeq(store[s].events)
    BY <2>1, <2>2
  <2> QED BY <2>2, <2>3, <2>4, DistinctCount
<1> QED BY <1>1, <1>2, <1>3, <1>4, InitTimeline, TypeCorrect, PTL DEF Spec

-----------------------------------------------------------------------------
(* SessionService: how the steps of a request look to its client *)

Effective == {"saved", "removed", "reload", "feed"}

LEMMA AskedBegins ==
    ASSUME NEW c, NEW r, Begin(c, r), r.pc \notin Effective
    PROVE  Asked' = Service!Put(Asked, c,
              [kind |-> r.kind, sid |-> r.sid, batch |-> r.batch, to |-> r.to, done |-> FALSE])
<1>1. /\ DOMAIN op' = DOMAIN op \cup {c}
      /\ \A d \in DOMAIN op' : op'[d] = IF d = c THEN r ELSE op[d]
  BY DEF Begin, Put
<1>2. DOMAIN Asked' = DOMAIN Asked \cup {c}
  BY <1>1 DEF Asked
<1>3. Asked'[c] = [kind |-> r.kind, sid |-> r.sid, batch |-> r.batch, to |-> r.to, done |-> FALSE]
  <2> DEFINE e == op'[c].pc \in Effective
  <2>1. Asked'[c] = [kind |-> op'[c].kind, sid |-> op'[c].sid, batch |-> op'[c].batch,
                     to |-> op'[c].to, done |-> e]
    BY <1>1 DEF Asked, Effective
  <2>2. op'[c] = r /\ e = FALSE
    BY <1>1
  <2> HIDE DEF e
  <2> QED BY <2>1, <2>2
<1>4. \A d \in DOMAIN Asked : d # c => Asked'[d] = Asked[d]
  BY <1>1 DEF Asked
<1>5. Asked' = [d \in DOMAIN Asked' |-> Asked'[d]]
  BY DEF Asked
<1> QED BY <1>2, <1>3, <1>4, <1>5 DEF Service!Put

LEMMA AskedReplies ==
    ASSUME OpType, NEW c \in Client, NEW a \in Answers, Reply(c, a)
    PROVE  /\ Asked' = Service!Without(Asked, {c})
           /\ answer' = [d \in Client |-> IF d \in {c} THEN a ELSE answer[d]]
BY DEF Reply, Without, Service!Without, Asked, OpType

LEMMA AskedStays ==
    ASSUME OpType, NEW c \in DOMAIN op, NEW pc, Goto(c, pc),
           pc \in Effective <=> op[c].pc \in Effective
    PROVE  Asked' = Asked
<1>1. op[c] \in Suspended
  BY DEF OpType, MapInto
<1>2. DOMAIN op' = DOMAIN op
  BY DEF Goto
<1>3. ASSUME NEW d \in DOMAIN op
      PROVE  /\ op'[d].kind = op[d].kind /\ op'[d].sid = op[d].sid
             /\ op'[d].batch = op[d].batch /\ op'[d].to = op[d].to
             /\ op'[d].pc \in Effective <=> op[d].pc \in Effective
  BY <1>1 DEF Goto, Suspended
<1> QED BY <1>2, <1>3 DEF Asked, Effective

LEMMA AskedTakesEffect ==
    ASSUME OpType, NEW c \in DOMAIN op, NEW pc \in Effective, Goto(c, pc), op[c].pc \notin Effective
    PROVE  /\ Asked' = [Asked EXCEPT ![c].done = TRUE]
           /\ ~Asked[c].done
           /\ Service!Done(c) <=> UNCHANGED <<used, answer>>
<1>1. op[c] \in Suspended
  BY DEF OpType, MapInto
<1>2. DOMAIN op' = DOMAIN op
  BY DEF Goto
<1>3. op' = [op EXCEPT ![c].pc = pc]
  BY DEF Goto
<1>4. Asked' = [Asked EXCEPT ![c].done = TRUE]
  <2>1. \A d \in DOMAIN op : d # c => op'[d] = op[d]
    BY <1>3
  <2>2. /\ op'[c].kind = op[c].kind /\ op'[c].sid = op[c].sid
        /\ op'[c].batch = op[c].batch /\ op'[c].to = op[c].to /\ op'[c].pc = pc
    BY <1>1, <1>3 DEF Suspended
  <2> QED BY <1>2, <2>1, <2>2 DEF Asked, Effective
<1> QED BY <1>4 DEF Asked, Effective, Service!Done

-----------------------------------------------------------------------------
(* What the refinement rests on *)

\* Only timeline requests look up or wait for a rebuild.
TimelinesWait ==
    \A c \in DOMAIN op : op[c].pc \in {"lookup", "owner", "join"} => op[c].kind = "timeline"

LEMMA StepTimelinesWait ==
    ASSUME TypeOK, TimelinesWait, [Next]_vars
    PROVE  TimelinesWait'
<1> DEFINE W == {"lookup", "owner", "join"}
<1> SUFFICES ASSUME NEW d \in DOMAIN op', op'[d].pc \in W PROVE op'[d].kind = "timeline"
  BY DEF TimelinesWait
<1>1. ASSUME NEW c \in Client, Arrive(c) PROVE op'[d].kind = "timeline"
  <2>1. PICK r : Begin(c, r) /\ (r.pc \in W => r.kind = "timeline")
    <3>1. CASE TimelineStart(c)
      <4>1. PICK s \in used : Begin(c, [Request("timeline", "lookup", s) EXCEPT !.due = AckedFor(s)])
        BY <3>1 DEF TimelineStart
      <4>2. [Request("timeline", "lookup", s) EXCEPT !.due = AckedFor(s)].kind = "timeline"
        BY DEF Request
      <4> QED BY <4>1, <4>2
    <3>2. CASE CreateStart(c)
      BY <3>2 DEF CreateStart, Request
    <3>3. CASE DeleteStart(c)
      BY <3>3 DEF DeleteStart, Request
    <3>4. CASE UpdateStart(c)
      BY <3>4 DEF UpdateStart, Request
    <3>5. CASE IngestStart(c)
      BY <3>5 DEF IngestStart, Request
    <3> QED BY <1>1, <3>1, <3>2, <3>3, <3>4, <3>5 DEF Arrive
  <2> QED BY <2>1 DEF Begin, Put, TimelinesWait
<1>2. ASSUME NEW c \in Client, Handle(c) PROVE op'[d].kind = "timeline"
  <2>1. CASE d # c
    BY <1>2, <2>1, HandleMoves DEF TimelinesWait
  <2>2. CASE d = c
    <3>1. d \in DOMAIN op /\ op'[d].kind = op[d].kind /\ op[d] \in Suspended
      BY <1>2, HandleKeeps DEF Kept, TypeOK, MapInto
    <3>2. \/ \E a : Reply(c, a)
          \/ \E pc : Goto(c, pc) /\ (pc \notin W \/ op[c].kind = "timeline")
          \/ \E from : op' = [op EXCEPT ![c].pc = "found", ![c].from = from]
      <4>1. CASE TimelineMiss(c)
        BY <4>1 DEF TimelineMiss, At
      <4>2. CASE UpdateLoad(c)
        BY <4>2 DEF UpdateLoad
      <4>3. CASE ~TimelineMiss(c) /\ ~UpdateLoad(c)
        BY <1>2, <4>3 DEF Handle, CreateSave, CreateDone, DeleteLoad, DeleteRemove, DeleteDone,
           UpdateGauge, UpdateSet, UpdateDone, IngestCheck, IngestLoad,
           IngestAppend, IngestFeed, TimelineHit
      <4> QED BY <4>1, <4>2, <4>3
    <3>3. \A a : ~Reply(c, a)
      BY <2>2 DEF Reply, Without
    <3>4. \A pc : Goto(c, pc) => op'[d].pc = pc
      BY <2>2, <3>1 DEF Goto, Suspended
    <3>5. \A from : op' = [op EXCEPT ![c].pc = "found", ![c].from = from] => op'[d].pc = "found"
      BY <2>2, <3>1 DEF Suspended
    <3> QED BY <2>2, <3>1, <3>2, <3>3, <3>4, <3>5
  <2> QED BY <2>1, <2>2
<1>3. CASE \A c \in Client : ~Arrive(c) /\ ~Handle(c)
  BY <1>3, OthersKeep DEF TimelinesWait
<1> QED BY <1>1, <1>2, <1>3

\* What a step does to the storage.
LEMMA StorageShape ==
    ASSUME TypeOK, [Next]_vars
    PROVE  \/ UNCHANGED storage
           \/ \E c \in Client : CreateSave(c) /\ Save(op[c].sid)
           \/ \E s \in Session : Remove(s) /\ ((\E c \in Client : DeleteRemove(c)) \/ PurgeRemove)
           \/ \E c \in Client : /\ IngestAppend(c) /\ op[c].sid \in DOMAIN store
                                /\ AppendEvents(op[c].sid, op[c].batch)
           \/ \E c \in Client : /\ UpdateSet(c) /\ op[c].sid \in DOMAIN store
                                /\ SetStatus(op[c].sid, op[c].to)
<1>1. ASSUME NEW c \in Client, Arrive(c) PROVE UNCHANGED storage
  BY <1>1 DEF Arrive, CreateStart, DeleteStart, UpdateStart, IngestStart, TimelineStart
<1>2. ASSUME NEW c \in Client, CreateSave(c) PROVE Save(op[c].sid)
  BY <1>2 DEF CreateSave
<1>3. ASSUME NEW c \in Client, DeleteRemove(c) PROVE Remove(op[c].sid) /\ op[c].sid \in Session
  BY <1>3 DEF DeleteRemove, At, TypeOK, MapInto, Suspended
<1>4. ASSUME NEW c \in Client, IngestAppend(c)
      PROVE  UNCHANGED storage \/ (op[c].sid \in DOMAIN store /\ AppendEvents(op[c].sid, op[c].batch))
  BY <1>4 DEF IngestAppend
<1>5. ASSUME NEW c \in Client, UpdateSet(c)
      PROVE  UNCHANGED storage \/ (op[c].sid \in DOMAIN store /\ SetStatus(op[c].sid, op[c].to))
  BY <1>5 DEF UpdateSet
<1>6. ASSUME NEW c \in Client, Handle(c), ~CreateSave(c), ~DeleteRemove(c), ~IngestAppend(c), ~UpdateSet(c)
      PROVE  UNCHANGED storage
  BY <1>6 DEF Handle, CreateDone, DeleteLoad, DeleteDone, UpdateLoad, UpdateGauge, UpdateDone,
     IngestCheck, IngestLoad, IngestFeed, TimelineHit, TimelineMiss
<1>7. ASSUME NEW c \in Client, RequestThrows(c) PROVE UNCHANGED storage
  BY <1>7 DEF RequestThrows
<1>8. ASSUME NEW s \in Session, Rebuild(s) \/ RebuildThrows(s) PROVE UNCHANGED storage
  BY <1>8 DEF Rebuild, RebuildLoad, RebuildRead, RebuildSet, RebuildThrows
<1>9. ASSUME PurgeRemove PROVE \E s \in Session : Remove(s)
  BY <1>9 DEF PurgeRemove, TypeOK
<1>10. CASE PurgeList \/ PurgeForget \/ PurgeThrows \/ Tick \/ Restart \/ UNCHANGED vars
  BY <1>10 DEF PurgeList, PurgeForget, PurgeThrows, Tick, Restart, storage, vars
<1> QED
  BY <1>1, <1>2, <1>3, <1>4, <1>5, <1>6, <1>7, <1>8, <1>9, <1>10 DEF Next, Purge

\* A session with a final status has an end time, and purgeStale only names
\* sessions that have one.
EndIsKept ==
    /\ \A s \in DOMAIN store : store[s].status \in Terminal => store[s].ended # Never
    /\ \A s \in purge.todo \cap DOMAIN store : store[s].ended # Never

LEMMA TodoShape ==
    ASSUME TypeOK, [Next]_vars, NEW s \in purge'.todo
    PROVE  s \in purge.todo \/ (s \in Expired /\ UNCHANGED store)
<1> USE DEF Aside, storage
<1>1. ASSUME NEW c \in Client, Arrive(c) PROVE purge' = purge
  BY <1>1 DEF Arrive, CreateStart, DeleteStart, UpdateStart, IngestStart, TimelineStart
<1>2. ASSUME NEW c \in Client, Handle(c) \/ RequestThrows(c) PROVE purge' = purge
  BY <1>2 DEF Handle, CreateSave, CreateDone, DeleteLoad, DeleteRemove, DeleteDone,
     UpdateLoad, UpdateGauge, UpdateSet, UpdateDone, IngestCheck, IngestLoad,
     IngestAppend, IngestFeed, TimelineHit, TimelineMiss, RequestThrows
<1>3. ASSUME NEW x \in Session, Rebuild(x) \/ RebuildThrows(x) PROVE purge' = purge
  BY <1>3 DEF Rebuild, RebuildLoad, RebuildRead, RebuildSet, RebuildThrows
<1>4. CASE PurgeList
  BY <1>4 DEF PurgeList
<1>5. CASE PurgeRemove \/ PurgeForget \/ PurgeThrows \/ Tick \/ Restart \/ UNCHANGED vars
  BY <1>5 DEF PurgeRemove, PurgeForget, PurgeThrows, Tick, Restart, NoPurge, vars
<1> QED BY <1>1, <1>2, <1>3, <1>4, <1>5 DEF Next, Purge

LEMMA StepEndIsKept ==
    ASSUME TypeOK, IdsAreFresh, PurgeInv, EndIsKept, [Next]_vars
    PROVE  EndIsKept'
<1>0. MapInto(store, Session, SessionRecord) /\ now # Never
  BY DEF TypeOK, Time, Never
<1>1. ASSUME NEW s \in DOMAIN store', store'[s].status \in Terminal PROVE store'[s].ended # Never
  <2>1. CASE UNCHANGED storage
    BY <1>1, <2>1 DEF storage, EndIsKept
  <2>2. ASSUME NEW x \in Session, Save(x) PROVE store'[s].ended # Never
    BY <1>1, <2>2 DEF Save, Put, Without, EndIsKept, Terminal
  <2>3. ASSUME NEW x \in Session, Remove(x) PROVE store'[s].ended # Never
    BY <1>1, <2>3 DEF Remove, Without, EndIsKept
  <2>4. ASSUME NEW x \in DOMAIN store, NEW b, AppendEvents(x, b) PROVE store'[s].ended # Never
    <3>1. /\ s \in DOMAIN store /\ store[s] \in SessionRecord
          /\ store'[s].status = store[s].status /\ store'[s].ended = store[s].ended
      BY <1>0, <2>4 DEF AppendEvents, MapInto, SessionRecord
    <3> QED BY <1>1, <3>1 DEF EndIsKept
  <2>5. ASSUME NEW x \in DOMAIN store, NEW to, SetStatus(x, to) PROVE store'[s].ended # Never
    <3>1. s \in DOMAIN store /\ store[s] \in SessionRecord
      BY <1>0, <2>5 DEF SetStatus, MapInto
    <3>2. CASE s # x
      BY <1>1, <2>5, <3>1, <3>2 DEF SetStatus, EndIsKept
    <3>3. CASE s = x
      <4>1. /\ store'[s].status = to
            /\ store'[s].ended = IF to \in Terminal THEN now ELSE store[s].ended
        BY <2>5, <3>1, <3>3 DEF SetStatus, SessionRecord
      <4> QED BY <1>0, <1>1, <4>1
    <3> QED BY <3>2, <3>3
  <2>6. \A c \in Client : CreateSave(c) => op[c].sid \in Session
    BY DEF CreateSave, At, TypeOK, MapInto, Suspended
  <2> QED BY <2>1, <2>2, <2>3, <2>4, <2>5, <2>6, StorageShape
<1>2. ASSUME NEW s \in purge'.todo \cap DOMAIN store' PROVE store'[s].ended # Never
  <2>1. CASE s \in purge.todo
    <3>1. Born(s) /\ s \in DOMAIN store
      BY <1>2, <2>1, BornStays DEF PurgeInv
    <3>2. store[s].ended # Never
      BY <2>1, <3>1 DEF EndIsKept
    <3> QED BY <1>2, <3>1, <3>2, EndedStays
  <2>2. CASE s \in Expired /\ UNCHANGED store
    BY <1>1, <1>2, <2>2 DEF Expired
  <2> QED BY <1>2, <2>1, <2>2, TodoShape
<1> QED BY <1>1, <1>2 DEF EndIsKept

\* The catalog lists the sessions of the storage, and no session of the memory
\* adapter has more events than its cap.
Fits ==
    /\ Lists(catalog, DOMAIN store)
    /\ Backend = "memory" => \A s \in DOMAIN store : Len(store[s].events) <= StoreCap

LEMMA StepFits ==
    ASSUME TypeOK, IngestSends, IdsAreFresh, Fits, [Next]_vars
    PROVE  Fits'
<1>0. /\ MapInto(store, Session, SessionRecord) /\ catalog \in Seq(Session)
      /\ MapInto(op, Client, Suspended)
  BY DEF TypeOK
<1>1. CASE UNCHANGED storage
  BY <1>1 DEF storage, Fits
<1>2. ASSUME NEW c \in Client, CreateSave(c), Save(op[c].sid) PROVE Fits'
  <2> DEFINE s == op[c].sid
             old == IF Overflow = {} THEN catalog ELSE Tail(catalog)
  <2>1. s \in Session /\ s \notin DOMAIN store
    BY <1>0, <1>2 DEF CreateSave, At, Creating, IdsAreFresh, MapInto, Suspended
  <2>2. old \in Seq(Session) /\ Lists(old, DOMAIN store \ Overflow)
    <3>1. CASE Overflow = {}
      BY <1>0, <3>1 DEF Fits
    <3>2. CASE Overflow # {}
      <4>1. Len(catalog) >= MaxSessions /\ Overflow = {Head(catalog)}
        BY <3>2 DEF Overflow
      <4>2. catalog # <<>>
        <5>1. MaxSessions \in Nat \ {0} /\ Len(<<>>) = 0
          OBVIOUS
        <5>2. ~(0 >= MaxSessions)
          BY <5>1
        <5> QED BY <4>1, <5>1, <5>2
      <4>3. Lists(Tail(catalog), DOMAIN store \ {Head(catalog)})
        BY <1>0, <4>2, TailLists DEF Fits
      <4> QED BY <1>0, <3>2, <4>1, <4>2, <4>3
    <3> QED BY <3>1, <3>2
  <2>3. catalog' = Append(old, s) /\ DOMAIN store' = (DOMAIN store \ Overflow) \cup {s}
    BY <1>2 DEF Save, Put, Without
  <2>4. \A x \in DOMAIN store' : IF x = s THEN store'[x].events = <<>>
                                 ELSE x \in DOMAIN store /\ store'[x] = store[x]
    BY <1>2 DEF Save, Put, Without
  <2>5. Lists(catalog', DOMAIN store')
    <3>1. s \notin DOMAIN store \ Overflow
      BY <2>1
    <3> HIDE DEF old, s
    <3>2. Lists(Append(old, s), (DOMAIN store \ Overflow) \cup {s})
      BY ONLY <2>1, <2>2, <3>1, AppendLists
    <3> QED BY <2>3, <3>2
  <2>6. ASSUME Backend = "memory", NEW x \in DOMAIN store' PROVE Len(store'[x].events) <= StoreCap
    <3>1. Len(<<>>) <= StoreCap
      <4>1. StoreCap \in Nat /\ Len(<<>>) = 0
        OBVIOUS
      <4> QED BY <4>1
    <3> QED BY <2>4, <2>6, <3>1 DEF Fits
  <2> QED BY <2>5, <2>6 DEF Fits
<1>3. ASSUME NEW s \in Session, Remove(s) PROVE Fits'
  <2>1. Lists(catalog', DOMAIN store')
    <3>1. catalog' = Omit(catalog, s) /\ DOMAIN store' = DOMAIN store \ {s}
      BY <1>3 DEF Remove, Without
    <3> QED BY <1>0, <3>1, OmitLists DEF Fits
  <2> QED BY <1>3, <2>1 DEF Fits, Remove, Without
<1>4. ASSUME NEW s \in DOMAIN store, NEW b \in Batch, AppendEvents(s, b) PROVE Fits'
  <2>1. /\ catalog' = catalog /\ DOMAIN store' = DOMAIN store
        /\ \A x \in DOMAIN store : x # s => store'[x] = store[x]
        /\ store'[s].events = Stored(store[s].events, b)
    BY <1>0, <1>4 DEF AppendEvents, MapInto, SessionRecord
  <2>2. ASSUME Backend = "memory" PROVE Len(Stored(store[s].events, b)) <= StoreCap
    <3> DEFINE q == Append(store[s].events, b)
    <3>1. store[s].events \in Seq(Batch)
      BY <1>0 DEF MapInto, SessionRecord
    <3>2. q \in Seq(Batch) /\ Len(q) \in Nat
      BY <3>1
    <3>3. Stored(store[s].events, b) = Newest(StoreCap, q)
      BY <2>2 DEF Stored
    <3> HIDE DEF q
    <3>4. Len(Newest(StoreCap, q)) <= StoreCap
      <4>1. StoreCap \in Nat \ {0}
        OBVIOUS
      <4> QED BY <3>2, <4>1 DEF Newest
    <3> QED BY <3>3, <3>4
  <2> QED BY <2>1, <2>2 DEF Fits
<1>5. ASSUME NEW s \in DOMAIN store, NEW to, SetStatus(s, to) PROVE Fits'
  <2>1. /\ catalog' = catalog /\ DOMAIN store' = DOMAIN store
        /\ \A x \in DOMAIN store : store'[x].events = store[x].events
    BY <1>0, <1>5 DEF SetStatus, MapInto, SessionRecord
  <2> QED BY <2>1 DEF Fits
<1>6. \A c \in Client : IngestAppend(c) => op[c].batch \in Batch
  BY DEF IngestAppend, At, IngestSends, TypeOK, MapInto
<1> QED BY <1>1, <1>2, <1>3, <1>4, <1>5, <1>6, StorageShape

-----------------------------------------------------------------------------
(* Every step is one of the service's, or changes nothing a client sees *)

View == <<Shown, used, Asked, answer>>

LEMMA AskedIs ==
    ASSUME NEW c \in DOMAIN op
    PROVE  /\ c \in DOMAIN Asked
           /\ Asked[c].kind = op[c].kind /\ Asked[c].sid = op[c].sid
           /\ Asked[c].batch = op[c].batch /\ Asked[c].to = op[c].to
           /\ Asked[c].done <=> op[c].pc \in Effective
BY DEF Asked, Effective

LEMMA ShownIs ==
    /\ DOMAIN Shown = DOMAIN store
    /\ \A s \in DOMAIN store :
         Shown[s] = [status |-> store[s].status, ended |-> store[s].ended # Never,
                     events |-> InSeq(store[s].events)]
BY DEF Shown

LEMMA ShownStays == ASSUME UNCHANGED store PROVE UNCHANGED Shown
BY DEF Shown

\* A request that is at the storage call which is its effect, and takes it.
LEMMA TakesEffect ==
    ASSUME OpType, NEW c, NEW kind, NEW pc, NEW next \in Effective,
           At(c, kind, pc), Goto(c, next), pc \notin Effective, UNCHANGED used
    PROVE  Service!Pending(c, kind) /\ Service!Done(c)
<1>1. c \in DOMAIN op /\ op[c].kind = kind /\ op[c].pc = pc
  BY DEF At
<1>2. Service!Pending(c, kind)
  BY <1>1, AskedIs DEF Service!Pending
<1>3. UNCHANGED answer
  BY DEF Goto
<1>4. Service!Done(c)
  BY <1>1, <1>3, AskedTakesEffect
<1> QED BY <1>2, <1>4

LEMMA SaveCreates ==
    ASSUME TypeOK, IdsAreFresh, Fits, NEW c \in Client, CreateSave(c)
    PROVE  Service!Create(c)
<1> DEFINE s == op[c].sid
<1>1. /\ At(c, "create", "save") /\ Save(s) /\ Goto(c, "saved") /\ UNCHANGED used
      /\ c \in DOMAIN op /\ OpType /\ s \in Session
  BY DEF CreateSave, Aside, At, TypeOK, OpType, MapInto, Suspended
<1>2. Service!Pending(c, "create") /\ Service!Done(c)
  BY <1>1, TakesEffect DEF Effective
<1>3. Asked[c].sid = s /\ s \notin DOMAIN Shown
  BY <1>1, AskedIs, ShownIs DEF At, Creating, IdsAreFresh
<1>4. Overflow \in {{}} \cup {{x} : x \in DOMAIN Shown}
  <2>1. CASE Overflow = {}
    BY <2>1
  <2>2. CASE Overflow # {}
    <3>1. Len(catalog) >= MaxSessions /\ Overflow = {Head(catalog)}
      BY <2>2 DEF Overflow
    <3>2. catalog # <<>>
      <4>1. MaxSessions \in Nat \ {0} /\ Len(<<>>) = 0
        OBVIOUS
      <4>2. ~(0 >= MaxSessions)
        BY <4>1
      <4> QED BY <3>1, <4>1, <4>2
    <3>3. catalog \in Seq(Session) /\ Lists(catalog, DOMAIN store)
      BY DEF TypeOK, Fits
    <3>4. Head(catalog) \in DOMAIN store
      BY ONLY <3>2, <3>3, TailLists
    <3> QED BY <3>1, <3>4, ShownIs
  <2> QED BY <2>1, <2>2
<1>5. Overflow # {} => Backend = "memory" /\ Service!Cardinality(DOMAIN Shown) >= MaxSessions
  <2>1. catalog \in Seq(Session) /\ Lists(catalog, DOMAIN store)
    BY DEF TypeOK, Fits
  <2>2. Cardinality(DOMAIN store) = Len(catalog)
    BY ONLY <2>1, ListLength
  <2>3. Service!Cardinality(DOMAIN store) = Cardinality(DOMAIN store)
    BY DEF Service!Cardinality, Cardinality
  <2> QED BY <2>2, <2>3, ShownIs DEF Overflow
<1>6. Shown' = Service!Put(Service!Without(Shown, Overflow), s,
                           [status |-> "idle", ended |-> FALSE, events |-> {}])
  <2>1. /\ DOMAIN store' = (DOMAIN store \ Overflow) \cup {s}
        /\ store'[s] = [status |-> "idle", started |-> now, ended |-> Never, events |-> <<>>]
        /\ \A x \in DOMAIN store' : x # s => store'[x] = store[x] /\ x \in DOMAIN store \ Overflow
    BY <1>1 DEF Save, Put, Without
  <2>2. Shown'[s] = [status |-> "idle", ended |-> FALSE, events |-> {}]
    <3>1. Shown'[s] = [status |-> store'[s].status, ended |-> store'[s].ended # Never,
                       events |-> InSeq(store'[s].events)]
      BY <2>1 DEF Shown
    <3> DEFINE e == store'[s].ended # Never
    <3>2. InSeq(store'[s].events) = {} /\ e = FALSE /\ store'[s].status = "idle"
      BY <2>1 DEF InSeq
    <3>3. Shown'[s] = [status |-> store'[s].status, ended |-> e,
                       events |-> InSeq(store'[s].events)]
      BY <3>1
    <3> HIDE DEF e
    <3> QED BY <3>2, <3>3
  <2>3. \A x \in DOMAIN store' : x # s => Shown'[x] = Shown[x]
    BY <2>1 DEF Shown
  <2>4. DOMAIN Shown' = DOMAIN store' /\ Shown' = [x \in DOMAIN Shown' |-> Shown'[x]]
    BY DEF Shown
  <2> HIDE DEF s
  <2> QED BY <2>1, <2>2, <2>3, <2>4, ShownIs DEF Service!Put, Service!Without
<1> HIDE DEF s
<1> QED BY <1>2, <1>3, <1>4, <1>5, <1>6 DEF Service!Create

LEMMA RemoveDeletes ==
    ASSUME TypeOK, NEW c \in Client, DeleteRemove(c)
    PROVE  Service!Delete(c)
<1>1. /\ At(c, "delete", "remove") /\ Remove(op[c].sid) /\ Goto(c, "removed") /\ UNCHANGED used
      /\ c \in DOMAIN op /\ OpType
  BY DEF DeleteRemove, Aside, At, TypeOK, OpType
<1>2. Service!Pending(c, "delete") /\ Service!Done(c)
  BY <1>1, TakesEffect DEF Effective
<1>3. Shown' = Service!Without(Shown, {Asked[c].sid})
  BY <1>1, AskedIs DEF Remove, Without, Service!Without, Shown
<1> QED BY <1>2, <1>3 DEF Service!Delete

LEMMA SetUpdates ==
    ASSUME TypeOK, NEW c \in Client, UpdateSet(c)
    PROVE  Service!Update(c) \/ Service!Fail
<1> DEFINE s == op[c].sid
<1>1. /\ At(c, "update", "set") /\ UNCHANGED used
      /\ c \in DOMAIN op /\ OpType /\ MapInto(store, Session, SessionRecord) /\ now # Never
  BY DEF UpdateSet, Aside, At, TypeOK, OpType, Never, Time
<1>2. CASE s \in DOMAIN store
  <2>1. SetStatus(s, op[c].to) /\ Goto(c, "reload")
    BY <1>2 DEF UpdateSet
  <2>2. Service!Pending(c, "update") /\ Service!Done(c)
    BY <1>1, <2>1, TakesEffect DEF Effective
  <2>3. /\ DOMAIN store' = DOMAIN store
        /\ \A x \in DOMAIN store : x # s => store'[x] = store[x]
        /\ store'[s].status = op[c].to
        /\ store'[s].ended = IF op[c].to \in Terminal THEN now ELSE store[s].ended
        /\ store'[s].events = store[s].events
    BY <1>1, <1>2, <2>1 DEF SetStatus, MapInto, SessionRecord
  <2>4. (store'[s].ended # Never) = (Shown[s].ended \/ op[c].to \in Terminal)
    <3>1. (store'[s].ended # Never) <=> (op[c].to \in Terminal \/ store[s].ended # Never)
      BY <1>1, <2>3
    <3>2. Shown[s].ended = (store[s].ended # Never)
      BY <1>2, ShownIs
    <3>3. Shown[s].ended <=> store[s].ended # Never
      BY <3>2
    <3>4. (store'[s].ended # Never) <=> (Shown[s].ended \/ op[c].to \in Terminal)
      BY ONLY <3>1, <3>3
    <3> QED BY ONLY <3>4, Zenon
  <2>5. Shown' = [Shown EXCEPT ![s].status = op[c].to,
                               ![s].ended = @ \/ op[c].to \in Terminal]
    <3>1. DOMAIN Shown' = DOMAIN Shown /\ \A x \in DOMAIN Shown : x # s => Shown'[x] = Shown[x]
      BY <2>3 DEF Shown
    <3>2. Shown'[s] = [status |-> op[c].to, ended |-> store'[s].ended # Never,
                       events |-> InSeq(store[s].events)]
      BY <1>2, <2>3 DEF Shown
    <3>3. Shown[s].events = InSeq(store[s].events) /\ s \in DOMAIN Shown
      BY <1>2, ShownIs
    <3>4. Shown' = [x \in DOMAIN Shown' |-> Shown'[x]] /\ Shown = [x \in DOMAIN Shown |-> Shown[x]]
      BY DEF Shown
    <3>5. Shown[s] = [status |-> store[s].status, ended |-> store[s].ended # Never,
                      events |-> InSeq(store[s].events)]
      BY <1>2, ShownIs
    <3> HIDE DEF s
    <3> QED BY <2>4, <3>1, <3>2, <3>3, <3>4, <3>5
  <2> QED BY <1>1, <1>2, <2>2, <2>5, AskedIs, ShownIs DEF Service!Update
<1>3. CASE s \notin DOMAIN store
  <2>1. UNCHANGED Shown
    BY <1>3, ShownStays DEF UpdateSet, storage
  <2>2. CASE Backend = "memory"
    <3>1. Reply(c, "failed")
      BY <1>3, <2>2 DEF UpdateSet
    <3>2. Service!Answer({c}, "failed")
      BY <1>1, <2>1, <3>1, AskedReplies DEF Service!Answer, Answers
    <3>3. {c} \in SUBSET DOMAIN Asked
      BY <1>1, AskedIs
    <3> QED BY <3>2, <3>3 DEF Service!Fail
  <2>3. CASE Backend # "memory"
    <3>1. Goto(c, "reload")
      BY <1>3, <2>3 DEF UpdateSet
    <3>2. Service!Pending(c, "update") /\ Service!Done(c)
      BY <1>1, <3>1, TakesEffect DEF Effective
    <3> QED BY <1>1, <1>3, <2>1, <3>2, AskedIs, ShownIs DEF Service!Update
  <2> QED BY <2>2, <2>3
<1> QED BY <1>2, <1>3

\* An append adds its batch and drops at most one, the oldest of a full store.
LEMMA StoredSet ==
    ASSUME NEW q \in Seq(Batch), NEW b \in Batch, Backend = "memory" => Len(q) <= StoreCap
    PROVE  \E lost \in {{}} \cup {{x} : x \in InSeq(q)} :
             /\ lost # {} => Backend = "memory"
             /\ InSeq(Stored(q, b)) = (InSeq(q) \ lost) \cup {b}
<1> DEFINE r == Append(q, b)
<1>1. /\ Len(r) = Len(q) + 1 /\ Len(q) \in Nat /\ r \in Seq(Batch)
      /\ \A i \in 1..Len(q) : r[i] = q[i]
      /\ r[Len(q) + 1] = b
  BY AppendProperties, LenProperties
<1>2. InSeq(r) = InSeq(q) \cup {b}
  BY InAppend
<1> HIDE DEF r
<1> DEFINE X == InSeq(q)
           Y == InSeq(Stored(q, b))
           Goal == \E lost \in {{}} \cup {{x} : x \in X} :
                      (lost # {} => Backend = "memory") /\ Y = (X \ lost) \cup {b}
<1>w. Y = X \cup {b} => Goal
  <2> HIDE DEF X, Y
  <2> SUFFICES ASSUME Y = X \cup {b} PROVE Goal
    OBVIOUS
  <2>1. Y = (X \ {}) \cup {b}
    OBVIOUS
  <2> QED BY <2>1
<1>3. CASE Backend = "postgres"
  <2>1. Y = X \cup {b}
    BY <1>2, <1>3 DEF Stored, r
  <2> QED BY ONLY <1>w, <2>1
<1>4. CASE Backend = "memory"
  <2>0. Stored(q, b) = Newest(StoreCap, r) /\ Len(q) <= StoreCap /\ StoreCap \in Nat \ {0}
    BY <1>4 DEF Stored, r
  <2>1. CASE Len(r) <= StoreCap
    <3>1. Y = X \cup {b}
      BY <1>2, <2>0, <2>1 DEF Newest
    <3> QED BY ONLY <1>w, <3>1
  <2>2. CASE ~(Len(r) <= StoreCap)
    <3> DEFINE n == Len(q)
               t == SubSeq(r, 2, n + 1)
    <3>1. n = StoreCap /\ n \in Nat \ {0} /\ Len(r) = n + 1
      BY <1>1, <2>0, <2>2
    <3>2. Stored(q, b) = t
      <4>1. Stored(q, b) = SubSeq(r, Len(r) - StoreCap + 1, Len(r))
        BY <2>0, <2>2 DEF Newest
      <4>2. Len(r) - StoreCap + 1 = 2
        BY <3>1
      <4> QED BY <3>1, <4>1, <4>2
    <3>3. Len(t) = n /\ \A i \in 1..n : t[i] = r[i + 1]
      BY <1>1, <3>1
    <3> HIDE DEF t, n
    <3>4. \A i \in 1..n : t[i] = IF i = n THEN b ELSE q[i + 1]
      <4>1. r[n + 1] = b /\ \A j \in 1..n : r[j] = q[j]
        BY <1>1 DEF n
      <4>2. \A i \in 1..n : i # n => i + 1 \in 1..n
        BY ONLY <3>1
      <4> QED BY ONLY <3>3, <4>1, <4>2
    <3>5. InSeq(t) = {q[i] : i \in 2..n} \cup {b}
      <4>1. ASSUME NEW x \in InSeq(t) PROVE x \in {q[i] : i \in 2..n} \cup {b}
        <5>1. PICK i \in 1..n : t[i] = x
          BY <3>3, <4>1 DEF InSeq
        <5>2. i = n \/ i + 1 \in 2..n
          BY <3>1
        <5> QED BY <3>4, <5>1, <5>2
      <4>2. ASSUME NEW i \in 2..n PROVE q[i] \in InSeq(t)
        <5>1. i - 1 \in 1..n /\ i - 1 # n /\ (i - 1) + 1 = i
          BY <3>1
        <5> QED BY <3>3, <3>4, <5>1 DEF InSeq
      <4>3. b \in InSeq(t)
        <5>1. n \in 1..n
          BY <3>1
        <5> QED BY <3>3, <3>4, <5>1 DEF InSeq
      <4> QED BY <4>1, <4>2, <4>3
    <3>6. InSeq(q) = {q[i] : i \in 2..n} \cup {q[1]}
      <4>1. 1..n = 2..n \cup {1}
        BY <3>1
      <4> QED BY <4>1 DEF InSeq, n
    <3>7. CASE q[1] \in {q[i] : i \in 2..n}
      <4>1. Y = X \cup {b}
        BY <3>2, <3>5, <3>6, <3>7
      <4> QED BY ONLY <1>w, <4>1
    <3>8. CASE q[1] \notin {q[i] : i \in 2..n}
      <4>1. InSeq(Stored(q, b)) = (InSeq(q) \ {q[1]}) \cup {b}
        BY <3>2, <3>5, <3>6, <3>8
      <4> QED BY <1>4, <3>6, <4>1
    <3> QED BY <3>7, <3>8
  <2> QED BY <2>1, <2>2
<1> QED BY <1>3, <1>4

LEMMA AppendIngests ==
    ASSUME TypeOK, IngestSends, Fits, NEW c \in Client, IngestAppend(c)
    PROVE  Service!Ingest(c) \/ Service!Fail
<1> DEFINE s == op[c].sid
           b == op[c].batch
<1>1. /\ At(c, "ingest", "append") /\ UNCHANGED used /\ c \in DOMAIN op /\ OpType
      /\ MapInto(store, Session, SessionRecord) /\ b \in Batch
  BY DEF IngestAppend, Aside, At, TypeOK, OpType, IngestSends, MapInto
<1>2. CASE s \in DOMAIN store
  <2>1. AppendEvents(s, b) /\ Goto(c, "feed")
    BY <1>2 DEF IngestAppend
  <2>2. Service!Pending(c, "ingest") /\ Service!Done(c)
    BY <1>1, <2>1, TakesEffect DEF Effective
  <2> DEFINE q == store[s].events
  <2>3. q \in Seq(Batch) /\ (Backend = "memory" => Len(q) <= StoreCap)
    BY <1>1, <1>2 DEF Fits, MapInto, SessionRecord
  <2>4. PICK lost \in {{}} \cup {{x} : x \in InSeq(q)} :
            /\ lost # {} => Backend = "memory"
            /\ InSeq(Stored(q, b)) = (InSeq(q) \ lost) \cup {b}
    <3> HIDE DEF q, b
    <3> QED BY <1>1, <2>3, StoredSet
  <2>5. /\ DOMAIN store' = DOMAIN store
        /\ \A x \in DOMAIN store : x # s => store'[x] = store[x]
        /\ store'[s].status = store[s].status /\ store'[s].ended = store[s].ended
        /\ store'[s].events = Stored(q, b)
    BY <1>1, <1>2, <2>1 DEF AppendEvents, MapInto, SessionRecord
  <2>6. Shown' = [Shown EXCEPT ![s].events = (@ \ lost) \cup {b}]
    <3>1. DOMAIN Shown' = DOMAIN Shown /\ \A x \in DOMAIN Shown : x # s => Shown'[x] = Shown[x]
      BY <2>5 DEF Shown
    <3>2. Shown'[s] = [status |-> store[s].status, ended |-> store[s].ended # Never,
                       events |-> InSeq(Stored(q, b))]
      BY <1>2, <2>5 DEF Shown
    <3>3. Shown' = [x \in DOMAIN Shown' |-> Shown'[x]] /\ Shown = [x \in DOMAIN Shown |-> Shown[x]]
      BY DEF Shown
    <3>4. /\ Shown[s] = [status |-> store[s].status, ended |-> store[s].ended # Never,
                         events |-> InSeq(q)]
          /\ s \in DOMAIN Shown
      BY <1>2, ShownIs
    <3> HIDE DEF s, b, q
    <3> QED BY <2>4, <3>1, <3>2, <3>3, <3>4
  <2>7. Shown[s].events = InSeq(q) /\ s \in DOMAIN Shown /\ Asked[c].sid = s /\ Asked[c].batch = b
    BY <1>1, <1>2, AskedIs, ShownIs
  <2> HIDE DEF s, b, q
  <2> QED BY <2>2, <2>4, <2>6, <2>7 DEF Service!Ingest
<1>3. CASE s \notin DOMAIN store
  <2>1. UNCHANGED Shown /\ Reply(c, "failed")
    BY <1>3, ShownStays DEF IngestAppend, storage
  <2>2. Service!Answer({c}, "failed")
    BY <1>1, <2>1, AskedReplies DEF Service!Answer, Answers
  <2>3. {c} \in SUBSET DOMAIN Asked
    BY <1>1, AskedIs
  <2> QED BY <2>2, <2>3 DEF Service!Fail
<1> QED BY <1>2, <1>3

LEMMA PurgeExpires ==
    ASSUME TypeOK, EndIsKept, PurgeRemove
    PROVE  (\E s \in Session : Service!Expire(s)) \/ UNCHANGED View
<1>1. PICK s \in purge.todo : Remove(s)
  BY DEF PurgeRemove
<1>2. UNCHANGED <<used, op, answer>>
  BY DEF PurgeRemove
<1>3. UNCHANGED Asked
  BY <1>2 DEF Asked
<1>4. Shown' = Service!Without(Shown, {s})
  BY <1>1 DEF Remove, Without, Service!Without, Shown
<1>5. CASE s \in DOMAIN store
  <2>1. s \in Session /\ s \in DOMAIN Shown /\ Shown[s].ended
    <3>1. s \in Session
      BY <1>1 DEF TypeOK
    <3>2. store[s].ended # Never
      BY <1>1, <1>5 DEF EndIsKept
    <3>3. Shown[s].ended = (store[s].ended # Never)
      BY <1>5, ShownIs
    <3>4. Shown[s].ended
      BY ONLY <3>2, <3>3
    <3> QED BY <1>5, <3>1, <3>4, ShownIs
  <2> QED BY <1>2, <1>3, <1>4, <2>1 DEF Service!Expire
<1>6. CASE s \notin DOMAIN store
  <2>1. Shown' = Shown
    BY <1>4, <1>6, ShownIs DEF Service!Without, Shown
  <2> QED BY <1>2, <1>3, <2>1 DEF View
<1> QED BY <1>5, <1>6

LEMMA ArriveAsks ==
    ASSUME TypeOK, TypeOK', NEW c \in Client, Arrive(c)
    PROVE  Service!Ask(c)
<1>1. PICK r : /\ Begin(c, r)
               /\ r.pc \in {"save", "load", "check", "lookup"}
               /\ r.kind = "create" => r.sid \notin used /\ used' = used \cup {r.sid}
               /\ r.kind # "create" => r.sid \in used /\ used' = used
  BY ArriveBegins
<1> DEFINE x == [kind |-> r.kind, sid |-> r.sid, batch |-> r.batch, to |-> r.to, done |-> FALSE]
<1>2. c \notin DOMAIN op /\ op'[c] = r /\ c \in DOMAIN op' /\ answer' = [answer EXCEPT ![c] = "none"]
  BY <1>1 DEF Begin, Put
<1>3. r \in Suspended
  BY <1>2 DEF TypeOK, MapInto
<1>4. Asked' = Service!Put(Asked, c, x)
  BY <1>1, AskedBegins DEF Effective
<1>5. x \in Service!Request
  BY <1>3 DEF Service!Request, Suspended, Kinds
<1>6. x.kind = r.kind /\ x.sid = r.sid
  OBVIOUS
<1>7. UNCHANGED Shown
  <2>1. UNCHANGED store
    BY DEF Arrive, CreateStart, DeleteStart, UpdateStart, IngestStart, TimelineStart, storage
  <2> QED BY <2>1, ShownStays
<1>8. c \notin DOMAIN Asked
  BY <1>2 DEF Asked
<1> HIDE DEF x
<1>9. (x.kind = "create" <=> x.sid \notin used) /\ used' = used \cup {x.sid}
  BY <1>1, <1>6
<1> QED BY <1>2, <1>4, <1>5, <1>7, <1>8, <1>9 DEF Service!Ask

\* The step of a handler after which its client waits as before.
Idles(c) == \E pc : Goto(c, pc) /\ (pc \in Effective <=> op[c].pc \in Effective)

LEMMA IdleIsHidden ==
    ASSUME OpType, NEW c \in DOMAIN op, Idles(c), UNCHANGED <<store, used>>
    PROVE  UNCHANGED View
BY AskedStays, ShownStays DEF Idles, View, Goto

LEMMA ReplyAnswers ==
    ASSUME OpType, NEW c \in Client, NEW a \in Answers, Reply(c, a), UNCHANGED <<store, used>>
    PROVE  Service!Answer({c}, a)
BY AskedReplies, ShownStays DEF Service!Answer

\* Success is answered after the effect, and an update with its session.
LEMMA DoneSucceeds ==
    ASSUME TypeOK, NEW c \in Client, UNCHANGED <<store, used>>,
           CreateDone(c) \/ DeleteDone(c) \/ IngestFeed(c) \/ (UpdateDone(c) /\ op[c].sid \in DOMAIN store)
    PROVE  Service!Succeed(c)
<1>1. c \in DOMAIN op /\ op[c].pc \in Effective /\ op[c].kind # "timeline"
  BY DEF CreateDone, DeleteDone, IngestFeed, UpdateDone, At, Effective
<1>2. op[c].kind = "update" => op[c].sid \in DOMAIN store
  BY DEF CreateDone, DeleteDone, IngestFeed, UpdateDone, At
<1>3. Reply(c, "ok")
  BY DEF CreateDone, DeleteDone, IngestFeed, UpdateDone
<1>4. OpType /\ "ok" \in Answers
  BY DEF TypeOK, OpType, Answers
<1>5. Service!Answer({c}, "ok")
  BY <1>3, <1>4, ReplyAnswers
<1> QED BY <1>1, <1>2, <1>5, AskedIs, ShownIs DEF Service!Succeed

\* A session that a handler does not find is not there when its client is told.
LEMMA LookupAnswers ==
    ASSUME TypeOK, NEW c \in Client, UNCHANGED <<store, used>>,
           \/ DeleteLoad(c) \/ UpdateLoad(c) \/ IngestCheck(c) \/ IngestLoad(c)
           \/ UpdateDone(c) /\ op[c].sid \notin DOMAIN store
    PROVE  Service!NotFound(c) \/ UNCHANGED View
<1>1. c \in DOMAIN op /\ OpType /\ {"missing", "empty"} \subseteq Answers /\ op[c] \in Suspended
  BY DEF DeleteLoad, UpdateLoad, IngestCheck, IngestLoad, UpdateDone, At, TypeOK, OpType, Answers, MapInto
<1>2. /\ op[c].kind \in {"delete", "update", "ingest"}
      /\ op[c].pc \in Effective => op[c].kind = "update"
  BY DEF DeleteLoad, UpdateLoad, IngestCheck, IngestLoad, UpdateDone, At, Effective
<1>3. CASE op[c].sid \notin DOMAIN store
  <2>1. Reply(c, "missing") \/ (op[c].kind = "ingest" /\ Reply(c, "empty"))
    BY <1>3 DEF DeleteLoad, UpdateLoad, IngestCheck, IngestLoad, UpdateDone, At
  <2>2. \/ Service!Answer({c}, "missing")
        \/ op[c].kind = "ingest" /\ Service!Answer({c}, "empty")
    BY <1>1, <2>1, ReplyAnswers
  <2> QED BY <1>1, <1>2, <1>3, <2>2, AskedIs, ShownIs DEF Service!NotFound
<1>4. CASE op[c].sid \in DOMAIN store
  <2>1. CASE DeleteLoad(c) \/ IngestCheck(c) \/ IngestLoad(c)
    <3>1. Idles(c)
      BY <1>4, <2>1 DEF DeleteLoad, IngestCheck, IngestLoad, At, Idles, Effective
    <3> QED BY <1>1, <3>1, IdleIsHidden
  <2>2. CASE UpdateLoad(c)
    <3>1. /\ op' = [op EXCEPT ![c].pc = "found", ![c].from = store[op[c].sid].status]
          /\ UNCHANGED answer /\ op[c].pc = "load"
      BY <1>4, <2>2 DEF UpdateLoad, At
    <3>2. /\ DOMAIN op' = DOMAIN op
          /\ \A d \in DOMAIN op : d # c => op'[d] = op[d]
          /\ op'[c].kind = op[c].kind /\ op'[c].sid = op[c].sid /\ op'[c].batch = op[c].batch
          /\ op'[c].to = op[c].to /\ op'[c].pc = "found"
      BY <1>1, <3>1 DEF Suspended
    <3>3. \A d \in DOMAIN op : op'[d].pc \in Effective <=> op[d].pc \in Effective
      BY <3>1, <3>2 DEF Effective
    <3>4. Asked' = Asked
      <4>1. \A d \in DOMAIN op : /\ op'[d].kind = op[d].kind /\ op'[d].sid = op[d].sid
                                 /\ op'[d].batch = op[d].batch /\ op'[d].to = op[d].to
        BY <3>2
      <4> QED BY <3>2, <3>3, <4>1 DEF Asked, Effective
    <3> QED BY <3>1, <3>4, ShownStays DEF View
  <2> QED BY <1>4, <2>1, <2>2
<1> QED BY <1>3, <1>4

\* The answer to everyone who waits for a rebuild.
LEMMA SettleShows ==
    ASSUME TypeOK, TimelinesWait, NEW s \in Session, NEW a, Settle(s, a), UNCHANGED <<store, used>>
    PROVE  /\ a \in {"ok", "missing"} => Service!Show(s)
           /\ a = "failed" => Service!Fail
<1> DEFINE W == Waiting(s)
<1>1. W \in SUBSET {c \in DOMAIN Asked : Asked[c].kind = "timeline" /\ Asked[c].sid = s}
  BY AskedIs DEF Waiting, TimelinesWait
<1>2. Asked' = Service!Without(Asked, W)
  BY DEF Settle, Without, Service!Without, Asked
<1>3. answer' = [c \in Client |-> IF c \in W THEN a ELSE answer[c]]
  BY DEF Settle
<1>4. Service!Answer(W, a)
  BY <1>2, <1>3, ShownStays DEF Service!Answer
<1> HIDE DEF W
<1> QED BY <1>1, <1>4 DEF Service!Show, Service!Fail

LEMMA HitShows ==
    ASSUME TypeOK, NEW c \in Client, NEW a \in {"ok", "missing"}, UNCHANGED <<store, used>>,
           c \in DOMAIN op, op[c].kind = "timeline", Reply(c, a)
    PROVE  Service!Show(op[c].sid)
<1>1. Service!Answer({c}, a)
  BY ReplyAnswers DEF TypeOK, OpType, Answers
<1>2. {c} \in SUBSET {d \in DOMAIN Asked : Asked[d].kind = "timeline" /\ Asked[d].sid = op[c].sid}
  BY AskedIs
<1> QED BY <1>1, <1>2 DEF Service!Show

LEMMA StepServes ==
    ASSUME TypeOK, TypeOK', IngestSends, IdsAreFresh, TimelinesWait, EndIsKept, Fits, [Next]_vars
    PROVE  [Service!Next]_(Service!vars)
<1> SUFFICES Service!Next \/ UNCHANGED View
  BY DEF Service!vars, View
<1> USE DEF Aside
<1>0. OpType /\ "failed" \in Answers
  BY DEF TypeOK, OpType, Answers
<1>1. ASSUME NEW c \in Client, Arrive(c) PROVE Service!Next
  BY <1>1, ArriveAsks DEF Service!Next
<1>2. ASSUME NEW c \in Client, CreateSave(c) \/ DeleteRemove(c) \/ UpdateSet(c) \/ IngestAppend(c)
      PROVE  Service!Next
  BY <1>2, SaveCreates, RemoveDeletes, SetUpdates, AppendIngests DEF Service!Next
<1>3. ASSUME NEW c \in Client, CreateDone(c) \/ DeleteDone(c) \/ IngestFeed(c) \/ UpdateDone(c)
      PROVE  Service!Next \/ UNCHANGED View
  <2>1. UNCHANGED <<store, used>>
    BY <1>3 DEF CreateDone, DeleteDone, IngestFeed, UpdateDone, storage
  <2> QED BY <1>3, <2>1, DoneSucceeds, LookupAnswers DEF Service!Next
<1>4. ASSUME NEW c \in Client, DeleteLoad(c) \/ UpdateLoad(c) \/ IngestCheck(c) \/ IngestLoad(c)
      PROVE  Service!Next \/ UNCHANGED View
  <2>1. UNCHANGED <<store, used>>
    BY <1>4 DEF DeleteLoad, UpdateLoad, IngestCheck, IngestLoad, storage
  <2> QED BY <1>4, <2>1, LookupAnswers DEF Service!Next
<1>5. ASSUME NEW c \in Client, UpdateGauge(c) PROVE UNCHANGED View
  <2>1. UNCHANGED <<store, used>> /\ c \in DOMAIN op /\ Idles(c)
    BY <1>5 DEF UpdateGauge, At, Idles, Effective, storage
  <2> QED BY <1>0, <2>1, IdleIsHidden
<1>6. ASSUME NEW c \in Client, TimelineHit(c) \/ TimelineMiss(c)
      PROVE  Service!Next \/ UNCHANGED View
  <2>1. /\ UNCHANGED <<store, used>> /\ c \in DOMAIN op
        /\ op[c].kind = "timeline" /\ op[c].sid \in Session
    BY <1>6 DEF TimelineHit, TimelineMiss, At, storage, TypeOK, MapInto, Suspended
  <2>2. Reply(c, "ok") \/ Reply(c, "missing") \/ Idles(c)
    BY <1>6 DEF TimelineHit, TimelineMiss, At, Idles, Effective
  <2> QED BY <1>0, <2>1, <2>2, HitShows, IdleIsHidden DEF Service!Next
<1>7. ASSUME NEW s \in Session, Rebuild(s) \/ RebuildThrows(s)
      PROVE  Service!Next \/ UNCHANGED View
  <2>1. UNCHANGED <<store, used>>
    BY <1>7 DEF Rebuild, RebuildLoad, RebuildRead, RebuildSet, RebuildThrows, storage
  <2>2. \/ Settle(s, "ok") \/ Settle(s, "missing") \/ Settle(s, "failed")
        \/ UNCHANGED <<op, answer>>
    BY <1>7 DEF Rebuild, RebuildLoad, RebuildRead, RebuildSet, RebuildThrows
  <2>3. UNCHANGED <<op, answer>> => UNCHANGED View
    BY <2>1, ShownStays DEF View, Asked
  <2> QED BY <2>1, <2>2, <2>3, SettleShows DEF Service!Next
<1>8. ASSUME NEW c \in Client, RequestThrows(c) PROVE Service!Next
  <2>1. UNCHANGED <<store, used>> /\ Reply(c, "failed") /\ c \in DOMAIN op
    BY <1>8 DEF RequestThrows, storage
  <2>2. Service!Answer({c}, "failed") /\ {c} \in SUBSET DOMAIN Asked
    BY <1>0, <2>1, ReplyAnswers, AskedIs
  <2> QED BY <2>2 DEF Service!Next, Service!Fail
<1>9. CASE PurgeRemove
  BY <1>9, PurgeExpires DEF Service!Next
<1>10. CASE Restart
  <2>1. UNCHANGED <<store, used>> /\ op' = NoKeys
    BY <1>10 DEF Restart, storage
  <2>2. Asked' = Service!Without(Asked, DOMAIN Asked)
    BY <2>1 DEF Asked, Service!Without, NoKeys
  <2>3. answer' = [c \in Client |-> IF c \in DOMAIN Asked THEN "failed" ELSE answer[c]]
    BY <1>10 DEF Restart, Asked
  <2>4. Service!Answer(DOMAIN Asked, "failed")
    BY <2>1, <2>2, <2>3, ShownStays DEF Service!Answer
  <2> QED BY <2>4 DEF Service!Next, Service!Fail
<1>11. CASE PurgeList \/ PurgeForget \/ PurgeThrows \/ Tick \/ UNCHANGED vars
  <2>1. UNCHANGED <<store, used, op, answer>>
    BY <1>11 DEF PurgeList, PurgeForget, PurgeThrows, Tick, storage, vars
  <2> QED BY <2>1, ShownStays DEF View, Asked
<1> QED
  BY <1>1, <1>2, <1>3, <1>4, <1>5, <1>6, <1>7, <1>8, <1>9, <1>10, <1>11 DEF Next, Handle, Purge

\* The session manager implements SessionService for any sessions, clients,
\* caps and faults, on either storage: a request takes effect at most once and
\* atomically, success and 404 are answered only when they are true, and what
\* was acknowledged goes away only by a delete, a purge or the memory
\* adapter's caps.
THEOREM ServesItsClients == Spec => ImplementsService
<1>1. Init => Service!Init
  BY DEF Init, Service!Init, NoKeys, Service!NoKeys, Shown, Asked
<1> DEFINE ServiceInv == IngestSends /\ IdsAreFresh /\ PurgeInv /\ TimelinesWait /\ EndIsKept /\ Fits
<1>2. Init => ServiceInv
  <2>1. Init => IngestSends /\ IdsAreFresh /\ PurgeInv /\ TimelinesWait /\ EndIsKept
    BY DEF Init, IngestSends, IdsAreFresh, PurgeInv, TimelinesWait, EndIsKept, NoKeys, NoPurge
  <2>2. Init => Fits
    BY DEF Init, Fits, Lists, Distinct, InSeq, NoKeys
  <2> QED BY <2>1, <2>2
<1>3. TypeOK /\ ServiceInv /\ [Next]_vars => ServiceInv'
  BY StepIngestSends, StepIdsAreFresh, StepPurgeInv, StepTimelinesWait, StepEndIsKept, StepFits
<1>4. TypeOK /\ TypeOK' /\ ServiceInv /\ [Next]_vars => [Service!Next]_(Service!vars)
  BY StepServes
<1> HIDE DEF ServiceInv
<1> QED BY <1>1, <1>2, <1>3, <1>4, TypeCorrect, PTL DEF Spec, ImplementsService, Service!Spec

=============================================================================
