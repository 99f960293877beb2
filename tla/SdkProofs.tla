------------------------------ MODULE SdkProofs ------------------------------
(***************************************************************************)
(* Proofs about Sdk, for every set of handlers, requests, owners, calls,   *)
(* XMLHttpRequests and messages, and every cap, window and bound.          *)
(***************************************************************************)
EXTENDS Sdk, FiniteSetTheorems, SequenceTheorems, WellFoundedInduction, TLAPS

-----------------------------------------------------------------------------
(* The patches *)

\* Unless something was put back under a newer wrapper, each wrapper on the
\* method belongs to an owner that will put back exactly what is below it, and
\* there is no other owner.
Stack ==
    /\ \A i \in 1..Len(layers) :
         layers[i] \in DOMAIN saved /\ saved[layers[i]] = SubSeq(layers, 1, i - 1)
    /\ \A o \in DOMAIN saved : \E i \in 1..Len(layers) : layers[i] = o

\* The patches of a pool or a client of which there is one at most.
Single ==
    \/ saved = NoKeys /\ layers = <<>>
    \/ \E o \in Owner : DOMAIN saved = {o} /\ saved[o] = <<>> /\ layers = <<o>>

PatchesInv ==
    /\ layers \in Seq(Owner)
    /\ \A o \in DOMAIN saved : saved[o] \in Seq(Owner)
    /\ ~crossed => Stack
    /\ target \in {"mysql", "redis"} => Single

LEMMA WrapStacks ==
    ASSUME PatchesInv, NEW o \in Owner, o \notin DOMAIN saved, Wrap(o),
           target \in {"mysql", "redis"} => saved = NoKeys
    PROVE  PatchesInv'
<1> DEFINE n == Len(layers)
<1>1. /\ layers' = Append(layers, o) /\ crossed' = crossed /\ target' = target
      /\ saved' = [x \in DOMAIN saved \cup {o} |-> IF x = o THEN layers ELSE saved[x]]
  BY DEF Wrap, Put
<1>2. /\ layers \in Seq(Owner) /\ layers' \in Seq(Owner) /\ n \in Nat /\ Len(layers') = n + 1
      /\ layers'[n + 1] = o /\ \A i \in 1..n : layers'[i] = layers[i]
  BY <1>1, AppendProperties, LenProperties DEF PatchesInv
<1>3. \A x \in DOMAIN saved' : saved'[x] \in Seq(Owner)
  BY <1>1, <1>2 DEF PatchesInv
<1>4. ASSUME ~crossed' PROVE Stack'
  <2>1. Stack
    BY <1>1, <1>4 DEF PatchesInv
  <2>2. ASSUME NEW i \in 1..(n + 1)
        PROVE  layers'[i] \in DOMAIN saved' /\ saved'[layers'[i]] = SubSeq(layers', 1, i - 1)
    <3>1. CASE i = n + 1
      <4>1. SubSeq(layers', 1, n) = layers
        BY <1>1, <1>2
      <4> QED BY <3>1, <4>1, <1>1, <1>2
    <3>2. CASE i \in 1..n
      <4>1. SubSeq(layers', 1, i - 1) = SubSeq(layers, 1, i - 1)
        BY <3>2, <1>1, <1>2
      <4> QED BY <3>2, <4>1, <2>1, <1>1, <1>2 DEF Stack
    <3> QED BY <3>1, <3>2, <1>2
  <2>3. ASSUME NEW x \in DOMAIN saved'
        PROVE  \E i \in 1..(n + 1) : layers'[i] = x
    BY <2>1, <1>1, <1>2 DEF Stack
  <2> QED BY <2>2, <2>3, <1>2 DEF Stack
<1>5. ASSUME target \in {"mysql", "redis"} PROVE Single'
  <2>1. saved = NoKeys /\ Single
    BY <1>5 DEF PatchesInv
  <2>2. DOMAIN saved = {} /\ layers = <<>>
    BY <2>1 DEF Single, NoKeys
  <2>3. layers' = <<o>> /\ DOMAIN saved' = {o} /\ saved'[o] = <<>>
    BY <1>1, <2>2
  <2> QED BY <2>3 DEF Single
<1> QED BY <1>1, <1>2, <1>3, <1>4, <1>5 DEF PatchesInv

LEMMA PutBackUnstacks ==
    ASSUME PatchesInv, NEW o \in Owner, PutBack(o)
    PROVE  PatchesInv'
<1>1. /\ o \in DOMAIN saved /\ layers' = saved[o] /\ target' = target
      /\ saved' = [x \in DOMAIN saved \ {o} |-> saved[x]]
      /\ crossed' = (crossed \/ layers # Append(saved[o], o))
  BY DEF PutBack, Without
<1> DEFINE n == Len(layers')
<1>2. layers' \in Seq(Owner) /\ n \in Nat /\ layers \in Seq(Owner)
  BY <1>1, LenProperties DEF PatchesInv
<1>3. \A x \in DOMAIN saved' : saved'[x] \in Seq(Owner)
  BY <1>1 DEF PatchesInv
<1>4. ASSUME ~crossed' PROVE Stack'
  <2>1. Stack /\ layers = Append(layers', o)
    BY <1>1, <1>4 DEF PatchesInv
  <2>2. /\ Len(layers) = n + 1 /\ layers[n + 1] = o
        /\ \A i \in 1..n : layers[i] = layers'[i]
    BY <2>1, <1>2, AppendProperties
  <2>3. \A i \in 1..n : layers[i] # o
    <3> SUFFICES ASSUME NEW i \in 1..n, layers[i] = o PROVE FALSE
      OBVIOUS
    <3>1. i \in 1..Len(layers) /\ saved[layers[i]] = SubSeq(layers, 1, i - 1)
      <4>1. i \in 1..Len(layers)
        BY <2>2, <1>2
      <4> QED BY <4>1, <2>1 DEF Stack
    <3>2. Len(SubSeq(layers, 1, i - 1)) = i - 1
      BY <1>2, <2>2
    <3> QED BY <3>1, <3>2, <1>1, <1>2
  <2>4. ASSUME NEW i \in 1..n
        PROVE  layers'[i] \in DOMAIN saved' /\ saved'[layers'[i]] = SubSeq(layers', 1, i - 1)
    <3>1. SubSeq(layers', 1, i - 1) = SubSeq(layers, 1, i - 1)
      BY <2>1, <2>2, <1>2
    <3>2. i \in 1..Len(layers) /\ layers[i] = layers'[i] /\ layers[i] # o
      BY <2>2, <2>3, <1>2
    <3>3. layers[i] \in DOMAIN saved /\ saved[layers[i]] = SubSeq(layers, 1, i - 1)
      BY <2>1, <3>2 DEF Stack
    <3> QED BY <3>1, <3>2, <3>3, <1>1
  <2>5. ASSUME NEW x \in DOMAIN saved'
        PROVE  \E i \in 1..n : layers'[i] = x
    <3>1. PICK i \in 1..(n + 1) : layers[i] = x
      BY <2>1, <2>2, <1>1 DEF Stack
    <3>2. i \in 1..n
      BY <3>1, <2>2, <1>1, <1>2
    <3> QED BY <3>1, <3>2, <2>2
  <2> QED BY <2>4, <2>5 DEF Stack
<1>5. ASSUME target \in {"mysql", "redis"} PROVE Single'
  <2>1. DOMAIN saved = {o} /\ saved[o] = <<>>
    BY <1>1, <1>5 DEF PatchesInv, Single, NoKeys
  <2>2. saved' = NoKeys /\ layers' = <<>>
    BY <2>1, <1>1 DEF NoKeys
  <2> QED BY <2>2 DEF Single
<1> QED BY <1>1, <1>2, <1>3, <1>4, <1>5 DEF PatchesInv

LEMMA PatchesKept ==
    ASSUME PatchesInv, UNCHANGED <<target, layers, saved, crossed>>
    PROVE  PatchesInv'
BY DEF PatchesInv, Stack, Single

LEMMA PatchesStep ==
    ASSUME PatchesInv, InsNext
    PROVE  PatchesInv'
<1>1. CASE \E o \in Owner : \/ WrapPgPool(o) \/ WrapMysqlPool(o) \/ WrapRedisClient(o)
                            \/ WrapMongoClient(o) \/ WrapConsole(o) \/ InstallConsole(o)
  BY <1>1, WrapStacks DEF WrapPgPool, WrapMysqlPool, WrapRedisClient, WrapMongoClient,
       WrapConsole, InstallConsole, NoKeys
<1>2. CASE \E o \in Owner : UnwrapMysqlPool(o) \/ UnwrapRedisClient(o) \/ UnwrapMongoClient(o) \/ Restore(o)
  BY <1>2, PutBackUnstacks DEF UnwrapMysqlPool, UnwrapRedisClient, UnwrapMongoClient, Restore
<1>3. CASE \E c \in Call : \/ \E style \in Style : Invoke(c, style)
                           \/ \E outcome \in Outcome : Settle(c, outcome)
  BY <1>3, PatchesKept DEF Invoke, Settle
<1> QED BY <1>1, <1>2, <1>3 DEF InsNext

LEMMA PatchesInit == ASSUME Init PROVE PatchesInv
BY DEF Init, InsInit, PatchesInv, Stack, Single, NoKeys

LEMMA PatchesNext == ASSUME PatchesInv, [Next]_vars PROVE PatchesInv'
<1>1. CASE Patches
  BY <1>1, PatchesStep DEF Patches
<1>2. CASE Requests \/ Network \/ Errors \/ UNCHANGED vars
  BY <1>2, PatchesKept DEF Requests, Network, Errors, vars, insVars
<1> QED BY <1>1, <1>2 DEF Next

LEMMA PatchesUndone == ASSUME PatchesInv PROVE OriginalsComeBack
<1> SUFFICES ASSUME saved = NoKeys, ~crossed PROVE layers = <<>>
  BY DEF OriginalsComeBack
<1>1. DOMAIN saved = {} /\ Stack /\ layers \in Seq(Owner)
  BY DEF PatchesInv, NoKeys
<1>2. Len(layers) = 0
  BY <1>1, LenProperties DEF Stack
<1> QED BY <1>1, <1>2, EmptySeq

\* Whatever was wrapped, unwrapped and called, in any order that takes a wrapper
\* off before an older one: when every owner has put back what it found, the
\* method is the original again.
THEOREM OriginalsRestored == Spec => []OriginalsComeBack
<1>1. Spec => []PatchesInv
  BY PatchesInit, PatchesNext, PTL DEF Spec
<1> QED BY <1>1, PatchesUndone, PTL

-----------------------------------------------------------------------------
(* The calls of what is patched *)

Events == [type : {"db-query", "cache-op", "custom"}, failed : BOOLEAN, request : Call \cup {None}]

\* pool.query with a callback is reported before it ends.
Early(c) == target = "pg" /\ calls[c].style = "callback"

\* Nothing is reported of a call that is not made or, one with a callback on a
\* pg pool apart, under way; and a call on what only one owner patches goes
\* through one wrapper at most.
CallsInv ==
    /\ target \in Target
    /\ reports \in [Call -> Seq(Events)]
    /\ \A c \in DOMAIN calls :
         /\ c \in Call
         /\ calls[c] \in [style : Styles(target), via : Seq(Owner), outcome : Outcome \cup {None}]
         /\ target \in {"mysql", "redis"} => Len(calls[c].via) <= 1
         /\ calls[c].outcome = None /\ ~Early(c) => reports[c] = <<>>
    /\ \A c \in Call : c \notin DOMAIN calls => reports[c] = <<>>
    /\ CallsReportedOnce

LEMMA Copies ==
    ASSUME NEW via \in Seq(Owner), NEW e \in Events, NEW s \in Seq(Events)
    PROVE  LET k == [i \in 1..Len(via) |-> e]
           IN  /\ k \in Seq(Events) /\ Len(k) = Len(via) /\ s \o k \in Seq(Events)
               /\ s = <<>> => s \o k = k
               /\ \A x \in Range(k) : x = e
<1> DEFINE k == [i \in 1..Len(via) |-> e]
<1>1. Len(via) \in Nat
  BY LenProperties
<1>2. k \in Seq(Events) /\ Len(k) = Len(via)
  BY <1>1
<1>3. s \o k \in Seq(Events) /\ <<>> \o k = k
  BY <1>2, ConcatProperties, ConcatEmptySeq
<1>4. \A x \in Range(k) : x = e
  BY DEF Range
<1> QED BY <1>2, <1>3, <1>4

LEMMA EventTyped ==
    ASSUME NEW outcome \in Outcome, NEW r \in Call \cup {None}
    PROVE  Event(outcome, r) \in Events
<1>1. /\ [type |-> "db-query", failed |-> TRUE, request |-> r] \in Events
      /\ [type |-> "cache-op", failed |-> TRUE, request |-> r] \in Events
  BY DEF Events
<1>2. /\ [type |-> "db-query", failed |-> FALSE, request |-> r] \in Events
      /\ [type |-> "cache-op", failed |-> FALSE, request |-> r] \in Events
      /\ [type |-> "custom", failed |-> FALSE, request |-> r] \in Events
  BY DEF Events
<1>3. (outcome # "ok") = TRUE \/ (outcome # "ok") = FALSE
  OBVIOUS
<1> QED BY <1>1, <1>2, <1>3, Zenon DEF Event, PgEvent, MysqlEvent, MongoEvent, RedisEvent, LogEvent

LEMMA CallsKept ==
    ASSUME CallsInv, UNCHANGED <<target, calls, reports>>
    PROVE  CallsInv'
BY DEF CallsInv, CallsReportedOnce, Styles, Early

LEMMA InvokeCalls ==
    ASSUME CallsInv, PatchesInv, NEW c \in Call, NEW style \in Style, Invoke(c, style)
    PROVE  CallsInv'
<1> DEFINE early == target = "pg" /\ style = "callback"
<1>0. PICK outcome \in {None, "throws"} :
         /\ ~early => outcome = None
         /\ calls' = Put(calls, c, [style |-> style, via |-> layers, outcome |-> outcome])
         /\ IF early
            THEN EachEmits(c, layers, PgEvent(IF outcome = None THEN "ok" ELSE outcome, c))
            ELSE UNCHANGED reports
  BY DEF Invoke
<1>1. /\ c \notin DOMAIN calls /\ style \in Styles(target) /\ target' = target
      /\ DOMAIN calls' = DOMAIN calls \cup {c}
      /\ calls'[c] = [style |-> style, via |-> layers, outcome |-> outcome]
      /\ \A d \in DOMAIN calls : calls'[d] = calls[d]
  BY <1>0 DEF Invoke, Put
<1>2. layers \in Seq(Owner) /\ (target \in {"mysql", "redis"} => Len(layers) <= 1)
  <2>1. Single => Len(layers) <= 1
    <3>1. ASSUME NEW o \in Owner, layers = <<o>> PROVE Len(layers) <= 1
      BY <3>1
    <3>2. ASSUME layers = <<>> PROVE Len(layers) <= 1
      BY <3>2
    <3> QED BY <3>1, <3>2, Zenon DEF Single
  <2> QED BY <2>1 DEF PatchesInv
<1>3. reports[c] = <<>> /\ None \notin Outcome
  BY <1>1, PatchAssumption DEF CallsInv, Outcome
<1>4. /\ reports' \in [Call -> Seq(Events)]
      /\ \A d \in Call \ {c} : reports'[d] = reports[d]
      /\ ~(target = "pg" /\ style = "callback") => reports'[c] = <<>>
  <2>1. CASE target = "pg" /\ style = "callback"
    <3> DEFINE e == PgEvent(IF outcome = None THEN "ok" ELSE outcome, c)
    <3>1. e \in Events
      BY <2>1, <1>0, EventTyped DEF Event, Outcome
    <3>2. EachEmits(c, layers, e)
      BY <1>0, <2>1
    <3> HIDE DEF e
    <3>3. <<>> \o [i \in 1..Len(layers) |-> e] \in Seq(Events)
      BY <3>1, <1>2, <1>3, Copies DEF CallsInv
    <3> QED BY <2>1, <3>2, <3>3, <1>3 DEF EachEmits, CallsInv
  <2>2. CASE ~(target = "pg" /\ style = "callback")
    BY <2>2, <1>0, <1>3 DEF CallsInv
  <2> QED BY <2>1, <2>2
<1>5. CallsReportedOnce'
  <2> SUFFICES ASSUME NEW d \in DOMAIN calls'
               PROVE  /\ target' \in {"mysql", "redis"} => Len(reports'[d]) <= 1
                      /\ calls'[d].style = "promise" =>
                          /\ calls'[d].outcome = None => reports'[d] = <<>>
                          /\ calls'[d].outcome \in {"ok", "error"} => Len(reports'[d]) = Len(calls'[d].via)
                          /\ \A e \in Range(reports'[d]) :
                              e.request = d /\ e.failed = (calls'[d].outcome # "ok")
    BY DEF CallsReportedOnce
  <2>1. CASE d # c
    BY <2>1, <1>1, <1>4 DEF CallsInv, CallsReportedOnce
  <2>2. CASE d = c
    <3>1. Range(<<>>) = {} /\ Len(<<>>) = 0
      BY DEF Range
    <3>2. style = "promise" => outcome = None
      BY <1>0
    <3>3. target \in {"mysql", "redis"} => reports'[c] = <<>>
      BY <1>4
    <3> QED BY <3>1, <3>2, <3>3, <2>2, <1>1, <1>3, <1>4 DEF Outcome
  <2> QED BY <2>1, <2>2
<1>6. ASSUME NEW d \in DOMAIN calls'
      PROVE  /\ d \in Call
             /\ calls'[d] \in [style : Styles(target'), via : Seq(Owner), outcome : Outcome \cup {None}]
             /\ target' \in {"mysql", "redis"} => Len(calls'[d].via) <= 1
             /\ calls'[d].outcome = None /\ ~(Early(d))' => reports'[d] = <<>>
  <2>1. CASE d # c
    BY <2>1, <1>1, <1>4 DEF CallsInv, Early
  <2>2. CASE d = c
    <3>1. calls'[c].outcome \in Outcome \cup {None}
      BY <1>0, <1>1 DEF Outcome
    <3> QED BY <3>1, <2>2, <1>0, <1>1, <1>2, <1>4 DEF Early
  <2> QED BY <2>1, <2>2
<1>7. Styles(target') = (Styles(target))'
  BY DEF Styles
<1> QED BY <1>1, <1>4, <1>5, <1>6, <1>7 DEF CallsInv

LEMMA SettleCalls ==
    ASSUME CallsInv, NEW c \in Call, NEW outcome \in Outcome, Settle(c, outcome)
    PROVE  CallsInv'
<1> DEFINE style == calls[c].style
           via == calls[c].via
<1>1. /\ c \in DOMAIN calls /\ calls[c].outcome = None /\ target' = target
      /\ calls[c] \in [style : Styles(target), via : Seq(Owner), outcome : Outcome \cup {None}]
      /\ target \in Target
      /\ target \in {"mysql", "redis"} => Len(via) <= 1
  BY DEF Settle, CallsInv
<1>2. /\ DOMAIN calls' = DOMAIN calls
      /\ calls'[c] = [calls[c] EXCEPT !.outcome = outcome]
      /\ \A d \in DOMAIN calls \ {c} : calls'[d] = calls[d]
  BY DEF Settle
<1>3. /\ calls'[c].style = style /\ calls'[c].via = via /\ calls'[c].outcome = outcome
      /\ calls'[c] \in [style : Styles(target), via : Seq(Owner), outcome : Outcome \cup {None}]
  BY <1>1, <1>2
<1>4. outcome # None
  BY PatchAssumption DEF Outcome
<1>5. /\ reports' \in [Call -> Seq(Events)]
      /\ \A d \in Call \ {c} : reports'[d] = reports[d]
      /\ target \in {"mysql", "redis"} => Len(reports'[c]) <= 1
      /\ style = "promise" =>
           /\ outcome \in {"ok", "error"} => Len(reports'[c]) = Len(via)
           /\ \A e \in Range(reports'[c]) : e.request = c /\ e.failed = (outcome # "ok")
  <2>1. CASE Reports(style, outcome)
    <3>1. PICK r \in CurrentRequestIds(c, style) :
             reports' = [reports EXCEPT ![c] = @ \o [i \in 1..Len(via) |-> Event(outcome, r)]]
      BY <2>1 DEF Settle, EachEmits
    <3>2. ~Early(c) /\ reports[c] = <<>>
      BY <1>1, <2>1 DEF CallsInv, Reports, Early
    <3>3. Event(outcome, r) \in Events
      BY <3>1, EventTyped DEF CurrentRequestIds
    <3>4. style = "promise" => Event(outcome, r).request = c /\ Event(outcome, r).failed = (outcome # "ok")
      BY <3>1, <1>1 DEF Event, PgEvent, MysqlEvent, MongoEvent, RedisEvent, LogEvent, CurrentRequestIds, Styles, Target
    <3> DEFINE k == [i \in 1..Len(via) |-> Event(outcome, r)]
    <3>5. /\ k \in Seq(Events) /\ Len(k) = Len(via) /\ <<>> \o k = k
          /\ \A x \in Range(k) : x = Event(outcome, r)
      <4>1. via \in Seq(Owner) /\ <<>> \in Seq(Events)
        BY <1>1, EmptySeq
      <4> HIDE DEF via
      <4> QED BY <4>1, <3>3, Copies
    <3>6. reports'[c] = k /\ reports' \in [Call -> Seq(Events)]
          /\ \A d \in Call \ {c} : reports'[d] = reports[d]
      BY <3>1, <3>2, <3>5 DEF CallsInv
    <3> QED BY <3>4, <3>5, <3>6, <1>1
  <2>2. CASE ~Reports(style, outcome)
    <3>1. reports' = reports
      BY <2>2 DEF Settle
    <3>2. CASE Early(c)
      BY <3>1, <3>2, <1>1 DEF CallsInv, CallsReportedOnce, Early
    <3>3. CASE ~Early(c)
      <4>1. reports[c] = <<>> /\ Range(<<>>) = {} /\ Len(<<>>) = 0
        BY <3>3, <1>1 DEF CallsInv, Range
      <4>2. ~(style = "promise" /\ outcome \in {"ok", "error"})
        BY <2>2, <1>1 DEF Reports, MysqlReports, RedisReports, MongoReports, ConsoleReports, Styles, Target
      <4> QED BY <4>1, <4>2, <3>1 DEF CallsInv
    <3> QED BY <3>2, <3>3
  <2> QED BY <2>1, <2>2
<1>6. CallsReportedOnce'
  <2> SUFFICES ASSUME NEW d \in DOMAIN calls'
               PROVE  /\ target' \in {"mysql", "redis"} => Len(reports'[d]) <= 1
                      /\ calls'[d].style = "promise" =>
                          /\ calls'[d].outcome = None => reports'[d] = <<>>
                          /\ calls'[d].outcome \in {"ok", "error"} => Len(reports'[d]) = Len(calls'[d].via)
                          /\ \A e \in Range(reports'[d]) :
                              e.request = d /\ e.failed = (calls'[d].outcome # "ok")
    BY DEF CallsReportedOnce
  <2>1. CASE d # c
    BY <2>1, <1>1, <1>2, <1>5 DEF CallsInv, CallsReportedOnce
  <2>2. CASE d = c
    BY <2>2, <1>1, <1>3, <1>4, <1>5
  <2> QED BY <2>1, <2>2
<1>7. ASSUME NEW d \in DOMAIN calls'
      PROVE  /\ d \in Call
             /\ calls'[d] \in [style : Styles(target'), via : Seq(Owner), outcome : Outcome \cup {None}]
             /\ target' \in {"mysql", "redis"} => Len(calls'[d].via) <= 1
             /\ calls'[d].outcome = None /\ ~(Early(d))' => reports'[d] = <<>>
  <2>1. CASE d # c
    BY <2>1, <1>1, <1>2, <1>5 DEF CallsInv, Early
  <2>2. CASE d = c
    BY <2>2, <1>1, <1>3, <1>4
  <2> QED BY <2>1, <2>2
<1>8. Styles(target') = (Styles(target))'
  BY DEF Styles
<1>9. \A d \in Call : d \notin DOMAIN calls' => reports'[d] = <<>>
  BY <1>1, <1>2, <1>5 DEF CallsInv
<1> QED BY <1>1, <1>5, <1>6, <1>7, <1>8, <1>9 DEF CallsInv

LEMMA CallsInit == ASSUME Init PROVE CallsInv
<1>1. Range(<<>>) = {} /\ <<>> \in Seq(Events)
  BY EmptySeq DEF Range
<1> QED BY <1>1 DEF Init, InsInit, CallsInv, CallsReportedOnce, NoKeys

LEMMA CallsNext == ASSUME CallsInv, PatchesInv, [Next]_vars PROVE CallsInv'
<1>1. ASSUME Patches, NEW c \in Call, \E style \in Style : Invoke(c, style) PROVE CallsInv'
  BY <1>1, InvokeCalls
<1>2. ASSUME Patches, NEW c \in Call, \E outcome \in Outcome : Settle(c, outcome) PROVE CallsInv'
  BY <1>2, SettleCalls
<1>3. CASE Patches /\ UNCHANGED <<target, calls, reports>>
  BY <1>3, CallsKept
<1>4. CASE Requests \/ Network \/ Errors \/ UNCHANGED vars
  BY <1>4, CallsKept DEF Requests, Network, Errors, vars, insVars
<1>5. Patches => \/ UNCHANGED <<target, calls, reports>>
                 \/ \E c \in Call : \/ \E style \in Style : Invoke(c, style)
                                    \/ \E outcome \in Outcome : Settle(c, outcome)
  BY DEF Patches, InsNext, WrapPgPool, WrapMysqlPool, UnwrapMysqlPool, WrapRedisClient, UnwrapRedisClient,
     WrapMongoClient, UnwrapMongoClient, WrapConsole, InstallConsole, Restore, Wrap, PutBack
<1> QED BY <1>1, <1>2, <1>3, <1>4, <1>5 DEF Next

\* A call its caller awaits is reported with its outcome for its caller's
\* request, after it has ended and by each wrapper that was there when it was
\* made; on a mysql2 pool or a Redis client that is one report at most, whatever
\* is wrapped and unwrapped meanwhile.
THEOREM ReportedOnce == Spec => []CallsReportedOnce
<1>1. Spec => [](PatchesInv /\ CallsInv)
  BY PatchesInit, PatchesNext, CallsInit, CallsNext, PTL DEF Spec
<1>2. CallsInv => CallsReportedOnce
  BY DEF CallsInv
<1> QED BY <1>1, <1>2, PTL

-----------------------------------------------------------------------------
(* The collector *)

Seen == (UNION {Range(received[h]) : h \in Handler}) \cup flushed

NoneLost ==
    \A n \in (1..total) \ (Seen \cup Range(buffer)) :
        Len(buffer) = MaxBuffer \/ \E m \in Seen : m > n

InOrder ==
    \A h \in Handler : \A i \in 1..Len(received[h]) - 1 : received[h][i] < received[h][i + 1]

UpToDate ==
    /\ handlers # {} => buffer = <<>>
    /\ \A h \in handlers : received[h] # <<>> => received[h][Len(received[h])] = total

\* The buffer holds the events numbered last, in order and without a gap.
CollectorInv ==
    /\ total \in Nat /\ handlers \subseteq Handler /\ flushed \subseteq 1..total
    /\ received \in [Handler -> Seq(1..total)]
    /\ buffer \in Seq(1..total) /\ Len(buffer) <= MaxBuffer
    /\ \A i \in 1..Len(buffer) : buffer[i] = total - Len(buffer) + i
    /\ NoneLost
    /\ InOrder
    /\ UpToDate

LEMMA InSeen ==
    ASSUME CollectorInv, NEW m
    PROVE  m \in Seen <=> \/ m \in flushed
                          \/ \E h \in Handler : \E i \in 1..Len(received[h]) : received[h][i] = m
<1>1. \A h \in Handler : DOMAIN received[h] = 1..Len(received[h])
  BY LenProperties DEF CollectorInv
<1>2. m \in Seen <=> m \in flushed \/ \E h \in Handler : m \in Range(received[h])
  <2>1. ASSUME m \in Seen PROVE m \in flushed \/ \E h \in Handler : m \in Range(received[h])
    BY <2>1, SMT DEF Seen
  <2>2. ASSUME NEW h \in Handler, m \in Range(received[h]) PROVE m \in Seen
    BY <2>2, SMT DEF Seen
  <2>3. m \in flushed => m \in Seen
    BY SMT DEF Seen
  <2> QED BY <2>1, <2>2, <2>3
<1>3. \A h \in Handler : m \in Range(received[h]) <=> \E i \in 1..Len(received[h]) : received[h][i] = m
  BY <1>1, Zenon DEF Range
<1> QED BY <1>2, <1>3, Zenon

LEMMA InBuffer ==
    ASSUME NEW T, NEW s \in Seq(T), NEW m
    PROVE  m \in Range(s) <=> \E i \in 1..Len(s) : s[i] = m
BY LenProperties DEF Range

\* Pushing n events into a buffer that holds the last ones leaves the last ones.
LEMMA NewestIsLast ==
    ASSUME CollectorInv, NEW n \in Nat
    PROVE  LET s == buffer \o Numbers(n)
               b == Newest(s, MaxBuffer)
           IN  /\ b \in Seq(1..total + n) /\ Len(b) <= MaxBuffer
               /\ \A i \in 1..Len(b) : b[i] = total + n - Len(b) + i
               /\ Len(b) = MaxBuffer \/ Len(b) = Len(buffer) + n
               /\ Len(buffer) = MaxBuffer => Len(b) = MaxBuffer
<1> DEFINE s == buffer \o Numbers(n)
           L == Len(buffer)
           k == IF L + n > MaxBuffer THEN L + n - MaxBuffer + 1 ELSE 1
           b == SubSeq(s, k, L + n)
<1>1. total \in Nat /\ buffer \in Seq(1..total) /\ L \in Nat /\ L <= MaxBuffer /\ MaxBuffer \in Nat \ {0}
  BY TracingAssumption, LenProperties DEF CollectorInv
<1>2. buffer \in Seq(1..total + n)
  <2>1. 1..total \subseteq 1..total + n
    BY <1>1
  <2> QED BY <1>1, <2>1, SeqMonotonic
<1>3. Numbers(n) \in Seq(1..total + n) /\ Len(Numbers(n)) = n
  <2>1. \A i \in 1..n : total + i \in 1..total + n
    BY <1>1
  <2> QED BY <2>1 DEF Numbers
<1>4. /\ s \in Seq(1..total + n) /\ Len(s) = L + n
      /\ \A i \in 1..L + n : s[i] = IF i <= L THEN buffer[i] ELSE Numbers(n)[i - L]
  BY <1>2, <1>3, ConcatProperties
<1>5. L > 0 => total - L + 1 = buffer[1] /\ buffer[1] >= 1
  BY <1>1 DEF CollectorInv
<1>6. \A i \in 1..L + n : s[i] = total - L + i
  <2> SUFFICES ASSUME NEW i \in 1..L + n PROVE s[i] = total - L + i
    OBVIOUS
  <2>1. CASE i <= L
    <3>1. i \in 1..L
      BY <2>1, <1>1
    <3>2. buffer[i] = total - L + i
      BY <3>1 DEF CollectorInv
    <3> QED BY <2>1, <3>2, <1>4
  <2>2. CASE i > L
    <3>1. i - L \in 1..n /\ s[i] = Numbers(n)[i - L]
      BY <2>2, <1>1, <1>4
    <3>2. Numbers(n)[i - L] = total + (i - L)
      BY <3>1 DEF Numbers
    <3> QED BY <3>1, <3>2, <1>1
  <2>3. i <= L \/ i > L
    BY <1>1
  <2> HIDE DEF s, L
  <2> QED BY <2>1, <2>2, <2>3
<1>7. k \in 1..L + n + 1 /\ k \in Int /\ L + n \in Int
  BY <1>1
<1>8. \A i \in k..L + n : s[i] \in 1..total + n
  <2>1. \A i \in k..L + n : i \in 1..Len(s)
    BY <1>1, <1>4, <1>7
  <2> QED BY <2>1, <1>4, ElementOfSeq
<1> DEFINE Lb == L + n - k + 1
<1>9. /\ b \in Seq(1..total + n) /\ Len(b) = Lb
      /\ \A i \in 1..Lb : b[i] = s[k + i - 1]
  <2> HIDE DEF s, k
  <2>1. /\ b \in Seq(1..total + n) /\ Len(b) = IF k <= L + n THEN L + n - k + 1 ELSE 0
        /\ \A i \in 1..L + n - k + 1 : b[i] = s[k + i - 1]
    BY <1>7, <1>8, SubSeqProperties
  <2> QED BY <2>1, <1>1, <1>7
<1>10. Lb \in Nat /\ Lb <= MaxBuffer /\ (Lb = MaxBuffer \/ Lb = L + n) /\ (L = MaxBuffer => Lb = MaxBuffer)
  <2>1. CASE L + n > MaxBuffer
    BY <2>1, <1>1
  <2>2. CASE ~(L + n > MaxBuffer)
    BY <2>2, <1>1
  <2> QED BY <2>1, <2>2
<1>11. \A i \in 1..Lb : b[i] = total + n - Lb + i
  <2> SUFFICES ASSUME NEW i \in 1..Lb PROVE b[i] = total + n - Lb + i
    OBVIOUS
  <2>1. k + i - 1 \in 1..L + n
    BY <1>1, <1>7
  <2>2. s[k + i - 1] = total - L + (k + i - 1)
    BY <2>1, <1>6
  <2> HIDE DEF s, k
  <2> QED BY <2>2, <1>1, <1>7, <1>9
<1>12. Newest(s, MaxBuffer) = b
  <2>1. Len(s) = L + n
    BY <1>4
  <2>2. (IF Len(s) > MaxBuffer THEN Len(s) - MaxBuffer + 1 ELSE 1) = k
    <3> HIDE DEF s, L
    <3> QED BY <2>1, <1>1
  <2> HIDE DEF s, k
  <2> QED BY <2>1, <2>2, Zenon DEF Newest
<1> QED BY <1>9, <1>10, <1>11, <1>12

LEMMA EmitUnheard ==
    ASSUME CollectorInv, NEW n \in Nat, Emit(n), handlers = {}
    PROVE  CollectorInv'
<1>1. /\ total' = total + n /\ buffer' = Newest(buffer \o Numbers(n), MaxBuffer)
      /\ received' = received /\ handlers' = {} /\ flushed' = flushed
  BY DEF Emit
<1>2. /\ buffer' \in Seq(1..total') /\ Len(buffer') <= MaxBuffer
      /\ \A i \in 1..Len(buffer') : buffer'[i] = total' - Len(buffer') + i
      /\ Len(buffer') = MaxBuffer \/ Len(buffer') = Len(buffer) + n
      /\ Len(buffer) = MaxBuffer => Len(buffer') = MaxBuffer
  <2> DEFINE b == Newest(buffer \o Numbers(n), MaxBuffer)
  <2>1. /\ b \in Seq(1..total + n) /\ Len(b) <= MaxBuffer
        /\ \A i \in 1..Len(b) : b[i] = total + n - Len(b) + i
        /\ Len(b) = MaxBuffer \/ Len(b) = Len(buffer) + n
        /\ Len(buffer) = MaxBuffer => Len(b) = MaxBuffer
    BY NewestIsLast
  <2>2. buffer' = b /\ total' = total + n
    BY <1>1
  <2>3. Len(buffer') = Len(b)
    BY <2>2
  <2> HIDE DEF b
  <2>4. \A i \in 1..Len(buffer') : buffer'[i] = total' - Len(buffer') + i
    <3> SUFFICES ASSUME NEW i \in 1..Len(buffer')
                 PROVE  buffer'[i] = total' - Len(buffer') + i
      OBVIOUS
    <3>1. i \in 1..Len(b)
      BY <2>3
    <3>2. b[i] = total + n - Len(b) + i
      BY <2>1, <3>1
    <3>3. total \in Nat /\ Len(b) \in Nat
      BY <2>1, LenProperties DEF CollectorInv
    <3> QED BY <3>2, <3>3, <2>2, <2>3
  <2> QED BY <2>1, <2>2, <2>3, <2>4
<1>3. total \in Nat /\ total' \in Nat /\ Len(buffer) \in Nat /\ Len(buffer') \in Nat /\ 1..total \subseteq 1..total'
  BY <1>1, <1>2, LenProperties DEF CollectorInv
<1>4. received' \in [Handler -> Seq(1..total')]
  BY <1>1, <1>3, SeqMonotonic DEF CollectorInv
<1>5. NoneLost'
  <2>0. Seen' = Seen
    BY <1>1 DEF Seen
  <2> SUFFICES ASSUME NEW e \in 1..total', e \notin Seen, e \notin Range(buffer'), Len(buffer') # MaxBuffer
               PROVE  \E m \in Seen : m > e
    BY <2>0 DEF NoneLost
  <2>1. Len(buffer') = Len(buffer) + n /\ Len(buffer) # MaxBuffer
    BY <1>2
  <2>2. \A i \in 1..Len(buffer') : buffer'[i] # e
    BY <1>2, InBuffer
  <2>3. e \in 1..total /\ e \notin Range(buffer)
    <3>1. ASSUME e > total - Len(buffer)
          PROVE  FALSE
      <4> DEFINE i == e - total + Len(buffer)
      <4>1. i \in 1..Len(buffer')
        BY <3>1, <2>1, <1>1, <1>3
      <4>2. buffer'[i] = total' - Len(buffer') + i
        BY <4>1, <1>2
      <4>3. buffer'[i] = e
        BY <4>2, <2>1, <1>1, <1>3
      <4> QED BY <4>1, <4>3, <2>2
    <3>2. e \in 1..total
      BY <3>1, <1>3
    <3>3. ASSUME NEW i \in 1..Len(buffer), buffer[i] = e PROVE FALSE
      <4>1. buffer[i] = total - Len(buffer) + i
        BY DEF CollectorInv
      <4> QED BY <4>1, <3>1, <3>3, <1>3
    <3> QED BY <3>2, <3>3, InBuffer DEF CollectorInv
  <2> QED BY <2>1, <2>3 DEF CollectorInv, NoneLost
<1>6. InOrder' /\ UpToDate'
  BY <1>1 DEF CollectorInv, InOrder, UpToDate
<1>7. flushed' \subseteq 1..total'
  BY <1>1, <1>3 DEF CollectorInv
<1> QED BY <1>1, <1>2, <1>3, <1>4, <1>5, <1>6, <1>7 DEF CollectorInv

LEMMA EmitHeard ==
    ASSUME CollectorInv, NEW n \in Nat, Emit(n), handlers # {}
    PROVE  CollectorInv'
<1>1. /\ total' = total + n /\ buffer' = buffer /\ handlers' = handlers /\ flushed' = flushed
      /\ received' = [h \in Handler |-> IF h \in handlers THEN received[h] \o Numbers(n) ELSE received[h]]
  BY DEF Emit
<1>2. total \in Nat /\ total' \in Nat /\ 1..total \subseteq 1..total' /\ buffer = <<>> /\ buffer' = <<>>
  BY <1>1 DEF CollectorInv, UpToDate
<1>3. Numbers(n) \in Seq(1..total') /\ Len(Numbers(n)) = n /\ \A i \in 1..n : Numbers(n)[i] = total + i
  <2>1. \A i \in 1..n : total + i \in 1..total'
    BY <1>1, <1>2
  <2> QED BY <2>1 DEF Numbers
<1>4. ASSUME NEW h \in Handler
      PROVE  /\ received[h] \in Seq(1..total') /\ Len(received[h]) \in Nat
             /\ \A i \in 1..Len(received[h]) : received[h][i] \in 1..total
  <2>1. received[h] \in Seq(1..total)
    BY DEF CollectorInv
  <2> QED BY <2>1, <1>2, SeqMonotonic, LenProperties, ElementOfSeq
<1>5. ASSUME NEW h \in handlers
      PROVE  /\ received'[h] \in Seq(1..total') /\ Len(received'[h]) = Len(received[h]) + n
             /\ \A i \in 1..Len(received[h]) : received'[h][i] = received[h][i]
             /\ \A i \in Len(received[h]) + 1..Len(received[h]) + n :
                  received'[h][i] = total + (i - Len(received[h]))
  <2>1. h \in Handler /\ received'[h] = received[h] \o Numbers(n)
    BY <1>1 DEF CollectorInv
  <2>2. /\ received'[h] \in Seq(1..total') /\ Len(received'[h]) = Len(received[h]) + n
        /\ \A i \in 1..Len(received[h]) + n :
             received'[h][i] = IF i <= Len(received[h]) THEN received[h][i] ELSE Numbers(n)[i - Len(received[h])]
    <3>1. received[h] \in Seq(1..total') /\ Numbers(n) \in Seq(1..total') /\ Len(Numbers(n)) = n
      BY <2>1, <1>3, <1>4
    <3>2. /\ received[h] \o Numbers(n) \in Seq(1..total')
          /\ Len(received[h] \o Numbers(n)) = Len(received[h]) + Len(Numbers(n))
          /\ \A i \in 1..Len(received[h]) + Len(Numbers(n)) :
                (received[h] \o Numbers(n))[i]
                  = IF i <= Len(received[h]) THEN received[h][i] ELSE Numbers(n)[i - Len(received[h])]
      BY <3>1, ConcatProperties
    <3> QED BY <3>1, <3>2, <2>1
  <2> QED BY <2>1, <2>2, <1>3, <1>4
<1>6. \A h \in Handler \ handlers : received'[h] = received[h]
  BY <1>1
<1>7. received' \in [Handler -> Seq(1..total')]
  BY <1>1, <1>4, <1>5
<1>8. \A e \in Seen : e \in Seen'
  <2> SUFFICES ASSUME NEW e \in Seen, e \notin flushed PROVE e \in Seen'
    BY <1>1 DEF Seen
  <2>1. PICK h \in Handler : \E i \in 1..Len(received[h]) : received[h][i] = e
    BY InSeen
  <2>2. PICK i \in 1..Len(received[h]) : received[h][i] = e
    BY <2>1
  <2>3. i \in DOMAIN received'[h] /\ received'[h][i] = e
    <3>1. CASE h \in handlers
      BY <3>1, <2>2, <1>4, <1>5, LenProperties
    <3>2. CASE h \notin handlers
      BY <3>2, <2>2, <1>4, <1>6, LenProperties
    <3> QED BY <3>1, <3>2
  <2>4. e \in Range(received'[h])
    BY <2>3, Zenon DEF Range
  <2> QED BY <2>4, Zenon DEF Seen
<1>9. \A e \in total + 1..total' : e \in Seen'
  <2> SUFFICES ASSUME NEW e \in total + 1..total' PROVE e \in Seen'
    OBVIOUS
  <2>1. PICK h \in handlers : TRUE
    OBVIOUS
  <2>2. h \in Handler /\ Len(received[h]) \in Nat
    BY <1>4 DEF CollectorInv
  <2> DEFINE i == Len(received[h]) + (e - total)
  <2>3. i \in Len(received[h]) + 1..Len(received[h]) + n /\ i - Len(received[h]) = e - total
    BY <2>2, <1>1, <1>2
  <2>4. received'[h][i] = e
    <3>1. received'[h][i] = total + (i - Len(received[h]))
      BY <2>3, <1>5
    <3> HIDE DEF i
    <3> QED BY <2>3, <3>1, <1>2
  <2>5. i \in DOMAIN received'[h]
    BY <2>2, <2>3, <1>5, LenProperties
  <2>6. e \in Range(received'[h])
    BY <2>4, <2>5, Zenon DEF Range
  <2> QED BY <2>2, <2>6, Zenon DEF Seen
<1>10. NoneLost'
  <2> SUFFICES ASSUME NEW e \in 1..total', e \notin Seen'
               PROVE  \E m \in Seen' : m > e
    BY DEF NoneLost
  <2>1. e \in 1..total /\ e \notin Seen
    BY <1>1, <1>2, <1>8, <1>9
  <2>2. Range(buffer) = {} /\ Len(buffer) # MaxBuffer
    BY <1>2, TracingAssumption DEF Range
  <2> QED BY <2>1, <2>2, <1>8 DEF CollectorInv, NoneLost
<1>11. InOrder'
  <2> SUFFICES ASSUME NEW h \in Handler, NEW i \in 1..Len(received'[h]) - 1
               PROVE  received'[h][i] < received'[h][i + 1]
    BY DEF InOrder
  <2>1. CASE h \notin handlers
    BY <2>1, <1>6 DEF CollectorInv, InOrder
  <2>2. CASE h \in handlers
    <3> DEFINE k == Len(received[h])
    <3>1. k \in Nat /\ i \in 1..k + n - 1
      BY <2>2, <1>4, <1>5
    <3>2. CASE i < k
      <4>1. i \in 1..k - 1 /\ i \in 1..k /\ i + 1 \in 1..k
        BY <3>1, <3>2
      <4>2. received[h][i] < received[h][i + 1]
        BY <4>1 DEF CollectorInv, InOrder
      <4> QED BY <4>1, <4>2, <2>2, <1>5
    <3>3. CASE i = k
      <4>1. k \in 1..k /\ k + 1 \in k + 1..k + n
        BY <3>1, <3>3
      <4>2. received'[h][i] \in 1..total /\ received'[h][i + 1] = total + 1
        <5>1. received'[h][k] = received[h][k] /\ received[h][k] \in 1..total
          BY <4>1, <2>2, <1>4, <1>5
        <5>2. received'[h][k + 1] = total + (k + 1 - k)
          <6>1. \A j \in k + 1..k + n : received'[h][j] = total + (j - k)
            BY <2>2, <1>5
          <6> HIDE DEF k
          <6> QED BY <6>1, <4>1
        <5> HIDE DEF k
        <5> QED BY <5>1, <5>2, <3>1, <3>3, <1>2
      <4> QED BY <4>2, <1>2
    <3>4. CASE i > k
      <4>1. i \in k + 1..k + n /\ i + 1 \in k + 1..k + n
        BY <3>1, <3>4
      <4>2. received'[h][i] = total + (i - k) /\ received'[h][i + 1] = total + (i + 1 - k)
        <5>1. \A j \in k + 1..k + n : received'[h][j] = total + (j - k)
          BY <2>2, <1>5
        <5>2. received'[h][i] = total + (i - k)
          BY <4>1, <5>1, Zenon
        <5>3. received'[h][i + 1] = total + (i + 1 - k)
          <6>1. PICK j \in k + 1..k + n : j = i + 1
            BY <4>1
          <6>2. received'[h][j] = total + (j - k)
            BY <5>1, <6>1, Zenon
          <6> QED BY <6>1, <6>2
        <5> QED BY <5>2, <5>3, Zenon
      <4> HIDE DEF k
      <4> QED BY <4>1, <4>2, <3>1, <1>2
    <3> QED BY <3>1, <3>2, <3>3, <3>4
  <2> QED BY <2>1, <2>2
<1>12. UpToDate'
  <2> SUFFICES ASSUME NEW h \in handlers, received'[h] # <<>>
               PROVE  received'[h][Len(received'[h])] = total'
    BY <1>1, <1>2 DEF UpToDate
  <2> DEFINE k == Len(received[h])
  <2>1. h \in Handler /\ k \in Nat /\ Len(received'[h]) = k + n
    BY <1>4, <1>5 DEF CollectorInv
  <2>2. CASE n = 0
    <3>1. k # 0
      BY <2>1, <2>2, <1>5, EmptySeq
    <3>2. received[h] # <<>> /\ k \in 1..k
      BY <3>1, <2>1
    <3>3. received[h][k] = total
      BY <3>2 DEF CollectorInv, UpToDate
    <3> QED BY <3>2, <3>3, <2>1, <2>2, <1>1, <1>2, <1>5
  <2>3. CASE n # 0
    <3>1. k + n \in k + 1..k + n
      BY <2>1, <2>3
    <3>2. received'[h][k + n] = total + (k + n - k)
      BY <3>1, <1>5
    <3>3. total + (k + n - k) = total' /\ Len(received'[h]) = k + n
      BY <2>1, <1>1, <1>2
    <3> HIDE DEF k
    <3> QED BY <3>2, <3>3, Zenon
  <2> QED BY <2>2, <2>3
<1>13. buffer' \in Seq(1..total') /\ Len(buffer') = 0 /\ MaxBuffer \in Nat
  BY <1>2, EmptySeq, TracingAssumption
<1> QED BY <1>1, <1>2, <1>7, <1>10, <1>11, <1>12, <1>13 DEF CollectorInv

LEMMA EmitCollects ==
    ASSUME CollectorInv, NEW n \in Nat, Emit(n)
    PROVE  CollectorInv'
BY EmitHeard, EmitUnheard

\* A buffer that is not empty ends in the newest event.
LEMMA BufferEndsNow ==
    ASSUME CollectorInv, buffer # <<>>
    PROVE  Len(buffer) \in Nat \ {0} /\ buffer[Len(buffer)] = total /\ total \in Range(buffer)
<1>1. Len(buffer) \in Nat \ {0} /\ total \in Nat
  BY EmptySeq DEF CollectorInv
<1>2. buffer[Len(buffer)] = total
  BY <1>1 DEF CollectorInv
<1> QED BY <1>1, <1>2, InBuffer DEF CollectorInv

\* What is taken out of the buffer is seen, and nothing is lost by it.
LEMMA TakenIsSeen ==
    ASSUME CollectorInv, total' = total, buffer' = <<>>, Seen' = Seen \cup Range(buffer)
    PROVE  NoneLost'
<1> SUFFICES ASSUME NEW e \in 1..total, e \notin Seen, e \notin Range(buffer)
             PROVE  \E m \in Seen' : m > e
  BY DEF NoneLost
<1>1. CASE Len(buffer) = MaxBuffer
  <2>1. buffer # <<>>
    BY <1>1, TracingAssumption
  <2>2. total \in Range(buffer)
    BY <2>1, BufferEndsNow
  <2> QED BY <2>2 DEF CollectorInv
<1>2. CASE Len(buffer) # MaxBuffer
  BY <1>2 DEF CollectorInv, NoneLost
<1> QED BY <1>1, <1>2

LEMMA OnEventCollects ==
    ASSUME CollectorInv, NEW h \in Handler, OnEvent(h)
    PROVE  CollectorInv'
<1>1. /\ received[h] = <<>> /\ handlers' = handlers \cup {h} /\ buffer' = <<>> /\ total' = total
      /\ received' = [received EXCEPT ![h] = buffer] /\ flushed' = flushed
  BY DEF OnEvent
<1>2. /\ received'[h] = buffer /\ \A g \in Handler \ {h} : received'[g] = received[g]
      /\ received' \in [Handler -> Seq(1..total)] /\ total \in Nat /\ buffer \in Seq(1..total)
      /\ Len(buffer) \in Nat /\ \A i \in 1..Len(buffer) : buffer[i] = total - Len(buffer) + i
  BY <1>1, LenProperties DEF CollectorInv
<1>3. Seen' = Seen \cup Range(buffer)
  <2>1. Range(received[h]) = {}
    BY <1>1 DEF Range
  <2> QED BY <2>1, <1>1, <1>2 DEF Seen
<1>4. NoneLost'
  BY <1>1, <1>3, TakenIsSeen
<1>5. InOrder'
  <2> SUFFICES ASSUME NEW g \in Handler, NEW i \in 1..Len(received'[g]) - 1
               PROVE  received'[g][i] < received'[g][i + 1]
    BY DEF InOrder
  <2>1. CASE g = h
    <3>1. i \in 1..Len(buffer) /\ i + 1 \in 1..Len(buffer)
      BY <2>1, <1>2
    <3>2. buffer[i] = total - Len(buffer) + i /\ buffer[i + 1] = total - Len(buffer) + (i + 1)
      BY <3>1, <1>2
    <3> QED BY <3>2, <2>1, <1>2
  <2>2. CASE g # h
    BY <2>2, <1>2 DEF CollectorInv, InOrder
  <2> QED BY <2>1, <2>2
<1>6. UpToDate'
  BY <1>1, <1>2, BufferEndsNow DEF CollectorInv, UpToDate
<1>7. buffer' \in Seq(1..total) /\ Len(buffer') = 0
  BY <1>1, EmptySeq
<1> QED BY <1>1, <1>2, <1>4, <1>5, <1>6, <1>7, TracingAssumption DEF CollectorInv

LEMMA FlushCollects ==
    ASSUME CollectorInv, Flush
    PROVE  CollectorInv'
<1>1. /\ handlers' = handlers /\ buffer' = <<>> /\ total' = total /\ received' = received
      /\ flushed' = flushed \cup Range(buffer)
  BY DEF Flush
<1>2. Seen' = Seen \cup Range(buffer)
  BY <1>1 DEF Seen
<1>3. NoneLost'
  BY <1>1, <1>2, TakenIsSeen
<1>4. InOrder' /\ UpToDate'
  BY <1>1 DEF CollectorInv, InOrder, UpToDate
<1>5. flushed' \subseteq 1..total
  <2>1. buffer \in Seq(1..total) /\ flushed \subseteq 1..total
    BY DEF CollectorInv
  <2>2. Range(buffer) \subseteq 1..total
    <3>1. DOMAIN buffer = 1..Len(buffer) /\ \A i \in 1..Len(buffer) : buffer[i] \in 1..total
      BY <2>1, LenProperties, ElementOfSeq
    <3> QED BY <3>1, Zenon DEF Range
  <2> QED BY <2>1, <2>2, <1>1
<1>6. buffer' \in Seq(1..total) /\ Len(buffer') = 0
  BY <1>1, EmptySeq
<1> QED BY <1>1, <1>3, <1>4, <1>5, <1>6, TracingAssumption DEF CollectorInv

LEMMA CollectorKept ==
    ASSUME CollectorInv, UNCHANGED <<total, buffer, received, flushed>>, handlers' \subseteq handlers
    PROVE  CollectorInv'
<1>1. NoneLost' /\ InOrder' /\ UpToDate'
  BY DEF CollectorInv, NoneLost, InOrder, UpToDate, Seen
<1> QED BY <1>1 DEF CollectorInv

LEMMA CollectorInit == ASSUME Init PROVE CollectorInv
<1>1. /\ handlers = {} /\ buffer = <<>> /\ total = 0 /\ flushed = {}
      /\ received = [h \in Handler |-> <<>>]
  BY DEF Init, RtInit
<1>2. buffer \in Seq(1..total) /\ Len(buffer) = 0 /\ received \in [Handler -> Seq(1..total)]
  BY <1>1, EmptySeq
<1>3. NoneLost /\ InOrder /\ UpToDate
  BY <1>1 DEF NoneLost, InOrder, UpToDate
<1> QED BY <1>1, <1>2, <1>3, TracingAssumption DEF CollectorInv

-----------------------------------------------------------------------------
(* The tracer *)

\* A request the tracer remembers has not ended.
TracerInv ==
    /\ requests \in [Request -> {"new", "traced", "forgotten", "served", "over"}]
    /\ ends \in [Request -> Nat]
    /\ DOMAIN active \subseteq Request /\ overdue \subseteq DOMAIN active
    /\ \A r \in DOMAIN active : active[r] \in Nat /\ requests[r] = "traced" /\ ends[r] = 0
    /\ \A r \in Request : requests[r] \in {"new", "served", "forgotten"} => ends[r] = 0
    /\ EndsOnce

LEMMA NatMin ==
    ASSUME NEW T \in SUBSET Nat, T # {}
    PROVE  \E x \in T : \A y \in T : x <= y
<1>1. PICK x \in T : \A y \in T : ~(<<y, x>> \in OpToRel(<, Nat))
  BY NatLessThanWellFounded, WFMin
<1>2. \A y \in T : ~(y < x)
  BY <1>1 DEF OpToRel
<1> QED BY <1>2

LEMMA OldestIsActive ==
    ASSUME TracerInv, DOMAIN active # {}
    PROVE  Oldest \in DOMAIN active
<1> DEFINE T == {active[r] : r \in DOMAIN active}
<1>1. T \in SUBSET Nat /\ T # {}
  BY DEF TracerInv
<1>2. PICK x \in T : \A y \in T : x <= y
  BY <1>1, NatMin
<1>3. \E r \in DOMAIN active : \A q \in DOMAIN active : active[r] <= active[q]
  BY <1>2
<1> QED BY <1>3 DEF Oldest

LEMMA ActiveIsFinite ==
    ASSUME TracerInv, NEW R \in SUBSET Request
    PROVE  IsFiniteSet(R) /\ Cardinality(R) \in Nat
BY TracingAssumption, FS_Subset, FS_CardinalityType DEF TracerInv

LEMMA StartRequestTraces ==
    ASSUME TracerInv, CollectorInv, NEW r \in Request, StartRequest(r)
    PROVE  TracerInv'
<1> DEFINE out == IF Cardinality(DOMAIN active) >= MaxActive THEN {Oldest} ELSE {}
<1>1. out \subseteq DOMAIN active
  <2>1. ASSUME Cardinality(DOMAIN active) >= MaxActive PROVE DOMAIN active # {}
    BY <2>1, FS_EmptySet, TracingAssumption
  <2> QED BY <2>1, OldestIsActive
<1>2. /\ requests[r] = "new" /\ ends' = ends /\ overdue' = overdue \ out
      /\ requests' = [q \in Request |-> IF q = r THEN "traced"
                                      ELSE IF q \in out THEN "forgotten" ELSE requests[q]]
      /\ active' = [x \in (DOMAIN active \ out) \cup {r} |-> IF x = r THEN total + 1
                                                        ELSE [y \in DOMAIN active \ out |-> active[y]][x]]
  BY DEF StartRequest, Put, Without
<1> HIDE DEF out
<1>3. DOMAIN active' = (DOMAIN active \ out) \cup {r} /\ r \notin DOMAIN active /\ total + 1 \in Nat
  BY <1>2 DEF TracerInv, CollectorInv
<1>4. \A q \in DOMAIN active' : active'[q] \in Nat
  BY <1>2, <1>3 DEF TracerInv
<1>5. \A q \in Request : ends'[q] = ends[q]
  BY <1>2
<1>6. \A q \in DOMAIN active' : requests'[q] = "traced" /\ ends'[q] = 0
  BY <1>1, <1>2, <1>3 DEF TracerInv
<1>7. \A q \in Request : requests'[q] \in {"new", "served", "forgotten"} => ends'[q] = 0
  BY <1>1, <1>2, <1>3 DEF TracerInv
<1>8. EndsOnce'
  BY <1>1, <1>2, <1>3 DEF TracerInv, EndsOnce
<1> QED BY <1>1, <1>2, <1>3, <1>4, <1>6, <1>7, <1>8 DEF TracerInv

LEMMA EndTraces ==
    ASSUME TracerInv, NEW R \in SUBSET DOMAIN active, End(R)
    PROVE  TracerInv'
<1>1. /\ requests' = requests /\ active' = [x \in DOMAIN active \ R |-> active[x]] /\ overdue' = overdue \ R
      /\ ends' = [r \in Request |-> IF r \in R THEN ends[r] + 1 ELSE ends[r]]
  BY DEF End, Forget, Without
<1>2. \A r \in R : requests[r] = "traced" /\ ends[r] = 0
  BY DEF TracerInv
<1>3. EndsOnce'
  BY <1>1, <1>2 DEF TracerInv, EndsOnce
<1> QED BY <1>1, <1>2, <1>3 DEF TracerInv

LEMMA DestroyTraces == ASSUME TracerInv, Destroy PROVE TracerInv'
<1>1. /\ DOMAIN active' = {} /\ overdue' = overdue \ DOMAIN active /\ ends' = ends
      /\ requests' = [r \in Request |-> IF r \in DOMAIN active THEN "forgotten" ELSE requests[r]]
  BY DEF Destroy, Forget, Without
<1>2. EndsOnce'
  BY <1>1 DEF TracerInv, EndsOnce
<1> QED BY <1>1, <1>2 DEF TracerInv

LEMMA RequestStep ==
    ASSUME TracerInv, CollectorInv, RtNext
    PROVE  TracerInv' /\ CollectorInv'
<1>0. TracerInv /\ UNCHANGED tracer => TracerInv'
  BY DEF tracer, TracerInv, EndsOnce
<1>1. ASSUME NEW h \in Handler, OnEvent(h) PROVE TracerInv' /\ CollectorInv'
  BY <1>1, <1>0, OnEventCollects DEF OnEvent
<1>2. ASSUME NEW h \in Handler, Unsubscribe(h) PROVE TracerInv' /\ CollectorInv'
  BY <1>2, <1>0, CollectorKept DEF Unsubscribe
<1>3. CASE Flush
  BY <1>3, <1>0, FlushCollects DEF Flush
<1>4. ASSUME NEW r \in Request, StartRequest(r) PROVE TracerInv' /\ CollectorInv'
  BY <1>4, StartRequestTraces, EmitCollects DEF StartRequest
<1>5. ASSUME NEW R \in SUBSET DOMAIN active, End(R) PROVE TracerInv' /\ CollectorInv'
  <2>1. Cardinality(R) \in Nat
    BY ActiveIsFinite DEF TracerInv
  <2> QED BY <2>1, <1>5, EndTraces, EmitCollects DEF End
<1>6. ASSUME NEW r \in Request, Age(r) PROVE TracerInv' /\ CollectorInv'
  <2>1. TracerInv'
    BY <1>6 DEF Age, TracerInv, EndsOnce
  <2> QED BY <2>1, <1>6, CollectorKept DEF Age, collector
<1>7. ASSUME NEW r \in Request, ProbeMiddleware(r) PROVE TracerInv' /\ CollectorInv'
  <2>1. TracerInv'
    BY <1>7 DEF ProbeMiddleware, TracerInv, EndsOnce
  <2> QED BY <2>1, <1>7, EmitCollects DEF ProbeMiddleware
<1>8. ASSUME NEW r \in Request, OnFinish(r) PROVE TracerInv' /\ CollectorInv'
  <2>1. TracerInv'
    BY <1>8 DEF OnFinish, TracerInv, EndsOnce
  <2> QED BY <2>1, <1>8, EmitCollects DEF OnFinish
<1>9. ASSUME NEW r \in Request, ConnectionCloses(r) PROVE TracerInv' /\ CollectorInv'
  <2>1. TracerInv'
    BY <1>9 DEF ConnectionCloses, TracerInv, EndsOnce
  <2> QED BY <2>1, <1>9, CollectorKept DEF ConnectionCloses, collector
<1>10. CASE Destroy
  BY <1>10, DestroyTraces, CollectorKept DEF Destroy, collector
<1>11. CASE Cleanup
  BY <1>11, <1>5 DEF Cleanup, TracerInv
<1>12. ASSUME NEW r \in Request, EndRequest(r) PROVE TracerInv' /\ CollectorInv'
  BY <1>12, <1>5 DEF EndRequest
<1> QED BY <1>1, <1>2, <1>3, <1>4, <1>6, <1>7, <1>8, <1>9, <1>10, <1>11, <1>12 DEF RtNext

LEMMA TracerInit == ASSUME Init PROVE TracerInv
BY DEF Init, RtInit, TracerInv, EndsOnce, NoKeys

LEMMA RequestsNext ==
    ASSUME TracerInv, CollectorInv, [Next]_vars
    PROVE  TracerInv' /\ CollectorInv'
<1>1. CASE Requests
  BY <1>1, RequestStep DEF Requests
<1>2. CASE UNCHANGED rtVars
  <2>1. TracerInv'
    BY <1>2 DEF rtVars, tracer, TracerInv, EndsOnce
  <2> QED BY <2>1, <1>2, CollectorKept DEF rtVars, collector
<1> QED BY <1>1, <1>2 DEF Next, Patches, Network, Errors, vars

LEMMA CollectorAccounts == ASSUME CollectorInv PROVE EventsAccountedFor
BY Zenon DEF CollectorInv, EventsAccountedFor, NoneLost, InOrder, UpToDate, Seen

\* Every event was delivered, flushed, is buffered, or was pushed out of a buffer
\* that was full; subscribers get theirs in order, each once, none is missing
\* while they listen, and nothing stays in the buffer then.
THEOREM EventsAccounted == Spec => []EventsAccountedFor
<1>1. Spec => [](TracerInv /\ CollectorInv)
  BY TracerInit, CollectorInit, RequestsNext, PTL DEF Spec
<1> QED BY <1>1, CollectorAccounts, PTL

\* A request has one end at most, whether endRequest, the cleanup timer, destroy,
\* the cap or the response comes first, and a forgotten one has none.
THEOREM RequestsEndOnce == Spec => []EndsOnce
<1>1. Spec => [](TracerInv /\ CollectorInv)
  BY TracerInit, CollectorInit, RequestsNext, PTL DEF Spec
<1>2. TracerInv => EndsOnce
  BY DEF TracerInv
<1> QED BY <1>1, <1>2, PTL

-----------------------------------------------------------------------------
(* The network of a page *)

Waiting == (UNION {listening[x] : x \in Xhr}) \cup fetches

Started == 1..Len(starts)

\* A start has its listeners on one object, or is a fetch; an object that may be
\* sent carries a number nobody else carries and no request has started with.
NetworkInv ==
    /\ issued \in Nat
    /\ native \in [Xhr -> {"unsent", "opened", "loading", "done"}]
    /\ metadata \in [Xhr -> 0..issued]
    /\ starts \in Seq(1..issued) /\ finals \in Seq(Started)
    /\ listening \in [Xhr -> SUBSET Started] /\ fetches \subseteq Started
    /\ \A x, y \in Xhr : x # y => listening[x] \cap listening[y] = {}
    /\ \A x \in Xhr : listening[x] \cap fetches = {}
    /\ \A x, y \in Xhr : x # y /\ metadata[x] # 0 => metadata[x] # metadata[y]
    /\ \A x \in Xhr : installed /\ native[x] = "opened" /\ metadata[x] # 0 => metadata[x] \notin Range(starts)
    /\ \A i, j \in Started : i # j /\ starts[i] = starts[j] => starts[i] \in refused
    /\ IsInjective(finals)
    /\ Started = Range(finals) \cup Waiting
    /\ Range(finals) \cap Waiting = {}

LEMMA SeqOfSet ==
    ASSUME NEW S, IsFiniteSet(S)
    PROVE  /\ SetToSeq(S) \in Seq(S) /\ IsInjective(SetToSeq(S)) /\ Range(SetToSeq(S)) = S
<1> DEFINE n == Cardinality(S)
           f == SetToSeq(S)
<1>1. n \in Nat /\ ExistsBijection(1..n, S)
  BY FS_CardinalityType
<1>2. PICK g \in [1..n -> S] : IsInjective(g)
  BY <1>1 DEF ExistsBijection, Bijection, Injection
<1>3. f \in [1..n -> S] /\ IsInjective(f)
  BY <1>2 DEF SetToSeq
<1>4. f \in Seq(S)
  BY <1>1, <1>3, SeqDef
<1>5. Range(f) = S
  <2>1. f \in Injection(1..n, S)
    BY <1>3 DEF Injection
  <2>2. Cardinality(1..n) = n
    BY <1>1, FS_Interval
  <2>3. f \in Surjection(1..n, S)
    BY <2>1, <2>2, FS_Injection
  <2>4. \A t \in S : \E i \in 1..n : f[i] = t
    BY <2>3 DEF Surjection
  <2>5. DOMAIN f = 1..n /\ \A i \in 1..n : f[i] \in S
    BY <1>3
  <2> HIDE DEF f
  <2> QED BY <2>4, <2>5 DEF Range
<1> QED BY <1>3, <1>4, <1>5

LEMMA RangeOfConcat ==
    ASSUME NEW T, NEW s \in Seq(T), NEW u \in Seq(T)
    PROVE  Range(s \o u) = Range(s) \cup Range(u)
<1>1. /\ DOMAIN (s \o u) = 1..Len(s) + Len(u) /\ DOMAIN s = 1..Len(s) /\ DOMAIN u = 1..Len(u)
      /\ Len(s) \in Nat /\ Len(u) \in Nat
      /\ \A i \in 1..Len(s) + Len(u) : (s \o u)[i] = IF i <= Len(s) THEN s[i] ELSE u[i - Len(s)]
  BY ConcatProperties, LenProperties
<1>2. \A x \in Range(s \o u) : x \in Range(s) \cup Range(u)
  <2> SUFFICES ASSUME NEW i \in 1..Len(s) + Len(u)
               PROVE  (s \o u)[i] \in Range(s) \cup Range(u)
    BY <1>1 DEF Range
  <2>1. CASE i <= Len(s)
    BY <2>1, <1>1 DEF Range
  <2>2. CASE i > Len(s)
    <3>1. i - Len(s) \in 1..Len(u) /\ (s \o u)[i] = u[i - Len(s)]
      BY <2>2, <1>1
    <3> QED BY <3>1, <1>1 DEF Range
  <2> QED BY <2>1, <2>2, <1>1
<1>3. \A x \in Range(s) : x \in Range(s \o u)
  <2> SUFFICES ASSUME NEW i \in 1..Len(s) PROVE s[i] \in Range(s \o u)
    BY <1>1 DEF Range
  <2>1. i \in 1..Len(s) + Len(u) /\ (s \o u)[i] = s[i]
    BY <1>1
  <2> QED BY <2>1, <1>1 DEF Range
<1>4. \A x \in Range(u) : x \in Range(s \o u)
  <2> SUFFICES ASSUME NEW i \in 1..Len(u) PROVE u[i] \in Range(s \o u)
    BY <1>1 DEF Range
  <2>1. Len(s) + i \in 1..Len(s) + Len(u) /\ (s \o u)[Len(s) + i] = u[i]
    BY <1>1
  <2> QED BY <2>1, <1>1 DEF Range
<1> QED BY <1>2, <1>3, <1>4

LEMMA InjectiveConcat ==
    ASSUME NEW T, NEW s \in Seq(T), NEW u \in Seq(T), IsInjective(s), IsInjective(u),
           Range(s) \cap Range(u) = {}
    PROVE  IsInjective(s \o u)
<1>1. /\ DOMAIN (s \o u) = 1..Len(s) + Len(u) /\ DOMAIN s = 1..Len(s) /\ DOMAIN u = 1..Len(u)
      /\ Len(s) \in Nat /\ Len(u) \in Nat
      /\ \A i \in 1..Len(s) + Len(u) : (s \o u)[i] = IF i <= Len(s) THEN s[i] ELSE u[i - Len(s)]
  BY ConcatProperties, LenProperties
<1> SUFFICES ASSUME NEW a \in 1..Len(s) + Len(u), NEW b \in 1..Len(s) + Len(u), (s \o u)[a] = (s \o u)[b]
             PROVE  a = b
  BY <1>1 DEF IsInjective
<1>2. ASSUME NEW i \in 1..Len(s) + Len(u)
      PROVE  \/ i \in 1..Len(s) /\ (s \o u)[i] = s[i] /\ s[i] \in Range(s)
             \/ i - Len(s) \in 1..Len(u) /\ (s \o u)[i] = u[i - Len(s)] /\ u[i - Len(s)] \in Range(u)
  <2>1. CASE i <= Len(s)
    BY <2>1, <1>1 DEF Range
  <2>2. CASE i > Len(s)
    <3>1. i - Len(s) \in 1..Len(u) /\ (s \o u)[i] = u[i - Len(s)]
      BY <2>2, <1>1
    <3> QED BY <3>1, <1>1 DEF Range
  <2> QED BY <2>1, <2>2, <1>1
<1>3. CASE a \in 1..Len(s) /\ (s \o u)[a] = s[a] /\ s[a] \in Range(s)
  BY <1>1, <1>2, <1>3 DEF IsInjective
<1>4. CASE a - Len(s) \in 1..Len(u) /\ (s \o u)[a] = u[a - Len(s)] /\ u[a - Len(s)] \in Range(u)
  <2>1. b - Len(s) \in 1..Len(u) /\ (s \o u)[b] = u[b - Len(s)]
    BY <1>2, <1>4
  <2>2. a - Len(s) = b - Len(s)
    BY <2>1, <1>1, <1>4 DEF IsInjective
  <2> QED BY <2>2, <1>1
<1> QED BY <1>2, <1>3, <1>4

LEMMA AppendNew ==
    ASSUME NEW T, NEW s \in Seq(T), NEW e \in T, IsInjective(s), e \notin Range(s)
    PROVE  Append(s, e) \in Seq(T) /\ IsInjective(Append(s, e)) /\ Range(Append(s, e)) = Range(s) \cup {e}
<1>1. /\ Append(s, e) \in Seq(T) /\ DOMAIN s = 1..Len(s) /\ DOMAIN Append(s, e) = 1..Len(s) + 1
      /\ Len(s) \in Nat /\ Append(s, e)[Len(s) + 1] = e
      /\ \A i \in 1..Len(s) : Append(s, e)[i] = s[i] /\ s[i] \in Range(s)
  BY AppendProperties, LenProperties DEF Range
<1>2. IsInjective(Append(s, e))
  <2> SUFFICES ASSUME NEW a \in 1..Len(s) + 1, NEW b \in 1..Len(s) + 1, Append(s, e)[a] = Append(s, e)[b]
               PROVE  a = b
    BY <1>1 DEF IsInjective
  <2>1. a \in 1..Len(s) \/ a = Len(s) + 1
    BY <1>1
  <2>2. b \in 1..Len(s) \/ b = Len(s) + 1
    BY <1>1
  <2> QED BY <2>1, <2>2, <1>1 DEF IsInjective
<1>3. \A x \in Range(Append(s, e)) : x \in Range(s) \cup {e}
  <2> SUFFICES ASSUME NEW i \in 1..Len(s) + 1 PROVE Append(s, e)[i] \in Range(s) \cup {e}
    BY <1>1 DEF Range
  <2>1. i \in 1..Len(s) \/ i = Len(s) + 1
    BY <1>1
  <2> QED BY <2>1, <1>1
<1>4. \A x \in Range(s) \cup {e} : x \in Range(Append(s, e))
  <2>1. \A i \in 1..Len(s) + 1 : Append(s, e)[i] \in Range(Append(s, e))
    BY <1>1 DEF Range
  <2>2. e \in Range(Append(s, e))
    BY <2>1, <1>1
  <2>3. \A i \in 1..Len(s) : s[i] \in Range(Append(s, e))
    BY <2>1, <1>1
  <2> QED BY <2>2, <2>3, <1>1 DEF Range
<1> QED BY <1>1, <1>2, <1>3, <1>4

LEMMA InWaiting ==
    ASSUME NEW n
    PROVE  n \in Waiting <=> n \in fetches \/ \E x \in Xhr : n \in listening[x]
BY DEF Waiting

\* One more request leaves everything of its type.
LEMMA Widened ==
    ASSUME NetworkInv
    PROVE  /\ issued + 1 \in Nat \ {0} /\ 1..issued \subseteq 1..issued + 1 /\ 0..issued \subseteq 0..issued + 1
           /\ starts \in Seq(1..issued + 1)
           /\ issued + 1 \notin Range(starts)
           /\ \A x \in Xhr : metadata[x] # issued + 1
           /\ metadata \in [Xhr -> 0..issued + 1]
<1>1. issued \in Nat /\ 1..issued \subseteq 1..issued + 1 /\ 0..issued \subseteq 0..issued + 1
  BY DEF NetworkInv
<1>2. starts \in Seq(1..issued + 1)
  BY <1>1, SeqMonotonic DEF NetworkInv
<1>3. Range(starts) \subseteq 1..issued
  <2>1. DOMAIN starts = 1..Len(starts) /\ \A i \in 1..Len(starts) : starts[i] \in 1..issued
    BY LenProperties, ElementOfSeq DEF NetworkInv
  <2> QED BY <2>1, Zenon DEF Range
<1>4. \A x \in Xhr : metadata[x] # issued + 1
  BY <1>1 DEF NetworkInv
<1>5. metadata \in [Xhr -> 0..issued + 1]
  BY <1>1 DEF NetworkInv
<1> QED BY <1>1, <1>2, <1>3, <1>4, <1>5

\* One more start is the only one of its place, and waits.
LEMMA StartWaits ==
    ASSUME NetworkInv, NEW T, starts \in Seq(T), NEW n \in T, starts' = Append(starts, n), finals' = finals,
           Waiting' = Waiting \cup {Len(starts) + 1},
           n \in Range(starts) => n \in refused', refused \subseteq refused'
    PROVE  /\ starts' \in Seq(T) /\ Range(starts') = Range(starts) \cup {n}
           /\ Started' = Started \cup {Len(starts) + 1} /\ Len(starts) + 1 \notin Started
           /\ \A i, j \in Started' : i # j /\ starts'[i] = starts'[j] => starts'[i] \in refused'
           /\ finals' \in Seq(Started') /\ IsInjective(finals')
           /\ Started' = Range(finals') \cup Waiting' /\ Range(finals') \cap Waiting' = {}
<1> DEFINE new == Len(starts) + 1
<1>1. /\ starts' \in Seq(T) /\ DOMAIN starts = Started /\ DOMAIN starts' = 1..new /\ Len(starts) \in Nat
      /\ Len(starts') = new /\ starts'[new] = n
      /\ \A i \in Started : starts'[i] = starts[i] /\ starts[i] \in Range(starts)
  BY AppendProperties, LenProperties DEF Range, Started
<1>2. Started' = Started \cup {new} /\ new \notin Started
  BY <1>1 DEF Started
<1>3. Range(starts') = Range(starts) \cup {n}
  <2>1. \A v \in Range(starts') : v \in Range(starts) \cup {n}
    BY <1>1, <1>2 DEF Range, Started
  <2>2. new \in DOMAIN starts' /\ Started \subseteq DOMAIN starts'
    BY <1>1 DEF Started
  <2>3. n \in Range(starts')
    BY <2>2, <1>1 DEF Range
  <2>4. ASSUME NEW v \in Range(starts) PROVE v \in Range(starts')
    <3>1. PICK i \in Started : starts[i] = v
      BY <1>1 DEF Range
    <3>2. i \in DOMAIN starts' /\ starts'[i] = v
      BY <3>1, <2>2, <1>1
    <3> QED BY <3>2 DEF Range
  <2> QED BY <2>1, <2>3, <2>4
<1>4. ASSUME NEW i \in Started', NEW j \in Started', i # j, starts'[i] = starts'[j]
      PROVE  starts'[i] \in refused'
  <2>1. CASE i = new \/ j = new
    <3>1. starts'[i] = n /\ n \in Range(starts)
      BY <2>1, <1>1, <1>2, <1>4
    <3> QED BY <3>1
  <2>2. CASE i # new /\ j # new
    <3>1. i \in Started /\ j \in Started /\ starts[i] = starts[j]
      BY <2>2, <1>1, <1>2, <1>4
    <3>2. starts[i] \in refused
      BY <3>1, <1>4 DEF NetworkInv
    <3> QED BY <3>1, <3>2, <1>1
  <2> QED BY <2>1, <2>2
<1>5. finals' \in Seq(Started') /\ IsInjective(finals')
  <2>1. finals \in Seq(Started) /\ IsInjective(finals) /\ Started \subseteq Started'
    BY <1>2 DEF NetworkInv
  <2>2. finals \in Seq(Started')
    BY <2>1, SeqMonotonic
  <2> QED BY <2>1, <2>2
<1>6. Started' = Range(finals') \cup Waiting' /\ Range(finals') \cap Waiting' = {}
  BY <1>2 DEF NetworkInv
<1> QED BY <1>1, <1>2, <1>3, <1>4, <1>5, <1>6

LEMMA OpenKeeps ==
    ASSUME NetworkInv, NEW x \in Xhr, Open(x)
    PROVE  NetworkInv'
<1>1. /\ issued' = issued + 1 /\ native' \in {native, [native EXCEPT ![x] = "opened"]}
      /\ metadata' = (IF installed THEN [metadata EXCEPT ![x] = issued + 1] ELSE metadata)
      /\ UNCHANGED <<listening, fetches, starts, finals, refused, installed>>
  BY DEF Open
<1>2. Waiting' = Waiting /\ Started' = Started
  BY <1>1 DEF Waiting, Started
<1>3. /\ metadata' \in [Xhr -> 0..issued'] /\ native' \in [Xhr -> {"unsent", "opened", "loading", "done"}]
      /\ \A y \in Xhr \ {x} : native'[y] = native[y]
  BY <1>1, Widened DEF NetworkInv
<1>4. ASSUME NEW y \in Xhr, NEW z \in Xhr, y # z, metadata'[y] # 0
      PROVE  metadata'[y] # metadata'[z]
  BY <1>1, <1>4, Widened DEF NetworkInv
<1>5. ASSUME NEW y \in Xhr, installed', native'[y] = "opened", metadata'[y] # 0
      PROVE  metadata'[y] \notin Range(starts')
  <2>1. CASE y = x
    BY <2>1, <1>1, <1>5, Widened DEF NetworkInv
  <2>2. CASE y # x
    BY <2>2, <1>1, <1>3, <1>5 DEF NetworkInv
  <2> QED BY <2>1, <2>2
<1>6. issued' \in Nat /\ starts' \in Seq(1..issued')
  BY <1>1, Widened
<1>7. /\ finals' \in Seq(Started') /\ listening' \in [Xhr -> SUBSET Started'] /\ fetches' \subseteq Started'
      /\ \A y, z \in Xhr : y # z => listening'[y] \cap listening'[z] = {}
      /\ \A y \in Xhr : listening'[y] \cap fetches' = {}
      /\ \A i, j \in Started' : i # j /\ starts'[i] = starts'[j] => starts'[i] \in refused'
      /\ IsInjective(finals')
      /\ Started' = Range(finals') \cup Waiting' /\ Range(finals') \cap Waiting' = {}
  BY <1>1, <1>2 DEF NetworkInv
<1> QED BY <1>3, <1>4, <1>5, <1>6, <1>7, Zenon DEF NetworkInv

LEMMA SendKeeps ==
    ASSUME NetworkInv, NEW x \in Xhr, Send(x)
    PROVE  NetworkInv'
<1>1. /\ native' = (IF native[x] = "opened" THEN [native EXCEPT ![x] = "loading"] ELSE native)
      /\ UNCHANGED <<metadata, fetches, issued, finals, installed>>
  BY DEF Send
<1>2. /\ native' \in [Xhr -> {"unsent", "opened", "loading", "done"}]
      /\ \A y \in Xhr : native'[y] = "opened" => y # x /\ native[y] = "opened"
  BY <1>1 DEF NetworkInv
<1>3. CASE ~(installed /\ metadata[x] # 0)
  <2>1. starts' = starts /\ listening' = listening /\ refused' = refused
    BY <1>3 DEF Send
  <2>2. Waiting' = Waiting /\ Started' = Started
    BY <2>1, <1>1 DEF Waiting, Started
  <2>3. ASSUME NEW y \in Xhr, installed', native'[y] = "opened", metadata'[y] # 0
        PROVE  metadata'[y] \notin Range(starts')
    BY <2>1, <2>3, <1>1, <1>2 DEF NetworkInv
  <2> QED BY <2>1, <2>2, <2>3, <1>1, <1>2 DEF NetworkInv
<1>4. CASE installed /\ metadata[x] # 0
  <2> DEFINE n == metadata[x]
             new == Len(starts) + 1
  <2>1. /\ starts' = Append(starts, n) /\ listening' = [listening EXCEPT ![x] = @ \cup {new}]
        /\ refused' = (IF native[x] = "opened" THEN refused ELSE refused \cup {n})
    BY <1>4 DEF Send
  <2>2. n \in 1..issued /\ (n \in Range(starts) => n \in refused') /\ refused \subseteq refused'
    BY <2>1, <1>4 DEF NetworkInv
  <2>3. /\ listening'[x] = listening[x] \cup {new}
        /\ \A y \in Xhr \ {x} : listening'[y] = listening[y]
    BY <2>1 DEF NetworkInv
  <2>4. Waiting' = Waiting \cup {new}
    BY <2>3, <1>1 DEF Waiting
  <2>5. /\ starts' \in Seq(1..issued) /\ Range(starts') = Range(starts) \cup {n}
        /\ Started' = Started \cup {new} /\ new \notin Started
        /\ \A i, j \in Started' : i # j /\ starts'[i] = starts'[j] => starts'[i] \in refused'
        /\ finals' \in Seq(Started') /\ IsInjective(finals')
        /\ Started' = Range(finals') \cup Waiting' /\ Range(finals') \cap Waiting' = {}
    <3>1. starts \in Seq(1..issued) /\ finals' = finals
      BY <1>1 DEF NetworkInv
    <3> HIDE DEF n
    <3> QED BY <3>1, <2>1, <2>2, <2>4, StartWaits
  <2>6. ASSUME NEW y \in Xhr, native'[y] = "opened", metadata'[y] # 0
        PROVE  metadata'[y] \notin Range(starts')
    <3>1. y # x /\ native[y] = "opened"
      BY <2>6, <1>2
    <3>2. metadata[y] \notin Range(starts) /\ metadata[y] # n
      BY <3>1, <2>6, <1>1, <1>4 DEF NetworkInv
    <3> QED BY <3>2, <2>5, <1>1
  <2> HIDE DEF n, new
  <2>7. /\ listening \in [Xhr -> SUBSET Started] /\ fetches \subseteq Started
        /\ \A y, z \in Xhr : y # z => listening[y] \cap listening[z] = {}
        /\ \A y \in Xhr : listening[y] \cap fetches = {}
    BY DEF NetworkInv
  <2>8. listening' \in [Xhr -> SUBSET Started'] /\ fetches' \subseteq Started'
    BY <2>1, <2>5, <2>7, <1>1
  <2>9. ASSUME NEW y \in Xhr, NEW z \in Xhr, y # z
        PROVE  listening'[y] \cap listening'[z] = {}
    BY <2>3, <2>5, <2>7, <2>9
  <2>10. ASSUME NEW y \in Xhr PROVE listening'[y] \cap fetches' = {}
    BY <2>3, <2>5, <2>7, <1>1
  <2>11. /\ issued' \in Nat /\ metadata' \in [Xhr -> 0..issued'] /\ starts' \in Seq(1..issued')
         /\ \A y, z \in Xhr : y # z /\ metadata'[y] # 0 => metadata'[y] # metadata'[z]
    BY <1>1, <2>5 DEF NetworkInv
  <2> QED BY <2>5, <2>6, <2>8, <2>9, <2>10, <2>11, <1>2, Zenon DEF NetworkInv
<1> QED BY <1>3, <1>4

LEMMA DoneKeeps ==
    ASSUME NetworkInv, NEW x \in Xhr, NEW again \in BOOLEAN, Done(x, again)
    PROVE  NetworkInv'
<1> DEFINE E == listening[x]
           ended == SetToSeq(E)
           i == IF again THEN issued + 1 ELSE issued
<1>1. /\ native' = [native EXCEPT ![x] = IF again THEN "opened" ELSE "done"]
      /\ issued' = i /\ finals' = finals \o ended
      /\ listening' = [listening EXCEPT ![x] = {}]
      /\ metadata' = [metadata EXCEPT ![x] = IF E # {} THEN 0
                                             ELSE IF again /\ installed THEN issued + 1 ELSE @]
      /\ UNCHANGED <<fetches, starts, refused, installed>>
  BY DEF Done
<1>2. E \subseteq Started /\ issued \in Nat /\ IsFiniteSet(E)
  <2>1. E \subseteq Started /\ issued \in Nat /\ starts \in Seq(1..issued)
    BY DEF NetworkInv
  <2>2. IsFiniteSet(Started)
    BY <2>1, LenProperties, FS_Interval DEF Started
  <2> QED BY <2>1, <2>2, FS_Subset
<1>3. ended \in Seq(Started) /\ IsInjective(ended) /\ Range(ended) = E
  BY <1>2, SeqOfSet, SeqMonotonic
<1>4. \A n \in E : n \in Waiting
  BY InWaiting
<1> HIDE DEF ended
<1>5. finals' \in Seq(Started) /\ IsInjective(finals') /\ Range(finals') = Range(finals) \cup E
  <2>1. finals \in Seq(Started) /\ IsInjective(finals) /\ Range(finals) \cap Range(ended) = {}
    BY <1>3, <1>4 DEF NetworkInv
  <2> QED BY <2>1, <1>1, <1>3, ConcatProperties, RangeOfConcat, InjectiveConcat
<1>6. /\ listening' \in [Xhr -> SUBSET Started] /\ listening'[x] = {}
      /\ \A y \in Xhr \ {x} : listening'[y] = listening[y]
  BY <1>1 DEF NetworkInv
<1>7. Waiting' = Waiting \ E
  <2>1. \A n : n \in Waiting' <=> n \in fetches' \/ \E y \in Xhr : n \in listening'[y]
    BY DEF Waiting
  <2>2. \A n \in E : n \notin fetches /\ \A y \in Xhr \ {x} : n \notin listening[y]
    BY DEF NetworkInv
  <2>3. \A n \in Waiting' : n \in Waiting /\ n \notin E
    BY <2>1, <2>2, <1>1, <1>6, InWaiting
  <2>4. \A n \in Waiting : n \notin E => n \in Waiting'
    BY <2>1, <1>1, <1>6, InWaiting
  <2> QED BY <2>3, <2>4
<1>8. Started' = Started
  BY <1>1 DEF Started
<1>9. Started' = Range(finals') \cup Waiting' /\ Range(finals') \cap Waiting' = {}
  BY <1>4, <1>5, <1>7, <1>8 DEF NetworkInv
<1>10. native' \in [Xhr -> {"unsent", "opened", "loading", "done"}]
  BY <1>1 DEF NetworkInv
<1>11. /\ \A y \in Xhr \ {x} : metadata'[y] = metadata[y] /\ native'[y] = native[y]
       /\ metadata'[x] = IF E # {} THEN 0 ELSE IF again /\ installed THEN issued + 1 ELSE metadata[x]
       /\ native'[x] = IF again THEN "opened" ELSE "done"
  BY <1>1 DEF NetworkInv
<1>12. 1..issued \subseteq 1..i /\ 0..issued \subseteq 0..i /\ i \in Nat
  BY <1>2
<1>13. metadata' \in [Xhr -> 0..i]
  <2>1. (IF E # {} THEN 0 ELSE IF again /\ installed THEN issued + 1 ELSE metadata[x]) \in 0..i
    BY <1>2 DEF NetworkInv
  <2>2. metadata \in [Xhr -> 0..i]
    BY <1>12 DEF NetworkInv
  <2> QED BY <2>1, <2>2, <1>1
<1>14. ASSUME NEW y \in Xhr, NEW z \in Xhr, y # z, metadata'[y] # 0
       PROVE  metadata'[y] # metadata'[z]
  BY <1>11, <1>14, Widened DEF NetworkInv
<1>15. ASSUME NEW y \in Xhr, installed, native'[y] = "opened", metadata'[y] # 0
       PROVE  metadata'[y] \notin Range(starts)
  <2>1. CASE y = x
    <3>1. metadata'[y] = issued + 1
      BY <2>1, <1>11, <1>15
    <3> QED BY <3>1, Widened
  <2>2. CASE y # x
    BY <2>2, <1>11, <1>15 DEF NetworkInv
  <2> QED BY <2>1, <2>2
<1>16. starts' \in Seq(1..i)
  <2> HIDE DEF i
  <2> QED BY <1>1, <1>12, SeqMonotonic DEF NetworkInv
<1>17. /\ \A y, z \in Xhr : y # z => listening'[y] \cap listening'[z] = {}
       /\ \A y \in Xhr : listening'[y] \cap fetches' = {}
       /\ fetches' \subseteq Started'
  BY <1>1, <1>6, <1>8 DEF NetworkInv
<1>18. \A k, j \in Started' : k # j /\ starts'[k] = starts'[j] => starts'[k] \in refused'
  BY <1>1, <1>8 DEF NetworkInv
<1>19. starts' = starts /\ installed' = installed /\ issued' = i
  BY <1>1
<1>20. finals' \in Seq(Started') /\ listening' \in [Xhr -> SUBSET Started']
  BY <1>5, <1>6, <1>8
<1> HIDE DEF i, E
<1> QED BY <1>5, <1>9, <1>10, <1>12, <1>13, <1>14, <1>15, <1>16, <1>17, <1>18, <1>19, <1>20, Zenon DEF NetworkInv

LEMMA FetchKeeps == ASSUME NetworkInv, Fetch PROVE NetworkInv'
<1>1. issued' = issued + 1 /\ UNCHANGED <<native, metadata, listening, finals, refused, installed>>
  BY DEF Fetch
<1>2. CASE ~installed
  <2>1. starts' = starts /\ fetches' = fetches
    BY <1>2 DEF Fetch
  <2>2. Waiting' = Waiting /\ Started' = Started
    BY <2>1, <1>1 DEF Waiting, Started
  <2> QED BY <2>1, <2>2, <1>1, <1>2, Widened DEF NetworkInv
<1>3. CASE installed
  <2> DEFINE new == Len(starts) + 1
  <2>1. starts' = Append(starts, issued') /\ fetches' = fetches \cup {new}
    BY <1>1, <1>3 DEF Fetch
  <2>2. issued' \in 1..issued' /\ issued' \notin Range(starts) /\ starts \in Seq(1..issued')
    BY <1>1, Widened
  <2>3. Waiting' = Waiting \cup {new}
    BY <2>1, <1>1 DEF Waiting
  <2>4. /\ starts' \in Seq(1..issued') /\ Range(starts') = Range(starts) \cup {issued'}
        /\ Started' = Started \cup {new} /\ new \notin Started
        /\ \A i, j \in Started' : i # j /\ starts'[i] = starts'[j] => starts'[i] \in refused'
        /\ finals' \in Seq(Started') /\ IsInjective(finals')
        /\ Started' = Range(finals') \cup Waiting' /\ Range(finals') \cap Waiting' = {}
    BY <2>1, <2>2, <2>3, <1>1, StartWaits
  <2>5. ASSUME NEW y \in Xhr, native'[y] = "opened", metadata'[y] # 0
        PROVE  metadata'[y] \notin Range(starts')
    <3>1. metadata[y] \notin Range(starts) /\ metadata[y] # issued'
      BY <2>5, <1>1, <1>3, Widened DEF NetworkInv
    <3> QED BY <3>1, <2>4, <1>1
  <2> HIDE DEF new
  <2>6. /\ listening \in [Xhr -> SUBSET Started] /\ fetches \subseteq Started
        /\ \A y \in Xhr : listening[y] \cap fetches = {}
    BY DEF NetworkInv
  <2>7. listening' \in [Xhr -> SUBSET Started'] /\ fetches' \subseteq Started'
    BY <2>1, <2>4, <2>6, <1>1
  <2>8. ASSUME NEW y \in Xhr PROVE listening'[y] \cap fetches' = {}
    BY <2>1, <2>4, <2>6, <1>1
  <2>9. issued' \in Nat /\ metadata' \in [Xhr -> 0..issued']
    BY <1>1, Widened
  <2>10. /\ native' \in [Xhr -> {"unsent", "opened", "loading", "done"}]
         /\ \A y, z \in Xhr : y # z => listening'[y] \cap listening'[z] = {}
         /\ \A y, z \in Xhr : y # z /\ metadata'[y] # 0 => metadata'[y] # metadata'[z]
    BY <1>1 DEF NetworkInv
  <2> QED BY <2>4, <2>5, <2>7, <2>8, <2>9, <2>10, Zenon DEF NetworkInv
<1> QED BY <1>2, <1>3

LEMMA FetchSettlesKeeps ==
    ASSUME NetworkInv, NEW n \in fetches, FetchSettles(n)
    PROVE  NetworkInv'
<1>1. /\ fetches' = fetches \ {n} /\ finals' = Append(finals, n)
      /\ UNCHANGED <<native, metadata, listening, issued, starts, refused, installed>>
  BY DEF FetchSettles
<1>2. n \in Waiting /\ n \in Started /\ n \notin Range(finals)
  BY InWaiting DEF NetworkInv
<1>3. finals' \in Seq(Started) /\ IsInjective(finals') /\ Range(finals') = Range(finals) \cup {n}
  BY <1>1, <1>2, AppendNew DEF NetworkInv
<1>4. \A x \in Xhr : n \notin listening[x]
  BY DEF NetworkInv
<1>5. Waiting' = Waiting \ {n} /\ Started' = Started
  BY <1>1, <1>4 DEF Waiting, Started
<1>6. Started' = Range(finals') \cup Waiting' /\ Range(finals') \cap Waiting' = {}
  BY <1>1, <1>2, <1>3, <1>5 DEF NetworkInv
<1> QED BY <1>1, <1>3, <1>5, <1>6 DEF NetworkInv

LEMMA NetworkKept ==
    ASSUME NetworkInv, UNCHANGED xhrVars, installed' => installed
    PROVE  NetworkInv'
<1>1. Waiting' = Waiting /\ Started' = Started
  BY DEF xhrVars, Waiting, Started
<1> QED BY <1>1 DEF xhrVars, NetworkInv

LEMMA NetworkInit == ASSUME Init PROVE NetworkInv
<1>1. /\ native = [x \in Xhr |-> "unsent"] /\ metadata = [x \in Xhr |-> 0] /\ listening = [x \in Xhr |-> {}]
      /\ fetches = {} /\ issued = 0 /\ starts = <<>> /\ finals = <<>>
  BY DEF Init, BsInit
<1>2. Started = {}
  BY <1>1 DEF Started
<1>3. starts \in Seq(1..issued) /\ finals \in Seq(Started) /\ Range(finals) = {}
      /\ IsInjective(finals) /\ Waiting = {}
  BY <1>1, EmptySeq DEF Range, IsInjective, Waiting
<1> QED BY <1>1, <1>2, <1>3 DEF NetworkInv

LEMMA NetworkStep == ASSUME NetworkInv, [Next]_vars PROVE NetworkInv'
<1>1. CASE NetworkNext
  <2>1. CASE Uninstall
    BY <2>1, NetworkKept DEF Uninstall
  <2> QED BY <1>1, <2>1, OpenKeeps, SendKeeps, DoneKeeps, FetchKeeps, FetchSettlesKeeps DEF NetworkNext
<1>2. CASE ErrorNext
  <2>1. ErrorNext => UNCHANGED xhrVars /\ (installed' => installed)
    <3>1. \A m \in Message : HandleError(m) => UNCHANGED xhrVars /\ (installed' => installed)
      BY DEF HandleError
    <3>2. Tick \/ Uninstall => UNCHANGED xhrVars /\ (installed' => installed)
      BY DEF Tick, Uninstall
    <3> QED BY <3>1, <3>2, Zenon DEF ErrorNext
  <2> QED BY <2>1, <1>2, NetworkKept
<1>3. CASE UNCHANGED bsVars
  BY <1>3, NetworkKept DEF bsVars
<1> QED BY <1>1, <1>2, <1>3 DEF Next, Requests, Patches, Network, Errors, vars

\* However a page opens, reopens, sends and settles its requests, and sends them
\* again in vain, every start the interceptor reported is reported as ended once
\* or waits for the event that will end it, none ends that did not start, and
\* only a send that the browser refused repeats the start of a request.
THEOREM EachRequestEndsOnce == Spec => []XhrEndsOnce
<1>1. Spec => []NetworkInv
  BY NetworkInit, NetworkStep, PTL DEF Spec
<1>2. NetworkInv => XhrEndsOnce
  <2>1. NetworkInv => DOMAIN starts = Started
    BY LenProperties DEF NetworkInv, Started
  <2> QED BY <2>1 DEF NetworkInv, XhrEndsOnce, Waiting
<1> QED BY <1>1, <1>2, PTL

-----------------------------------------------------------------------------
(* The error boundary *)

Entry == [m : Message, t : Nat]
Telling == [t : Nat, pushed : BOOLEAN]

\* A message reported within the window is in the list still, with the time of
\* that report, or the cap has dropped it since.
Recalled ==
    \A m \in Message :
        LET last == told[m][Len(told[m])]
        IN  told[m] # <<>> /\ now - last.t <= Window =>
                m \in pushed \/ \E i \in 1..Len(recent) : recent[i] = [m |-> m, t |-> last.t]

EchoInv ==
    /\ now \in Nat /\ recent \in Seq(Entry)
    /\ told \in [Message -> Seq(Telling)]
    /\ \A m \in Message : Len(told[m]) <= 2
    /\ installed => Recalled
    /\ NoEchoes

\* What is within the window is fresh.
LEMMA FreshKeeps ==
    ASSUME EchoInv
    PROVE  /\ Fresh(recent) \in Seq(Entry)
           /\ \A i \in 1..Len(recent) : now - recent[i].t <= Window =>
                \E j \in 1..Len(Fresh(recent)) : Fresh(recent)[j] = recent[i]
<1> DEFINE fresh == {i \in 1..Len(recent) : now - recent[i].t <= Window}
           n == Len(recent)
<1>1. n \in Nat /\ \A i \in 1..n : recent[i] \in Entry
  BY LenProperties, ElementOfSeq DEF EchoInv
<1>2. CASE fresh = {}
  <2>1. Fresh(recent) = <<>>
    BY <1>2 DEF Fresh
  <2> QED BY <2>1, <1>2, EmptySeq
<1>3. CASE fresh # {}
  <2> DEFINE k == Min(fresh)
  <2>1. \E x \in fresh : \A y \in fresh : x <= y
    <3>1. fresh \in SUBSET Nat
      BY <1>1
    <3> QED BY <3>1, <1>3, NatMin
  <2>2. k \in fresh /\ \A y \in fresh : k <= y
    BY <2>1 DEF Min
  <2>3. k \in 1..n
    BY <2>2
  <2>4. Fresh(recent) = SubSeq(recent, k, n)
    BY <1>3, Zenon DEF Fresh
  <2> HIDE DEF k
  <2>5. /\ SubSeq(recent, k, n) \in Seq(Entry) /\ Len(SubSeq(recent, k, n)) = n - k + 1
        /\ \A i \in 1..n - k + 1 : SubSeq(recent, k, n)[i] = recent[k + i - 1]
    <3>1. k \in Int /\ n \in Int /\ k <= n /\ \A i \in k..n : recent[i] \in Entry
      BY <2>3, <1>1
    <3> QED BY <3>1, SubSeqProperties
  <2>6. ASSUME NEW i \in 1..n, now - recent[i].t <= Window
        PROVE  \E j \in 1..Len(Fresh(recent)) : Fresh(recent)[j] = recent[i]
    <3>1. k <= i
      BY <2>2, <2>6
    <3>2. i - k + 1 \in 1..n - k + 1 /\ k + (i - k + 1) - 1 = i
      BY <3>1, <2>3, <1>1
    <3>3. SubSeq(recent, k, n)[i - k + 1] = recent[i]
      BY <3>2, <2>5
    <3> QED BY <3>2, <3>3, <2>4, <2>5
  <2> QED BY <2>4, <2>5, <2>6
<1> QED BY <1>2, <1>3

LEMMA RememberedTyped ==
    ASSUME EchoInv
    PROVE  Remembered \in Seq(Entry)
<1> DEFINE f == Fresh(recent)
<1>1. f \in Seq(Entry) /\ Len(f) \in Nat /\ \A i \in 1..Len(f) : f[i] \in Entry
  BY FreshKeeps, LenProperties, ElementOfSeq
<1>2. MaxRecent \in Nat \ {0}
  BY PageAssumption
<1> HIDE DEF f
<1>3. CASE Len(f) >= MaxRecent
  <2>1. Capped(f) = SubSeq(f, Len(f) - MaxRecent + 2, Len(f))
    BY <1>3 DEF Capped
  <2>2. Len(f) - MaxRecent + 2 \in Int /\ Len(f) \in Int
    BY <1>1, <1>2
  <2>3. \A i \in Len(f) - MaxRecent + 2..Len(f) : f[i] \in Entry
    BY <1>1, <1>2, <1>3
  <2> QED BY <2>1, <2>2, <2>3, SubSeqProperties DEF Remembered, f
<1>4. CASE ~(Len(f) >= MaxRecent)
  BY <1>1, <1>4 DEF Capped, Remembered, f
<1> QED BY <1>3, <1>4

\* An entry within the window is remembered, unless the cap drops it now.
LEMMA RememberedOrOut ==
    ASSUME EchoInv, NEW i \in 1..Len(recent), now - recent[i].t <= Window
    PROVE  \/ \E j \in 1..Len(Remembered) : Remembered[j] = recent[i]
           \/ recent[i].m \in {e.m : e \in Range(Fresh(recent)) \ Range(Remembered)}
<1>1. PICK j \in 1..Len(Fresh(recent)) : Fresh(recent)[j] = recent[i]
  BY FreshKeeps
<1>2. recent[i] \in Range(Fresh(recent))
  BY <1>1, FreshKeeps, InBuffer
<1>3. CASE recent[i] \in Range(Remembered)
  BY <1>3, RememberedTyped, InBuffer
<1>4. CASE recent[i] \notin Range(Remembered)
  BY <1>2, <1>4
<1> QED BY <1>3, <1>4

LEMMA HandleErrorKeeps ==
    ASSUME EchoInv, NEW m \in Message, HandleError(m)
    PROVE  EchoInv'
<1> DEFINE known == \E i \in 1..Len(Remembered) : Remembered[i].m = m
           out == {e.m : e \in Range(Fresh(recent)) \ Range(Remembered)}
<1>1. /\ installed /\ now' = now /\ installed' = installed
      /\ recent' = (IF known THEN Remembered ELSE Append(Remembered, [m |-> m, t |-> now]))
      /\ told' = (IF known THEN told ELSE Told(m, m \in pushed \cup out))
      /\ pushed' = (IF known THEN pushed \cup out ELSE (pushed \cup out) \ {m})
  BY DEF HandleError
<1>2. /\ now \in Nat /\ Remembered \in Seq(Entry) /\ Len(Remembered) \in Nat
      /\ told \in [Message -> Seq(Telling)] /\ Recalled /\ NoEchoes
      /\ \A k \in Message : Len(told[k]) <= 2
  BY <1>1, RememberedTyped, LenProperties DEF EchoInv
\* Whoever was told within the window is remembered, or pushed out by now.
<1>3. ASSUME NEW k \in Message, told[k] # <<>>, now - told[k][Len(told[k])].t <= Window
      PROVE  \/ k \in pushed \cup out
             \/ \E j \in 1..Len(Remembered) : Remembered[j] = [m |-> k, t |-> told[k][Len(told[k])].t]
  <2>1. CASE k \in pushed
    BY <2>1
  <2>2. CASE k \notin pushed
    <3>1. PICK i \in 1..Len(recent) : recent[i] = [m |-> k, t |-> told[k][Len(told[k])].t]
      BY <2>2, <1>2, <1>3 DEF Recalled
    <3>2. recent[i].m = k /\ now - recent[i].t <= Window
      BY <3>1, <1>3
    <3> HIDE DEF out
    <3>3. \/ \E j \in 1..Len(Remembered) : Remembered[j] = recent[i]
          \/ recent[i].m \in out
      BY <3>2, RememberedOrOut DEF out
    <3> QED BY <3>1, <3>2, <3>3
  <2> QED BY <2>1, <2>2
<1> HIDE DEF out
<1>4. CASE known
  <2>1. recent' = Remembered /\ told' = told /\ pushed' = pushed \cup out
    BY <1>1, <1>4
  <2>2. Recalled'
    BY <2>1, <1>1, <1>3 DEF Recalled
  <2>3. NoEchoes'
    BY <2>1, <1>2 DEF NoEchoes
  <2> QED BY <2>1, <2>2, <2>3, <1>1, <1>2 DEF EchoInv
<1>5. CASE ~known
  <2> DEFINE old == told[m]
             kept == IF Len(old) = 2 THEN Tail(old) ELSE old
  <2>1. PICK was \in BOOLEAN : was = (m \in pushed \cup out)
    <3>1. (m \in pushed \cup out) = TRUE \/ (m \in pushed \cup out) = FALSE
      OBVIOUS
    <3> QED BY <3>1, Zenon
  <2> DEFINE new == [t |-> now, pushed |-> was]
  <2>2. told' = [told EXCEPT ![m] = kept \o <<new>>]
    BY <1>1, <1>5, <2>1 DEF Told
  <2>3. new \in Telling /\ new.t = now /\ new.pushed = was
    BY <1>2 DEF Telling
  <2>4. old \in Seq(Telling) /\ Len(old) \in 0..2
    <3>1. told[m] \in Seq(Telling) /\ Len(told[m]) <= 2
      BY <1>2
    <3>2. Len(told[m]) \in Nat
      BY <3>1, LenProperties
    <3>3. \A n \in Nat : n <= 2 => n \in 0..2
      OBVIOUS
    <3> QED BY <3>1, <3>2, <3>3, Zenon
  <2>5. /\ kept \in Seq(Telling) /\ Len(kept) = (IF old = <<>> THEN 0 ELSE 1)
        /\ old # <<>> => kept[1] = old[Len(old)]
    <3>1. CASE Len(old) = 2
      <4>1. old # <<>>
        BY <3>1, EmptySeq
      <4> HIDE DEF old
      <4>2. Tail(old) \in Seq(Telling) /\ Len(Tail(old)) = 1 /\ Tail(old)[1] = old[2]
        BY <4>1, <3>1, <2>4, HeadTailProperties, TailIsSubSeq, SubSeqProperties
      <4> QED BY <4>1, <4>2, <3>1
    <3>2. CASE Len(old) # 2
      <4> HIDE DEF old
      <4>1. Len(old) = 0 <=> old = <<>>
        BY <2>4, EmptySeq
      <4> QED BY <4>1, <3>2, <2>4
    <3> QED BY <3>1, <3>2
  <2> HIDE DEF kept, new, old
  <2>6. /\ kept \o <<new>> \in Seq(Telling) /\ Len(kept \o <<new>>) = Len(kept) + 1
        /\ (kept \o <<new>>)[Len(kept) + 1] = new
        /\ Len(kept) = 1 => (kept \o <<new>>)[1] = kept[1]
    <3>1. <<new>> \in Seq(Telling) /\ Len(<<new>>) = 1 /\ <<new>>[1] = new /\ Len(kept) \in Nat
      BY <2>3, <2>5, LenProperties
    <3>2. /\ kept \o <<new>> \in Seq(Telling) /\ Len(kept \o <<new>>) = Len(kept) + Len(<<new>>)
          /\ \A i \in 1..Len(kept) + Len(<<new>>) :
                (kept \o <<new>>)[i] = IF i <= Len(kept) THEN kept[i] ELSE <<new>>[i - Len(kept)]
      BY <3>1, <2>5, ConcatProperties
    <3>3. Len(kept) + 1 \in 1..Len(kept) + Len(<<new>>) /\ 1 \in 1..Len(kept) + Len(<<new>>)
      BY <3>1
    <3> QED BY <3>1, <3>2, <3>3
  <2>7. /\ told' \in [Message -> Seq(Telling)] /\ told'[m] = kept \o <<new>>
        /\ \A k \in Message \ {m} : told'[k] = told[k]
    BY <2>2, <2>6, <1>2
  <2>8. \A k \in Message : Len(told'[k]) <= 2
    BY <2>4, <2>5, <2>6, <2>7, <1>2
  <2>9. /\ recent' = Append(Remembered, [m |-> m, t |-> now]) /\ pushed' = (pushed \cup out) \ {m}
    BY <1>1, <1>5
  <2>10. /\ recent' \in Seq(Entry) /\ Len(recent') = Len(Remembered) + 1
         /\ recent'[Len(Remembered) + 1] = [m |-> m, t |-> now]
         /\ \A i \in 1..Len(Remembered) : recent'[i] = Remembered[i]
    <3>1. [m |-> m, t |-> now] \in Entry
      BY <1>2 DEF Entry
    <3> QED BY <3>1, <2>9, <1>2, AppendProperties
  <2>11. Recalled'
    <3> SUFFICES ASSUME NEW k \in Message, told'[k] # <<>>, now - told'[k][Len(told'[k])].t <= Window,
                        k \notin pushed'
                 PROVE  \E i \in 1..Len(recent') : recent'[i] = [m |-> k, t |-> told'[k][Len(told'[k])].t]
      BY <1>1 DEF Recalled
    <3>1. CASE k = m
      <4>1. told'[k][Len(told'[k])] = new
        BY <3>1, <2>6, <2>7
      <4>2. Len(Remembered) + 1 \in 1..Len(recent')
        BY <2>10, <1>2
      <4> QED BY <4>1, <4>2, <3>1, <2>3, <2>10
    <3>2. CASE k # m
      <4>1. told'[k] = told[k] /\ k \notin pushed \cup out
        BY <3>2, <2>7, <2>9
      <4>2. PICK j \in 1..Len(Remembered) : Remembered[j] = [m |-> k, t |-> told[k][Len(told[k])].t]
        BY <4>1, <1>3
      <4>3. j \in 1..Len(recent') /\ recent'[j] = Remembered[j]
        BY <2>10, <1>2
      <4> QED BY <4>1, <4>2, <4>3
    <3> QED BY <3>1, <3>2
  <2>12. NoEchoes'
    <3> SUFFICES ASSUME NEW k \in Message, Len(told'[k]) = 2, told'[k][2].t - told'[k][1].t <= Window
                 PROVE  told'[k][2].pushed
      BY DEF NoEchoes
    <3>1. CASE k # m
      BY <3>1, <2>7, <1>2 DEF NoEchoes
    <3>2. CASE k = m
      <4>1. Len(kept) = 1 /\ old # <<>>
        BY <3>2, <2>4, <2>5, <2>6, <2>7
      <4>2. told'[k][2] = new /\ told'[k][1] = old[Len(old)]
        BY <4>1, <3>2, <2>5, <2>6, <2>7
      <4>3. told[m] # <<>> /\ now - told[m][Len(told[m])].t <= Window
        BY <4>1, <4>2, <2>3 DEF old
      <4>4. ~\E j \in 1..Len(Remembered) : Remembered[j] = [m |-> m, t |-> told[m][Len(told[m])].t]
        BY <1>5
      <4>5. m \in pushed \cup out
        BY <4>3, <4>4, <1>3
      <4> QED BY <4>2, <4>5, <2>1, <2>3
    <3> QED BY <3>1, <3>2
  <2> QED BY <2>7, <2>8, <2>10, <2>11, <2>12, <1>1, <1>2 DEF EchoInv
<1> QED BY <1>4, <1>5

LEMMA TickKeeps == ASSUME EchoInv, Tick PROVE EchoInv'
<1>1. now' = now + 1 /\ UNCHANGED <<recent, pushed, told, installed>>
  BY DEF Tick
<1>2. ASSUME Recalled PROVE Recalled'
  <2>1. ASSUME NEW k \in Message, told[k] # <<>>, (now + 1) - told[k][Len(told[k])].t <= Window
        PROVE  k \in pushed \/ \E i \in 1..Len(recent) : recent[i] = [m |-> k, t |-> told[k][Len(told[k])].t]
    <3>1. told[k] \in Seq(Telling) /\ Len(told[k]) \in 1..Len(told[k])
      BY <2>1, EmptySeq DEF EchoInv
    <3>2. told[k][Len(told[k])] \in Telling
      BY <3>1, ElementOfSeq
    <3>3. told[k][Len(told[k])].t \in Nat /\ now \in Nat /\ Window \in Nat
      BY <3>2, PageAssumption DEF EchoInv, Telling
    <3>4. now - told[k][Len(told[k])].t <= Window
      BY <2>1, <3>3
    <3> QED BY <2>1, <3>4, <1>2 DEF Recalled
  <2> SUFFICES ASSUME NEW q \in Message, told'[q] # <<>>, now' - told'[q][Len(told'[q])].t <= Window
               PROVE  q \in pushed' \/ \E i \in 1..Len(recent') :
                                          recent'[i] = [m |-> q, t |-> told'[q][Len(told'[q])].t]
    BY Zenon DEF Recalled
  <2>2. told' = told /\ now' = now + 1 /\ recent' = recent /\ pushed' = pushed
    BY <1>1
  <2>3. told[q] # <<>> /\ (now + 1) - told[q][Len(told[q])].t <= Window
    BY <2>2, Zenon
  <2> QED BY <2>1, <2>2, <2>3, Zenon
<1>3. NoEchoes' = NoEchoes
  BY <1>1 DEF NoEchoes
<1> QED BY <1>1, <1>2, <1>3 DEF EchoInv

LEMMA EchoKept ==
    ASSUME EchoInv, UNCHANGED <<told, now>>,
           installed' => installed /\ UNCHANGED <<recent, pushed>>, recent' \in Seq(Entry)
    PROVE  EchoInv'
BY DEF EchoInv, NoEchoes, Recalled

LEMMA EchoInit == ASSUME Init PROVE EchoInv
<1>1. recent = <<>> /\ now = 0 /\ told = [m \in Message |-> <<>>]
  BY DEF Init, BsInit
<1>2. Len(<<>>) = 0 /\ \A S : <<>> \in Seq(S)
  BY EmptySeq
<1>3. Recalled /\ NoEchoes
  BY <1>1, <1>2 DEF Recalled, NoEchoes
<1> QED BY <1>1, <1>2, <1>3 DEF EchoInv

LEMMA EchoStep == ASSUME EchoInv, [Next]_vars PROVE EchoInv'
<1>0. recent \in Seq(Entry) /\ <<>> \in Seq(Entry)
  BY EmptySeq DEF EchoInv
<1>1. CASE Uninstall
  BY <1>0, <1>1, EchoKept DEF Uninstall
<1>2. CASE UNCHANGED <<errorVars, installed>>
  BY <1>0, <1>2, EchoKept DEF errorVars
<1>3. CASE ErrorNext
  BY <1>1, <1>3, HandleErrorKeeps, TickKeeps DEF ErrorNext
<1>4. NetworkNext => Uninstall \/ UNCHANGED <<errorVars, installed>>
  BY DEF NetworkNext, Open, Send, Done, Fetch, FetchSettles
<1>5. UNCHANGED bsVars => UNCHANGED <<errorVars, installed>>
  BY DEF bsVars
<1> QED BY <1>1, <1>2, <1>3, <1>4, <1>5 DEF Next, Requests, Patches, Network, Errors, vars

\* Whatever errors come in between and however old the list gets, a message is
\* reported again within the window only if the cap dropped its entry.
THEOREM EchoesAreDropped == Spec => []NoEchoes
<1>1. Spec => []EchoInv
  BY EchoInit, EchoStep, PTL DEF Spec
<1>2. EchoInv => NoEchoes
  BY DEF EchoInv
<1> QED BY <1>1, <1>2, PTL
=============================================================================
