----------------------------- MODULE LogSourceProofs -----------------------------
(***************************************************************************)
(* Proofs about the log sources, for every number of halves, connections   *)
(* and lines that continue a stack trace, and every size of the buffer.    *)
(*                                                                         *)
(* The parser is fed by a fold, and what it has handed over is flattened:  *)
(* both are functions defined by recursion on the length of a sequence.    *)
(* That such a function exists, and what it yields, is shown by looking at *)
(* the least length at which it would fail.                                *)
(***************************************************************************)
EXTENDS Capture, SequenceTheorems, WellFoundedInduction, TLAPS

-----------------------------------------------------------------------------
(* Recursion on the length of a sequence *)

\* A set of numbers that is not empty has a least one.
LEMMA LeastOf ==
    ASSUME NEW S, S \subseteq Nat, S # {}
    PROVE  \E x \in S : \A y \in S : x <= y
<1>1. PICK x \in S : \A y \in S : ~(<<y, x>> \in OpToRel(<, Nat))
  BY NatLessThanWellFounded, WFMin
<1>2. \A y \in S : ~(y < x)
  BY <1>1 DEF OpToRel
<1> QED BY <1>2

\* The function that FlattenSeq builds, up to its n-th value.
Joins(r, n, s) == \A i \in 1..n : r[i] = IF i = 1 THEN s[i] ELSE r[i - 1] \o s[i]

LEMMA JoinsExist ==
    ASSUME NEW s \in Seq(Seq(Nat)), NEW n \in 0..Len(s)
    PROVE  \E r : r = [i \in 1..n |-> IF i = 1 THEN s[i] ELSE r[i - 1] \o s[i]]
<1> DEFINE Has(m) == \E r : r = [i \in 1..m |-> IF i = 1 THEN s[i] ELSE r[i - 1] \o s[i]]
           Bad == {m \in 0..Len(s) : ~Has(m)}
<1>1. CASE Bad = {}
  BY <1>1
<1>2. CASE Bad # {}
  <2>0. Bad \subseteq Nat
    <3> HIDE DEF Has
    <3> QED OBVIOUS
  <2>1. PICK m \in Bad : \A k \in Bad : m <= k
    <3> HIDE DEF Bad
    <3> QED BY <1>2, <2>0, LeastOf
  <2>2. CASE m = 0
    <3>1. [i \in 1..0 |-> <<>>] = [i \in 1..0 |-> IF i = 1 THEN s[i] ELSE [j \in 1..0 |-> <<>>][i - 1] \o s[i]]
      OBVIOUS
    <3> QED BY <3>1, <2>1, <2>2
  <2>3. CASE m # 0
    <3>1. m - 1 \in 0..Len(s) /\ m \in Nat /\ m - 1 \in Nat /\ ~(m <= m - 1)
      BY <2>1, <2>3
    <3>2. Has(m - 1)
      BY <3>1, <2>1
    <3> HIDE DEF Bad
    <3>3. PICK r : r = [i \in 1..m - 1 |-> IF i = 1 THEN s[i] ELSE r[i - 1] \o s[i]]
      BY <3>2
    <3> DEFINE q == [i \in 1..m |-> IF i \in 1..m - 1 THEN r[i] ELSE IF i = 1 THEN s[i] ELSE r[i - 1] \o s[i]]
    <3>4. ASSUME NEW i \in 1..m PROVE q[i] = IF i = 1 THEN s[i] ELSE q[i - 1] \o s[i]
      <4>1. CASE i = 1
        BY <4>1, <3>3, <3>1
      <4>2. CASE i # 1
        <5>1. i - 1 \in 1..m - 1 /\ i - 1 \in 1..m
          BY <4>2, <3>1
        <5>2. q[i - 1] = r[i - 1]
          BY <5>1
        <5>3. q[i] = r[i - 1] \o s[i]
          BY <4>2, <3>3, <3>1
        <5> QED BY <5>2, <5>3, <4>2
      <4> QED BY <4>1, <4>2
    <3>5. q = [i \in 1..m |-> IF i = 1 THEN s[i] ELSE q[i - 1] \o s[i]]
      BY <3>4
    <3> QED BY <3>5, <2>1 DEF Bad
  <2> QED BY <2>2, <2>3
<1> QED BY <1>1, <1>2

LEMMA FlatJoins ==
    ASSUME NEW s \in Seq(Seq(Nat)), Len(s) # 0
    PROVE  \E r : Joins(r, Len(s), s) /\ FlattenSeq(s) = r[Len(s)]
<1>1. PICK g : g = [i \in 1..Len(s) |-> IF i = 1 THEN s[i] ELSE g[i - 1] \o s[i]]
  <2>1. Len(s) \in 0..Len(s)
    BY LenProperties
  <2> QED BY <2>1, JoinsExist
<1>2. \E r : /\ r = [i \in 1..Len(s) |-> IF i = 1 THEN s[i] ELSE r[i - 1] \o s[i]]
             /\ FlattenSeq(s) = r[Len(s)]
  BY <1>1 DEF FlattenSeq
<1> QED BY <1>2 DEF Joins

\* Two such functions agree, and their values are sequences of numbers.
LEMMA JoinsAgree ==
    ASSUME NEW s \in Seq(Seq(Nat)), NEW n \in Nat, n <= Len(s),
           NEW q, NEW r, Joins(q, n, s), Joins(r, n, s), NEW i \in 1..n
    PROVE  q[i] = r[i] /\ q[i] \in Seq(Nat)
<1> DEFINE Bad == {j \in 1..n : ~(q[j] = r[j] /\ q[j] \in Seq(Nat))}
<1>1. CASE Bad = {}
  BY <1>1
<1>2. CASE Bad # {}
  <2>0. Bad \subseteq Nat
    OBVIOUS
  <2>1. PICK m \in Bad : \A k \in Bad : m <= k
    <3> HIDE DEF Bad
    <3> QED BY <1>2, <2>0, LeastOf
  <2>2. s[m] \in Seq(Nat)
    OBVIOUS
  <2>3. CASE m = 1
    BY <2>1, <2>2, <2>3 DEF Joins
  <2>4. CASE m # 1
    <3>1. m - 1 \in 1..n /\ ~(m <= m - 1)
      BY <2>4
    <3>2. q[m - 1] = r[m - 1] /\ q[m - 1] \in Seq(Nat)
      BY <2>1, <3>1
    <3>3. q[m] = q[m - 1] \o s[m] /\ r[m] = r[m - 1] \o s[m]
      BY <2>4 DEF Joins
    <3>4. q[m] \in Seq(Nat)
      BY <3>2, <3>3, <2>2, ConcatProperties
    <3> QED BY <3>2, <3>3, <3>4, <2>2, <2>1
  <2> QED BY <2>3, <2>4
<1> QED BY <1>1, <1>2

\* FlattenSeq puts the last sequence after what the others make.
LEMMA FlatAppend ==
    ASSUME NEW s \in Seq(Seq(Nat)), NEW e \in Seq(Nat)
    PROVE  /\ FlattenSeq(s) \in Seq(Nat)
           /\ FlattenSeq(Append(s, e)) = FlattenSeq(s) \o e
<1> DEFINE t == Append(s, e)
           n == Len(s)
<1>1. /\ t \in Seq(Seq(Nat)) /\ Len(t) = n + 1 /\ n \in Nat /\ t[n + 1] = e
      /\ \A i \in 1..n : t[i] = s[i]
  BY AppendProperties, LenProperties
<1> HIDE DEF t
<1>2. PICK q : Joins(q, n + 1, t) /\ FlattenSeq(t) = q[n + 1]
  <2>1. Len(t) # 0
    BY <1>1
  <2>2. \E q : Joins(q, Len(t), t) /\ FlattenSeq(t) = q[Len(t)]
    BY <2>1, <1>1, FlatJoins
  <2> QED BY <2>2, <1>1
<1>3. CASE n = 0
  <2>1. s = <<>>
    BY <1>3
  <2>2. FlattenSeq(s) = <<>>
    BY <2>1 DEF FlattenSeq
  <2>3. 1 \in 1..n + 1
    BY <1>3
  <2>4. q[1] = t[1]
    BY <2>3, <1>2 DEF Joins
  <2>5. FlattenSeq(t) = e
    BY <2>4, <1>3, <1>1, <1>2
  <2> QED BY <2>2, <2>5 DEF t
<1>4. CASE n # 0
  <2>1. PICK r : Joins(r, n, s) /\ FlattenSeq(s) = r[n]
    BY <1>4, FlatJoins
  <2>2. Joins(q, n, s)
    BY <1>2, <1>1 DEF Joins
  <2>3. n \in 1..n /\ n <= Len(s)
    BY <1>1, <1>4
  <2>4. r[n] = q[n] /\ r[n] \in Seq(Nat)
    <3> HIDE DEF n
    <3>1. n \in Nat /\ s \in Seq(Seq(Nat)) /\ Joins(r, n, s) /\ Joins(q, n, s)
      BY <1>1, <2>1, <2>2
    <3>2. q[n] = r[n] /\ q[n] \in Seq(Nat)
      BY ONLY <3>1, <2>3, JoinsAgree
    <3> QED BY <3>2
  <2>5. n + 1 \in 1..n + 1 /\ n + 1 # 1 /\ n + 1 - 1 = n
    BY <1>1, <1>4
  <2>6. q[n + 1] = q[n] \o e
    <3>1. q[n + 1] = IF n + 1 = 1 THEN t[n + 1] ELSE q[n + 1 - 1] \o t[n + 1]
      <4> DEFINE m == n + 1
      <4>1. m \in 1..m /\ Joins(q, m, t)
        BY <2>5, <1>2
      <4> HIDE DEF m
      <4>2. q[m] = IF m = 1 THEN t[m] ELSE q[m - 1] \o t[m]
        BY <4>1 DEF Joins
      <4> QED BY <4>2 DEF m
    <3> QED BY <3>1, <2>5, <1>1
  <2> QED BY <2>1, <2>4, <2>6, <1>2 DEF t
<1> QED BY <1>3, <1>4

-----------------------------------------------------------------------------
(* The parser is fed half by half *)

\* Max of a set of numbers up to m that m is in.
LEMMA MaxIs ==
    ASSUME NEW m \in Nat, NEW S, S \subseteq 1..m, m \in S
    PROVE  Max(S) = m
<1>1. \A y \in S : m >= y
  OBVIOUS
<1>2. \A x \in S : (\A y \in S : x >= y) => x = m
  OBVIOUS
<1> QED BY <1>1, <1>2 DEF Max

\* The function that FoldLeft builds, on sets of positions up to n.
FeedsSets(g, p, data, n) ==
    g = [S \in SUBSET (1..n) |-> IF S = {} THEN p ELSE Feed(g[S \ {Max(S)}], data[Max(S)])]

LEMMA FeedsExist ==
    ASSUME NEW p, NEW data \in Seq(Nat), NEW n \in 0..Len(data)
    PROVE  \E g : FeedsSets(g, p, data, n)
<1> DEFINE Has(m) == \E g : FeedsSets(g, p, data, m)
           Bad == {m \in 0..Len(data) : ~Has(m)}
<1>1. CASE Bad = {}
  BY <1>1
<1>2. CASE Bad # {}
  <2>0. Bad \subseteq Nat
    <3> HIDE DEF Has
    <3> QED OBVIOUS
  <2>1. PICK m \in Bad : \A k \in Bad : m <= k
    <3> HIDE DEF Bad
    <3> QED BY <1>2, <2>0, LeastOf
  <2>2. CASE m = 0
    <3> DEFINE g == [S \in SUBSET (1..0) |-> p]
    <3>1. \A S \in SUBSET (1..0) : S = {}
      OBVIOUS
    <3>2. FeedsSets(g, p, data, 0)
      BY <3>1 DEF FeedsSets
    <3> QED BY <3>2, <2>1, <2>2
  <2>3. CASE m # 0
    <3>1. m - 1 \in 0..Len(data) /\ m \in Nat /\ m - 1 \in Nat /\ ~(m <= m - 1)
      BY <2>1, <2>3
    <3>2. Has(m - 1)
      BY <3>1, <2>1
    <3> HIDE DEF Bad
    <3>3. PICK g : FeedsSets(g, p, data, m - 1)
      BY <3>2
    <3> DEFINE h == [S \in SUBSET (1..m) |-> IF m \in S THEN Feed(g[S \ {m}], data[m]) ELSE g[S]]
    <3>4. ASSUME NEW S \in SUBSET (1..m)
          PROVE  h[S] = IF S = {} THEN p ELSE Feed(h[S \ {Max(S)}], data[Max(S)])
      <4>1. CASE m \in S
        <5>1. Max(S) = m
          BY <4>1, <3>1, MaxIs
        <5>2. S \ {m} \in SUBSET (1..m) /\ m \notin S \ {m}
          OBVIOUS
        <5>3. h[S \ {m}] = g[S \ {m}]
          BY <5>2
        <5>4. h[S] = Feed(g[S \ {m}], data[m])
          BY <4>1
        <5> QED BY <5>1, <5>3, <5>4, <4>1
      <4>2. CASE m \notin S
        <5>1. S \in SUBSET (1..m - 1)
          BY <4>2, <3>1
        <5>2. g[S] = IF S = {} THEN p ELSE Feed(g[S \ {Max(S)}], data[Max(S)])
          BY <5>1, <3>3 DEF FeedsSets
        <5>3. h[S] = g[S]
          BY <4>2
        <5>4. CASE S # {}
          <6>1. S \ {Max(S)} \in SUBSET (1..m) /\ m \notin S \ {Max(S)}
            BY <4>2
          <6>2. h[S \ {Max(S)}] = g[S \ {Max(S)}]
            BY <6>1
          <6> QED BY <6>2, <5>2, <5>3, <5>4
        <5> QED BY <5>2, <5>3, <5>4
      <4> QED BY <4>1, <4>2
    <3>5. FeedsSets(h, p, data, m)
      BY <3>4 DEF FeedsSets
    <3> QED BY <3>5, <2>1 DEF Bad
  <2> QED BY <2>2, <2>3
<1> QED BY <1>1, <1>2

\* Feeding a chunk goes through one state of the parser for each half.
LEMMA FeedSteps ==
    ASSUME NEW p, NEW data \in Seq(Nat)
    PROVE  \E r : /\ r[0] = p
                  /\ \A i \in 1..Len(data) : r[i] = Feed(r[i - 1], data[i])
                  /\ FoldLeft(Feed, p, data) = r[Len(data)]
<1> DEFINE n == Len(data)
<1>1. n \in Nat /\ DOMAIN data = 1..n /\ n \in 0..n
  BY LenProperties
<1>2. PICK g : FeedsSets(g, p, data, n)
  BY <1>1, FeedsExist
<1>3. \E h : /\ h = [S \in SUBSET (DOMAIN data) |-> IF S = {} THEN p ELSE Feed(h[S \ {Max(S)}], data[Max(S)])]
             /\ FoldLeft(Feed, p, data) = h[DOMAIN data]
  <2>1. g = [S \in SUBSET (DOMAIN data) |-> IF S = {} THEN p ELSE Feed(g[S \ {Max(S)}], data[Max(S)])]
    BY <1>1, <1>2 DEF FeedsSets
  <2> QED BY <2>1 DEF FoldLeft, MapThenFoldSet
<1>4. PICK h : /\ h = [S \in SUBSET (1..n) |-> IF S = {} THEN p ELSE Feed(h[S \ {Max(S)}], data[Max(S)])]
               /\ FoldLeft(Feed, p, data) = h[1..n]
  BY <1>1, <1>3
<1> DEFINE r == [i \in 0..n |-> h[1..i]]
<1>5. r[0] = p
  BY <1>1, <1>4
<1>6. ASSUME NEW i \in 1..n PROVE r[i] = Feed(r[i - 1], data[i])
  <2>1. 1..i \in SUBSET (1..n) /\ i \in 1..i /\ 1..i # {} /\ i \in Nat /\ i - 1 \in 0..n /\ i \in 0..n
    <3> HIDE DEF n
    <3>1. n \in Nat /\ i \in Nat /\ 1 <= i /\ i <= n
      BY <1>1
    <3>2. \A j \in 1..i : j \in 1..n
      BY <3>1
    <3>3. i \in 1..i /\ i - 1 \in 0..n /\ i \in 0..n
      BY <3>1
    <3> QED BY <3>1, <3>2, <3>3
  <2>2. Max(1..i) = i
    BY <2>1, MaxIs
  <2>3. 1..i \ {i} = 1..(i - 1)
    <3>1. i \in Int /\ i - 1 \in Int
      BY <2>1
    <3>2. ASSUME NEW j PROVE j \in 1..i \ {i} <=> j \in 1..(i - 1)
      BY ONLY <3>1
    <3> QED BY ONLY <3>2
  <2>4. h[1..i] = Feed(h[1..i \ {i}], data[i])
    BY <2>1, <2>2, <1>4
  <2> QED BY <2>1, <2>3, <2>4
<1>7. r[n] = h[1..n]
  BY <1>1
<1> HIDE DEF r
<1> QED BY <1>4, <1>5, <1>6, <1>7

\* All a parser has been given since it was made, handed over or not.
Parser == [pending : Seq(Nat), events : Seq(Seq(Nat)), rest : Seq(Nat)]
Kept(p) == (FlattenSeq(p.events) \o p.pending) \o p.rest

LEMMA ConcatNats ==
    ASSUME NEW s \in Seq(Nat), NEW t \in Seq(Nat), NEW u \in Seq(Nat)
    PROVE  (s \o t) \o u = s \o (t \o u)
BY ConcatAssociative

LEMMA EmittedKeeps ==
    ASSUME NEW s \in Seq(Seq(Nat)), NEW e \in Seq(Nat)
    PROVE  /\ Emitted(s, e) \in Seq(Seq(Nat)) /\ FlattenSeq(Emitted(s, e)) = FlattenSeq(s) \o e
           /\ FlattenSeq(s) \in Seq(Nat)
<1>1. FlattenSeq(s) \in Seq(Nat) /\ FlattenSeq(Append(s, e)) = FlattenSeq(s) \o e
  BY FlatAppend
<1>2. CASE e = <<>>
  <2>1. FlattenSeq(s) \o <<>> = FlattenSeq(s)
    BY <1>1, ConcatEmptySeq
  <2> QED BY <1>1, <1>2, <2>1 DEF Emitted
<1>3. CASE e # <<>>
  BY <1>1, <1>3 DEF Emitted
<1> QED BY <1>2, <1>3

LEMMA FeedLineKeeps ==
    ASSUME NEW p \in Parser, NEW line \in Seq(Nat)
    PROVE  /\ FeedLine(p, line) \in Parser /\ FeedLine(p, line).rest = p.rest
           /\ FlattenSeq(FeedLine(p, line).events) \o FeedLine(p, line).pending =
                (FlattenSeq(p.events) \o p.pending) \o line
<1>1. p.events \in Seq(Seq(Nat)) /\ p.pending \in Seq(Nat) /\ p.rest \in Seq(Nat)
  BY DEF Parser
<1>2. FlattenSeq(p.events) \in Seq(Nat)
  BY <1>1, EmittedKeeps
<1> DEFINE q == FeedLine(p, line)
<1>3. CASE IsTrace(line) /\ p.pending # <<>>
  <2>1. p.pending \o line \in Seq(Nat)
    BY <1>1, ConcatProperties
  <2>2. q \in Parser /\ q.rest = p.rest /\ q.events = p.events /\ q.pending = p.pending \o line
    BY <1>3, <2>1 DEF FeedLine, Parser
  <2>3. FlattenSeq(p.events) \o (p.pending \o line) = (FlattenSeq(p.events) \o p.pending) \o line
    BY <1>1, <1>2, ConcatNats
  <2> QED BY <2>2, <2>3
<1>4. CASE ~(IsTrace(line) /\ p.pending # <<>>)
  <2>1. /\ Emitted(p.events, p.pending) \in Seq(Seq(Nat))
        /\ FlattenSeq(Emitted(p.events, p.pending)) = FlattenSeq(p.events) \o p.pending
    BY <1>1, EmittedKeeps
  <2>2. q \in Parser /\ q.rest = p.rest /\ q.events = Emitted(p.events, p.pending) /\ q.pending = line
    BY <1>4, <2>1 DEF FeedLine, Parser
  <2> QED BY <2>1, <2>2
<1> QED BY <1>3, <1>4

LEMMA FeedKeeps ==
    ASSUME NEW p \in Parser, NEW half \in Nat
    PROVE  Feed(p, half) \in Parser /\ Kept(Feed(p, half)) = Kept(p) \o <<half>>
<1> DEFINE line == Append(p.rest, half)
           front == FlattenSeq(p.events) \o p.pending
<1>1. p.events \in Seq(Seq(Nat)) /\ p.pending \in Seq(Nat) /\ p.rest \in Seq(Nat)
  BY DEF Parser
<1>2. front \in Seq(Nat)
  BY <1>1, EmittedKeeps, ConcatProperties
<1>3. line \in Seq(Nat) /\ line = p.rest \o <<half>> /\ <<half>> \in Seq(Nat)
  <2> DEFINE partial == p.rest
  <2>1. partial \in Seq(Nat)
    BY <1>1
  <2> HIDE DEF partial
  <2>2. Append(partial, half) \in Seq(Nat) /\ Append(partial, half) = partial \o <<half>>
    BY ONLY <2>1, half \in Nat, AppendIsConcat, AppendProperties
  <2>3. <<half>> \in Seq(Nat)
    BY ONLY half \in Nat
  <2> QED BY <2>2, <2>3 DEF partial
<1>4. front \o line = Kept(p) \o <<half>>
  <2> HIDE DEF front
  <2>1. (front \o p.rest) \o <<half>> = front \o (p.rest \o <<half>>)
    BY <1>1, <1>2, <1>3, ConcatNats
  <2> QED BY <2>1, <1>3 DEF Kept, front
<1>5. CASE half % 2 = 0
  <2> DEFINE q == FeedLine(p, line)
  <2>1. q \in Parser /\ FlattenSeq(q.events) \o q.pending = front \o line
    BY <1>3, FeedLineKeeps
  <2> HIDE DEF q
  <2>2. Feed(p, half) = [q EXCEPT !.rest = <<>>]
    BY <1>5 DEF Feed, q
  <2>3. /\ Feed(p, half) \in Parser /\ Feed(p, half).rest = <<>>
        /\ Feed(p, half).events = q.events /\ Feed(p, half).pending = q.pending
    <3>1. <<>> \in Seq(Nat)
      OBVIOUS
    <3> QED BY <2>1, <2>2, <3>1 DEF Parser
  <2>4. front \o line \in Seq(Nat)
    BY <1>2, <1>3, ConcatProperties
  <2>5. (front \o line) \o <<>> = front \o line
    BY <2>4, ConcatEmptySeq
  <2> QED BY <2>1, <2>3, <2>5, <1>4 DEF Kept
<1>6. CASE half % 2 # 0
  <2>1. Feed(p, half) = [p EXCEPT !.rest = line]
    BY <1>6 DEF Feed
  <2>2. /\ Feed(p, half) \in Parser /\ Feed(p, half).rest = line
        /\ Feed(p, half).events = p.events /\ Feed(p, half).pending = p.pending
    BY <2>1, <1>3 DEF Parser
  <2> QED BY <2>2, <1>4 DEF Kept
<1> QED BY <1>5, <1>6

LEMMA KeptIsSeq == ASSUME NEW p \in Parser PROVE Kept(p) \in Seq(Nat)
<1>1. p.events \in Seq(Seq(Nat)) /\ p.pending \in Seq(Nat) /\ p.rest \in Seq(Nat)
  BY DEF Parser
<1> QED BY <1>1, EmittedKeeps, ConcatProperties DEF Kept

\* A chunk fed half by half is kept whole, after what the parser had.
LEMMA FoldKeeps ==
    ASSUME NEW p \in Parser, NEW data \in Seq(Nat)
    PROVE  FoldLeft(Feed, p, data) \in Parser /\ Kept(FoldLeft(Feed, p, data)) = Kept(p) \o data
<1>1. PICK r : /\ r[0] = p
               /\ \A i \in 1..Len(data) : r[i] = Feed(r[i - 1], data[i])
               /\ FoldLeft(Feed, p, data) = r[Len(data)]
  BY FeedSteps
<1> DEFINE Fine(i) == r[i] \in Parser /\ Kept(r[i]) = Kept(p) \o SubSeq(data, 1, i)
           Bad == {i \in 0..Len(data) : ~Fine(i)}
<1>2. Kept(p) \in Seq(Nat) /\ Len(data) \in Nat /\ SubSeq(data, 1, 0) = <<>>
  BY KeptIsSeq, LenProperties
<1>3. CASE Bad = {}
  <2>1. Fine(Len(data))
    BY <1>2, <1>3
  <2>2. SubSeq(data, 1, Len(data)) = data
    OBVIOUS
  <2> QED BY <1>1, <2>1, <2>2
<1>4. CASE Bad # {}
  <2>0. Bad \subseteq Nat
    <3> HIDE DEF Fine
    <3> QED OBVIOUS
  <2>1. PICK m \in Bad : \A k \in Bad : m <= k
    <3> HIDE DEF Bad
    <3> QED BY <1>4, <2>0, LeastOf
  <2>2. CASE m = 0
    <3>1. Fine(0)
      BY <1>1, <1>2, ConcatEmptySeq
    <3> QED BY <3>1, <2>1, <2>2
  <2>3. CASE m # 0
    <3>1. m \in 1..Len(data) /\ m - 1 \in 0..Len(data) /\ ~(m <= m - 1) /\ m \in Nat
      BY <2>1, <2>3, <1>2
    <3>2. Fine(m - 1)
      BY <3>1, <2>1
    <3>3. data[m] \in Nat /\ r[m] = Feed(r[m - 1], data[m])
      BY <1>1, <3>1
    <3>4. r[m] \in Parser /\ Kept(r[m]) = Kept(r[m - 1]) \o <<data[m]>>
      BY <3>2, <3>3, FeedKeeps
    <3>5. SubSeq(data, 1, m - 1) \in Seq(Nat) /\ SubSeq(data, 1, m) = SubSeq(data, 1, m - 1) \o <<data[m]>>
      BY <3>1
    <3>6. (Kept(p) \o SubSeq(data, 1, m - 1)) \o <<data[m]>> = Kept(p) \o SubSeq(data, 1, m)
      <4>1. <<data[m]>> \in Seq(Nat)
        BY <3>3
      <4>2. (Kept(p) \o SubSeq(data, 1, m - 1)) \o <<data[m]>> = Kept(p) \o (SubSeq(data, 1, m - 1) \o <<data[m]>>)
        BY ONLY <4>1, <3>5, <1>2, ConcatNats
      <4> QED BY ONLY <4>2, <3>5
    <3>7. Fine(m)
      BY <3>2, <3>4, <3>6
    <3> QED BY <3>7, <2>1
  <2> QED BY <2>2, <2>3
<1> QED BY <1>3, <1>4

-----------------------------------------------------------------------------
(* The sources *)

\* The values the variables of a log source take.
TailType ==
    /\ kind \in {"file", "docker", "stdout"} /\ written \in Nat
    /\ base \in Nat /\ base <= written /\ since \in Nat /\ since <= written
    /\ connected \in BOOLEAN /\ parser \in BOOLEAN /\ changed \in BOOLEAN /\ rotated \in BOOLEAN
    /\ raced \in BOOLEAN /\ crashed \in BOOLEAN
    /\ rest \in Seq(Nat) /\ held \in Seq(Nat) /\ logged \in Seq(Seq(Nat))
    /\ offset \in Nat /\ size \in Nat /\ reading \in {"no", "stat", "data"}
    /\ tails \in [1..MaxConnects -> [state : {"none", "running", "killed"}, at : Nat, until : Nat]]
    /\ connects \in Nat /\ connects <= MaxConnects

\* What the handlers have had and are still to have.
Seen == FlattenSeq(logged) \o (IF parser THEN held \o rest ELSE <<>>)

Ordered(s) == \A i \in 1..Len(s) - 1 : s[i] < s[i + 1]

\* Who may still bring something.
SourcesInv ==
    /\ parser => connects > 0
    /\ connected => parser
    /\ kind = "file" => \A i \in 1..MaxConnects : tails[i].state = "none"
    /\ kind # "file" => ~changed /\ reading = "no" /\ ~rotated
    /\ \A i \in 1..MaxConnects : tails[i].until <= written
    /\ ~raced /\ ~parser =>
         /\ ~changed /\ reading = "no"
         /\ \A i \in 1..MaxConnects : tails[i].state # "none" =>
              tails[i].state = "killed" /\ tails[i].at >= tails[i].until
    /\ ~raced /\ parser => \A i \in 1..MaxConnects : i # connects => tails[i].state = "none"

\* The file has been read up to offset, unless it has been truncated below it.
FilePlace ==
    /\ reading = "data" => offset <= size /\ size <= Length
    /\ ~rotated => since + Len(Seen) = base + offset /\ offset <= Length
    /\ \A i \in 1..Len(Seen) : /\ Seen[i] <= base + offset
                               /\ Length < offset => Seen[i] <= base

\* The stream has been read up to where its follower is.
StreamPlace ==
    tails[connects].state # "none" =>
        /\ tails[connects].at = since + Len(Seen)
        /\ tails[connects].at <= Limit(connects)

TailInv ==
    /\ TailType /\ SourcesInv
    /\ crashed => raced
    /\ ~raced =>
         /\ Ordered(Seen)
         /\ ~rotated => Seen = Run(since, since + Len(Seen))
         /\ parser => IF kind = "file" THEN FilePlace ELSE StreamPlace

LEMMA TailKept == ASSUME TailInv, UNCHANGED lsVars PROVE TailInv'
BY DEF TailInv, TailType, SourcesInv, Ordered, Seen, FilePlace, StreamPlace, Limit, Length, Run,
       lsVars, file, history

LEMMA TailStarts == ASSUME LsInit PROVE TailInv
<1>1. FlattenSeq(<<>>) = <<>> /\ <<>> \o <<>> = <<>>
  BY DEF FlattenSeq
<1>2. Seen = <<>>
  BY <1>1 DEF Seen, LsInit
<1>3. MaxConnects \in Nat
  BY LogAssumption
<1>4. TailType
  <2>1. tails \in [1..MaxConnects -> [state : {"none", "running", "killed"}, at : Nat, until : Nat]]
    BY DEF LsInit
  <2>2. <<>> \in Seq(Nat) /\ <<>> \in Seq(Seq(Nat))
    OBVIOUS
  <2>3. /\ written \in Nat /\ base \in Nat /\ base <= written /\ since \in Nat /\ since <= written
        /\ offset \in Nat /\ size \in Nat /\ connects \in Nat /\ connects <= MaxConnects
    BY <1>3 DEF LsInit
  <2>4. /\ connected \in BOOLEAN /\ parser \in BOOLEAN /\ changed \in BOOLEAN
        /\ rotated \in BOOLEAN /\ raced \in BOOLEAN /\ crashed \in BOOLEAN
    BY DEF LsInit
  <2> QED BY <2>1, <2>2, <2>3, <2>4 DEF LsInit, CreateLogSource, TailType
<1>5. SourcesInv
  BY DEF LsInit, CreateLogSource, SourcesInv
<1>6. <<>> = Run(0, 0)
  BY DEF Run
<1>7. Ordered(Seen) /\ Seen = Run(since, since + Len(Seen))
  BY <1>2, <1>6 DEF Ordered, LsInit
<1> QED BY <1>4, <1>5, <1>7 DEF TailInv, LsInit

\* A chunk that the parser takes comes after all that has been seen.
LEMMA ProcessKeeps ==
    ASSUME TailType, NEW data \in Seq(Nat)
    PROVE  Process(data) \in Parser /\ Kept(Process(data)) = ((FlattenSeq(logged) \o held) \o rest) \o data
<1> DEFINE front == FlattenSeq(logged) \o held
<1>1. logged \in Seq(Seq(Nat)) /\ held \in Seq(Nat) /\ rest \in Seq(Nat)
  BY DEF TailType
<1>2. front \in Seq(Nat)
  BY <1>1, EmittedKeeps, ConcatProperties
<1>3. CASE Len(rest) + Len(data) > MaxBuffer
  <2> DEFINE p == LogParser(<<>>)
             q == FeedLine(p, rest \o data)
  <2>1. p \in Parser /\ p.events = logged /\ p.pending = held /\ p.rest = <<>>
    BY <1>1 DEF LogParser, Parser
  <2>2. rest \o data \in Seq(Nat)
    BY <1>1, ConcatProperties
  <2>3. /\ q \in Parser /\ q.rest = <<>>
        /\ FlattenSeq(q.events) \o q.pending = front \o (rest \o data)
    <3> HIDE DEF p
    <3> QED BY <2>1, <2>2, FeedLineKeeps
  <2>4. front \o (rest \o data) \in Seq(Nat)
    BY <1>2, <2>2, ConcatProperties
  <2>5. (front \o rest) \o data = front \o (rest \o data)
    <3> HIDE DEF front
    <3> QED BY <1>1, <1>2, ConcatNats
  <2> HIDE DEF q
  <2>6. Kept(q) = front \o (rest \o data)
    BY <2>3, <2>4, ConcatEmptySeq DEF Kept
  <2>7. Process(data) = q
    BY <1>3 DEF Process, q
  <2> QED BY <2>3, <2>5, <2>6, <2>7
<1>4. CASE ~(Len(rest) + Len(data) > MaxBuffer)
  <2> DEFINE p == LogParser(rest)
  <2>1. p \in Parser /\ Kept(p) = front \o rest
    BY <1>1 DEF LogParser, Parser, Kept
  <2> HIDE DEF p
  <2>2. Process(data) = FoldLeft(Feed, p, data)
    BY <1>4 DEF Process, p
  <2> QED BY <2>1, <2>2, FoldKeeps
<1> QED BY <1>3, <1>4

\* Run(a, b) holds the numbers after a, up to b.
LEMMA RunIs ==
    ASSUME NEW a \in Nat, NEW b \in Nat, a <= b
    PROVE  /\ Run(a, b) \in Seq(Nat) /\ Len(Run(a, b)) = b - a
           /\ \A i \in 1..b - a : Run(a, b)[i] = a + i
<1>1. b - a \in Nat
  OBVIOUS
<1>2. [i \in 1..b - a |-> a + i] \in Seq(Nat)
  BY <1>1
<1> QED BY <1>1, <1>2 DEF Run

LEMMA RunGrows ==
    ASSUME NEW a \in Nat, NEW b \in Nat, NEW c \in Nat, a <= b, b <= c
    PROVE  Run(a, b) \o Run(b, c) = Run(a, c)
<1> DEFINE s == Run(a, b)
           t == Run(b, c)
           u == Run(a, c)
<1>1. /\ s \in Seq(Nat) /\ Len(s) = b - a /\ \A i \in 1..b - a : s[i] = a + i
      /\ t \in Seq(Nat) /\ Len(t) = c - b /\ \A i \in 1..c - b : t[i] = b + i
      /\ u \in Seq(Nat) /\ Len(u) = c - a /\ \A i \in 1..c - a : u[i] = a + i
  <2>1. a <= c
    OBVIOUS
  <2> QED BY <2>1, RunIs
<1> HIDE DEF s, t, u
<1>2. /\ s \o t \in Seq(Nat) /\ Len(s \o t) = Len(s) + Len(t)
      /\ \A i \in 1..Len(s) + Len(t) : (s \o t)[i] = IF i <= Len(s) THEN s[i] ELSE t[i - Len(s)]
  BY <1>1, ConcatProperties
<1>3. Len(s \o t) = c - a
  BY <1>1, <1>2
<1>4. ASSUME NEW i \in 1..c - a PROVE (s \o t)[i] = u[i]
  <2>1. (s \o t)[i] = IF i <= Len(s) THEN s[i] ELSE t[i - Len(s)]
    <3>1. i \in 1..Len(s) + Len(t)
      BY <1>1
    <3> QED BY <3>1, <1>2
  <2>2. CASE i <= b - a
    BY <2>1, <2>2, <1>1
  <2>3. CASE ~(i <= b - a)
    <3>1. i - (b - a) \in 1..c - b
      BY <2>3
    <3>2. t[i - (b - a)] = b + (i - (b - a))
      BY <3>1, <1>1
    <3> QED BY <2>1, <2>3, <3>2, <1>1
  <2> QED BY <2>2, <2>3
<1>5. s \o t = u
  <2>1. Len(u) = c - a
    BY <1>1
  <2>2. \A i \in 1..Len(u) : (s \o t)[i] = u[i]
    BY <2>1, <1>4
  <2> QED BY <2>1, <2>2, <1>1, <1>2, <1>3, SeqEqual
<1> QED BY <1>5 DEF s, t, u

LEMMA OrderedGrows ==
    ASSUME NEW s \in Seq(Nat), Ordered(s), NEW b \in Nat, NEW c \in Nat, b <= c, \A i \in 1..Len(s) : s[i] <= b
    PROVE  /\ Ordered(s \o Run(b, c)) /\ s \o Run(b, c) \in Seq(Nat)
           /\ Len(s \o Run(b, c)) = Len(s) + (c - b)
           /\ \A i \in 1..Len(s \o Run(b, c)) : (s \o Run(b, c))[i] <= c
<1> DEFINE t == Run(b, c)
           u == s \o t
<1>1. t \in Seq(Nat) /\ Len(t) = c - b /\ \A i \in 1..c - b : t[i] = b + i
  BY RunIs
<1> HIDE DEF t
<1>2. /\ u \in Seq(Nat) /\ Len(u) = Len(s) + Len(t) /\ Len(s) \in Nat
      /\ \A i \in 1..Len(s) + Len(t) : u[i] = IF i <= Len(s) THEN s[i] ELSE t[i - Len(s)]
  BY <1>1, ConcatProperties, LenProperties
<1> HIDE DEF u
<1>3. ASSUME NEW i \in 1..Len(s) PROVE u[i] = s[i] /\ u[i] \in Nat /\ u[i] <= b
  <2>1. i \in 1..Len(s) + Len(t) /\ i <= Len(s)
    BY <1>1, <1>2
  <2>2. u[i] = s[i] /\ s[i] \in Nat /\ s[i] <= b
    BY <2>1, <1>2
  <2> QED BY <2>2
<1>4. ASSUME NEW i \in Len(s) + 1..Len(s) + (c - b) PROVE u[i] = b + (i - Len(s))
  <2>1. i - Len(s) \in 1..c - b /\ i \in 1..Len(s) + Len(t) /\ ~(i <= Len(s))
    BY <1>1, <1>2
  <2> QED BY <2>1, <1>1, <1>2
<1>5. ASSUME NEW i \in 1..Len(u) PROVE u[i] <= c
  <2>1. CASE i <= Len(s)
    BY <2>1, <1>2, <1>3
  <2>2. CASE ~(i <= Len(s))
    <3>1. i \in Len(s) + 1..Len(s) + (c - b)
      BY <2>2, <1>1, <1>2
    <3>2. u[i] = b + (i - Len(s))
      BY <3>1, <1>4
    <3> QED BY <3>1, <3>2, <1>2
  <2> QED BY <2>1, <2>2
<1>6. ASSUME NEW i \in 1..Len(u) - 1 PROVE u[i] < u[i + 1]
  <2>1. CASE i + 1 <= Len(s)
    <3>1. i \in 1..Len(s) - 1 /\ i \in 1..Len(s) /\ i + 1 \in 1..Len(s)
      BY <2>1, <1>2
    <3>2. s[i] < s[i + 1]
      BY <3>1 DEF Ordered
    <3> QED BY <3>1, <3>2, <1>3
  <2>2. CASE i = Len(s)
    <3>1. i \in 1..Len(s) /\ i + 1 \in Len(s) + 1..Len(s) + (c - b)
      BY <2>2, <1>1, <1>2
    <3>2. u[i] \in Nat /\ u[i] <= b /\ u[i + 1] = b + (i + 1 - Len(s))
      BY <3>1, <1>3, <1>4
    <3> QED BY <3>2, <2>2, <1>2
  <2>3. CASE i > Len(s)
    <3>1. i \in Len(s) + 1..Len(s) + (c - b) /\ i + 1 \in Len(s) + 1..Len(s) + (c - b)
      BY <2>3, <1>1, <1>2
    <3>2. u[i] = b + (i - Len(s)) /\ u[i + 1] = b + (i + 1 - Len(s))
      BY <3>1, <1>4
    <3> QED BY <3>1, <3>2, <1>2
  <2> QED BY <2>1, <2>2, <2>3, <1>2
<1>7. Ordered(u)
  BY <1>6 DEF Ordered
<1>8. Len(u) = Len(s) + (c - b)
  BY <1>1, <1>2
<1> QED BY <1>2, <1>5, <1>7, <1>8 DEF u, t

LEMMA FrontOrdered ==
    ASSUME NEW s \in Seq(Nat), NEW t \in Seq(Nat), Ordered(s \o t)
    PROVE  Ordered(s)
<1>1. /\ Len(s \o t) = Len(s) + Len(t) /\ Len(s) \in Nat /\ Len(t) \in Nat
      /\ \A i \in 1..Len(s) + Len(t) : (s \o t)[i] = IF i <= Len(s) THEN s[i] ELSE t[i - Len(s)]
  BY ConcatProperties, LenProperties
<1>2. ASSUME NEW i \in 1..Len(s) - 1 PROVE s[i] < s[i + 1]
  <2>1. i \in 1..Len(s \o t) - 1 /\ i \in 1..Len(s) + Len(t) /\ i + 1 \in 1..Len(s) + Len(t) /\ i <= Len(s) /\ i + 1 <= Len(s)
    BY <1>1
  <2>2. (s \o t)[i] < (s \o t)[i + 1]
    BY <2>1 DEF Ordered
  <2> QED BY <2>1, <2>2, <1>1
<1> QED BY <1>2 DEF Ordered

LEMMA FrontRuns ==
    ASSUME NEW s \in Seq(Nat), NEW t \in Seq(Nat), NEW a \in Nat, s \o t = Run(a, a + Len(s \o t))
    PROVE  s = Run(a, a + Len(s))
<1>1. /\ Len(s \o t) = Len(s) + Len(t) /\ Len(s) \in Nat /\ Len(t) \in Nat
      /\ \A i \in 1..Len(s) + Len(t) : (s \o t)[i] = IF i <= Len(s) THEN s[i] ELSE t[i - Len(s)]
  BY ConcatProperties, LenProperties
<1> DEFINE n == Len(s)
           m == Len(s \o t)
<1>2. /\ Run(a, a + n) \in Seq(Nat) /\ Len(Run(a, a + n)) = (a + n) - a
      /\ \A i \in 1..(a + n) - a : Run(a, a + n)[i] = a + i
  <2>1. a + n \in Nat /\ a <= a + n
    BY <1>1
  <2> QED BY <2>1, RunIs
<1>3. \A i \in 1..(a + m) - a : Run(a, a + m)[i] = a + i
  <2>1. a + m \in Nat /\ a <= a + m
    BY <1>1
  <2> QED BY <2>1, RunIs
<1>4. ASSUME NEW i \in 1..n PROVE s[i] = Run(a, a + n)[i]
  <2>1. i \in 1..Len(s) + Len(t) /\ i <= Len(s) /\ i \in 1..(a + m) - a /\ i \in 1..(a + n) - a
    BY <1>1
  <2>2. (s \o t)[i] = a + i
    BY <2>1, <1>3
  <2>3. Run(a, a + n)[i] = a + i
    BY <2>1, <1>2
  <2>4. (s \o t)[i] = s[i]
    BY <2>1, <1>1
  <2> QED BY ONLY <2>2, <2>3, <2>4
<1>5. Run(a, a + n) \in Seq(Nat) /\ Len(Run(a, a + n)) = Len(s)
  BY <1>1, <1>2
<1> QED BY ONLY s \in Seq(Nat), <1>4, <1>5, SeqEqual

LEMMA SeenIs ==
    ASSUME TailType
    PROVE  /\ FlattenSeq(logged) \in Seq(Nat) /\ Seen \in Seq(Nat) /\ Len(Seen) \in Nat
           /\ \A i \in 1..Len(Seen) : Seen[i] \in Nat
           /\ Seen = IF parser THEN (FlattenSeq(logged) \o held) \o rest ELSE FlattenSeq(logged)
<1>1. logged \in Seq(Seq(Nat)) /\ held \in Seq(Nat) /\ rest \in Seq(Nat) /\ <<>> \in Seq(Nat)
  BY DEF TailType
<1>2. FlattenSeq(logged) \in Seq(Nat)
  BY <1>1, EmittedKeeps
<1>3. FlattenSeq(logged) \o <<>> = FlattenSeq(logged)
  BY <1>2, ConcatEmptySeq
<1>4. FlattenSeq(logged) \o (held \o rest) = (FlattenSeq(logged) \o held) \o rest
  BY <1>1, <1>2, ConcatNats
<1>5. Seen = IF parser THEN (FlattenSeq(logged) \o held) \o rest ELSE FlattenSeq(logged)
  BY <1>3, <1>4 DEF Seen
<1>6. (FlattenSeq(logged) \o held) \o rest \in Seq(Nat)
  BY <1>1, <1>2, ConcatProperties
<1>7. Seen \in Seq(Nat)
  BY <1>2, <1>5, <1>6
<1> QED BY <1>2, <1>5, <1>7, LenProperties, ElementOfSeq

\* With a parser, a chunk comes after what has been seen.
LEMMA ChunkSeen ==
    ASSUME TailType, parser, parser' = parser, NEW data \in Seq(Nat), ProcessData(data)
    PROVE  /\ rest' \in Seq(Nat) /\ held' \in Seq(Nat) /\ logged' \in Seq(Seq(Nat))
           /\ crashed' = crashed /\ Seen' = Seen \o data
<1> DEFINE next == Process(data)
<1>1. next \in Parser /\ Kept(next) = ((FlattenSeq(logged) \o held) \o rest) \o data
  BY ProcessKeeps
<1>2. /\ rest' = next.rest /\ held' = next.pending /\ logged' = next.events /\ crashed' = crashed
  BY DEF ProcessData
<1> HIDE DEF next
<1>3. rest' \in Seq(Nat) /\ held' \in Seq(Nat) /\ logged' \in Seq(Seq(Nat))
  BY <1>1, <1>2 DEF Parser
<1>4. FlattenSeq(logged') \in Seq(Nat)
  BY <1>3, EmittedKeeps
<1>5. FlattenSeq(logged') \o (held' \o rest') = (FlattenSeq(logged') \o held') \o rest'
  BY <1>3, <1>4, ConcatNats
<1>6. Seen' = Kept(next)
  BY <1>2, <1>5 DEF Seen, Kept
<1> QED BY <1>1, <1>2, <1>3, <1>6, SeenIs

\* Without one, nothing is handed over.
LEMMA ChunkLost ==
    ASSUME TailType, ~parser, parser' = parser, NEW data \in Seq(Nat), ProcessData(data)
    PROVE  rest' \in Seq(Nat) /\ held' = held /\ logged' = logged /\ crashed' \in BOOLEAN /\ Seen' = Seen
<1>1. rest \in Seq(Nat) /\ rest \o data \in Seq(Nat)
  BY ConcatProperties DEF TailType
<1>2. rest' \in Seq(Nat) /\ held' = held /\ logged' = logged /\ crashed' \in BOOLEAN
  BY <1>1 DEF ProcessData
<1> QED BY <1>2 DEF Seen

\* What is handed over at the end is the front of what has been seen.
LEMMA FlushSeen ==
    ASSUME TailType, logged' = Flushed
    PROVE  /\ logged' \in Seq(Seq(Nat))
           /\ FlattenSeq(logged') = IF parser THEN FlattenSeq(logged) \o held ELSE FlattenSeq(logged)
BY EmittedKeeps DEF Flushed, TailType

LEMMA LogKeeps == ASSUME TailInv, Log PROVE TailInv'
<1> USE DEF TailInv, Log, file, history
<1>1. TailType'
  BY DEF TailType
<1>2. Seen' = Seen
  BY DEF Seen
<1>3. SourcesInv'
  <2>1. /\ kind' = kind /\ parser' = parser /\ connected' = connected /\ rotated' = rotated
        /\ reading' = reading /\ tails' = tails /\ connects' = connects /\ raced' = raced
        /\ (changed' => changed \/ (kind = "file" /\ connected))
    BY DEF TailType
  <2>2. \A i \in 1..MaxConnects : tails[i].until \in Nat /\ tails[i].until <= written
    BY DEF TailType, SourcesInv
  <2>3. \A i \in 1..MaxConnects : tails[i].until <= written'
    BY <2>2 DEF TailType
  <2> QED BY <2>1, <2>3 DEF SourcesInv
<1>4. parser /\ StreamPlace => StreamPlace'
  <2>1. written \in Nat /\ written' = written + 1
    BY DEF TailType
  <2>2. SUFFICES ASSUME parser, StreamPlace, tails[connects].state # "none" PROVE tails[connects].at <= Limit(connects)'
    BY <1>2 DEF StreamPlace
  <2>3. tails[connects].at <= Limit(connects)
    BY <2>2 DEF StreamPlace
  <2>4. CASE tails[connects].state = "running"
    <3>1. tails[connects].at <= written /\ Limit(connects)' = written'
      BY <2>3, <2>4 DEF Limit
    <3>2. connects \in 1..MaxConnects
      BY <2>2 DEF SourcesInv, TailType
    <3>3. tails[connects].at \in Nat
      BY <3>2 DEF TailType
    <3> QED BY ONLY <3>1, <3>3, <2>1
  <2>5. CASE tails[connects].state # "running"
    BY <2>3, <2>5 DEF Limit
  <2> QED BY <2>4, <2>5
<1>5. FilePlace => FilePlace'
  BY <1>2 DEF FilePlace, Length, TailType
<1> QED BY <1>1, <1>2, <1>3, <1>4, <1>5 DEF Ordered

LEMMA RotateKeeps == ASSUME TailInv, Rotate PROVE TailInv'
<1> USE DEF TailInv, Rotate, history
<1>1. TailType'
  BY DEF TailType
<1>2. Seen' = Seen
  BY DEF Seen
<1>3. SourcesInv'
  <2>1. /\ kind' = kind /\ kind = "file" /\ written' = written /\ parser' = parser /\ connected' = connected
        /\ reading' = reading /\ tails' = tails /\ connects' = connects
        /\ (changed' => changed \/ connected) /\ (raced => raced')
    BY DEF TailType
  <2> QED BY <2>1 DEF SourcesInv
<1>4. ASSUME FilePlace, reading # "data" PROVE FilePlace'
  <2>1. Length' = 0 /\ base' = written /\ base \in Nat /\ written \in Nat /\ offset \in Nat /\ ~rotated
    BY DEF Length, TailType
  <2>2. ASSUME NEW i \in 1..Len(Seen) PROVE Seen[i] \in Nat /\ Seen[i] <= base'
    <3>1. Seen[i] <= base + offset /\ Seen[i] \in Nat /\ offset <= Length /\ Length = written - base
      BY <1>4, SeenIs DEF FilePlace, Length
    <3> QED BY ONLY <3>1, <2>1
  <2>3. \A i \in 1..Len(Seen') : Seen'[i] <= base' + offset' /\ (Length' < offset' => Seen'[i] <= base')
    BY <2>1, <2>2, <1>2
  <2> QED BY <2>1, <2>3, <1>4 DEF FilePlace
<1> QED BY <1>1, <1>2, <1>3, <1>4 DEF Ordered

LEMMA ConnectKeeps == ASSUME TailInv, Connect PROVE TailInv'
<1> USE DEF Connect, TailFile, FollowContainer, ListenToStream, Heard, history
<1>1. connects' \in Nat /\ connects' <= MaxConnects /\ connects' \in 1..MaxConnects
  BY LogAssumption DEF TailInv, TailType
<1>2. /\ kind = "file" => tails' = tails
      /\ kind # "file" => tails' = [tails EXCEPT ![connects'] = Heard(@)]
  BY DEF TailInv, TailType
<1>3. ASSUME NEW i \in 1..MaxConnects
      PROVE  /\ tails'[i] \in [state : {"none", "running", "killed"}, at : Nat, until : Nat]
             /\ tails'[i].until = tails[i].until
             /\ kind = "file" => tails'[i] = tails[i]
             /\ i # connects' => tails'[i] = tails[i]
  <2>1. /\ tails[i] \in [state : {"none", "running", "killed"}, at : Nat, until : Nat] /\ written \in Nat
        /\ tails \in [1..MaxConnects -> [state : {"none", "running", "killed"}, at : Nat, until : Nat]]
    BY DEF TailInv, TailType
  <2>2. CASE kind = "file"
    BY <2>1, <2>2, <1>2
  <2>3. CASE kind # "file" /\ i # connects'
    <3>1. tails'[i] = tails[i]
      BY <2>1, <2>3, <1>1, <1>2
    <3> QED BY ONLY <3>1, <2>1, <2>3
  <2>4. CASE kind # "file" /\ i = connects'
    <3>1. tails'[i] = [tails[i] EXCEPT !.state = "running", !.at = written]
      BY <2>1, <2>4, <1>2
    <3> QED BY ONLY <3>1, <2>1, <2>4
  <2> QED BY <2>2, <2>3, <2>4
<1>4. tails' \in [1..MaxConnects -> [state : {"none", "running", "killed"}, at : Nat, until : Nat]]
  BY <1>2, <1>3 DEF TailInv, TailType
<1>5. Length \in Nat
  BY DEF TailInv, TailType, Length
<1>6. TailType'
  <2>1. /\ rotated' \in BOOLEAN /\ raced' \in BOOLEAN /\ crashed' \in BOOLEAN /\ changed' \in BOOLEAN
        /\ connected' \in BOOLEAN /\ parser' \in BOOLEAN
    BY DEF TailInv, TailType
  <2>2. offset' \in Nat
    BY <1>5 DEF TailInv, TailType
  <2>3. /\ rest' \in Seq(Nat) /\ held' \in Seq(Nat) /\ logged' \in Seq(Seq(Nat))
        /\ since' \in Nat /\ since' <= written' /\ kind' = kind /\ written' = written /\ base' = base
        /\ size' = size /\ reading' = reading
    BY DEF TailInv, TailType
  <2> QED BY <1>1, <1>4, <2>1, <2>2, <2>3 DEF TailInv, TailType
<1>7. SourcesInv'
  <2>1. /\ kind' = kind /\ written' = written /\ parser' /\ connected' /\ changed' = changed /\ reading' = reading
        /\ rotated' = FALSE
    OBVIOUS
  <2>2. ~raced' => ~raced /\ \A i \in 1..MaxConnects : tails[i].state = "none"
    BY DEF TailInv, TailType
  <2>3. \A i \in 1..MaxConnects : tails[i].until <= written /\ (kind = "file" => tails[i].state = "none")
    BY DEF TailInv, SourcesInv
  <2>4. kind # "file" => ~changed /\ reading = "no"
    BY DEF TailInv, SourcesInv
  <2>5. connects' > 0
    BY <1>1
  <2> QED BY <2>1, <2>2, <2>3, <2>4, <2>5, <1>3 DEF SourcesInv
<1>8. ASSUME ~raced' PROVE Seen' = <<>>
  <2>1. rest' = <<>> /\ held' = <<>> /\ logged' = <<>>
    BY <1>8 DEF TailInv, TailType
  <2>2. FlattenSeq(<<>>) = <<>> /\ <<>> \o <<>> = <<>>
    BY DEF FlattenSeq
  <2> QED BY <2>1, <2>2 DEF Seen
<1>9. ASSUME ~raced'
      PROVE  Ordered(Seen') /\ Seen' = Run(since', since' + Len(Seen')) /\ Len(Seen') = 0
  <2>1. since' + 0 - since' = 0
    BY DEF TailInv, TailType
  <2>2. Run(since', since' + 0) = <<>>
    <3>1. since' \in Nat /\ since' + 0 = since' /\ since' <= since' /\ since' - since' = 0
      BY DEF TailInv, TailType
    <3>2. Run(since', since') \in Seq(Nat) /\ Len(Run(since', since')) = 0
      BY <3>1, RunIs
    <3> QED BY <3>1, <3>2, EmptySeq
  <2> QED BY <1>8, <1>9, <2>2 DEF Ordered
<1>10. ASSUME ~raced', kind = "file" PROVE FilePlace'
  <2>1. /\ offset' = Length /\ Length' = Length /\ reading' = "no" /\ since' = written /\ base' = base
        /\ base \in Nat /\ written \in Nat /\ Length = written - base
    BY <1>10 DEF TailInv, TailType, Length
  <2>2. since' + Len(Seen') = base' + offset' /\ offset' <= Length' /\ reading' # "data" /\ Length \in Nat
    BY ONLY <2>1, <1>5, <1>9, <1>10
  <2>3. 1..Len(Seen') = {}
    BY ONLY <1>9, <1>10
  <2> QED BY ONLY <2>2, <2>3 DEF FilePlace
<1>11. ASSUME ~raced', kind # "file" PROVE StreamPlace'
  <2>1. /\ tails'[connects'].state = "running" /\ tails'[connects'].at = written /\ since' = written
        /\ written' = written /\ written \in Nat
    <3>1. /\ tails' = [tails EXCEPT ![connects'] = Heard(@)] /\ written \in Nat
          /\ since' = written /\ written' = written
          /\ tails \in [1..MaxConnects -> [state : {"none", "running", "killed"}, at : Nat, until : Nat]]
      BY <1>2, <1>11 DEF TailInv, TailType
    <3>2. tails'[connects'] = [tails[connects'] EXCEPT !.state = "running", !.at = written]
      BY ONLY <3>1, <1>1 DEF Heard
    <3>3. tails[connects'] \in [state : {"none", "running", "killed"}, at : Nat, until : Nat]
      BY ONLY <3>1, <1>1
    <3> QED BY ONLY <3>1, <3>2, <3>3
  <2>2. Limit(connects)' = written
    BY ONLY <2>1 DEF Limit
  <2> QED BY ONLY <2>1, <2>2, <1>9, <1>11 DEF StreamPlace
<1>12. crashed' => raced'
  BY DEF TailInv, TailType
<1> QED BY <1>6, <1>7, <1>9, <1>10, <1>11, <1>12 DEF TailInv, Ordered

\* What disconnect and the end of a stream hand over leaves the order as it is.
LEMMA FlushOrders ==
    ASSUME TailType, NEW s \in Seq(Nat), NEW t \in Seq(Nat), s \o t = Seen
    PROVE  /\ Ordered(Seen) => Ordered(s)
           /\ Seen = Run(since, since + Len(Seen)) => s = Run(since, since + Len(s))
<1>1. Ordered(s \o t) => Ordered(s)
  BY FrontOrdered
<1>2. since \in Nat
  BY DEF TailType
<1>3. s \o t = Run(since, since + Len(s \o t)) => s = Run(since, since + Len(s))
  BY <1>2, FrontRuns
<1> QED BY <1>1, <1>3

LEMMA DisconnectKeeps == ASSUME TailInv, Disconnect PROVE TailInv'
<1>1. /\ TailType /\ SourcesInv /\ parser /\ ~parser' /\ ~connected' /\ ~changed' /\ logged' = Flushed
      /\ held' = <<>> /\ rest' = <<>> /\ offset' = 0 /\ kind' = kind /\ written' = written /\ base' = base
      /\ reading' = reading /\ size' = size /\ connects' = connects /\ since' = since
      /\ rotated' = rotated /\ crashed' = crashed /\ (raced => raced') /\ (reading # "no" => raced')
      /\ parser' \in BOOLEAN /\ connected' \in BOOLEAN /\ changed' \in BOOLEAN /\ raced' \in BOOLEAN
  BY DEF TailInv, TailType, Disconnect, history
<1>2. connects \in 1..MaxConnects
  BY <1>1 DEF SourcesInv, TailType
<1> DEFINE t == tails[connects]
<1>3. /\ t \in [state : {"none", "running", "killed"}, at : Nat, until : Nat]
      /\ written \in Nat /\ t.until <= written
  BY <1>1, <1>2 DEF TailType, SourcesInv
<1>4. /\ tails' = [tails EXCEPT ![connects] = tails'[connects]]
      /\ tails'[connects] = CASE kind = "docker" -> Killed(t) [] kind = "stdout" -> Unheard(t) [] OTHER -> t
  BY <1>1, <1>2 DEF Disconnect, TailType
<1>5. /\ tails'[connects] \in [state : {"none", "running", "killed"}, at : Nat, until : Nat]
      /\ tails'[connects].until <= written
      /\ kind = "file" => tails'[connects] = t
      /\ ~raced' /\ tails'[connects].state # "none" /\ kind # "file" =>
           tails'[connects].state = "killed" /\ tails'[connects].at >= tails'[connects].until
  <2>1. CASE kind = "docker"
    <3>1. tails'[connects] = Killed(t)
      BY <2>1, <1>4
    <3>2. t.state # "none" /\ ~raced' => ~(t.at < written)
      BY <2>1, <1>1 DEF Disconnect, TailType
    <3>3. CASE t.state = "running"
      <4>1. tails'[connects] = [t EXCEPT !.state = "killed", !.until = written]
        BY <3>1, <3>3 DEF Killed
      <4> HIDE DEF t
      <4>2. t.at \in Nat /\ (~raced' => ~(t.at < written))
        BY <3>2, <3>3, <1>3
      <4>3. /\ tails'[connects].state = "killed" /\ tails'[connects].at = t.at
            /\ tails'[connects].until = written
            /\ tails'[connects] \in [state : {"none", "running", "killed"}, at : Nat, until : Nat]
        BY <4>1, <1>3
      <4> QED BY <4>2, <4>3, <2>1, <1>3
    <3>4. CASE t.state # "running"
      <4>1. tails'[connects] = t
        BY <3>1, <3>4 DEF Killed
      <4> HIDE DEF t
      <4> QED BY <4>1, <3>2, <3>4, <2>1, <1>3
    <3> QED BY <3>3, <3>4
  <2>2. CASE kind = "stdout"
    <3>1. tails'[connects] = [t EXCEPT !.state = "none"]
      BY <2>2, <1>4 DEF Unheard
    <3> HIDE DEF t
    <3> QED BY <3>1, <2>2, <1>3
  <2>3. CASE kind = "file"
    <3>1. tails'[connects] = t
      BY <2>3, <1>4
    <3> QED BY <3>1, <2>3, <1>3
  <2> QED BY <2>1, <2>2, <2>3, <1>1 DEF TailType
<1>6. /\ tails' \in [1..MaxConnects -> [state : {"none", "running", "killed"}, at : Nat, until : Nat]]
      /\ \A i \in 1..MaxConnects : i # connects => tails'[i] = tails[i]
  <2> HIDE DEF t
  <2> QED BY <1>1, <1>2, <1>4, <1>5 DEF TailType
<1>7. logged' \in Seq(Seq(Nat)) /\ FlattenSeq(logged') = FlattenSeq(logged) \o held
  BY <1>1, FlushSeen
<1>8. TailType'
  <2>1. rest' \in Seq(Nat) /\ held' \in Seq(Nat) /\ offset' \in Nat
    BY <1>1
  <2> QED BY <1>1, <1>6, <1>7, <2>1 DEF TailType
<1>9. SourcesInv'
  <2>1. ASSUME NEW i \in 1..MaxConnects PROVE tails'[i].until <= written' /\ (kind = "file" => tails'[i].state = "none")
    BY <1>1, <1>2, <1>5, <1>6 DEF SourcesInv
  <2>2. ASSUME ~raced', NEW i \in 1..MaxConnects, tails'[i].state # "none"
        PROVE  tails'[i].state = "killed" /\ tails'[i].at >= tails'[i].until
    <3>1. i = connects
      BY <1>1, <1>6, <2>2 DEF SourcesInv
    <3>2. kind # "file"
      BY <2>1, <2>2
    <3> QED BY <3>1, <3>2, <2>2, <1>5
  <2> QED BY <1>1, <2>1, <2>2 DEF SourcesInv
<1> DEFINE front == FlattenSeq(logged) \o held
<1>10. Seen' = front /\ front \in Seq(Nat) /\ Seen = front \o rest /\ rest \in Seq(Nat)
  <2>1. held \in Seq(Nat) /\ rest \in Seq(Nat) /\ FlattenSeq(logged) \in Seq(Nat)
    BY <1>1, SeenIs DEF TailType
  <2>2. front \in Seq(Nat)
    BY <2>1, ConcatProperties
  <2>3. Seen' = front
    BY <2>2, <1>1, <1>7, ConcatEmptySeq DEF Seen
  <2> QED BY <2>1, <2>2, <2>3, <1>1, SeenIs
<1>11. /\ Ordered(Seen) => Ordered(front)
       /\ Seen = Run(since, since + Len(Seen)) => front = Run(since, since + Len(front))
  <2> HIDE DEF front
  <2> QED BY <1>1, <1>10, FlushOrders
<1>12. ASSUME ~raced'
       PROVE  Ordered(Seen') /\ (~rotated' => Seen' = Run(since', since' + Len(Seen')))
  BY <1>12, <1>1, <1>10, <1>11 DEF TailInv
<1>13. crashed' => raced'
  BY <1>1 DEF TailInv
<1> QED BY <1>1, <1>8, <1>9, <1>12, <1>13 DEF TailInv, Ordered

LEMMA OnChangeKeeps == ASSUME TailInv, OnChange PROVE TailInv'
<1>1. /\ TailType /\ SourcesInv /\ changed /\ changed' = FALSE /\ reading' = (IF reading = "no" THEN "stat" ELSE reading)
      /\ kind' = kind /\ written' = written /\ base' = base /\ parser' = parser /\ connected' = connected
      /\ rest' = rest /\ held' = held /\ logged' = logged /\ offset' = offset /\ size' = size /\ tails' = tails
      /\ connects' = connects /\ since' = since /\ rotated' = rotated /\ raced' = raced /\ crashed' = crashed
  BY DEF TailInv, OnChange, history
<1>2. TailType'
  BY <1>1 DEF TailType
<1>3. SourcesInv'
  BY <1>1 DEF SourcesInv
<1>4. Seen' = Seen
  BY <1>1 DEF Seen
<1>5. FilePlace => FilePlace'
  BY <1>1, <1>4 DEF FilePlace, Length
<1>6. StreamPlace => StreamPlace'
  BY <1>1, <1>4 DEF StreamPlace, Limit
<1> QED BY <1>1, <1>2, <1>3, <1>4, <1>5, <1>6 DEF TailInv, Ordered

LEMMA StatKeeps == ASSUME TailInv, Stat PROVE TailInv'
<1> DEFINE from == IF Length < offset THEN 0 ELSE offset
<1>1. /\ TailType /\ SourcesInv /\ reading = "stat" /\ size' = Length /\ offset' = from
      /\ reading' = (IF Length <= from THEN "no" ELSE "data") /\ changed' = changed
      /\ kind' = kind /\ written' = written /\ base' = base /\ parser' = parser /\ connected' = connected
      /\ rest' = rest /\ held' = held /\ logged' = logged /\ tails' = tails
      /\ connects' = connects /\ since' = since /\ rotated' = rotated /\ raced' = raced /\ crashed' = crashed
  BY DEF TailInv, Stat, history
<1>2. Length \in Nat /\ offset \in Nat /\ Length' = Length
  BY <1>1 DEF TailType, Length
<1>3. TailType'
  BY <1>1, <1>2 DEF TailType
<1>4. SourcesInv'
  BY <1>1 DEF SourcesInv
<1>5. Seen' = Seen
  BY <1>1 DEF Seen
<1>6. ASSUME FilePlace PROVE FilePlace'
  <2>1. CASE Length < offset
    <3>1. /\ offset' = 0 /\ base' = base /\ base \in Nat /\ rotated /\ ~(Length' < offset')
          /\ offset' <= size' /\ size' <= Length'
      BY <1>1, <1>2, <1>6, <2>1 DEF TailType, FilePlace
    <3>2. \A i \in 1..Len(Seen) : Seen[i] <= base + offset'
      BY <3>1, <2>1, <1>6 DEF FilePlace
    <3> QED BY <1>1, <1>5, <3>1, <3>2 DEF FilePlace
  <2>2. CASE ~(Length < offset)
    <3>1. offset' = offset /\ offset' <= size' /\ size' <= Length'
      BY <1>1, <1>2, <2>2
    <3> QED BY <1>1, <1>2, <1>5, <1>6, <3>1 DEF FilePlace
  <2> QED BY <2>1, <2>2
<1>7. StreamPlace => StreamPlace'
  BY <1>1, <1>5 DEF StreamPlace, Limit
<1> QED BY <1>1, <1>3, <1>4, <1>5, <1>6, <1>7 DEF TailInv, Ordered

LEMMA ExitsKeep == ASSUME TailInv, NEW i \in 1..MaxConnects, FollowerExits(i) PROVE TailInv'
<1> DEFINE t == tails[i]
<1>1. /\ TailType /\ SourcesInv /\ t.state = "running"
      /\ tails' = [tails EXCEPT ![i] = [t EXCEPT !.state = "killed", !.until = written]]
      /\ kind' = kind /\ written' = written /\ base' = base /\ parser' = parser /\ connected' = connected
      /\ rest' = rest /\ held' = held /\ logged' = logged /\ offset' = offset /\ changed' = changed
      /\ reading' = reading /\ size' = size
      /\ connects' = connects /\ since' = since /\ rotated' = rotated /\ raced' = raced /\ crashed' = crashed
  BY DEF TailInv, FollowerExits, Killed, history, file
<1>2. t \in [state : {"none", "running", "killed"}, at : Nat, until : Nat] /\ written \in Nat
  BY <1>1 DEF TailType
<1>3. \A j \in 1..MaxConnects : j # i => tails'[j] = tails[j]
  BY <1>1 DEF TailType
<1>4. /\ tails'[i].state = "killed" /\ tails'[i].at = t.at /\ tails'[i].until = written
      /\ tails'[i] \in [state : {"none", "running", "killed"}, at : Nat, until : Nat]
  <2>1. tails'[i] = [t EXCEPT !.state = "killed", !.until = written]
    BY <1>1 DEF TailType
  <2> HIDE DEF t
  <2> QED BY <2>1, <1>2
<1>5. TailType'
  <2>1. tails' \in [1..MaxConnects -> [state : {"none", "running", "killed"}, at : Nat, until : Nat]]
    <3> HIDE DEF t
    <3> QED BY <1>1, <1>3, <1>4 DEF TailType
  <2> QED BY <1>1, <2>1 DEF TailType
<1>6. SourcesInv'
  <2>1. raced \/ parser
    BY <1>1 DEF SourcesInv
  <2>2. \A j \in 1..MaxConnects : tails'[j].until <= written
    BY <1>1, <1>2, <1>3, <1>4 DEF SourcesInv
  <2>3. \A j \in 1..MaxConnects : tails[j].state = "none" => tails'[j].state = "none"
    BY <1>1, <1>3
  <2> QED BY <1>1, <2>1, <2>2, <2>3 DEF SourcesInv
<1>7. Seen' = Seen
  BY <1>1 DEF Seen
<1>8. FilePlace => FilePlace'
  BY <1>1, <1>7 DEF FilePlace, Length
<1>9. ASSUME parser, StreamPlace PROVE StreamPlace'
  <2>1. connects \in 1..MaxConnects
    BY <1>1, <1>9 DEF SourcesInv, TailType
  <2>2. CASE connects = i
    <3>1. t.at = since + Len(Seen) /\ t.at <= written
      BY <1>1, <1>9, <2>2 DEF StreamPlace, Limit
    <3> QED BY <1>1, <1>4, <1>7, <2>2, <3>1 DEF StreamPlace, Limit
  <2>3. CASE connects # i
    <3>1. tails'[connects] = tails[connects]
      BY <1>3, <2>1, <2>3
    <3> QED BY <1>1, <1>7, <1>9, <3>1 DEF StreamPlace, Limit
  <2> QED BY <2>2, <2>3
<1> QED BY <1>1, <1>5, <1>6, <1>7, <1>8, <1>9 DEF TailInv, Ordered

LEMMA ClosesKeep == ASSUME TailInv, NEW i \in 1..MaxConnects, SourceCloses(i) PROVE TailInv'
<1> DEFINE t == tails[i]
<1>1. /\ TailType /\ SourcesInv /\ t.state = "killed"
      /\ tails' = [tails EXCEPT ![i] = [t EXCEPT !.state = "none"]]
      /\ kind' = kind /\ written' = written /\ base' = base /\ parser' = parser /\ connected' = FALSE
      /\ rest' = rest /\ held' = (IF parser THEN <<>> ELSE held) /\ logged' = Flushed
      /\ offset' = offset /\ changed' = changed /\ reading' = reading /\ size' = size
      /\ connects' = connects /\ since' = since /\ rotated' = rotated /\ raced' = raced /\ crashed' = crashed
  BY DEF TailInv, SourceCloses, history, file
<1>2. t \in [state : {"none", "running", "killed"}, at : Nat, until : Nat] /\ written \in Nat
  BY <1>1 DEF TailType
<1>3. \A j \in 1..MaxConnects : j # i => tails'[j] = tails[j]
  BY <1>1 DEF TailType
<1>4. /\ tails'[i].state = "none" /\ tails'[i].until = t.until
      /\ tails'[i] \in [state : {"none", "running", "killed"}, at : Nat, until : Nat]
  <2>1. tails'[i] = [t EXCEPT !.state = "none"]
    BY <1>1 DEF TailType
  <2> HIDE DEF t
  <2> QED BY <2>1, <1>2
<1>5. logged' \in Seq(Seq(Nat)) /\ held' \in Seq(Nat)
  BY <1>1, FlushSeen DEF TailType
<1>6. TailType'
  <2>1. tails' \in [1..MaxConnects -> [state : {"none", "running", "killed"}, at : Nat, until : Nat]]
    <3> HIDE DEF t
    <3> QED BY <1>1, <1>3, <1>4 DEF TailType
  <2> QED BY <1>1, <1>5, <2>1 DEF TailType
<1>7. SourcesInv'
  <2>1. kind # "file"
    BY <1>1 DEF SourcesInv
  <2>2. \A j \in 1..MaxConnects : tails'[j].until <= written
    BY <1>1, <1>3, <1>4 DEF SourcesInv
  <2>3. \A j \in 1..MaxConnects : tails'[j].state = "none" \/ tails'[j] = tails[j]
    BY <1>3, <1>4
  <2>4. \A j \in 1..MaxConnects : tails[j].state = "none" => tails'[j].state = "none"
    BY <1>3, <1>4
  <2> QED BY <1>1, <2>1, <2>2, <2>3, <2>4 DEF SourcesInv
<1>8. Seen' = Seen
  <2>1. CASE parser
    <3>1. FlattenSeq(logged') = FlattenSeq(logged) \o held
      BY <1>1, <2>1, FlushSeen
    <3>2. <<>> \o rest = rest
      BY <1>1, ConcatEmptySeq DEF TailType
    <3>3. Seen' = FlattenSeq(logged') \o (<<>> \o rest)
      BY <1>1, <2>1 DEF Seen
    <3> QED BY <3>1, <3>2, <3>3, <2>1, <1>1, SeenIs
  <2>2. CASE ~parser
    <3>1. logged' = logged
      BY <1>1, <2>2 DEF Flushed
    <3> QED BY <3>1, <1>1, <2>2 DEF Seen
  <2> QED BY <2>1, <2>2
<1>9. FilePlace => FilePlace'
  BY <1>1, <1>8 DEF FilePlace, Length
<1>10. StreamPlace => StreamPlace'
  <2>1. tails'[connects].state = "none" \/ tails'[connects] = tails[connects]
    <3>1. CASE connects = i
      BY <3>1, <1>4
    <3>2. CASE connects # i
      BY <3>2, <1>1
    <3> QED BY <3>1, <3>2
  <2> QED BY <1>1, <1>8, <2>1 DEF StreamPlace, Limit
<1> QED BY <1>1, <1>6, <1>7, <1>8, <1>9, <1>10 DEF TailInv, Ordered

\* What has been seen stays in order when what follows a place it has not passed
\* comes next.
LEMMA SeenGrows ==
    ASSUME TailType, Ordered(Seen), NEW b \in Nat, NEW c \in Nat, b <= c,
           \A i \in 1..Len(Seen) : Seen[i] <= b,
           Seen' = Seen \o Run(b, c), since' = since, rotated' = rotated,
           ~rotated => Seen = Run(since, since + Len(Seen)) /\ since + Len(Seen) = b
    PROVE  /\ Ordered(Seen') /\ \A i \in 1..Len(Seen') : Seen'[i] <= c
           /\ ~rotated' => Seen' = Run(since', since' + Len(Seen')) /\ since' + Len(Seen') = c
<1>1. Seen \in Seq(Nat) /\ Len(Seen) \in Nat /\ since \in Nat
  BY SeenIs DEF TailType
<1>2. /\ Ordered(Seen \o Run(b, c)) /\ Len(Seen \o Run(b, c)) = Len(Seen) + (c - b)
      /\ \A i \in 1..Len(Seen \o Run(b, c)) : (Seen \o Run(b, c))[i] <= c
  BY <1>1, OrderedGrows
<1>3. Ordered(Seen') /\ \A i \in 1..Len(Seen') : Seen'[i] <= c
  BY <1>2 DEF Ordered
<1>4. ASSUME ~rotated' PROVE Seen' = Run(since', since' + Len(Seen')) /\ since' + Len(Seen') = c
  <2>1. Seen = Run(since, b) /\ since + Len(Seen) = b /\ since <= b
    BY <1>4, <1>1
  <2>2. Seen' = Run(since, c)
    BY <2>1, <1>1, RunGrows
  <2>3. since + Len(Seen') = c
    <3>1. Len(Seen') = Len(Seen) + (c - b)
      BY <1>2
    <3> QED BY ONLY <3>1, <2>1, <1>1, b \in Nat, c \in Nat
  <2> QED BY <2>2, <2>3
<1> QED BY <1>3, <1>4

LEMMA DataKeeps == ASSUME TailInv, NEW i \in 1..MaxConnects, Data(i) PROVE TailInv'
<1> DEFINE t == tails[i]
           data == Run(t.at, Limit(i))
<1>1. /\ TailType /\ SourcesInv /\ t.state # "none" /\ t.at < Limit(i)
      /\ tails' = [tails EXCEPT ![i] = [t EXCEPT !.at = Limit(i)]] /\ ProcessData(data)
      /\ kind' = kind /\ written' = written /\ base' = base /\ parser' = parser /\ connected' = connected
      /\ offset' = offset /\ changed' = changed /\ reading' = reading /\ size' = size
      /\ connects' = connects /\ since' = since /\ rotated' = rotated /\ raced' = raced
  BY DEF TailInv, Data, history, file
<1>2. t \in [state : {"none", "running", "killed"}, at : Nat, until : Nat] /\ written \in Nat
  BY <1>1 DEF TailType
<1>3. Limit(i) \in Nat /\ t.at \in Nat /\ t.at <= Limit(i)
  BY <1>1, <1>2 DEF Limit
<1>4. data \in Seq(Nat)
  BY <1>3, RunIs
<1>5. \A j \in 1..MaxConnects : j # i => tails'[j] = tails[j]
  BY <1>1 DEF TailType
<1>6. /\ tails'[i].state = t.state /\ tails'[i].until = t.until /\ tails'[i].at = Limit(i)
      /\ tails'[i] \in [state : {"none", "running", "killed"}, at : Nat, until : Nat]
  <2>1. tails'[i] = [t EXCEPT !.at = Limit(i)]
    BY <1>1 DEF TailType
  <2> HIDE DEF t
  <2> QED BY <2>1, <1>2, <1>3
<1> HIDE DEF data
<1>7. /\ rest' \in Seq(Nat) /\ held' \in Seq(Nat) /\ logged' \in Seq(Seq(Nat)) /\ crashed' \in BOOLEAN
      /\ parser => crashed' = crashed /\ Seen' = Seen \o data
      /\ ~parser => Seen' = Seen
  <2>1. held \in Seq(Nat) /\ logged \in Seq(Seq(Nat)) /\ crashed \in BOOLEAN /\ parser \in BOOLEAN
    BY <1>1 DEF TailType
  <2> QED BY <1>1, <1>4, <2>1, ChunkSeen, ChunkLost
<1>8. TailType'
  <2>1. tails' \in [1..MaxConnects -> [state : {"none", "running", "killed"}, at : Nat, until : Nat]]
    <3> HIDE DEF t
    <3> QED BY <1>1, <1>5, <1>6 DEF TailType
  <2> QED BY <1>1, <1>7, <2>1 DEF TailType
<1>9. kind # "file" /\ ~rotated
  BY <1>1 DEF SourcesInv
<1>10. raced \/ (parser /\ i = connects)
  <2>1. ASSUME ~raced, ~parser PROVE FALSE
    <3>1. t.state = "killed" /\ t.at >= t.until
      BY <1>1, <2>1 DEF SourcesInv
    <3>2. Limit(i) = t.until
      BY <3>1 DEF Limit
    <3> QED BY <3>1, <3>2, <1>1, <1>3
  <2>2. ASSUME ~raced, parser PROVE i = connects
    BY <1>1, <2>2 DEF SourcesInv
  <2> QED BY <2>1, <2>2
<1>11. SourcesInv'
  <2>1. \A j \in 1..MaxConnects : tails'[j].until <= written
    BY <1>1, <1>5, <1>6 DEF SourcesInv
  <2>2. \A j \in 1..MaxConnects : tails'[j].state = tails[j].state
    BY <1>5, <1>6
  <2> QED BY <1>1, <1>9, <1>10, <2>1, <2>2 DEF SourcesInv
<1>12. crashed' => raced'
  BY <1>1, <1>7, <1>10 DEF TailInv
<1>13. ASSUME ~raced'
       PROVE  Ordered(Seen') /\ Seen' = Run(since', since' + Len(Seen')) /\ since' + Len(Seen') = Limit(i)
  <2>1. /\ ~raced /\ parser /\ i = connects /\ Seen' = Seen \o data
    BY <1>1, <1>7, <1>10, <1>13
  <2>2. /\ Ordered(Seen) /\ Seen = Run(since, since + Len(Seen)) /\ since + Len(Seen) = t.at
    <3>1. Ordered(Seen) /\ (~rotated => Seen = Run(since, since + Len(Seen))) /\ StreamPlace
      BY <2>1, <1>9 DEF TailInv
    <3>2. since + Len(Seen) = t.at
      BY <3>1, <2>1, <1>1 DEF StreamPlace
    <3> QED BY <3>1, <3>2, <1>9
  <2>3. \A j \in 1..Len(Seen) : Seen[j] <= t.at
    <3>0. since \in Nat /\ Len(Seen) \in Nat
      BY <1>1, SeenIs DEF TailType
    <3>1. since \in Nat /\ Len(Seen) \in Nat /\ since + Len(Seen) \in Nat /\ since <= since + Len(Seen)
      BY ONLY <3>0
    <3>2. \A j \in 1..Len(Seen) : Seen[j] = since + j
      <4> DEFINE b == since + Len(Seen)
      <4>1. b \in Nat /\ since <= b /\ b - since = Len(Seen) /\ Seen = Run(since, b)
        BY <3>1, <2>2
      <4> HIDE DEF b
      <4>2. \A j \in 1..b - since : Run(since, b)[j] = since + j
        BY ONLY <4>1, <3>1, RunIs
      <4> QED BY ONLY <4>1, <4>2
    <3> QED BY <3>1, <3>2, <2>2
  <2> QED BY <2>1, <2>2, <2>3, <1>1, <1>3, <1>9, SeenGrows DEF data
<1>14. ASSUME ~raced' PROVE StreamPlace'
  <2>1. i = connects /\ connects' = connects /\ tails'[i].at = Limit(i) /\ tails'[i].state = t.state
    BY <1>1, <1>6, <1>10, <1>14
  <2>2. Limit(i)' = Limit(i)
    BY <1>1, <1>6 DEF Limit
  <2>3. tails'[connects'].at = since' + Len(Seen')
    BY <2>1, <1>13, <1>14
  <2>4. tails'[connects'].at <= Limit(connects)'
    <3>1. Limit(connects)' = Limit(i)'
      BY <2>1 DEF Limit
    <3> QED BY <3>1, <2>1, <2>2, <1>3
  <2> QED BY <2>3, <2>4 DEF StreamPlace
<1> QED BY <1>1, <1>8, <1>9, <1>11, <1>12, <1>13, <1>14 DEF TailInv

LEMMA ReadKeeps == ASSUME TailInv, Read PROVE TailInv'
<1> DEFINE upto == IF size < Length THEN size ELSE Length
           data == IF offset >= size \/ offset >= Length THEN <<>> ELSE Run(base + offset, base + upto)
<1>1. /\ TailType /\ SourcesInv /\ reading = "data" /\ reading' = "no" /\ offset' = size /\ ProcessData(data)
      /\ kind' = kind /\ written' = written /\ base' = base /\ parser' = parser /\ connected' = connected
      /\ changed' = changed /\ size' = size /\ tails' = tails
      /\ connects' = connects /\ since' = since /\ rotated' = rotated /\ raced' = raced
  BY DEF TailInv, Read, history
<1>2. Length \in Nat /\ offset \in Nat /\ size \in Nat /\ base \in Nat /\ upto \in Nat /\ Length' = Length
  BY <1>1 DEF TailType, Length
<1>3. data \in Seq(Nat)
  <2>1. CASE offset >= size \/ offset >= Length
    BY <2>1
  <2>2. CASE ~(offset >= size \/ offset >= Length)
    <3>1. base + offset \in Nat /\ base + upto \in Nat /\ base + offset <= base + upto
      BY <1>2, <2>2
    <3> HIDE DEF upto
    <3> QED BY <2>2, <3>1, RunIs
  <2> QED BY <2>1, <2>2
<1> HIDE DEF data
<1>4. /\ rest' \in Seq(Nat) /\ held' \in Seq(Nat) /\ logged' \in Seq(Seq(Nat)) /\ crashed' \in BOOLEAN
      /\ parser => crashed' = crashed /\ Seen' = Seen \o data
      /\ ~parser => Seen' = Seen
  <2>1. held \in Seq(Nat) /\ logged \in Seq(Seq(Nat)) /\ crashed \in BOOLEAN /\ parser \in BOOLEAN
    BY <1>1 DEF TailType
  <2> QED BY <1>1, <1>3, <2>1, ChunkSeen, ChunkLost
<1>5. TailType'
  BY <1>1, <1>2, <1>4 DEF TailType
<1>6. SourcesInv' /\ (raced \/ parser)
  BY <1>1 DEF SourcesInv
<1>7. kind = "file"
  BY <1>1 DEF SourcesInv
<1>8. crashed' => raced'
  BY <1>1, <1>4, <1>6 DEF TailInv
<1>9. ASSUME ~raced' PROVE /\ Ordered(Seen') /\ FilePlace'
                           /\ ~rotated' => Seen' = Run(since', since' + Len(Seen'))
  <2>1. /\ ~raced /\ parser /\ Seen' = Seen \o data /\ Ordered(Seen) /\ FilePlace
        /\ ~rotated => Seen = Run(since, since + Len(Seen))
    BY <1>1, <1>4, <1>6, <1>7, <1>9 DEF TailInv
  <2>2. offset <= size /\ size <= Length
    BY <2>1, <1>1 DEF FilePlace
  <2>3. data = Run(base + offset, base + size)
    <3>1. CASE offset = size
      <4>1. base + offset \in Nat /\ base + offset <= base + offset /\ (base + offset) - (base + offset) = 0
        BY <1>2
      <4>2. Run(base + offset, base + offset) \in Seq(Nat) /\ Len(Run(base + offset, base + offset)) = 0
        BY <4>1, RunIs
      <4>3. Run(base + offset, base + offset) = <<>>
        BY <4>2, EmptySeq
      <4> QED BY <3>1, <4>3, <1>2 DEF data
    <3>2. CASE offset < size
      <4>1. upto = size
        BY <2>2, <1>2
      <4>2. ~(offset >= size \/ offset >= Length)
        BY <3>2, <2>2, <1>2
      <4> HIDE DEF upto
      <4> QED BY <4>1, <4>2 DEF data
    <3> QED BY <3>1, <3>2, <2>2, <1>2
  <2>4. \A i \in 1..Len(Seen) : Seen[i] <= base + offset
    BY <2>1 DEF FilePlace
  <2>5. base + offset \in Nat /\ base + size \in Nat /\ base + offset <= base + size
    BY <1>2, <2>2
  <2>6. ~rotated => since + Len(Seen) = base + offset
    BY <2>1 DEF FilePlace
  <2>7. /\ Ordered(Seen') /\ \A i \in 1..Len(Seen') : Seen'[i] <= base + size
        /\ ~rotated' => Seen' = Run(since', since' + Len(Seen')) /\ since' + Len(Seen') = base + size
    BY <2>1, <2>3, <2>4, <2>5, <2>6, <1>1, SeenGrows
  <2>8. FilePlace'
    BY <2>7, <2>2, <1>1, <1>2 DEF FilePlace
  <2> QED BY <2>7, <2>8
<1> QED BY <1>1, <1>5, <1>6, <1>7, <1>8, <1>9 DEF TailInv

LEMMA TailNext == ASSUME TailInv, LsNext PROVE TailInv'
BY LogKeeps, RotateKeeps, ConnectKeeps, DisconnectKeeps, OnChangeKeeps, StatKeeps, ReadKeeps, DataKeeps,
   ExitsKeep, ClosesKeep DEF LsNext

LEMMA TailIsExact == ASSUME TailInv PROVE LinesAreExact
BY DEF TailInv, LinesAreExact, Seen, Ordered

\* What was logged since connect reaches the handlers once, in order and, but for
\* a rotation, without a gap, whatever the chunks, the sizes of the buffer and the
\* lines that join a stack trace, as long as nothing is under way at a disconnect
\* or a rotation; only then can the process die of a chunk.
THEOREM LinesExact == CaptureSpec => []LinesAreExact
<1>1. CaptureInit => TailInv
  BY TailStarts DEF CaptureInit
<1>2. TailInv /\ [CaptureNext]_captureVars => TailInv'
  <2>1. TailInv /\ LsNext => TailInv'
    BY TailNext
  <2>2. TailInv /\ UNCHANGED lsVars => TailInv'
    BY TailKept
  <2> QED BY <2>1, <2>2
          DEF CaptureNext, captureVars, TailStep, NetworkStep, BrowserStep, CommandStep, CorrelatorStep
<1>3. TailInv => LinesAreExact
  BY TailIsExact
<1> QED BY <1>1, <1>2, <1>3, PTL DEF CaptureSpec

=============================================================================
