-------------------------- MODULE BatchSenderProofs --------------------------
(***************************************************************************)
(* Proofs about BatchSender, for every capacity, batch size, number of     *)
(* retries and breaker configuration: its ring buffer is a queue, its      *)
(* statistics add up, and it implements EventPipe.                         *)
(***************************************************************************)
EXTENDS BatchSender, SequenceTheorems, TLAPS

USE RingAssumption, BreakerAssumption, SenderAssumption

-----------------------------------------------------------------------------
(* The ring buffer is a queue *)

\* The indices of a ring agree with its size, and no queued item is a hole.
WellFormed(r, S) ==
    /\ r \in Ring(S)
    /\ r.tail = (r.head + r.size) % Capacity
    /\ \A i \in 0..(r.size - 1) : Nth(r, i) \in S

\* The index i places behind index h.
Place(h, i) == (h + i) % Capacity

LEMMA Wrap ==
    ASSUME NEW h \in Slot, NEW i \in 0..Capacity
    PROVE  /\ Place(h, i) \in Slot
           /\ Place(h, i) = IF h + i < Capacity THEN h + i ELSE h + i - Capacity
<1>1. CASE h + i < Capacity
  <2>1. (h + i) % Capacity = h + i
    BY <1>1, SMT DEF Slot
  <2> QED BY <1>1, <2>1 DEF Slot, Place
<1>2. CASE h + i >= Capacity
  <2>1. (h + i) % Capacity = h + i - Capacity
    BY <1>2, SMT DEF Slot
  <2> QED BY <1>2, <2>1 DEF Slot, Place
<1> QED BY <1>1, <1>2 DEF Slot

LEMMA PlaceSum ==
    ASSUME NEW h \in Slot, NEW n \in 0..Capacity, NEW i \in 0..(Capacity - n)
    PROVE  Place(Place(h, n), i) = Place(h, n + i)
<1>1. /\ i \in 0..Capacity /\ n + i \in 0..Capacity
  OBVIOUS
<1>2. /\ Place(h, n) \in Slot
      /\ Place(h, n) = IF h + n < Capacity THEN h + n ELSE h + n - Capacity
  BY Wrap
<1>3. Place(h, n + i) = IF h + (n + i) < Capacity THEN h + (n + i) ELSE h + (n + i) - Capacity
  BY <1>1, Wrap
<1>4. Place(Place(h, n), i) =
        IF Place(h, n) + i < Capacity THEN Place(h, n) + i ELSE Place(h, n) + i - Capacity
  BY <1>1, <1>2, Wrap
<1> QED BY <1>2, <1>3, <1>4 DEF Slot

LEMMA PlaceApart ==
    ASSUME NEW h \in Slot, NEW i \in 0..(Capacity - 1), NEW j \in 0..(Capacity - 1), i # j
    PROVE  Place(h, i) # Place(h, j)
<1>1. i \in 0..Capacity /\ j \in 0..Capacity
  OBVIOUS
<1>2. Place(h, i) = IF h + i < Capacity THEN h + i ELSE h + i - Capacity
  BY <1>1, Wrap
<1>3. Place(h, j) = IF h + j < Capacity THEN h + j ELSE h + j - Capacity
  BY <1>1, Wrap
<1> QED BY <1>2, <1>3 DEF Slot

LEMMA PlaceEnds ==
    ASSUME NEW h \in Slot
    PROVE  Place(h, 0) = h /\ Place(h, Capacity) = h
<1>1. Place(h, 0) = IF h + 0 < Capacity THEN h + 0 ELSE h + 0 - Capacity
  BY Wrap
<1>2. Place(h, Capacity) = IF h + Capacity < Capacity THEN h + Capacity ELSE h + Capacity - Capacity
  BY Wrap
<1> QED BY <1>1, <1>2 DEF Slot

LEMMA EmptyIsWellFormed == ASSUME NEW S PROVE WellFormed(EmptyRing, S) /\ Contents(EmptyRing) = <<>>
<1>1. EmptyRing \in Ring(S)
  BY DEF EmptyRing, Ring, Slot, Hole
<1>2. (0 + 0) % Capacity = 0
  BY SMT
<1> QED BY <1>1, <1>2 DEF EmptyRing, WellFormed, Contents

LEMMA WidenRing ==
    ASSUME NEW S, NEW T, S \subseteq T, NEW r, WellFormed(r, S)
    PROVE  WellFormed(r, T)
BY DEF WellFormed, Ring

\* toArray() is the queued items, oldest first.
LEMMA ContentsType ==
    ASSUME NEW S, NEW r, WellFormed(r, S)
    PROVE  /\ Contents(r) \in Seq(S)
           /\ Len(Contents(r)) = r.size
           /\ r.size \in 0..Capacity
           /\ \A i \in 1..r.size : Contents(r)[i] = Nth(r, i - 1)
<1>1. r.size \in 0..Capacity
  BY DEF WellFormed, Ring
<1>2. \A i \in 1..r.size : Nth(r, i - 1) \in S
  BY <1>1 DEF WellFormed
<1>3. Contents(r) \in [1..r.size -> S]
  BY <1>2 DEF Contents
<1>4. Contents(r) \in Seq(S)
  BY <1>1, <1>3, SeqDef
<1>5. Len(Contents(r)) = r.size
  BY <1>1, <1>3, <1>4, LenProperties
<1> QED BY <1>1, <1>4, <1>5 DEF Contents

\* What push() leaves: the new item behind what was queued, less its oldest
\* item when the ring was full.
LEMMA PushNth ==
    ASSUME NEW S, NEW r, WellFormed(r, S), NEW x \in S
    PROVE  LET p == Push(r, x)
               k == IF IsFull(r) THEN 1 ELSE 0
           IN  /\ p \in Ring(S)
               /\ p.size = r.size - k + 1
               /\ p.tail = (p.head + p.size) % Capacity
               /\ \A i \in 0..(p.size - 2) : Nth(p, i) = Nth(r, i + k)
               /\ Nth(p, p.size - 1) = x
<1> DEFINE p == Push(r, x)
<1>1. /\ r.head \in Slot /\ r.tail \in Slot /\ r.size \in 0..Capacity
      /\ r.buffer \in [Slot -> S \cup {Hole}]
      /\ r.tail = Place(r.head, r.size)
  BY DEF WellFormed, Ring, Place
<1>3. Place(r.tail, 1) \in Slot /\ Place(r.head, 1) \in Slot /\ 1 \in 0..Capacity
  BY <1>1, Wrap
<1>4. CASE r.size = Capacity
  <2>1. r.tail = r.head
    BY <1>1, <1>4, PlaceEnds
  <2>2. /\ p.head = Place(r.head, 1) /\ p.tail = p.head /\ p.size = Capacity
        /\ \A i \in Slot : p.buffer[i] = IF i = r.head THEN x ELSE r.buffer[i]
    BY <1>1, <1>4, <2>1 DEF Push, IsFull, Place
  <2>3. p \in Ring(S)
    BY <1>1, <1>3, <1>4 DEF Push, IsFull, Ring, Place
  <2>4. p.tail = Place(p.head, p.size)
    BY <1>3, <2>2, PlaceEnds
  <2> HIDE DEF p
  <2>5. ASSUME NEW i \in 0..(Capacity - 2)
        PROVE  Nth(p, i) = Nth(r, i + 1)
    <3>1. i \in 0..(Capacity - 1) /\ i + 1 \in 1..(Capacity - 1) /\ i + 1 \in 0..Capacity
      OBVIOUS
    <3>2. Place(p.head, i) = Place(r.head, 1 + i)
      BY <1>1, <1>3, <2>2, <3>1, PlaceSum
    <3>3. Place(r.head, i + 1) # Place(r.head, 0)
      BY <1>1, <3>1, PlaceApart
    <3>4. Place(r.head, i + 1) # r.head /\ Place(r.head, i + 1) \in Slot
      BY <1>1, <3>1, <3>3, PlaceEnds, Wrap
    <3>5. p.buffer[Place(r.head, i + 1)] = r.buffer[Place(r.head, i + 1)]
      BY <2>2, <3>4
    <3>6. Nth(p, i) = p.buffer[Place(p.head, i)] /\ Nth(r, i + 1) = r.buffer[Place(r.head, i + 1)]
      BY DEF Nth, Place
    <3> QED BY <3>2, <3>5, <3>6
  <2>6. Place(p.head, Capacity - 1) = r.head
    <3>1. Place(p.head, Capacity - 1) = Place(r.head, 1 + (Capacity - 1))
      BY <1>1, <1>3, <2>2, PlaceSum
    <3> QED BY <1>1, <3>1, PlaceEnds
  <2>7. Nth(p, Capacity - 1) = x
    BY <1>1, <2>2, <2>6 DEF Nth, Place
  <2> QED BY <1>4, <2>2, <2>3, <2>4, <2>5, <2>7 DEF IsFull, p, Place
<1>5. CASE r.size # Capacity
  <2>1. /\ p.head = r.head /\ p.tail = Place(r.tail, 1) /\ p.size = r.size + 1
        /\ \A i \in Slot : p.buffer[i] = IF i = r.tail THEN x ELSE r.buffer[i]
    BY <1>1, <1>5 DEF Push, IsFull, Place
  <2>2. p \in Ring(S)
    BY <1>1, <1>3, <1>5 DEF Push, IsFull, Ring, Place
  <2>3. p.tail = Place(p.head, p.size)
    BY <1>1, <1>3, <1>5, <2>1, PlaceSum
  <2> HIDE DEF p
  <2>4. ASSUME NEW i \in 0..(r.size - 1)
        PROVE  Nth(p, i) = Nth(r, i)
    <3>1. Place(r.head, i) # r.tail /\ Place(r.head, i) \in Slot
      <4>1. i \in 0..(Capacity - 1) /\ r.size \in 0..(Capacity - 1) /\ i # r.size
            /\ i \in 0..Capacity
        BY <1>1, <1>5
      <4> QED BY <1>1, <4>1, PlaceApart, Wrap
    <3> QED BY <2>1, <3>1 DEF Nth, Place
  <2>5. Nth(p, r.size) = x
    BY <1>1, <2>1 DEF Nth, Place
  <2> QED BY <1>1, <1>5, <2>1, <2>2, <2>3, <2>4, <2>5 DEF IsFull, p, Place
<1> QED BY <1>4, <1>5

LEMMA PushIsAppend ==
    ASSUME NEW S, NEW r, WellFormed(r, S), NEW x \in S
    PROVE  /\ WellFormed(Push(r, x), S)
           /\ Contents(Push(r, x)) =
                Append(IF IsFull(r) THEN Tail(Contents(r)) ELSE Contents(r), x)
<1> DEFINE p == Push(r, x)
           k == IF IsFull(r) THEN 1 ELSE 0
           q == IF IsFull(r) THEN Tail(Contents(r)) ELSE Contents(r)
<1>1. /\ p \in Ring(S)
      /\ p.size = r.size - k + 1
      /\ p.tail = (p.head + p.size) % Capacity
      /\ \A i \in 0..(p.size - 2) : Nth(p, i) = Nth(r, i + k)
      /\ Nth(p, p.size - 1) = x
  BY PushNth
<1>2. /\ Contents(r) \in Seq(S) /\ Len(Contents(r)) = r.size /\ r.size \in 0..Capacity
      /\ \A i \in 1..r.size : Contents(r)[i] = Nth(r, i - 1)
  BY ContentsType
<1>3. k \in {0, 1} /\ k <= r.size /\ p.size \in 1..Capacity
  BY <1>1, <1>2 DEF IsFull, Ring
<1>4. /\ q \in Seq(S) /\ Len(q) = r.size - k
      /\ \A i \in 1..(r.size - k) : q[i] = Nth(r, i - 1 + k)
  <2>1. CASE IsFull(r)
    <3>1. Contents(r) # <<>>
      BY <1>2, <2>1 DEF IsFull
    <3>2. /\ Tail(Contents(r)) \in Seq(S) /\ Len(Tail(Contents(r))) = r.size - 1
          /\ \A i \in 1..(r.size - 1) : Tail(Contents(r))[i] = Contents(r)[i + 1]
      BY <1>2, <3>1, HeadTailProperties
    <3>3. \A i \in 1..(r.size - 1) : Tail(Contents(r))[i] = Nth(r, i)
      BY <1>2, <3>2
    <3> QED BY <2>1, <3>2, <3>3
  <2>2. CASE ~IsFull(r)
    BY <1>2, <2>2
  <2> QED BY <2>1, <2>2
<1> HIDE DEF p, k, q
<1>5. \A i \in 0..(p.size - 1) : Nth(p, i) \in S
  <2>1. ASSUME NEW i \in 0..(p.size - 2) PROVE Nth(p, i) \in S
    <3>1. i + k \in 0..(r.size - 1)
      BY <1>1, <1>2, <1>3
    <3> QED BY <1>1, <3>1 DEF WellFormed
  <2> QED BY <1>1, <1>3, <2>1
<1>6. WellFormed(p, S)
  BY <1>1, <1>5 DEF WellFormed
<1>7. /\ Contents(p) \in Seq(S) /\ Len(Contents(p)) = p.size
      /\ \A i \in 1..p.size : Contents(p)[i] = Nth(p, i - 1)
  BY <1>6, ContentsType
<1>8. /\ Append(q, x) \in Seq(S) /\ Len(Append(q, x)) = r.size - k + 1
      /\ \A i \in 1..(r.size - k) : Append(q, x)[i] = q[i]
      /\ Append(q, x)[r.size - k + 1] = x
  BY <1>2, <1>3, <1>4, AppendProperties
<1>9. ASSUME NEW i \in 1..p.size
      PROVE  Contents(p)[i] = Append(q, x)[i]
  <2>1. CASE i = p.size
    BY <1>1, <1>3, <1>7, <1>8, <2>1
  <2>2. CASE i # p.size
    <3>1. i - 1 \in 0..(p.size - 2) /\ i \in 1..(r.size - k)
      BY <1>1, <1>2, <1>3, <2>2
    <3>2. Nth(p, i - 1) = Nth(r, (i - 1) + k)
      BY <1>1, <3>1
    <3> QED BY <1>4, <1>7, <1>8, <3>1, <3>2
  <2> QED BY <2>1, <2>2
<1>10. Contents(p) = Append(q, x)
  BY <1>1, <1>7, <1>8, <1>9, SeqEqual
<1> QED BY <1>6, <1>10 DEF p, q

\* What n calls of shift() leave: the queue without its n oldest items.
LEMMA ShiftedNth ==
    ASSUME NEW S, NEW r, WellFormed(r, S), NEW n \in 0..r.size
    PROVE  LET p == Shifted(r, n)
           IN  /\ p \in Ring(S)
               /\ p.size = r.size - n
               /\ p.tail = (p.head + p.size) % Capacity
               /\ \A i \in 0..(p.size - 1) : Nth(p, i) = Nth(r, i + n)
<1> DEFINE p == Shifted(r, n)
<1>1. /\ r.head \in Slot /\ r.tail \in Slot /\ r.size \in 0..Capacity
      /\ r.buffer \in [Slot -> S \cup {Hole}]
      /\ r.tail = Place(r.head, r.size)
  BY DEF WellFormed, Ring, Place
<1>2. n \in 0..Capacity /\ r.size - n \in 0..(Capacity - n) /\ r.size - n \in 0..Capacity
  BY <1>1
<1>3. /\ p.head = Place(r.head, n) /\ p.tail = r.tail /\ p.size = r.size - n
      /\ p = [buffer |-> p.buffer, head |-> p.head, tail |-> p.tail, size |-> p.size]
      /\ p.buffer = [i \in Slot |-> IF \E j \in 0..(n - 1) : i = Place(r.head, j)
                                    THEN Hole ELSE r.buffer[i]]
  BY DEF Shifted, Place
<1> HIDE DEF p
<1>4. p.head \in Slot
  BY <1>1, <1>2, <1>3, Wrap
<1>5. p.buffer \in [Slot -> S \cup {Hole}]
  BY <1>1, <1>3
<1>6. p \in Ring(S)
  BY <1>1, <1>2, <1>3, <1>4, <1>5 DEF Ring
<1>7. p.tail = Place(p.head, p.size)
  <2>1. Place(Place(r.head, n), r.size - n) = Place(r.head, n + (r.size - n))
    BY <1>1, <1>2, PlaceSum
  <2>2. n + (r.size - n) = r.size
    BY <1>1, <1>2
  <2> QED BY <1>1, <1>3, <2>1, <2>2
<1>8. ASSUME NEW i \in 0..(p.size - 1)
      PROVE  Nth(p, i) = Nth(r, i + n)
  <2>1. /\ i \in 0..(Capacity - n) /\ i + n \in 0..(Capacity - 1) /\ i + n \in 0..Capacity
        /\ n + i = i + n
    BY <1>1, <1>2, <1>3
  <2>2. Place(p.head, i) = Place(r.head, i + n)
    <3>1. Place(Place(r.head, n), i) = Place(r.head, n + i)
      BY <1>1, <1>2, <2>1, PlaceSum
    <3> QED BY <1>3, <2>1, <3>1
  <2>3. ASSUME NEW j \in 0..(n - 1) PROVE Place(r.head, i + n) # Place(r.head, j)
    <3>1. j \in 0..(Capacity - 1) /\ j # i + n
      BY <1>2, <2>1
    <3> QED BY <1>1, <2>1, <3>1, PlaceApart
  <2>4. Place(r.head, i + n) \in Slot
    BY <1>1, <2>1, Wrap
  <2>5. p.buffer[Place(r.head, i + n)] = r.buffer[Place(r.head, i + n)]
    BY <1>3, <2>3, <2>4
  <2>6. /\ Nth(p, i) = p.buffer[Place(p.head, i)]
        /\ Nth(r, i + n) = r.buffer[Place(r.head, i + n)]
    BY DEF Nth, Place
  <2> QED BY <2>2, <2>5, <2>6
<1> QED BY <1>3, <1>6, <1>7, <1>8 DEF p, Place

LEMMA ShiftedIsSuffix ==
    ASSUME NEW S, NEW r, WellFormed(r, S), NEW n \in 0..r.size
    PROVE  /\ WellFormed(Shifted(r, n), S)
           /\ Shifted(r, n).size = r.size - n
           /\ Contents(Shifted(r, n)) = SubSeq(Contents(r), n + 1, Len(Contents(r)))
<1> DEFINE p == Shifted(r, n)
           q == SubSeq(Contents(r), n + 1, Len(Contents(r)))
<1>1. /\ p \in Ring(S)
      /\ p.size = r.size - n
      /\ p.tail = (p.head + p.size) % Capacity
      /\ \A i \in 0..(p.size - 1) : Nth(p, i) = Nth(r, i + n)
  BY ShiftedNth
<1>2. /\ Contents(r) \in Seq(S) /\ Len(Contents(r)) = r.size /\ r.size \in 0..Capacity
      /\ \A i \in 1..r.size : Contents(r)[i] = Nth(r, i - 1) /\ Contents(r)[i] \in S
  BY ContentsType, ElementOfSeq
<1>3. /\ q \in Seq(S) /\ Len(q) = r.size - n
      /\ \A i \in 1..(r.size - n) : q[i] = Contents(r)[n + i]
  <2>1. \A i \in (n + 1)..r.size : Contents(r)[i] \in S
    BY <1>2
  <2>2. /\ q \in Seq(S)
        /\ Len(q) = IF n + 1 <= r.size THEN r.size - (n + 1) + 1 ELSE 0
        /\ \A i \in 1..(r.size - (n + 1) + 1) : q[i] = Contents(r)[(n + 1) + i - 1]
    BY <1>2, <2>1, SubSeqProperties
  <2>3. \A i \in 1..(r.size - n) : (n + 1) + i - 1 = n + i
    BY <1>2
  <2> QED BY <1>2, <2>2, <2>3
<1> HIDE DEF p, q
<1>4. \A i \in 0..(p.size - 1) : Nth(p, i) \in S
  <2>1. ASSUME NEW i \in 0..(p.size - 1) PROVE Nth(p, i) \in S
    <3>1. i + n \in 0..(r.size - 1)
      BY <1>1, <1>2
    <3> QED BY <1>1, <3>1 DEF WellFormed
  <2> QED BY <2>1
<1>5. WellFormed(p, S)
  BY <1>1, <1>4 DEF WellFormed
<1>6. /\ Contents(p) \in Seq(S) /\ Len(Contents(p)) = p.size
      /\ \A i \in 1..p.size : Contents(p)[i] = Nth(p, i - 1)
  BY <1>5, ContentsType
<1>7. ASSUME NEW i \in 1..p.size
      PROVE  Contents(p)[i] = q[i]
  <2>1. i - 1 \in 0..(p.size - 1) /\ i \in 1..(r.size - n) /\ n + i \in 1..r.size
        /\ (i - 1) + n = (n + i) - 1
    BY <1>1, <1>2
  <2>2. Nth(p, i - 1) = Nth(r, (i - 1) + n)
    BY <1>1, <2>1
  <2>3. Contents(r)[n + i] = Nth(r, (n + i) - 1)
    BY <1>2, <2>1
  <2> QED BY <1>3, <1>6, <2>1, <2>2, <2>3
<1>8. Contents(p) = q
  BY <1>1, <1>3, <1>6, <1>7, SeqEqual
<1> QED BY <1>1, <1>5, <1>8 DEF p, q

-----------------------------------------------------------------------------
(* The circuit breaker *)

LEMMA BreakerStates ==
    ASSUME NEW b \in Breaker, NEW c \in BOOLEAN
    PROVE  /\ Entered(b, c) \in Breaker
           /\ Succeeded(b) \in Breaker /\ Succeeded(b).state # "half-open"
           /\ Failed(b) \in Breaker /\ Failed(b).state # "half-open"
           /\ b.state # "half-open" /\ Entered(b, c).state = "half-open" => Admits(b, c)
<1>1. /\ b.state \in {"closed", "open", "half-open"}
      /\ b.failures \in 0..FailureThreshold /\ b.probes \in 0..HalfOpenMax
  BY DEF Breaker
<1>2. OneMore(b.failures) \in 0..FailureThreshold
  BY <1>1 DEF OneMore
<1>3. Tested(b, c) \in Breaker
  <2>1. [b EXCEPT !.state = "half-open", !.probes = 0] \in Breaker
    <3>1. 0 \in 0..HalfOpenMax
      OBVIOUS
    <3> QED BY <3>1 DEF Breaker
  <2> QED BY <2>1 DEF Tested
<1>4. Entered(b, c) \in Breaker
  BY <1>3 DEF Entered, Breaker
<1>5. Succeeded(b) \in Breaker /\ Succeeded(b).state # "half-open"
  BY <1>1 DEF Succeeded, NewBreaker, Breaker
<1>6. Failed(b) \in Breaker /\ Failed(b).state # "half-open"
  <2>1. CASE b.state = "half-open"
    BY <1>2, <2>1 DEF Failed, Breaker
  <2>2. CASE b.state # "half-open"
    <3> DEFINE n == OneMore(b.failures)
               s == IF n = FailureThreshold THEN "open" ELSE b.state
    <3>1. Failed(b) = [b EXCEPT !.failures = n, !.state = s]
      BY <2>2 DEF Failed
    <3>2. n \in 0..FailureThreshold /\ s \in {"closed", "open", "half-open"} /\ s # "half-open"
      BY <1>1, <1>2, <2>2
    <3> HIDE DEF n, s
    <3>3. [b EXCEPT !.failures = n, !.state = s].state = s
      BY DEF Breaker
    <3>4. [b EXCEPT !.failures = n, !.state = s] \in Breaker
      BY <3>2 DEF Breaker
    <3> QED BY <3>1, <3>2, <3>3, <3>4
  <2> QED BY <2>1, <2>2
<1>7. ASSUME b.state # "half-open", Entered(b, c).state = "half-open"
      PROVE  Admits(b, c)
  <2>1. CASE b.state = "open" /\ c
    BY <1>1, <2>1 DEF Admits, Tested, Breaker
  <2>2. CASE ~(b.state = "open" /\ c)
    BY <1>7, <2>2 DEF Entered, Tested
  <2> QED BY <2>1, <2>2
<1> QED BY <1>4, <1>5, <1>6, <1>7

-----------------------------------------------------------------------------
(* The inductive invariant *)

LEMMA Regroup ==
    ASSUME NEW r \in Nat, NEW w \in Nat, NEW u \in Nat, NEW s \in Nat, NEW d \in Nat
    PROVE  r + w + u + s + d = (r + d) + ((w + u) + s)
OBVIOUS

\* What the flush in progress holds is a batch it may send.
BatchInv ==
    /\ Len(batch) <= MaxBatchSize
    /\ pc # "idle" => batch # <<>>
    /\ pc = "sleep" => attempt < MaxRetries

IInv ==
    /\ TypeOK
    /\ WellFormed(ring, 1..offered)
    /\ BatchInv
    /\ StatsAddUp
    /\ SentMeansArrived
    /\ NeverWedged

\* Taking a batch moves the oldest events from the ring to the flush.
LEMMA Taking ==
    ASSUME IInv, TakeBatch, ~IsEmpty(ring), pc \in {"idle", "next"}
    PROVE  \E n \in 1..MaxBatchSize :
             /\ n <= ring.size /\ ring.size \in Nat /\ n \in Nat
             /\ batch' = SubSeq(Contents(ring), 1, n)
             /\ batch' \in Seq(1..offered) /\ Len(batch') = n /\ batch' # <<>>
             /\ WellFormed(ring', 1..offered)
             /\ ring'.size = ring.size - n
             /\ Contents(ring') = SubSeq(Contents(ring), n + 1, Len(Contents(ring)))
             /\ pc' \in {"post", "refused"}
             /\ attempt' = 0
             /\ breaker' \in Breaker /\ cooled' = cooled
             /\ NeverWedged'
<1> DEFINE n == IF ring.size < MaxBatchSize THEN ring.size ELSE MaxBatchSize
<1>1. /\ Contents(ring) \in Seq(1..offered) /\ Len(Contents(ring)) = ring.size
      /\ ring.size \in 0..Capacity
  BY ContentsType DEF IInv
<1>2. n \in 1..MaxBatchSize /\ n \in 0..ring.size /\ n \in Nat /\ ring.size \in Nat
  BY <1>1 DEF IsEmpty
<1>3. /\ batch' = SubSeq(Contents(ring), 1, n) /\ ring' = Shifted(ring, n)
      /\ attempt' = 0 /\ Execute
  BY DEF TakeBatch
<1> HIDE DEF n
<1>4. /\ WellFormed(ring', 1..offered)
      /\ ring'.size = ring.size - n
      /\ Contents(ring') = SubSeq(Contents(ring), n + 1, Len(Contents(ring)))
  BY <1>2, <1>3, ShiftedIsSuffix DEF IInv
<1>5. batch' \in Seq(1..offered) /\ Len(batch') = n
  <2>1. \A i \in 1..n : Contents(ring)[i] \in 1..offered
    <3>1. \A i \in 1..Len(Contents(ring)) : Contents(ring)[i] \in 1..offered
      BY <1>1, ElementOfSeq
    <3> QED BY <1>1, <1>2, <3>1
  <2>2. 1 <= n
    BY <1>2
  <2> QED BY <1>1, <1>2, <1>3, <2>1, <2>2, SubSeqProperties
<1>6. batch' # <<>>
  BY <1>2, <1>5
<1>7. breaker \in Breaker /\ cooled \in BOOLEAN
  BY DEF IInv, TypeOK
<1>8. /\ breaker' \in Breaker /\ cooled' = cooled /\ pc' \in {"post", "refused"}
      /\ breaker'.state = "half-open" /\ breaker.state # "half-open" => pc' = "post"
  BY <1>3, <1>7, BreakerStates DEF Execute
<1>9. breaker.state # "half-open"
  BY DEF IInv, NeverWedged
<1>10. NeverWedged'
  BY <1>8, <1>9 DEF NeverWedged
<1> QED BY <1>2, <1>3, <1>4, <1>5, <1>6, <1>8, <1>10

\* Growing the number of offered events keeps the types that mention it.
LEMMA Widen ==
    ASSUME offered \in Nat
    PROVE  /\ 1..offered \subseteq 1..(offered + 1)
           /\ Seq(1..offered) \subseteq Seq(1..(offered + 1))
<1>1. 1..offered \subseteq 1..(offered + 1)
  OBVIOUS
<1>2. ASSUME NEW s \in Seq(1..offered) PROVE s \in Seq(1..(offered + 1))
  <2>1. Len(s) \in Nat /\ s \in [1..Len(s) -> 1..offered]
    BY LenProperties
  <2>2. s \in [1..Len(s) -> 1..(offered + 1)]
    BY <1>1, <2>1
  <2> QED BY <2>1, <2>2, SeqDef
<1> QED BY <1>1, <1>2

LEMMA InitIsSafe == ASSUME Init PROVE IInv
<1>1. WellFormed(ring, 1..offered) /\ ring \in Ring(1..offered)
  BY EmptyIsWellFormed DEF Init, WellFormed
<1>2. NewBreaker \in Breaker /\ ring.size = 0
  BY DEF Init, NewBreaker, Breaker, EmptyRing
<1>3. <<>> \in Seq(1..offered) /\ Len(<<>>) = 0
  OBVIOUS
<1>4. TypeOK
  <2>1. 0 \in 0..MaxEvents /\ 0 \in 0..MaxRetries
    OBVIOUS
  <2>2. ok \in BOOLEAN /\ timer \in BOOLEAN /\ cooled \in BOOLEAN
    BY DEF Init
  <2>3. sent \in Nat /\ dropped \in Nat
    BY DEF Init
  <2> QED BY <1>1, <1>2, <1>3, <2>1, <2>2, <2>3 DEF Init, TypeOK
<1>5. BatchInv /\ StatsAddUp /\ SentMeansArrived /\ NeverWedged
  BY <1>2, <1>3 DEF Init, BatchInv, StatsAddUp, SentMeansArrived, NeverWedged,
     NewBreaker, OnTheWay, Unaccounted
<1> QED BY <1>1, <1>4, <1>5 DEF IInv

LEMMA EnqueueIsSafe == ASSUME IInv, Enqueue PROVE IInv'
<1>1. offered \in Nat /\ offered' = offered + 1 /\ offered' \in 0..MaxEvents
  BY DEF IInv, TypeOK, Enqueue
<1>2. WellFormed(ring, 1..offered')
  BY <1>1, Widen, WidenRing DEF IInv
<1>3. ring' = Push(ring, offered') /\ offered' \in 1..offered'
  BY <1>1 DEF Enqueue
<1>4. WellFormed(ring', 1..offered')
  BY <1>2, <1>3, PushIsAppend
<1>5. ring'.size = IF IsFull(ring) THEN ring.size ELSE ring.size + 1
  BY <1>3 DEF Push
<1>6. ring.size \in 0..Capacity /\ dropped \in Nat /\ sent \in Nat
  BY DEF IInv, TypeOK, Ring
<1>7. dropped' = (IF IsFull(ring) THEN dropped + 1 ELSE dropped) /\ dropped' \in Nat
  BY <1>6 DEF Enqueue
<1>8. UNCHANGED <<batch, pc, attempt, ok, timer, breaker, cooled, sent, arrived, confirmed>>
  BY DEF Enqueue, flush, circuit
<1>9. /\ batch' \in Seq(1..offered') /\ arrived' \subseteq 1..offered'
      /\ confirmed' \subseteq 1..offered'
  BY <1>1, <1>8, Widen DEF IInv, TypeOK
<1>10. late' \subseteq 1..offered'
  BY <1>1, <1>3, Widen DEF Enqueue, IInv, TypeOK
<1>11. TypeOK'
  BY <1>1, <1>4, <1>7, <1>8, <1>9, <1>10 DEF IInv, TypeOK, WellFormed
<1>12. OnTheWay' = OnTheWay /\ Unaccounted' = Unaccounted
  BY <1>8 DEF OnTheWay, Unaccounted
<1>13. StatsAddUp'
  <2>1. Len(OnTheWay) \in Nat /\ Unaccounted \in Nat
    BY DEF IInv, TypeOK, OnTheWay, Unaccounted
  <2>2. offered = ring.size + Len(OnTheWay) + Unaccounted + sent + dropped
    BY DEF IInv, StatsAddUp
  <2>3. ring'.size + dropped' = ring.size + dropped + 1
    BY <1>5, <1>6, <1>7
  <2>4. ring'.size \in Nat /\ Len(OnTheWay') = Len(OnTheWay) /\ sent' = sent
    BY <1>5, <1>6, <1>8, <1>12
  <2>5. (Len(OnTheWay') + Unaccounted') + sent' = (Len(OnTheWay) + Unaccounted) + sent
    BY <1>12, <2>4
  <2>6. Len(OnTheWay') \in Nat /\ Unaccounted' \in Nat /\ sent' \in Nat /\ offered' \in Nat
    BY <1>1, <1>6, <1>12, <2>1, <2>4
  <2>7. (ring'.size + dropped') + ((Len(OnTheWay') + Unaccounted') + sent')
          = (ring.size + dropped) + ((Len(OnTheWay) + Unaccounted) + sent) + 1
    BY <1>6, <2>1, <2>3, <2>5
  <2>8. ring.size \in Nat /\ dropped' \in Nat
    BY <1>6, <1>7
  <2>9. offered = (ring.size + dropped) + ((Len(OnTheWay) + Unaccounted) + sent)
    BY <1>6, <2>1, <2>2, <2>8, Regroup, SMTT(30)
  <2>10. ring'.size + Len(OnTheWay') + Unaccounted' + sent' + dropped'
           = (ring'.size + dropped') + ((Len(OnTheWay') + Unaccounted') + sent')
    BY <2>4, <2>6, <2>8, Regroup, SMTT(30)
  <2>11. offered' = ring'.size + Len(OnTheWay') + Unaccounted' + sent' + dropped'
    BY <1>1, <2>7, <2>9, <2>10, Zenon
  <2> QED BY <2>11 DEF StatsAddUp
<1> QED BY <1>4, <1>8, <1>11, <1>13 DEF IInv, BatchInv, SentMeansArrived, NeverWedged

\* The steps that take a batch: Flush, Stop and NextBatch.
LEMMA TakeIsSafe ==
    ASSUME IInv, TakeBatch, ~IsEmpty(ring), pc \in {"idle", "next"},
           UNCHANGED <<sent, offered, arrived, confirmed, late>>,
           ok' \in BOOLEAN, timer' \in BOOLEAN,
           dropped' = dropped + Unaccounted
    PROVE  IInv'
<1>1. PICK n \in 1..MaxBatchSize :
         /\ n <= ring.size /\ ring.size \in Nat /\ n \in Nat
         /\ batch' \in Seq(1..offered) /\ Len(batch') = n /\ batch' # <<>>
         /\ WellFormed(ring', 1..offered)
         /\ ring'.size = ring.size - n
         /\ pc' \in {"post", "refused"}
         /\ attempt' = 0
         /\ breaker' \in Breaker /\ cooled' = cooled
         /\ NeverWedged'
  BY Taking
<1>2. Unaccounted \in Nat
  BY DEF IInv, TypeOK, Unaccounted
<1>3. 0 \in 0..MaxRetries
  BY DEF IInv, TypeOK
<1>4. TypeOK'
  <2>1. {ok', timer', cooled'} \subseteq BOOLEAN /\ {sent', dropped'} \subseteq Nat
    BY <1>1, <1>2 DEF IInv, TypeOK
  <2>2. /\ offered' \in 0..MaxEvents /\ ring' \in Ring(1..offered')
        /\ batch' \in Seq(1..offered')
    BY <1>1 DEF IInv, TypeOK, WellFormed
  <2>3. /\ arrived' \subseteq 1..offered' /\ confirmed' \subseteq 1..offered'
        /\ late' \subseteq 1..offered'
    BY DEF IInv, TypeOK
  <2> QED BY <1>1, <1>3, <2>1, <2>2, <2>3 DEF TypeOK
<1>5. BatchInv'
  BY <1>1 DEF BatchInv
<1>6. StatsAddUp'
  <2>1. OnTheWay' = batch' /\ Unaccounted' = 0
    BY <1>1 DEF OnTheWay, Unaccounted
  <2>2. Len(OnTheWay) = 0
    BY DEF OnTheWay
  <2>3. offered \in Nat /\ sent \in Nat /\ dropped \in Nat
    BY DEF IInv, TypeOK
  <2> QED BY <1>1, <1>2, <2>1, <2>2, <2>3 DEF IInv, StatsAddUp
<1> QED BY <1>1, <1>4, <1>5, <1>6 DEF IInv, SentMeansArrived

LEMMA FlushIsSafe == ASSUME IInv, Flush PROVE IInv'
<1>1. /\ TakeBatch /\ ~IsEmpty(ring) /\ pc \in {"idle", "next"}
      /\ UNCHANGED <<sent, dropped, offered, arrived, confirmed, late, ok, timer>>
  BY DEF Flush, stats, history
<1>2. ok' \in BOOLEAN /\ timer' \in BOOLEAN
  BY <1>1 DEF IInv, TypeOK
<1>3. dropped' = dropped + Unaccounted
  BY <1>1 DEF IInv, TypeOK, Unaccounted, Flush
<1> QED BY <1>1, <1>2, <1>3, TakeIsSafe

LEMMA StopIsSafe == ASSUME IInv, Stop PROVE IInv'
<1>1. /\ UNCHANGED <<sent, dropped, offered, arrived, confirmed, late, ok>>
      /\ ok' \in BOOLEAN /\ timer' \in BOOLEAN
  BY DEF Stop, stats, history, IInv, TypeOK
<1>2. CASE pc = "idle" /\ ~IsEmpty(ring)
  <2>1. TakeBatch /\ pc \in {"idle", "next"} /\ dropped' = dropped + Unaccounted
    BY <1>1, <1>2 DEF Stop, IInv, TypeOK, Unaccounted
  <2> QED BY <1>1, <1>2, <2>1, TakeIsSafe
<1>3. CASE ~(pc = "idle" /\ ~IsEmpty(ring))
  <2>1. UNCHANGED <<ring, batch, pc, attempt, breaker, cooled>>
    BY <1>3 DEF Stop, circuit
  <2> QED BY <1>1, <2>1 DEF IInv, TypeOK, BatchInv, StatsAddUp, SentMeansArrived, NeverWedged,
             OnTheWay, Unaccounted
<1> QED BY <1>2, <1>3

LEMMA NextBatchIsSafe == ASSUME IInv, NextBatch PROVE IInv'
<1>1. /\ UNCHANGED <<sent, offered, arrived, confirmed, late, ok, timer>>
      /\ ok' \in BOOLEAN /\ timer' \in BOOLEAN /\ pc = "next"
  BY DEF NextBatch, history, IInv, TypeOK
<1>2. dropped' = dropped + Unaccounted /\ dropped' \in Nat
  BY DEF NextBatch, Unaccounted, IInv, TypeOK
<1>3. CASE IsEmpty(ring)
  <2>1. UNCHANGED <<ring, attempt, breaker, cooled>> /\ pc' = "idle" /\ batch' = <<>>
    BY <1>3 DEF NextBatch, circuit
  <2>2. /\ batch' \in Seq(1..offered) /\ Len(batch') = 0
    BY <2>1
  <2>3. TypeOK'
    BY <1>1, <1>2, <2>1, <2>2 DEF IInv, TypeOK
  <2>4. Len(OnTheWay) = 0 /\ Len(OnTheWay') = 0 /\ Unaccounted' = 0
    BY <1>1, <2>1 DEF OnTheWay, Unaccounted
  <2>5. StatsAddUp'
    <3>1. /\ ring.size \in Nat /\ Unaccounted \in Nat /\ offered \in Nat
          /\ sent \in Nat /\ dropped \in Nat
      BY DEF IInv, TypeOK, Ring, Unaccounted
    <3>2. offered = ring.size + 0 + Unaccounted + sent + dropped
      BY <2>4 DEF IInv, StatsAddUp
    <3>3. offered' = ring'.size + Len(OnTheWay') + Unaccounted' + sent' + dropped'
      BY <1>1, <1>2, <2>1, <2>4, <3>1, <3>2
    <3> QED BY <3>3 DEF StatsAddUp
  <2>6. BatchInv' /\ NeverWedged'
    BY <1>1, <2>1, <2>2 DEF IInv, BatchInv, NeverWedged
  <2> QED BY <1>1, <2>1, <2>3, <2>5, <2>6 DEF IInv, SentMeansArrived
<1>4. CASE ~IsEmpty(ring)
  <2>1. TakeBatch
    BY <1>4 DEF NextBatch
  <2> QED BY <1>1, <1>2, <1>4, <2>1, TakeIsSafe
<1> QED BY <1>3, <1>4

\* The steps of a POST's answer leave the ring, the timer and the offers alone.
LEMMA AnswerIsSafe == ASSUME IInv, Answer PROVE IInv'
<1>1. /\ pc = "post" /\ UNCHANGED <<ring, timer, offered, late, batch>>
      /\ batch # <<>> /\ Len(batch) \in Nat /\ Len(batch) <= MaxBatchSize
  BY DEF Answer, Accepted, Rejected, Failure, Return, stats, history, IInv, BatchInv, TypeOK
<1>2. /\ breaker \in Breaker /\ cooled \in BOOLEAN /\ sent \in Nat /\ dropped \in Nat
      /\ offered \in Nat /\ attempt \in 0..MaxRetries /\ ok \in BOOLEAN
      /\ arrived \subseteq 1..offered /\ confirmed \subseteq 1..offered
      /\ confirmed \subseteq arrived
  BY DEF IInv, TypeOK, SentMeansArrived
<1>3. InBatch \subseteq 1..offered
  BY ElementOfSeq DEF InBatch, IInv, TypeOK
<1>4. breaker' \in Breaker /\ breaker'.state # "half-open"
  BY <1>2, BreakerStates DEF Answer, Accepted, Rejected, Failure
<1>5. /\ cooled' \in BOOLEAN /\ attempt' = attempt /\ ok' \in BOOLEAN
      /\ pc' \in {"sleep", "next"}
  BY <1>1, <1>2 DEF Answer, Accepted, Rejected, Failure, Return
<1>6. /\ arrived' \subseteq 1..offered /\ confirmed' \subseteq 1..offered
      /\ confirmed' \subseteq arrived'
  BY <1>2, <1>3 DEF Answer, Accepted, Rejected, Failure, stats, history
<1>7. /\ sent' \in Nat /\ dropped' = dropped
      /\ Len(batch) + sent = Len(OnTheWay') + Unaccounted' + sent'
  <2>1. CASE Accepted
    <3>1. Len(OnTheWay') = 0 /\ Unaccounted' = 0
      BY <2>1 DEF Accepted, Return, OnTheWay, Unaccounted
    <3> QED BY <1>1, <1>2, <2>1, <3>1 DEF Accepted
  <2>2. CASE Rejected
    <3>1. Len(OnTheWay') = 0 /\ Unaccounted' = Len(batch) /\ sent' = sent /\ dropped' = dropped
      BY <2>2 DEF Rejected, Return, OnTheWay, Unaccounted, stats
    <3> QED BY <1>1, <1>2, <3>1
  <2>3. CASE Failure
    <3>1. sent' = sent /\ dropped' = dropped
      BY <2>3 DEF Failure, stats
    <3>2. CASE attempt < MaxRetries
      <4>1. OnTheWay' = batch /\ Unaccounted' = 0
        BY <1>1, <2>3, <3>2 DEF Failure, OnTheWay, Unaccounted
      <4> QED BY <1>1, <1>2, <3>1, <4>1
    <3>3. CASE ~(attempt < MaxRetries)
      <4>1. Len(OnTheWay') = 0 /\ Unaccounted' = Len(batch)
        BY <1>1, <2>3, <3>3 DEF Failure, Return, OnTheWay, Unaccounted
      <4> QED BY <1>1, <1>2, <3>1, <4>1
    <3> QED BY <3>2, <3>3
  <2> QED BY <2>1, <2>2, <2>3 DEF Answer
<1>8. StatsAddUp'
  <2>1. OnTheWay = batch /\ Unaccounted = 0 /\ ring.size \in Nat
    BY <1>1 DEF OnTheWay, Unaccounted, IInv, TypeOK, Ring
  <2>2. offered = ring.size + Len(batch) + 0 + sent + dropped
    BY <2>1 DEF IInv, StatsAddUp
  <2>3. Len(OnTheWay') \in Nat /\ Unaccounted' \in Nat
    BY <1>1 DEF OnTheWay, Unaccounted
  <2>4. (ring'.size + dropped') + ((Len(OnTheWay') + Unaccounted') + sent')
          = (ring.size + dropped) + ((Len(batch) + 0) + sent) + 0
    BY <1>1, <1>2, <1>7, <2>1, <2>3
  <2>5. offered' = offered + 0 /\ offered' \in Nat /\ ring'.size \in Nat /\ dropped' \in Nat
    BY <1>1, <1>2, <1>7, <2>1
  <2>6. 0 \in Nat /\ ring.size + Len(batch) + 0 + sent + dropped
          = (ring.size + dropped) + ((Len(batch) + 0) + sent)
    BY <1>1, <1>2, <2>1
  <2>7. (ring.size + dropped) + ((Len(batch) + 0) + sent) + 0
          = (ring.size + dropped) + ((Len(batch) + 0) + sent)
    BY <1>1, <1>2, <2>1
  <2>8. ring'.size + Len(OnTheWay') + Unaccounted' + sent' + dropped'
          = (ring'.size + dropped') + ((Len(OnTheWay') + Unaccounted') + sent')
    BY <1>7, <2>3, <2>5, Regroup, SMTT(30)
  <2>9. offered' = ring'.size + Len(OnTheWay') + Unaccounted' + sent' + dropped'
    BY <1>1, <2>2, <2>4, <2>6, <2>7, <2>8, Zenon
  <2> QED BY <2>9 DEF StatsAddUp
<1>9. TypeOK'
  <2>1. /\ offered' \in 0..MaxEvents /\ ring' \in Ring(1..offered')
        /\ batch' \in Seq(1..offered') /\ late' \subseteq 1..offered'
        /\ timer' \in BOOLEAN
    BY <1>1 DEF IInv, TypeOK
  <2> QED BY <1>1, <1>2, <1>4, <1>5, <1>6, <1>7, <2>1 DEF TypeOK
<1>10. WellFormed(ring', 1..offered')
  BY <1>1 DEF IInv
<1>11. pc' = "sleep" => attempt' < MaxRetries
  BY <1>1 DEF Answer, Accepted, Rejected, Failure, Return
<1> QED BY <1>1, <1>4, <1>6, <1>8, <1>9, <1>10, <1>11
       DEF IInv, BatchInv, SentMeansArrived, NeverWedged

LEMMA RetryIsSafe == ASSUME IInv, Retry PROVE IInv'
<1>1. /\ pc = "sleep" /\ attempt' = attempt + 1 /\ cooled' = cooled
      /\ UNCHANGED <<ring, batch, ok, timer, sent, dropped, offered, arrived, confirmed, late>>
      /\ breaker' = Entered(breaker, cooled)
      /\ pc' = IF Admits(breaker, cooled) THEN "post" ELSE "refused"
  BY DEF Retry, Execute, stats, history
<1>2. breaker \in Breaker /\ cooled \in BOOLEAN /\ breaker.state # "half-open"
  BY <1>1 DEF IInv, TypeOK, NeverWedged
<1>3. breaker' \in Breaker /\ (breaker'.state = "half-open" => pc' = "post")
  BY <1>1, <1>2, BreakerStates
<1>4. attempt < MaxRetries
  BY <1>1 DEF IInv, BatchInv
<1> QED BY <1>1, <1>3, <1>4 DEF IInv, TypeOK, BatchInv, StatsAddUp, SentMeansArrived,
   NeverWedged, OnTheWay, Unaccounted, BatchInv

LEMMA OthersAreSafe == ASSUME IInv, Start \/ Cool \/ Refused \/ UNCHANGED vars PROVE IInv'
<1>1. CASE Start
  <2>1. UNCHANGED <<ring, batch, pc, attempt, ok, breaker, cooled, sent, dropped,
                    offered, arrived, confirmed, late>> /\ timer' \in BOOLEAN
    BY <1>1 DEF Start, flush, circuit, stats, history
  <2> QED BY <2>1 DEF IInv, TypeOK, BatchInv, StatsAddUp, SentMeansArrived, NeverWedged,
             OnTheWay, Unaccounted
<1>2. CASE Cool
  <2>1. UNCHANGED <<ring, batch, pc, attempt, ok, breaker, timer, sent, dropped,
                    offered, arrived, confirmed, late>> /\ cooled' \in BOOLEAN
    BY <1>2 DEF Cool, flush, stats, history
  <2> QED BY <2>1 DEF IInv, TypeOK, BatchInv, StatsAddUp, SentMeansArrived, NeverWedged,
             OnTheWay, Unaccounted
<1>3. CASE Refused
  <2>1. /\ UNCHANGED <<ring, batch, attempt, timer, breaker, cooled, sent, dropped,
                       offered, arrived, confirmed, late>>
        /\ pc = "refused" /\ pc' = "next" /\ ok' = FALSE
    BY <1>3 DEF Refused, Return, circuit, stats, history
  <2>2. OnTheWay = batch /\ Unaccounted = 0 /\ OnTheWay' = <<>> /\ Unaccounted' = Len(batch)
    BY <2>1 DEF OnTheWay, Unaccounted
  <2>3. Len(OnTheWay) + Unaccounted = Len(OnTheWay') + Unaccounted'
    <3>1. Len(batch) \in Nat /\ Len(<<>>) = 0
      BY DEF IInv, TypeOK
    <3> QED BY <2>2, <3>1
  <2>4. StatsAddUp'
    <3>1. ring.size \in Nat /\ Len(OnTheWay) \in Nat /\ Len(OnTheWay') \in Nat
      BY <2>2 DEF IInv, TypeOK, Ring
    <3>2. Unaccounted \in Nat /\ Unaccounted' \in Nat /\ sent \in Nat /\ dropped \in Nat
      BY <2>2 DEF IInv, TypeOK
    <3>3. offered = (ring.size + dropped) + ((Len(OnTheWay) + Unaccounted) + sent)
      BY <3>1, <3>2, Regroup, SMTT(30) DEF IInv, StatsAddUp
    <3>4. ring.size + Len(OnTheWay') + Unaccounted' + sent + dropped
            = (ring.size + dropped) + ((Len(OnTheWay') + Unaccounted') + sent)
      BY <3>1, <3>2, Regroup, SMTT(30)
    <3> QED BY <2>1, <2>3, <3>3, <3>4, Zenon DEF StatsAddUp
  <2> QED BY <2>1, <2>4 DEF IInv, TypeOK, BatchInv, SentMeansArrived, NeverWedged
<1>4. CASE UNCHANGED vars
  BY <1>4 DEF vars, IInv, TypeOK, BatchInv, StatsAddUp, SentMeansArrived, NeverWedged,
     OnTheWay, Unaccounted
<1> QED BY <1>1, <1>2, <1>3, <1>4

LEMMA StepIsSafe == ASSUME IInv, [Next]_vars PROVE IInv'
<1>1. CASE Enqueue
  BY <1>1, EnqueueIsSafe
<1>2. CASE Flush \/ Tick
  BY <1>2, FlushIsSafe DEF Tick
<1>3. CASE Stop
  BY <1>3, StopIsSafe
<1>4. CASE Answer
  BY <1>4, AnswerIsSafe
<1>5. CASE Retry
  BY <1>5, RetryIsSafe
<1>6. CASE NextBatch
  BY <1>6, NextBatchIsSafe
<1>7. CASE Start \/ Cool \/ Refused \/ UNCHANGED vars
  BY <1>7, OthersAreSafe
<1> QED BY <1>1, <1>2, <1>3, <1>4, <1>5, <1>6, <1>7 DEF Next, Resume

LEMMA Inductive == Spec => []IInv
<1>1. Init => IInv
  BY InitIsSafe
<1>2. IInv /\ [Next]_vars => IInv'
  BY StepIsSafe
<1> QED BY <1>1, <1>2, PTL DEF Spec

\* The sender's fields keep the types the code gives them, whatever the ring's
\* capacity, the batch size, the retries and the breaker's limits.
THEOREM TypeCorrect == Spec => []TypeOK
<1>1. IInv => TypeOK
  BY DEF IInv
<1> QED BY <1>1, Inductive, PTL

\* getStats accounts for every event ever enqueued: none is lost uncounted and
\* none is counted twice.
THEOREM StatsNeverLie == Spec => []StatsAddUp
<1>1. IInv => StatsAddUp
  BY DEF IInv
<1> QED BY <1>1, Inductive, PTL

\* What stats.sent counts was accepted by the server.
THEOREM SentIsHonest == Spec => []SentMeansArrived
<1>1. IInv => SentMeansArrived
  BY DEF IInv
<1> QED BY <1>1, Inductive, PTL

\* The circuit is never half-open without its probe on the way.
THEOREM BreakerNeverWedges == Spec => []NeverWedged
<1>1. IInv => NeverWedged
  BY DEF IInv
<1> QED BY <1>1, Inductive, PTL

-----------------------------------------------------------------------------
(* The sender implements the pipe *)

LEMMA PipeStarts == ASSUME Init PROVE Pipe!Init
<1>1. Contents(ring) = <<>>
  BY EmptyIsWellFormed DEF Init
<1> QED BY <1>1 DEF Init, Pipe!Init, OnTheWay, Unaccounted

LEMMA EnqueueIsOffer == ASSUME IInv, Enqueue PROVE Pipe!Offer
<1>1. offered \in Nat /\ offered' = offered + 1
  BY DEF IInv, TypeOK, Enqueue
<1>2. WellFormed(ring, 1..(offered + 1)) /\ offered + 1 \in 1..(offered + 1)
  BY <1>1, Widen, WidenRing DEF IInv
<1>3. ring' = Push(ring, offered + 1)
  BY DEF Enqueue
<1>4. Contents(ring') =
        Append(IF IsFull(ring) THEN Tail(Contents(ring)) ELSE Contents(ring), offered + 1)
  BY <1>2, <1>3, PushIsAppend
<1>5. Len(Contents(ring)) = ring.size /\ ring.size \in 0..Capacity
  BY ContentsType DEF IInv
<1>6. IsFull(ring) <=> ~(Len(Contents(ring)) < Capacity)
  BY <1>5 DEF IsFull
<1>7. OnTheWay' = OnTheWay /\ Unaccounted' = Unaccounted /\ confirmed' = confirmed
  BY DEF Enqueue, flush, OnTheWay, Unaccounted
<1>8. dropped' + Unaccounted' = IF IsFull(ring) THEN (dropped + Unaccounted) + 1
                                ELSE dropped + Unaccounted
  BY <1>7 DEF Enqueue, IInv, TypeOK, Unaccounted
<1> QED BY <1>1, <1>4, <1>6, <1>7, <1>8 DEF Pipe!Offer

LEMMA TakeBatchIsTake ==
    ASSUME IInv, TakeBatch, ~IsEmpty(ring), pc \in {"idle", "next"},
           UNCHANGED <<offered, confirmed>>, dropped' = dropped + Unaccounted
    PROVE  Pipe!Take
<1>1. PICK n \in 1..MaxBatchSize :
         /\ n <= ring.size
         /\ batch' = SubSeq(Contents(ring), 1, n)
         /\ Contents(ring') = SubSeq(Contents(ring), n + 1, Len(Contents(ring)))
         /\ pc' \in {"post", "refused"}
  BY Taking
<1>2. OnTheWay = <<>> /\ OnTheWay' = batch' /\ Unaccounted' = 0
  BY <1>1 DEF OnTheWay, Unaccounted
<1>3. dropped' + Unaccounted' = dropped + Unaccounted
  BY <1>2 DEF IInv, TypeOK, Unaccounted
<1>4. n <= Len(Contents(ring))
  BY <1>1, ContentsType DEF IInv
<1> QED BY <1>1, <1>2, <1>3, <1>4 DEF Pipe!Take

LEMMA AnswerIsDeliverOrLose ==
    ASSUME IInv, Answer \/ Refused
    PROVE  Pipe!Deliver \/ Pipe!Lose \/ UNCHANGED Pipe!vars
<1>1. /\ pc \in {"post", "refused"} /\ UNCHANGED <<ring, offered, batch, dropped>>
      /\ Contents(ring') = Contents(ring)
  BY DEF Answer, Accepted, Rejected, Failure, Refused, Return, stats, history, circuit
<1>2. OnTheWay = batch /\ Unaccounted = 0 /\ OnTheWay # <<>> /\ Len(batch) \in Nat
      /\ dropped \in Nat
  BY <1>1 DEF OnTheWay, Unaccounted, IInv, BatchInv, TypeOK
<1>3. CASE Accepted
  <2>1. OnTheWay' = <<>> /\ Unaccounted' = 0 /\ confirmed' = confirmed \cup InBatch
    BY <1>3 DEF Accepted, Return, OnTheWay, Unaccounted
  <2> QED BY <1>1, <1>2, <2>1 DEF Pipe!Deliver, InBatch
<1>4. ASSUME pc' = "next", ok' = FALSE, confirmed' = confirmed
      PROVE  Pipe!Lose
  <2>1. OnTheWay' = <<>> /\ Unaccounted' = Len(batch)
    BY <1>1, <1>4 DEF OnTheWay, Unaccounted
  <2>2. dropped' + Unaccounted' = (dropped + Unaccounted) + Len(OnTheWay)
    BY <1>1, <1>2, <2>1
  <2> QED BY <1>1, <1>2, <1>4, <2>1, <2>2 DEF Pipe!Lose
<1>5. CASE Rejected \/ Refused
  BY <1>4, <1>5 DEF Rejected, Refused, Return, history
<1>6. CASE Failure
  <2>1. confirmed' = confirmed
    BY <1>6 DEF Failure
  <2>2. CASE attempt < MaxRetries
    <3>1. OnTheWay' = OnTheWay /\ Unaccounted' = Unaccounted
      BY <1>1, <1>2, <1>6, <2>2 DEF Failure, OnTheWay, Unaccounted
    <3> QED BY <1>1, <2>1, <3>1 DEF Pipe!vars
  <2>3. CASE ~(attempt < MaxRetries)
    BY <1>4, <1>6, <2>1, <2>3 DEF Failure, Return
  <2> QED BY <2>2, <2>3
<1> QED BY <1>3, <1>5, <1>6 DEF Answer

LEMMA OthersStutter ==
    ASSUME IInv,
           \/ Start \/ Cool \/ Retry \/ UNCHANGED vars
           \/ (Stop /\ ~(pc = "idle" /\ ~IsEmpty(ring)))
           \/ (NextBatch /\ IsEmpty(ring))
    PROVE  UNCHANGED Pipe!vars
<1>1. CASE Start \/ Cool \/ UNCHANGED vars
  BY <1>1 DEF Start, Cool, vars, flush, stats, history, Pipe!vars, OnTheWay, Unaccounted
<1>2. CASE Retry
  BY <1>2 DEF Retry, Execute, stats, history, Pipe!vars, OnTheWay, Unaccounted
<1>3. CASE Stop /\ ~(pc = "idle" /\ ~IsEmpty(ring))
  BY <1>3 DEF Stop, circuit, stats, history, Pipe!vars, OnTheWay, Unaccounted
<1>4. CASE NextBatch /\ IsEmpty(ring)
  <2>1. OnTheWay' = OnTheWay /\ Unaccounted' = 0 /\ dropped' = dropped + Unaccounted
    BY <1>4 DEF NextBatch, OnTheWay, Unaccounted, IInv, TypeOK
  <2>2. dropped' + Unaccounted' = dropped + Unaccounted
    BY <2>1 DEF IInv, TypeOK, Unaccounted
  <2>3. UNCHANGED <<ring, offered, confirmed>>
    BY <1>4 DEF NextBatch, history
  <2> QED BY <2>1, <2>2, <2>3 DEF Pipe!vars
<1> QED BY <1>1, <1>2, <1>3, <1>4

LEMMA StepIsPipeStep == ASSUME IInv, [Next]_vars PROVE [Pipe!Next]_(Pipe!vars)
<1>1. CASE Enqueue
  BY <1>1, EnqueueIsOffer DEF Pipe!Next
<1>2. CASE Flush \/ Tick
  <2>1. /\ TakeBatch /\ ~IsEmpty(ring) /\ pc \in {"idle", "next"}
        /\ UNCHANGED <<offered, confirmed>> /\ dropped' = dropped + Unaccounted
    BY <1>2 DEF Tick, Flush, stats, history, IInv, TypeOK, Unaccounted
  <2> QED BY <2>1, TakeBatchIsTake DEF Pipe!Next
<1>3. CASE Stop /\ pc = "idle" /\ ~IsEmpty(ring)
  <2>1. /\ TakeBatch /\ pc \in {"idle", "next"}
        /\ UNCHANGED <<offered, confirmed>> /\ dropped' = dropped + Unaccounted
    BY <1>3 DEF Stop, stats, history, IInv, TypeOK, Unaccounted
  <2> QED BY <1>3, <2>1, TakeBatchIsTake DEF Pipe!Next
<1>4. CASE NextBatch /\ ~IsEmpty(ring)
  <2>1. /\ TakeBatch /\ pc \in {"idle", "next"}
        /\ UNCHANGED <<offered, confirmed>> /\ dropped' = dropped + Unaccounted
    BY <1>4 DEF NextBatch, history, IInv, TypeOK, Unaccounted
  <2> QED BY <1>4, <2>1, TakeBatchIsTake DEF Pipe!Next
<1>5. CASE Answer \/ Refused
  BY <1>5, AnswerIsDeliverOrLose DEF Pipe!Next
<1>6. CASE \/ Start \/ Cool \/ Retry \/ UNCHANGED vars
           \/ (Stop /\ ~(pc = "idle" /\ ~IsEmpty(ring)))
           \/ (NextBatch /\ IsEmpty(ring))
  BY <1>6, OthersStutter
<1> QED BY <1>1, <1>2, <1>3, <1>4, <1>5, <1>6 DEF Next, Resume

\* The sender is a bounded pipe: events leave it in the order they were
\* enqueued, at most a batch at a time, a batch is confirmed or dropped as a
\* whole, and only the oldest event of a full queue is lost otherwise.
THEOREM Implementation == Spec => ImplementsPipe
<1>1. Init => Pipe!Init
  BY PipeStarts
<1>2. IInv /\ [Next]_vars => [Pipe!Next]_(Pipe!vars)
  BY StepIsPipeStep
<1> QED BY <1>1, <1>2, Inductive, PTL DEF Spec, ImplementsPipe, Pipe!Spec
=============================================================================
