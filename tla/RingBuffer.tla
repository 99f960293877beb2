----------------------------- MODULE RingBuffer ------------------------------
(***************************************************************************)
(* RingBuffer<T> of core/src/utils: a bounded circular buffer.  A ring is  *)
(* a record of the class's fields; every method is an operator from a ring *)
(* to the ring it leaves.                                                  *)
(***************************************************************************)
EXTENDS Integers, Sequences

CONSTANT Capacity

ASSUME RingAssumption == Capacity \in Nat \ {0}

Hole == 0     \* undefined; items are positive numbers

Slot == 0..(Capacity - 1)

Ring(Item) ==
    [buffer : [Slot -> Item \cup {Hole}], head : Slot, tail : Slot, size : 0..Capacity]

EmptyRing == [buffer |-> [i \in Slot |-> Hole], head |-> 0, tail |-> 0, size |-> 0]

IsFull(r) == r.size = Capacity
IsEmpty(r) == r.size = 0

\* The item i places behind the head.
Nth(r, i) == r.buffer[(r.head + i) % Capacity]

\* toArray()
Contents(r) == [i \in 1..r.size |-> Nth(r, i - 1)]

\* Mutant: a full buffer is overwritten without moving its head.
BugPush(r, x) ==
    [buffer |-> [r.buffer EXCEPT ![r.tail] = x], head |-> r.head,
     tail |-> (r.tail + 1) % Capacity,
     size |-> IF IsFull(r) THEN r.size ELSE r.size + 1]

\* push(x): a full buffer evicts the item at its head first.
Push(r, x) ==
    LET evicts == IsFull(r)
    IN  [buffer |-> [(IF evicts THEN [r.buffer EXCEPT ![r.head] = Hole] ELSE r.buffer)
                        EXCEPT ![r.tail] = x],
         head |-> IF evicts THEN (r.head + 1) % Capacity ELSE r.head,
         tail |-> (r.tail + 1) % Capacity,
         size |-> IF evicts THEN r.size ELSE r.size + 1]

\* n calls of shift(), for n up to the size.
Shifted(r, n) ==
    [buffer |-> [i \in Slot |-> IF \E j \in 0..(n - 1) : i = (r.head + j) % Capacity
                                THEN Hole ELSE r.buffer[i]],
     head |-> (r.head + n) % Capacity,
     tail |-> r.tail,
     size |-> r.size - n]
=============================================================================
