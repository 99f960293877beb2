------------------------------ MODULE EventPipe ------------------------------
(***************************************************************************)
(* What an application may expect of the SDK's transport: a bounded pipe.  *)
(* Events leave it in the order they were offered, some at a time; an      *)
(* event that is taken is delivered or lost together with those taken with *)
(* it, and the only other way to lose one is to be the oldest when an      *)
(* event is offered to a full pipe.                                        *)
(***************************************************************************)
EXTENDS Integers, Sequences

CONSTANTS
    Capacity,   \* events the pipe can hold
    MaxTaken    \* events taken at a time

VARIABLES
    offered,    \* how many events were offered; they are numbered 1, 2, ...
    waiting,    \* events in the pipe, oldest first
    taken,      \* events on their way
    delivered,  \* events known to have arrived
    lost        \* how many were lost

vars == <<offered, waiting, taken, delivered, lost>>

Init ==
    /\ offered = 0
    /\ waiting = <<>>
    /\ taken = <<>>
    /\ delivered = {}
    /\ lost = 0

Offer ==
    /\ offered' = offered + 1
    /\ IF Len(waiting) < Capacity
       THEN waiting' = Append(waiting, offered + 1) /\ UNCHANGED lost
       ELSE waiting' = Append(Tail(waiting), offered + 1) /\ lost' = lost + 1
    /\ UNCHANGED <<taken, delivered>>

Take ==
    /\ taken = <<>>
    /\ \E n \in 1..MaxTaken :
         /\ n <= Len(waiting)
         /\ taken' = SubSeq(waiting, 1, n)
         /\ waiting' = SubSeq(waiting, n + 1, Len(waiting))
    /\ UNCHANGED <<offered, delivered, lost>>

Deliver ==
    /\ taken # <<>>
    /\ delivered' = delivered \cup {taken[i] : i \in 1..Len(taken)}
    /\ taken' = <<>>
    /\ UNCHANGED <<offered, waiting, lost>>

Lose ==
    /\ taken # <<>>
    /\ lost' = lost + Len(taken)
    /\ taken' = <<>>
    /\ UNCHANGED <<offered, waiting, delivered>>

Next == Offer \/ Take \/ Deliver \/ Lose

Spec == Init /\ [][Next]_vars
=============================================================================
