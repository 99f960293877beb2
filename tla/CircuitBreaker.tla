--------------------------- MODULE CircuitBreaker ----------------------------
(***************************************************************************)
(* The circuit breaker, written twice in the repository with the same      *)
(* behaviour: CircuitBreaker of the SDK and StorageCircuitBreaker of the   *)
(* Postgres adapter.  A breaker is a record; execute(fn) is Entered before *)
(* the awaited call, and Succeeded or Failed when its result comes back,   *)
(* by which time other calls may have changed the breaker.                 *)
(*                                                                         *)
(* The clock is abstracted to "cooled": resetTimeoutMs have passed since   *)
(* the last failure.  The failure counter is only ever compared with the   *)
(* threshold, so it saturates there.                                       *)
(***************************************************************************)
EXTENDS Integers

CONSTANTS
    FailureThreshold,  \* failures in a row that open the circuit
    HalfOpenMax        \* halfOpenMaxAttempts

ASSUME BreakerAssumption == {FailureThreshold, HalfOpenMax} \subseteq Nat \ {0}

Breaker ==
    [state : {"closed", "open", "half-open"},
     failures : 0..FailureThreshold,
     probes : 0..HalfOpenMax]

NewBreaker == [state |-> "closed", failures |-> 0, probes |-> 0]

\* The first call after the timeout turns an open circuit half-open.
Tested(b, cooled) ==
    IF b.state = "open" /\ cooled
    THEN [b EXCEPT !.state = "half-open", !.probes = 0]
    ELSE b

Admits(b, cooled) ==
    LET t == Tested(b, cooled)
    IN  t.state = "closed" \/ (t.state = "half-open" /\ t.probes < HalfOpenMax)

\* The breaker after execute let a call through or threw CircuitOpenError.
Entered(b, cooled) ==
    LET t == Tested(b, cooled)
    IN  IF t.state = "half-open" /\ t.probes < HalfOpenMax
        THEN [t EXCEPT !.probes = @ + 1]
        ELSE t

Succeeded(b) ==
    IF b.state = "half-open" THEN NewBreaker ELSE [b EXCEPT !.failures = 0]

OneMore(n) == IF n < FailureThreshold THEN n + 1 ELSE n

\* Mutant: a failed probe leaves the circuit half-open.
BugFailed(b) ==
    [b EXCEPT !.failures = OneMore(@),
              !.state = IF b.state = "closed" /\ OneMore(b.failures) = FailureThreshold
                        THEN "open" ELSE @]

Failed(b) ==
    IF b.state = "half-open"
    THEN [state |-> "open", failures |-> OneMore(b.failures), probes |-> 0]
    ELSE [b EXCEPT !.failures = OneMore(@),
                   !.state = IF OneMore(b.failures) = FailureThreshold THEN "open" ELSE @]
=============================================================================
