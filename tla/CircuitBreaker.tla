--------------------------- MODULE CircuitBreaker ---------------------------
(***************************************************************************)
(* The class CircuitBreaker: its fields as a record and its methods, each of *)
(* which runs without an await, as operators from record to record.          *)
(*                                                                          *)
(* Time is relative: wait is nextAttemptAt - now, never below 0, which is    *)
(* all the code looks at. A failure count past the threshold is kept at the  *)
(* threshold, which is all it is compared with.                              *)
(***************************************************************************)
EXTENDS Naturals

CONSTANTS
    Threshold,   \* GATEWAY_CB_FAILURE_THRESHOLD; the constructor makes it 1 at least
    Cooldown     \* GATEWAY_CB_COOLDOWN_MS, in ticks

ASSUME ThresholdAssumption == Threshold \in Nat \ {0}
ASSUME CooldownAssumption == Cooldown \in Nat

CircuitState == {"CLOSED", "OPEN", "HALF_OPEN"}

Circuit == [state : CircuitState, failureCount : 0 .. Threshold, wait : 0 .. Cooldown]

newCircuit == [state |-> "CLOSED", failureCount |-> 0, wait |-> 0]

\* Whether canRequest allows a request.
canRequest(cb) == cb.state # "OPEN" \/ cb.wait = 0

\* What canRequest leaves behind when it does.
admitting(cb) == [cb EXCEPT !.state = IF @ = "OPEN" THEN "HALF_OPEN" ELSE @]

\* Mutant: the count of failures is not reset.
MutSuccessKeepsCount(cb) == [cb EXCEPT !.state = "CLOSED", !.wait = 0]

\* Mutant: a probe that succeeds leaves the circuit HALF_OPEN.
MutSuccessKeepsState(cb) == [cb EXCEPT !.failureCount = 0, !.wait = 0]

\* Sets all three fields.
recordSuccess(cb) == [state |-> "CLOSED", failureCount |-> 0, wait |-> 0]

\* Mutant: every failure adds a cooldown to the one that is running.
MutFailureAddsCooldown(cb) ==
    LET count == IF cb.failureCount < Threshold THEN cb.failureCount + 1 ELSE Threshold
    IN  IF cb.state = "HALF_OPEN" \/ count = Threshold
        THEN [state |-> "OPEN", failureCount |-> count, wait |-> cb.wait + Cooldown]
        ELSE [cb EXCEPT !.failureCount = count]

recordFailure(cb) ==
    LET count == IF cb.failureCount < Threshold THEN cb.failureCount + 1 ELSE Threshold
    IN  IF cb.state = "HALF_OPEN" \/ count = Threshold
        THEN [state |-> "OPEN", failureCount |-> count, wait |-> Cooldown]
        ELSE [cb EXCEPT !.failureCount = count]

\* The circuit one tick later.
elapsed(cb) == [cb EXCEPT !.wait = IF @ > 0 THEN @ - 1 ELSE 0]
=============================================================================
