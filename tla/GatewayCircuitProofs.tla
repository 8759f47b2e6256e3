------------------------ MODULE GatewayCircuitProofs ------------------------
(***************************************************************************)
(* The circuit breaker's safety for every number of requests in flight,     *)
(* every threshold and every cooldown.                                       *)
(***************************************************************************)
EXTENDS GatewayCircuit, TLAPS

\* What the breaker's own fields promise one another.
BreakerInv == TypeOK /\ ClosedBelowThreshold /\ HalfOpenHasProbe

\* The failure count of a circuit tells whether it is closed.
Settled(cb) == cb \in Circuit /\ (cb.state = "CLOSED" <=> cb.failureCount < Threshold)

LEMMA Admitted ==
    ASSUME NEW cb, Settled(cb), canRequest(cb)
    PROVE  Settled(admitting(cb))
BY DEF Settled, canRequest, admitting, Circuit, CircuitState

LEMMA Succeeded ==
    ASSUME NEW cb, Settled(cb)
    PROVE  Settled(recordSuccess(cb)) /\ recordSuccess(cb).state = "CLOSED"
BY ThresholdAssumption, CooldownAssumption DEF Settled, recordSuccess, Circuit, CircuitState

LEMMA Failed ==
    ASSUME NEW cb, Settled(cb)
    PROVE  Settled(recordFailure(cb)) /\ recordFailure(cb).state # "HALF_OPEN"
<1> DEFINE count == IF cb.failureCount < Threshold THEN cb.failureCount + 1 ELSE Threshold
<1>1. count \in 0 .. Threshold /\ (count < Threshold => cb.failureCount < Threshold)
  BY ThresholdAssumption DEF Settled, Circuit
<1>2. CASE cb.state = "HALF_OPEN" \/ count = Threshold
  <2>1. recordFailure(cb) = [state |-> "OPEN", failureCount |-> count, wait |-> Cooldown]
    BY <1>2 DEF recordFailure
  <2>2. count = Threshold
    BY <1>2, ThresholdAssumption DEF Settled, Circuit
  <2> HIDE DEF count
  <2> QED
    BY <1>1, <2>1, <2>2, ThresholdAssumption, CooldownAssumption DEF Settled, Circuit, CircuitState
<1>3. CASE ~(cb.state = "HALF_OPEN" \/ count = Threshold)
  <2>1. recordFailure(cb) = [cb EXCEPT !.failureCount = count]
    BY <1>3 DEF recordFailure
  <2>2. count < Threshold
    BY <1>1, <1>3, ThresholdAssumption
  <2> HIDE DEF count
  <2> QED
    BY <1>1, <1>3, <2>1, <2>2, ThresholdAssumption DEF Settled, Circuit, CircuitState
<1> QED
  BY <1>2, <1>3

LEMMA Elapsed ==
    ASSUME NEW cb, Settled(cb)
    PROVE  Settled(elapsed(cb)) /\ elapsed(cb).state = cb.state
BY CooldownAssumption DEF Settled, elapsed, Circuit, CircuitState

LEMMA Fresh == Settled(newCircuit) /\ newCircuit.state = "CLOSED"
BY ThresholdAssumption, CooldownAssumption DEF Settled, newCircuit, Circuit, CircuitState

LEMMA BreakerInductive == BreakerInv /\ [Next]_vars => BreakerInv'
<1> SUFFICES ASSUME BreakerInv, [Next]_vars PROVE BreakerInv'
  OBVIOUS
<1> USE DEF BreakerInv, TypeOK, ClosedBelowThreshold, HalfOpenHasProbe
<1>0. Settled(circuit)
  BY DEF Settled
<1>1. ASSUME NEW r \in Requests, Forward(r) PROVE BreakerInv'
  BY <1>0, <1>1, Admitted DEF Forward, Settled
<1>2. ASSUME NEW r \in Requests, Respond(r) PROVE BreakerInv'
  BY <1>0, <1>2, Succeeded DEF Respond, Settled
<1>3. ASSUME NEW r \in Requests, Fail(r) PROVE BreakerInv'
  BY <1>0, <1>3, Failed DEF Fail, Settled
<1>4. CASE Tick
  BY <1>0, <1>4, Elapsed DEF Tick, Settled
<1>5. CASE Restart
  BY <1>5, Fresh DEF Restart, Settled
<1>6. CASE UNCHANGED vars
  BY <1>6 DEF vars
<1> QED
  BY <1>1, <1>2, <1>3, <1>4, <1>5, <1>6 DEF Next

\* The breaker's fields agree with one another whatever the order of the answers.
THEOREM BreakerInvHolds == Spec => []BreakerInv
<1>1. Init => BreakerInv
  BY Fresh DEF Settled, Init, BreakerInv, TypeOK, ClosedBelowThreshold, HalfOpenHasProbe
<1> QED
  BY <1>1, BreakerInductive, PTL DEF Spec

\* No Retry-After exceeds the cooldown, and the fields keep their types.
THEOREM TypeCorrect == Spec => []TypeOK
BY BreakerInvHolds, PTL DEF BreakerInv

\* The circuit is closed exactly while the failures since the last success stay
\* below the threshold.
THEOREM ClosedBelowThresholdHolds == Spec => []ClosedBelowThreshold
BY BreakerInvHolds, PTL DEF BreakerInv

\* A HALF_OPEN circuit always has a request whose answer will settle it.
THEOREM HalfOpenHasProbeHolds == Spec => []HalfOpenHasProbe
BY BreakerInvHolds, PTL DEF BreakerInv

----------------------------------------------------------------------------
\* What OpenAdmitsAgain rests on. While a circuit refuses requests none is sent, and
\* each step brings the end nearer: the circuit closes, an answer less is awaited, or
\* a tick less. A late failure may start the cooldown afresh, but costs an answer.
CooldownRunsOut ==
    [][~canRequest(circuit) =>
            \/ circuit'.state = "CLOSED"
            \/ /\ circuit'.state = "OPEN"
               /\ \/ sent' \subseteq sent /\ sent' # sent
                  \/ sent' = sent /\ circuit'.wait = circuit.wait - 1]_vars

\* A circuit that is open stays open when a request fails.
LEMMA FailedOpen ==
    ASSUME NEW cb, Settled(cb), cb.state = "OPEN"
    PROVE  recordFailure(cb).state = "OPEN"
<1>1. cb.failureCount = Threshold
  BY ThresholdAssumption DEF Settled, Circuit
<1> QED
  BY <1>1, ThresholdAssumption DEF recordFailure

\* A circuit that refuses requests admits them again after as many steps as it awaits
\* answers and ticks, or sooner.
THEOREM CooldownRunsOutHolds == Spec => CooldownRunsOut
<1> DEFINE Nearer ==
        \/ circuit'.state = "CLOSED"
        \/ /\ circuit'.state = "OPEN"
           /\ \/ sent' \subseteq sent /\ sent' # sent
              \/ sent' = sent /\ circuit'.wait = circuit.wait - 1
<1>1. ASSUME BreakerInv, Next, ~canRequest(circuit) PROVE Nearer
  <2>1. Settled(circuit) /\ circuit.state = "OPEN"
    BY <1>1 DEF BreakerInv, TypeOK, ClosedBelowThreshold, Settled, canRequest
  <2>2. ASSUME NEW r \in Requests, Forward(r) PROVE FALSE
    BY <1>1, <2>2 DEF Forward
  <2>3. ASSUME NEW r \in Requests, Respond(r) PROVE Nearer
    BY <2>1, <2>3, Succeeded DEF Respond
  <2>4. ASSUME NEW r \in Requests, Fail(r) PROVE Nearer
    BY <2>1, <2>4, FailedOpen DEF Fail
  <2>5. CASE Tick
    BY <2>1, <2>5, CooldownAssumption DEF Tick, elapsed, Settled, Circuit
  <2>6. CASE Restart
    BY <2>6, Fresh DEF Restart
  <2> QED
    BY <1>1, <2>2, <2>3, <2>4, <2>5, <2>6 DEF Next
<1>2. BreakerInv /\ [Next]_vars => [~canRequest(circuit) => Nearer]_vars
  BY <1>1
<1> QED
  BY <1>2, BreakerInvHolds, PTL DEF Spec, CooldownRunsOut
=============================================================================
