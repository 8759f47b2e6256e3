--------------------------- MODULE GatewayCircuit ---------------------------
(***************************************************************************)
(* The gateway's circuit breaker for one downstream service (auth or         *)
(* game-event), and the requests ProxyService.forward has sent through it.   *)
(*                                                                          *)
(* forward runs without an await from canRequest to the HTTP request, and    *)
(* again from the answer to recordSuccess or recordFailure; between the two  *)
(* any number of other requests are sent and answered, so an answer is       *)
(* recorded in whatever state the circuit has reached in the meantime.       *)
(* Every behaviour is covered, with no bound on time or on the number of     *)
(* requests.                                                                 *)
(***************************************************************************)
EXTENDS CircuitBreaker

CONSTANT Requests    \* slots for the requests in flight

VARIABLES
    circuit,   \* the CircuitBreaker of this service
    sent       \* the requests awaiting the downstream's answer

vars == <<circuit, sent>>

Init == circuit = newCircuit /\ sent = {}

\* Mutant: a request that is refused is recorded as a failure.
MutForwardCountsRefusals(r) ==
    /\ r \notin sent
    /\ \/ /\ canRequest(circuit)
          /\ circuit' = admitting(circuit)
          /\ sent' = sent \cup {r}
       \/ ~canRequest(circuit) /\ circuit' = recordFailure(circuit) /\ UNCHANGED sent

\* forward, up to the HTTP request. A request that is refused changes nothing.
Forward(r) ==
    /\ r \notin sent
    /\ canRequest(circuit)
    /\ circuit' = admitting(circuit)
    /\ sent' = sent \cup {r}

\* An answer below 500, a 4xx included.
Respond(r) ==
    /\ r \in sent
    /\ circuit' = recordSuccess(circuit)
    /\ sent' = sent \ {r}

\* A 5xx, a transport error or the timeout.
Fail(r) ==
    /\ r \in sent
    /\ circuit' = recordFailure(circuit)
    /\ sent' = sent \ {r}

Tick ==
    /\ circuit.wait > 0
    /\ circuit' = elapsed(circuit)
    /\ UNCHANGED sent

\* The gateway process restarts: its circuits live in memory only.
Restart == circuit' = newCircuit /\ sent' = {}

Next ==
    \/ \E r \in Requests : Forward(r) \/ Respond(r) \/ Fail(r)
    \/ Tick
    \/ Restart

\* Time passes, and GATEWAY_TIMEOUT_MS ends every request that gets no answer.
Fairness ==
    /\ WF_vars(Tick)
    /\ \A r \in Requests : WF_vars(Respond(r) \/ Fail(r))

Spec == Init /\ [][Next]_vars

FairSpec == Spec /\ Fairness

----------------------------------------------------------------------------
\* The fields keep their types, and no Retry-After is longer than the cooldown.
TypeOK == circuit \in Circuit /\ sent \subseteq Requests

\* The circuit is closed exactly while fewer failures than the threshold have
\* followed the last success, whichever requests answered late.
ClosedBelowThreshold == circuit.state = "CLOSED" <=> circuit.failureCount < Threshold

\* A HALF_OPEN circuit is always waiting for an answer that will settle it.
HalfOpenHasProbe == circuit.state = "HALF_OPEN" => sent # {}

\* An OPEN circuit admits a request again, although every late failure of a
\* request sent before it opened starts the cooldown afresh.
OpenAdmitsAgain == circuit.state = "OPEN" ~> canRequest(circuit)

\* When the downstream has stopped failing and callers keep coming, the circuit
\* closes for good.
ClosesAfterRecovery ==
    (/\ <>[][\A r \in Requests : ~Fail(r)]_vars
     /\ []<><<\E r \in Requests : Forward(r)>>_vars) => <>[](circuit.state = "CLOSED")
=============================================================================
