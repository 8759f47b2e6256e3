------------------------ MODULE GatewayPipelineProofs ------------------------
(***************************************************************************)
(* Whom a service acts for, and that each service's circuit is moved by its  *)
(* own requests only, for every set of routes, tokens and client headers and *)
(* any number of requests in flight.                                         *)
(***************************************************************************)
EXTENDS GatewayPipeline, TLAPS

----------------------------------------------------------------------------
\* The breaker's methods keep the types of its fields.
LEMMA CircuitTypes ==
    ASSUME NEW cb \in Circuit
    PROVE  /\ admitting(cb) \in Circuit
           /\ recordSuccess(cb) \in Circuit
           /\ recordFailure(cb) \in Circuit
           /\ elapsed(cb) \in Circuit
           /\ newCircuit \in Circuit
<1>1. admitting(cb) \in Circuit
  BY DEF admitting, Circuit, CircuitState
<1>2. recordSuccess(cb) \in Circuit /\ newCircuit \in Circuit
  BY ThresholdAssumption, CooldownAssumption DEF recordSuccess, newCircuit, Circuit, CircuitState
<1>3. recordFailure(cb) \in Circuit
  <2> DEFINE count == IF cb.failureCount < Threshold THEN cb.failureCount + 1 ELSE Threshold
  <2>1. count \in 0 .. Threshold
    BY ThresholdAssumption DEF Circuit
  <2>2. recordFailure(cb) = IF cb.state = "HALF_OPEN" \/ count = Threshold
                            THEN [state |-> "OPEN", failureCount |-> count, wait |-> Cooldown]
                            ELSE [cb EXCEPT !.failureCount = count]
    BY DEF recordFailure
  <2> HIDE DEF count
  <2> QED
    BY <2>1, <2>2, CooldownAssumption DEF Circuit, CircuitState
<1>4. elapsed(cb) \in Circuit
  BY CooldownAssumption DEF elapsed, Circuit
<1> QED
  BY <1>1, <1>2, <1>3, <1>4

\* A request that passes the guards.
Admissible(route, token) ==
    authenticated(route, token) /\ permitted(route, reqUser(route, token))

\* The headers a service gets are the claims of the token, or empty on a public route.
LEMMA OutgoingFields ==
    ASSUME NEW route, NEW token, NEW claimed
    PROVE  LET h == outgoing(route, token, claimed)
               user == reqUser(route, token)
           IN  h = [id |-> IF user = Null THEN Empty ELSE user.sub,
                    role |-> IF user = Null THEN Empty ELSE user.role,
                    team |-> IF user = Null \/ user.team = Null THEN Empty ELSE user.team,
                    token |-> token]
BY DEF outgoing, attachUserContext, sanitizeOutgoingHeaders

LEMMA CallerType ==
    ASSUME NEW token \in Tokens \cup {Null}, valid(token)
    PROVE  token \in Token /\ claims(token) \in Caller /\ claims(token) # Null
BY TokensAssumption, NullAssumption DEF valid, claims, Token, Caller

LEMMA OutgoingType ==
    ASSUME NEW route, NEW token \in Tokens \cup {Null}, NEW claimed \in Claimed,
           authenticated(route, token)
    PROVE  outgoing(route, token, claimed) \in Headers
<1>1. token \in Token \cup {Null}
  BY TokensAssumption
<1>2. CASE reqUser(route, token) = Null
  BY <1>1, <1>2, OutgoingFields DEF Headers
<1>3. CASE reqUser(route, token) # Null
  <2>1. reqUser(route, token) \in Caller
    BY <1>3, CallerType DEF reqUser, authenticated
  <2> QED
    BY <1>1, <1>3, <2>1, OutgoingFields DEF Headers, Caller
<1> QED
  BY <1>2, <1>3

\* A public route has no role list.
LEMMA PublicAsksNoRole == ASSUME NEW route \in Public PROVE required(route) = {}
BY DEF Public, required

\* The caller the service sees, behind the guards.
LEMMA OutgoingCaller ==
    ASSUME NEW route, NEW token \in Tokens \cup {Null}, NEW claimed \in Claimed,
           Admissible(route, token)
    PROVE  LET user == CurrentUser(outgoing(route, token, claimed))
           IN  /\ user # Null => valid(token) /\ user = claims(token)
               /\ route \notin Public => user # Null
               /\ required(route) # {} => user.role \in required(route)
<1> DEFINE h == outgoing(route, token, claimed)
           user == CurrentUser(h)
<1>1. CASE route \in Public
  <2>1. h.id = Empty /\ h.token = token
    BY <1>1, OutgoingFields DEF reqUser
  <2>2. user = IF valid(token) THEN claims(token) ELSE Null
    BY <2>1 DEF CurrentUser, parseFromGatewayHeaders, parseFromBearer, Falsy
  <2> QED
    BY <1>1, <2>2, PublicAsksNoRole
<1>2. CASE route \notin Public
  <2>1. /\ valid(token) /\ claims(token) \in Caller /\ claims(token) # Null
        /\ reqUser(route, token) = claims(token)
    BY <1>2, CallerType DEF Admissible, authenticated, reqUser
  <2> DEFINE cl == claims(token)
  <2>2. h = [id |-> cl.sub, role |-> cl.role, team |-> IF cl.team = Null THEN Empty ELSE cl.team,
             token |-> token]
    BY <2>1, OutgoingFields
  <2>3. cl.sub \notin Falsy /\ cl.role \notin Falsy /\ (cl.team = Null \/ cl.team \notin Falsy)
    BY <2>1, FalsyAssumption DEF Caller
  <2>4. parseFromGatewayHeaders(h) = [sub |-> cl.sub, role |-> cl.role, team |-> cl.team]
    BY <2>2, <2>3 DEF parseFromGatewayHeaders, Falsy
  <2>5. cl = [sub |-> cl.sub, role |-> cl.role, team |-> cl.team]
    BY <2>1 DEF Caller
  <2>6. user = cl
    BY <2>1, <2>4, <2>5 DEF CurrentUser
  <2>7. required(route) # {} => cl.role \in required(route)
    <3>1. required(route) # {} => cl.role \in {"ADMIN"} \cup required(route)
      BY <2>1 DEF Admissible, permitted
    <3>2. required(route) # {} => "ADMIN" \in required(route)
      BY DEF required
    <3> QED
      BY <3>1, <3>2
  <2> QED
    BY <1>2, <2>1, <2>6, <2>7
<1> QED
  BY <1>1, <1>2

PipelineInv == TypeOK /\ CallerIsTokens

----------------------------------------------------------------------------
\* What forwarding a request leaves in its slot.
LEMMA Forwarded ==
    ASSUME PipelineInv, NEW c \in Calls, NEW route \in Routes, Forward(c, route)
    PROVE  /\ call[c].phase # "sent"
           /\ call'[c] \in Sent /\ call'[c].route = route
           /\ call' = [call EXCEPT ![c] = call'[c]]
           /\ canRequest(circuits[serviceOf(route)])
           /\ circuits' = [circuits EXCEPT ![serviceOf(route)] = admitting(@)]
           /\ LET user == CurrentUser(call'[c].headers)
              IN  /\ user # Null => valid(call'[c].token) /\ user = claims(call'[c].token)
                  /\ call'[c].route \notin Public => user # Null
                  /\ required(call'[c].route) # {} => user.role \in required(call'[c].route)
<1>1. PICK input \in Inputs(route), token \in Tokens \cup {Null}, claimed \in Claimed :
        /\ call[c].phase # "sent"
        /\ Admissible(route, token)
        /\ canRequest(circuits[serviceOf(route)])
        /\ circuits' = [circuits EXCEPT ![serviceOf(route)] = admitting(@)]
        /\ call' = [call EXCEPT ![c] =
                [phase |-> "sent", route |-> route, input |-> input, token |-> token,
                 headers |-> outgoing(route, token, claimed)]]
  BY DEF Forward, getCircuit, Admissible
<1> DEFINE new == [phase |-> "sent", route |-> route, input |-> input, token |-> token,
                   headers |-> outgoing(route, token, claimed)]
<1>2. new \in Sent
  <2>1. input \in Input
    BY DEF Inputs, Input
  <2>2. outgoing(route, token, claimed) \in Headers
    BY <1>1, OutgoingType DEF Admissible
  <2>3. route \in Route /\ token \in Token \cup {Null}
    BY RoutesAssumption, TokensAssumption
  <2> QED
    BY <2>1, <2>2, <2>3 DEF Sent
<1>3. call'[c] = new
  BY <1>1 DEF PipelineInv, TypeOK
<1>4. LET user == CurrentUser(new.headers)
      IN  /\ user # Null => valid(new.token) /\ user = claims(new.token)
          /\ new.route \notin Public => user # Null
          /\ required(new.route) # {} => user.role \in required(new.route)
  BY <1>1, OutgoingCaller
<1>5. new.route = route
  OBVIOUS
<1> HIDE DEF new
<1> QED
  BY <1>1, <1>2, <1>3, <1>4, <1>5 DEF new

\* What an answer leaves of a request: its slot, and the circuit of its service.
LEMMA Replied ==
    ASSUME PipelineInv, NEW c \in Calls, Respond(c) \/ ServerError(c) \/ Fail(c)
    PROVE  /\ call[c] \in Sent
           /\ call'[c] \in Answered
           /\ call' = [call EXCEPT ![c] = call'[c]]
           /\ \/ circuits' = [circuits EXCEPT ![serviceOf(call[c].route)] = recordSuccess(@)]
              \/ circuits' = [circuits EXCEPT ![serviceOf(call[c].route)] = recordFailure(@)]
<1>1. PICK status \in {"2xx", "4xx", "500", "503"} :
        /\ call[c].phase = "sent"
        /\ Reply(c, status)
        /\ \/ circuits' = [circuits EXCEPT ![serviceOf(call[c].route)] = recordSuccess(@)]
           \/ circuits' = [circuits EXCEPT ![serviceOf(call[c].route)] = recordFailure(@)]
  BY DEF Respond, ServerError, Fail, getCircuit
<1>2. call[c] \in Sent
  BY <1>1 DEF PipelineInv, TypeOK, Sent, Answered, Idle
<1>3. call'[c] = [phase |-> "answered", input |-> call[c].input, status |-> status]
  BY <1>1 DEF Reply, PipelineInv, TypeOK
<1>4. call' = [call EXCEPT ![c] = call'[c]]
  BY <1>1, <1>3 DEF Reply
<1> QED
  BY <1>1, <1>2, <1>3, <1>4 DEF Answered, Sent

LEMMA PipelineInductive == PipelineInv /\ [Next]_vars => PipelineInv'
<1> SUFFICES ASSUME PipelineInv, [Next]_vars PROVE PipelineInv'
  OBVIOUS
<1>0. \A route : serviceOf(route) \in Service
  BY DEF serviceOf, Service
<1>1. ASSUME NEW c \in Calls, NEW route \in Routes, Forward(c, route) PROVE PipelineInv'
  <2>1. circuits' \in [Service -> Circuit]
    <3>1. admitting(circuits[serviceOf(route)]) \in Circuit
      BY <1>0, CircuitTypes DEF PipelineInv, TypeOK
    <3> QED
      BY <1>1, <3>1, Forwarded DEF PipelineInv, TypeOK
  <2>2. call' \in [Calls -> Sent \cup Answered \cup {Idle}]
        /\ \A d \in Calls : d # c => call'[d] = call[d]
    BY <1>1, Forwarded DEF PipelineInv, TypeOK
  <2> QED
    BY <1>1, <2>1, <2>2, Forwarded DEF PipelineInv, TypeOK, CallerIsTokens
<1>2. ASSUME NEW c \in Calls, Respond(c) \/ ServerError(c) \/ Fail(c) PROVE PipelineInv'
  <2>1. circuits' \in [Service -> Circuit]
    <3> DEFINE cb == circuits[serviceOf(call[c].route)]
    <3>1. recordSuccess(cb) \in Circuit /\ recordFailure(cb) \in Circuit
      BY <1>0, CircuitTypes DEF PipelineInv, TypeOK
    <3> QED
      BY <1>2, <3>1, Replied DEF PipelineInv, TypeOK
  <2>2. call' \in [Calls -> Sent \cup Answered \cup {Idle}]
        /\ \A d \in Calls : d # c => call'[d] = call[d]
    BY <1>2, Replied DEF PipelineInv, TypeOK
  <2>3. call'[c].phase # "sent"
    BY <1>2, Replied DEF Answered
  <2> QED
    BY <2>1, <2>2, <2>3 DEF PipelineInv, TypeOK, CallerIsTokens
<1>3. CASE Tick
  <2>1. circuits' \in [Service -> Circuit]
    BY <1>3, CircuitTypes DEF Tick, PipelineInv, TypeOK
  <2> QED
    BY <1>3, <2>1 DEF Tick, PipelineInv, TypeOK, CallerIsTokens
<1>4. CASE Restart
  <2>1. newCircuit \in Circuit
    BY CircuitTypes, ThresholdAssumption, CooldownAssumption DEF newCircuit, Circuit, CircuitState
  <2> QED
    BY <1>4, <2>1 DEF Restart, PipelineInv, TypeOK, CallerIsTokens, Idle
<1>5. CASE UNCHANGED vars
  BY <1>5 DEF vars, PipelineInv, TypeOK, CallerIsTokens
<1> QED
  BY <1>1, <1>2, <1>3, <1>4, <1>5 DEF Next

LEMMA PipelineInit == Init => PipelineInv
BY ThresholdAssumption, CooldownAssumption
   DEF Init, newCircuit, Circuit, CircuitState, PipelineInv, TypeOK, CallerIsTokens, Idle

THEOREM PipelineInvHolds == Spec => []PipelineInv
BY PipelineInit, PipelineInductive, PTL DEF Spec

\* The circuits and the requests keep their types.
THEOREM TypeCorrect == Spec => []TypeOK
BY PipelineInvHolds, PTL DEF PipelineInv

\* A service acts for the caller the token names, and for nobody the route's role
\* list leaves out, whatever headers and tokens the clients send.
THEOREM CallerIsTokensHolds == Spec => []CallerIsTokens
BY PipelineInvHolds, PTL DEF PipelineInv

----------------------------------------------------------------------------
(* Either service's circuit implements GatewayCircuit                        *)

\* A step of the pipeline as the circuit of s sees it.
CircuitStep(s) ==
    \/ \E r \in Calls :
        \/ /\ r \notin sentTo(s)
           /\ canRequest(circuits[s])
           /\ circuits'[s] = admitting(circuits[s])
           /\ sentTo(s)' = sentTo(s) \cup {r}
        \/ /\ r \in sentTo(s)
           /\ \/ circuits'[s] = recordSuccess(circuits[s])
              \/ circuits'[s] = recordFailure(circuits[s])
           /\ sentTo(s)' = sentTo(s) \ {r}
    \/ /\ circuits[s].wait > 0
       /\ circuits'[s] = elapsed(circuits[s])
       /\ sentTo(s)' = sentTo(s)
    \/ circuits'[s] = newCircuit /\ sentTo(s)' = {}
    \/ circuits'[s] = circuits[s] /\ sentTo(s)' = sentTo(s)

LEMMA Steps ==
    ASSUME PipelineInv, [Next]_vars, NEW s \in Service
    PROVE  CircuitStep(s)
<1>1. ASSUME NEW c \in Calls, NEW route \in Routes, Forward(c, route) PROVE CircuitStep(s)
  <2>1. /\ call'[c].phase = "sent" /\ call'[c].route = route /\ call[c].phase # "sent"
        /\ \A d \in Calls : d # c => call'[d] = call[d]
    BY <1>1, Forwarded DEF Sent, PipelineInv, TypeOK
  <2>2. CASE serviceOf(route) = s
    <3>1. c \notin sentTo(s) /\ sentTo(s)' = sentTo(s) \cup {c}
      BY <2>1, <2>2 DEF sentTo
    <3>2. canRequest(circuits[s]) /\ circuits'[s] = admitting(circuits[s])
      BY <1>1, <2>2, Forwarded DEF PipelineInv, TypeOK
    <3> QED
      BY <3>1, <3>2 DEF CircuitStep
  <2>3. CASE serviceOf(route) # s
    <3>1. sentTo(s)' = sentTo(s)
      BY <2>1, <2>3 DEF sentTo
    <3>2. circuits'[s] = circuits[s]
      BY <1>1, <2>3, Forwarded DEF PipelineInv, TypeOK
    <3> QED
      BY <3>1, <3>2 DEF CircuitStep
  <2> QED
    BY <2>2, <2>3
<1>2. ASSUME NEW c \in Calls, Respond(c) \/ ServerError(c) \/ Fail(c) PROVE CircuitStep(s)
  <2>1. /\ call[c].phase = "sent" /\ call'[c].phase # "sent"
        /\ \A d \in Calls : d # c => call'[d] = call[d]
    BY <1>2, Replied DEF Sent, Answered, PipelineInv, TypeOK
  <2>2. CASE serviceOf(call[c].route) = s
    <3>1. c \in sentTo(s) /\ sentTo(s)' = sentTo(s) \ {c}
      BY <2>1, <2>2 DEF sentTo
    <3>2. circuits'[s] = recordSuccess(circuits[s]) \/ circuits'[s] = recordFailure(circuits[s])
      BY <1>2, <2>2, Replied DEF PipelineInv, TypeOK
    <3> QED
      BY <3>1, <3>2 DEF CircuitStep
  <2>3. CASE serviceOf(call[c].route) # s
    <3>1. sentTo(s)' = sentTo(s)
      BY <2>1, <2>3 DEF sentTo
    <3>2. circuits'[s] = circuits[s]
      BY <1>2, <2>3, Replied DEF PipelineInv, TypeOK
    <3> QED
      BY <3>1, <3>2 DEF CircuitStep
  <2> QED
    BY <2>2, <2>3
<1>3. CASE Tick
  <2>1. sentTo(s)' = sentTo(s) /\ circuits'[s] = elapsed(circuits[s])
    BY <1>3 DEF Tick, sentTo
  <2>2. circuits[s] \in Circuit
    BY DEF PipelineInv, TypeOK
  <2>3. circuits[s].wait > 0 \/ elapsed(circuits[s]) = circuits[s]
    BY <2>2, CooldownAssumption DEF Circuit, elapsed
  <2> QED
    BY <2>1, <2>3 DEF CircuitStep
<1>4. CASE Restart
  BY <1>4 DEF Restart, CircuitStep, sentTo, Idle
<1>5. CASE UNCHANGED vars
  BY <1>5 DEF vars, CircuitStep, sentTo
<1> QED
  BY <1>1, <1>2, <1>3, <1>4, <1>5 DEF Next

\* The circuit's methods are the same operators in AuthCircuit.
LEMMA AuthOperators ==
    /\ \A cb : /\ AuthCircuit!canRequest(cb) = canRequest(cb)
              /\ AuthCircuit!admitting(cb) = admitting(cb)
              /\ AuthCircuit!recordSuccess(cb) = recordSuccess(cb)
              /\ AuthCircuit!recordFailure(cb) = recordFailure(cb)
              /\ AuthCircuit!elapsed(cb) = elapsed(cb)
    /\ AuthCircuit!newCircuit = newCircuit
BY DEF AuthCircuit!canRequest, AuthCircuit!admitting, AuthCircuit!recordSuccess,
       AuthCircuit!recordFailure, AuthCircuit!elapsed, AuthCircuit!newCircuit,
       canRequest, admitting, recordSuccess, recordFailure, elapsed, newCircuit

LEMMA AuthStep == PipelineInv /\ [Next]_vars => [AuthCircuit!Next]_(AuthCircuit!vars)
<1> SUFFICES ASSUME PipelineInv, [Next]_vars PROVE [AuthCircuit!Next]_(AuthCircuit!vars)
  OBVIOUS
<1>1. CircuitStep("auth")
  BY Steps DEF Service
<1> QED
  BY <1>1, AuthOperators
     DEF CircuitStep, AuthCircuit!Next, AuthCircuit!vars, AuthCircuit!Forward,
         AuthCircuit!Respond, AuthCircuit!Fail, AuthCircuit!Tick, AuthCircuit!Restart

\* The circuit's methods are the same operators in EventCircuit.
LEMMA EventOperators ==
    /\ \A cb : /\ EventCircuit!canRequest(cb) = canRequest(cb)
              /\ EventCircuit!admitting(cb) = admitting(cb)
              /\ EventCircuit!recordSuccess(cb) = recordSuccess(cb)
              /\ EventCircuit!recordFailure(cb) = recordFailure(cb)
              /\ EventCircuit!elapsed(cb) = elapsed(cb)
    /\ EventCircuit!newCircuit = newCircuit
BY DEF EventCircuit!canRequest, EventCircuit!admitting, EventCircuit!recordSuccess,
       EventCircuit!recordFailure, EventCircuit!elapsed, EventCircuit!newCircuit,
       canRequest, admitting, recordSuccess, recordFailure, elapsed, newCircuit

LEMMA EventStep == PipelineInv /\ [Next]_vars => [EventCircuit!Next]_(EventCircuit!vars)
<1> SUFFICES ASSUME PipelineInv, [Next]_vars PROVE [EventCircuit!Next]_(EventCircuit!vars)
  OBVIOUS
<1>1. CircuitStep("event")
  BY Steps DEF Service
<1> QED
  BY <1>1, EventOperators
     DEF CircuitStep, EventCircuit!Next, EventCircuit!vars, EventCircuit!Forward,
         EventCircuit!Respond, EventCircuit!Fail, EventCircuit!Tick, EventCircuit!Restart

\* Each service has a circuit of its own that behaves as GatewayCircuit says.
THEOREM ImplementsCircuitsHolds == Spec => ImplementsCircuits
<1>1. Init => AuthCircuit!Init /\ EventCircuit!Init
  BY AuthOperators, EventOperators
     DEF Init, AuthCircuit!Init, EventCircuit!Init, Service, sentTo, Idle
<1> QED
  BY <1>1, AuthStep, EventStep, PipelineInvHolds, PTL
     DEF Spec, ImplementsCircuits, AuthCircuit!Spec, EventCircuit!Spec
=============================================================================
