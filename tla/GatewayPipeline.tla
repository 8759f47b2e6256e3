--------------------------- MODULE GatewayPipeline ---------------------------
(***************************************************************************)
(* Requests on their way through the gateway: past the guards, through the   *)
(* circuit of the service they are for, to that service and back.            *)
(*                                                                          *)
(* The guards, the circuit's canRequest and the HTTP request run without an  *)
(* await that touches this state, and are one step; so are the answer and    *)
(* what it does to the circuit. Between the two any number of other requests *)
(* go either way. A request that the rate limiter, a guard or the circuit    *)
(* refuses is answered at once, changes nothing, and is no action.           *)
(***************************************************************************)
EXTENDS GatewayRoutes, CircuitBreaker

CONSTANTS
    Calls,     \* slots for the requests in flight
    Routes,    \* the routes that are called
    Tokens,    \* the bearer tokens clients send
    Claimed    \* the x-user-* headers clients send of their own

ASSUME RoutesAssumption == Routes \subseteq Route
ASSUME TokensAssumption == Tokens \subseteq Token
ASSUME ClaimedAssumption ==
    Claimed \subseteq [id : UserIds \cup {Empty, Absent}, role : Role \cup {Empty, Absent},
                       team : Team \cup {Empty, Absent}]
ASSUME NullAssumption == Null \notin Token \cup Caller \cup Team
ASSUME FalsyAssumption == Falsy \cap (UserIds \cup Role \cup Team) = {}

VARIABLES
    circuits,   \* ProxyService.circuits: one CircuitBreaker per base URL
    call        \* per slot the request sent, or how the last one was answered

vars == <<circuits, call>>

Sent ==
    [phase : {"sent"}, route : Route, input : Input, token : Token \cup {Null}, headers : Headers]

Answered == [phase : {"answered"}, input : Input, status : {"2xx", "4xx", "500", "503"}]

Idle == [phase |-> "idle"]

Init ==
    /\ circuits = [s \in Service |-> newCircuit]
    /\ call = [c \in Calls |-> Idle]

\* Mutant: the services share one circuit.
MutGetCircuitShared(s) == "auth"

\* The circuit of a service.
getCircuit(s) == s

Inputs(route) == {"good"} \cup (IF takesId(route) THEN {"badId"} ELSE {})
                          \cup (IF route = "create" THEN {"badDates"} ELSE {})

\* What the service is sent for a client's own headers and its token.
outgoing(route, token, claimed) ==
    attachUserContext(
        sanitizeOutgoingHeaders([id |-> claimed.id, role |-> claimed.role,
                                 team |-> claimed.team, token |-> token]),
        reqUser(route, token))

\* The guards and forward, up to the HTTP request.
Forward(c, route) ==
    \E input \in Inputs(route), token \in Tokens \cup {Null}, claimed \in Claimed :
        LET s == getCircuit(serviceOf(route))
        IN  /\ call[c].phase # "sent"
            /\ authenticated(route, token)
            /\ permitted(route, reqUser(route, token))
            /\ canRequest(circuits[s])
            /\ circuits' = [circuits EXCEPT ![s] = admitting(@)]
            /\ call' = [call EXCEPT ![c] =
                    [phase |-> "sent", route |-> route, input |-> input, token |-> token,
                     headers |-> outgoing(route, token, claimed)]]

Reply(c, status) ==
    call' = [call EXCEPT ![c] = [phase |-> "answered", input |-> @.input, status |-> status]]

\* The service answers; validateStatus lets every status through.
Respond(c) ==
    \E status \in {"2xx", "4xx"} :
        LET s == getCircuit(serviceOf(call[c].route))
        IN  /\ call[c].phase = "sent"
            /\ status \in answers(call[c].route, call[c].input)
            /\ circuits' = [circuits EXCEPT ![s] = recordSuccess(@)]
            /\ Reply(c, status)

\* A handler ends in a plain error, a service that works.
ServerError(c) ==
    LET s == getCircuit(serviceOf(call[c].route))
    IN  /\ call[c].phase = "sent"
        /\ "500" \in answers(call[c].route, call[c].input)
        /\ circuits' = [circuits EXCEPT ![s] = recordFailure(@)]
        /\ Reply(c, "500")

\* A transport error or the timeout.
Fail(c) ==
    LET s == getCircuit(serviceOf(call[c].route))
    IN  /\ call[c].phase = "sent"
        /\ circuits' = [circuits EXCEPT ![s] = recordFailure(@)]
        /\ Reply(c, "503")

Tick ==
    /\ \E s \in Service : circuits[s].wait > 0
    /\ circuits' = [s \in Service |-> elapsed(circuits[s])]
    /\ UNCHANGED call

\* The gateway process restarts; its clients lose their connections.
Restart ==
    /\ circuits' = [s \in Service |-> newCircuit]
    /\ call' = [c \in Calls |-> Idle]

Next ==
    \/ \E c \in Calls : \/ \E route \in Routes : Forward(c, route)
                        \/ Respond(c) \/ ServerError(c) \/ Fail(c)
    \/ Tick
    \/ Restart

\* Time passes, and GATEWAY_TIMEOUT_MS ends every request that gets no answer.
Fairness ==
    /\ WF_vars(Tick)
    /\ \A c \in Calls : WF_vars(Respond(c) \/ ServerError(c) \/ Fail(c))

Spec == Init /\ [][Next]_vars

FairSpec == Spec /\ Fairness

----------------------------------------------------------------------------
\* The circuits and the requests keep their types.
TypeOK ==
    /\ circuits \in [Service -> Circuit]
    /\ call \in [Calls -> Sent \cup Answered \cup {Idle}]

\* README, security: a service acts for the caller the token names, with the role and
\* team it names, whatever headers the client has set; and no service gets a
\* request whose caller the route's role list leaves out.
CallerIsTokens ==
    \A c \in Calls : call[c].phase = "sent" =>
        LET user == CurrentUser(call[c].headers)
        IN  /\ user # Null => valid(call[c].token) /\ user = claims(call[c].token)
            /\ call[c].route \notin Public => user # Null
            /\ required(call[c].route) # {} => user.role \in required(call[c].route)

sentTo(s) == {c \in Calls : call[c].phase = "sent" /\ serviceOf(call[c].route) = s}

AuthCircuit == INSTANCE GatewayCircuit WITH
    Requests <- Calls, circuit <- circuits["auth"], sent <- sentTo("auth")

EventCircuit == INSTANCE GatewayCircuit WITH
    Requests <- Calls, circuit <- circuits["event"], sent <- sentTo("event")

\* Either service sees a circuit of its own, which nothing but its own requests, time
\* and a restart moves.
ImplementsCircuits == AuthCircuit!Spec /\ EventCircuit!Spec

Failing(s) ==
    \E c \in Calls : call[c].phase = "sent" /\ serviceOf(call[c].route) = s
                     /\ (Fail(c) \/ ServerError(c))

Calling(s) == \E c \in Calls, route \in Routes : serviceOf(route) = s /\ Forward(c, route)

\* A service that has stopped failing and is still called gets its circuit closed
\* for good, whatever the other service does from then on.
RecoversBesideOutage ==
    \A s \in Service :
        (<>[][~Failing(s)]_vars /\ []<><<Calling(s)>>_vars) => <>[](circuits[s].state = "CLOSED")

----------------------------------------------------------------------------
(* What the documentation says and the code does not do; see the README      *)

\* API of POST /events and GET .../reviews/:team/history: dates in the wrong order and
\* a malformed id are refused with 400, like other mistakes of a caller.
MistakesAreRefused ==
    \A c \in Calls : call[c].phase = "answered" /\ call[c].input # "good"
                        => call[c].status \in {"4xx", "503"}
=============================================================================
