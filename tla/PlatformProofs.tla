--------------------------- MODULE PlatformProofs ---------------------------
(***************************************************************************)
(* What a client can rely on when requests are given up, lost, repeated and  *)
(* late, for any number of requests, logins and accounts' roles; and that    *)
(* the composition keeps the promises of its parts, Sessions and TeamReview. *)
(*                                                                          *)
(* RecordedOnce is not inductive: that a late job finds nothing to decide    *)
(* needs ReadsPending, that it has read PENDING, and RecordedDecided, that   *)
(* whatever was stored has left the team decided. For TeamReview, any job    *)
(* that is to write, an ADMIN's too, must have read a status that its role   *)
(* may turn into the decision.                                               *)
(***************************************************************************)
EXTENDS Platform, TLAPS

RecordedDecided == recorded > 0 => status \in Decided

\* A REVIEWER's job that is to write has read a PENDING status.
ReadsPending ==
    \A r \in Requests : requests[r] # Null =>
        /\ requests[r].role = "REVIEWER" /\ requests[r].job = "read"
              => requests[r].prevStatus = "PENDING"
        /\ requests[r].current => requests[r].job \in Result

\* An answer that is still true of the team.
AnswersSound ==
    \A r \in Requests :
        (/\ requests[r] # Null
         /\ requests[r].current
         /\ requests[r].role = "REVIEWER") =>
            /\ requests[r].job = "2xx" => recorded = 1
            /\ status # "PENDING"

PlatformInv ==
    TypeOK /\ RecordedOnce /\ RecordedDecided /\ ReadsPending /\ AnswersSound

----------------------------------------------------------------------------
LEMMA Transitions ==
    ASSUME NEW prev \in ReviewStatus, NEW next \in Decided, NEW role \in Role,
           canTransition(prev, next, role)
    PROVE  prev \in {"PENDING"} \cup Decided /\ (role = "REVIEWER" => prev = "PENDING")
BY DEF canTransition, Decided

LEMMA FromPending ==
    ASSUME NEW next \in Decided, NEW role
    PROVE  canTransition("PENDING", next, role)
BY DEF canTransition

----------------------------------------------------------------------------
LEMMA PlatformInit == Init => PlatformInv
BY DEF Init, Auth!Init, Review!Init, PlatformInv, TypeOK, RecordedOnce, RecordedDecided,
       ReadsPending, AnswersSound, ReviewStatus

\* Sessions keep the types of their variables.
LEMMA SessionsKept ==
    ASSUME PlatformInv, Auth!Next, UNCHANGED reviewVars
    PROVE  PlatformInv'
<1> USE DEF PlatformInv
<1>1. /\ profile \in Auth!Profile \cup {Null}
      /\ pending \in [Calls -> Claims \cup {Null}]
      /\ access \subseteq [claims : Claims, ttl : 1 .. AccessTTL]
  BY DEF TypeOK
<1>2. /\ profile' \in Auth!Profile \cup {Null}
      /\ pending' \in [Calls -> Claims \cup {Null}]
      /\ access' \subseteq [claims : Claims, ttl : 1 .. AccessTTL]
  <2>1. CASE Auth!Change
    BY <1>1, <2>1 DEF Auth!Change
  <2>2. ASSUME NEW c \in Calls, Auth!Start(c)
        PROVE  /\ profile' \in Auth!Profile \cup {Null}
               /\ pending' \in [Calls -> Claims \cup {Null}]
               /\ access' \subseteq [claims : Claims, ttl : 1 .. AccessTTL]
    BY <1>1, <2>2 DEF Auth!Start, Auth!Profile
  <2>3. ASSUME NEW c \in Calls, Auth!Sign(c)
        PROVE  /\ profile' \in Auth!Profile \cup {Null}
               /\ pending' \in [Calls -> Claims \cup {Null}]
               /\ access' \subseteq [claims : Claims, ttl : 1 .. AccessTTL]
    BY <1>1, <2>3, TTLAssumption DEF Auth!Sign, Auth!token
  <2>4. CASE Auth!Drop
    BY <1>1, <2>4 DEF Auth!Drop
  <2>5. CASE Auth!Tick
    <3>1. access' = {[t EXCEPT !.ttl = @ - 1] : t \in {u \in access : u.ttl > 1}}
      BY <2>5 DEF Auth!Tick
    <3>2. access' \subseteq [claims : Claims, ttl : 1 .. AccessTTL]
      BY <1>1, <3>1, TTLAssumption
    <3> QED
      BY <1>1, <2>5, <3>2 DEF Auth!Tick
  <2> QED
    BY <2>1, <2>2, <2>3, <2>4, <2>5 DEF Auth!Next
<1>3. UNCHANGED <<reviewer, status, requests, recorded>>
  BY DEF reviewVars
<1> QED
  BY <1>2, <1>3 DEF TypeOK, RecordedOnce, RecordedDecided, ReadsPending, AnswersSound

\* A step that touches one request and neither the document nor the count.
LEMMA RequestChanged ==
    ASSUME PlatformInv, NEW r \in Requests, NEW request \in Request \cup {Null},
           requests' = [requests EXCEPT ![r] = request],
           UNCHANGED <<authVars, reviewer, status, recorded>>,
           request # Null =>
              /\ request.role = "REVIEWER" /\ request.job = "read"
                    => request.prevStatus = "PENDING"
              /\ request.current => request.job \in Result
              /\ request.current /\ request.role = "REVIEWER" =>
                    /\ request.job = "2xx" => recorded = 1
                    /\ status # "PENDING"
    PROVE  PlatformInv'
<1> USE DEF PlatformInv
<1>1. requests \in [Requests -> Request \cup {Null}]
  BY DEF TypeOK
<1>2. requests'[r] = request /\ \A s \in Requests \ {r} : requests'[s] = requests[s]
  BY <1>1
<1>3. TypeOK'
  BY <1>1 DEF TypeOK, authVars
<1>4. ReadsPending'
  BY <1>2 DEF ReadsPending
<1>5. AnswersSound'
  BY <1>2 DEF AnswersSound
<1> QED
  BY <1>3, <1>4, <1>5 DEF RecordedOnce, RecordedDecided

\* The same of a job that goes on or ends.
LEMMA JobChanged ==
    ASSUME PlatformInv, NEW r \in Requests, NEW request \in Request,
           becomes(r, request),
           UNCHANGED <<authVars, reviewer, status, recorded>>,
           request.role = "REVIEWER" /\ request.job = "read" => request.prevStatus = "PENDING",
           request.current => request.job \in Result,
           request.current /\ request.role = "REVIEWER" =>
                /\ request.job = "2xx" => recorded = 1
                /\ status # "PENDING"
    PROVE  PlatformInv'
<1>1. CASE requests' = [requests EXCEPT ![r] = Null]
  <2> DEFINE none == Null
  <2>1. none \in Request \cup {Null} /\ requests' = [requests EXCEPT ![r] = none]
    BY <1>1
  <2>2. none = Null
    OBVIOUS
  <2> HIDE DEF none
  <2> QED
    BY <2>1, <2>2, RequestChanged
<1>2. CASE requests' = [requests EXCEPT ![r] = request]
  BY <1>2, RequestChanged
<1> QED
  BY <1>1, <1>2 DEF becomes, ends

\* A job that goes on keeps its type.
LEMMA JobType ==
    ASSUME NEW request \in Request, NEW job \in {"queued", "read"} \cup Result,
           NEW prev \in ReviewStatus \cup {Null}, NEW current \in BOOLEAN
    PROVE  [request EXCEPT !.job = job, !.current = current, !.prevStatus = prev] \in Request
BY DEF Request

LEMMA SendKept ==
    ASSUME PlatformInv, NEW r \in Requests, Send(r)
    PROVE  PlatformInv'
<1>1. PICK t \in access, desired \in Decided :
          requests' = [requests EXCEPT ![r] =
                [desired |-> desired, role |-> t.claims.role, waiting |-> TRUE,
                 job |-> "queued", prevStatus |-> Null, current |-> FALSE]]
  BY DEF Send
<1>2. t.claims.role \in Role
  BY ClaimsAssumption DEF PlatformInv, TypeOK
<1> DEFINE request == [desired |-> desired, role |-> t.claims.role, waiting |-> TRUE,
                       job |-> "queued", prevStatus |-> Null, current |-> FALSE]
<1>3. request \in Request /\ request.job = "queued" /\ request.current = FALSE
  BY <1>2 DEF Request
<1>4. requests' = [requests EXCEPT ![r] = request]
  BY <1>1
<1> HIDE DEF request
<1> QED
  BY <1>3, <1>4, RequestChanged DEF Send

LEMMA UpdateStatusKept ==
    ASSUME PlatformInv, NEW r \in Requests, UpdateStatus(r)
    PROVE  PlatformInv'
<1>1. requests[r] \in Request /\ status \in ReviewStatus
  BY DEF UpdateStatus, PlatformInv, TypeOK
<1>2. UNCHANGED <<authVars, reviewer, status, recorded>>
  BY DEF UpdateStatus
<1>3. CASE refused(requests[r])
  <2> DEFINE none == Null
  <2>1. requests' = [requests EXCEPT ![r] = none]
    BY <1>3 DEF UpdateStatus, ends
  <2>2. none = Null
    OBVIOUS
  <2> HIDE DEF none
  <2> QED
    BY <1>2, <2>1, <2>2, RequestChanged
<1>4. CASE ~refused(requests[r])
  <2> DEFINE job == reaches(requests[r])
             prev == IF job = "read" THEN status ELSE Null
             current == job \in Result
             request == [requests[r] EXCEPT !.job = job, !.current = current,
                                            !.prevStatus = prev]
  <2>1. becomes(r, request)
    BY <1>4 DEF UpdateStatus
  <2>2. job \in {"read"} \cup Result
    BY DEF reaches, Result
  <2>3. requests[r].desired \in Decided /\ requests[r].role \in Role
    BY <1>1 DEF Request
  <2>4. job = "read" /\ requests[r].role = "REVIEWER" => status = "PENDING"
    BY <1>1, <2>3, Transitions DEF reaches
  <2>5. job = "409" => status # "PENDING"
    <3>1. job = "409" => ~canTransition(status, requests[r].desired, requests[r].role)
      BY DEF reaches
    <3> QED
      BY <2>3, <3>1, FromPending
  <2>6. job = "2xx" => requests[r].role # "REVIEWER"
    <3>1. job = "2xx" => /\ canTransition(status, requests[r].desired, requests[r].role)
                         /\ status = requests[r].desired
      BY DEF reaches
    <3>2. "PENDING" \notin Decided
      BY DEF Decided
    <3> QED
      BY <1>1, <2>3, <3>1, <3>2, Transitions
  <2>7. prev \in ReviewStatus \cup {Null} /\ current \in BOOLEAN
    BY <1>1
  <2>8. (job = "read" => prev = status) /\ (current => job \in Result) /\ "read" \notin Result
    BY DEF Result
  <2> HIDE DEF job, prev, current
  <2>9. /\ request \in Request
        /\ request.role = requests[r].role
        /\ request.job = job
        /\ request.prevStatus = prev
        /\ request.current = current
    <3>1. request \in Request
      BY <1>1, <2>2, <2>7, JobType
    <3> QED
      BY <1>1, <3>1 DEF Request
  <2> HIDE DEF request
  <2>10. request.current /\ request.role = "REVIEWER" => request.job = "409"
    BY <2>2, <2>6, <2>8, <2>9 DEF Result
  <2> QED
    BY <1>2, <2>1, <2>4, <2>5, <2>8, <2>9, <2>10, JobChanged
<1> QED
  BY <1>3, <1>4

LEMMA WriteStatusKept ==
    ASSUME PlatformInv, NEW r \in Requests, WriteStatus(r)
    PROVE  PlatformInv'
<1> USE DEF PlatformInv
<1> DEFINE job == IF matches(requests[r]) THEN "2xx" ELSE "409"
           request == [requests[r] EXCEPT !.job = job, !.current = TRUE, !.prevStatus = Null]
<1>1. /\ requests[r] \in Request /\ requests[r].job = "read" /\ requests[r] # Null
      /\ status \in ReviewStatus /\ recorded \in Nat
  BY DEF WriteStatus, TypeOK
<1>2. [requests[r] EXCEPT !.prevStatus = Null, !.current = TRUE, !.job = job] = request
  BY <1>1 DEF Request
<1>3. becomes(r, request)
  BY <1>2 DEF WriteStatus
<1>4. job \in Result
  BY DEF Result
<1>5. /\ request \in Request /\ request.role = requests[r].role
      /\ request.job = job /\ request.current = TRUE
  <2>1. request \in Request
    BY <1>1, <1>4, JobType
  <2> QED
    BY <1>1, <2>1 DEF Request
<1>6. requests[r].role = "REVIEWER" => requests[r].prevStatus = "PENDING"
  BY <1>1 DEF ReadsPending
<1>7. CASE ~matches(requests[r])
  <2>1. UNCHANGED <<authVars, reviewer, status, recorded>>
    BY <1>7 DEF WriteStatus
  <2>2. job = "409" /\ (requests[r].role = "REVIEWER" => status # "PENDING")
    BY <1>6, <1>7 DEF matches
  <2> HIDE DEF job, request
  <2> QED
    BY <1>3, <1>4, <1>5, <2>1, <2>2, JobChanged DEF Result
<1>8. CASE matches(requests[r])
  <2>1. /\ status' = requests[r].desired
        /\ recorded' = IF requests[r].role = "REVIEWER" THEN recorded + 1 ELSE recorded
        /\ UNCHANGED <<authVars, reviewer>>
    BY <1>8 DEF WriteStatus
  <2>2. status' \in Decided
    BY <1>1, <2>1 DEF Request
  <2>3. requests[r].role = "REVIEWER" => recorded = 0
    BY <1>1, <1>6, <1>8 DEF matches, RecordedDecided, Decided
  <2>4. recorded' \in Nat /\ recorded' <= 1 /\ (requests[r].role = "REVIEWER" => recorded' = 1)
    BY <1>1, <2>1, <2>3 DEF RecordedOnce
  <2>5. recorded = 1 => recorded' = 1
    BY <2>1, <2>3
  <2> HIDE DEF job, request
  <2>6. requests' = [requests EXCEPT ![r] = request] \/ requests' = [requests EXCEPT ![r] = Null]
    BY <1>3 DEF becomes, ends
  <2>7. requests \in [Requests -> Request \cup {Null}]
    BY DEF TypeOK
  <2>8. requests'[r] \in {request, Null} /\ \A s \in Requests \ {r} : requests'[s] = requests[s]
    BY <2>6, <2>7
  <2>9. TypeOK'
    <3>1. requests' \in [Requests -> Request \cup {Null}]
      BY <1>5, <2>6, <2>7
    <3>2. status' \in ReviewStatus
      BY <2>2 DEF Decided, ReviewStatus
    <3> QED
      BY <2>1, <2>4, <3>1, <3>2 DEF TypeOK, authVars
  <2>10. ReadsPending'
    <3>1. request.job # "read"
      BY <1>4, <1>5 DEF Result
    <3> QED
      BY <1>4, <1>5, <2>8, <3>1 DEF ReadsPending
  <2>11. AnswersSound'
    <3>1. status' # "PENDING"
      BY <2>2 DEF Decided
    <3> QED
      BY <1>5, <2>4, <2>5, <2>8, <3>1 DEF AnswersSound
  <2> QED
    BY <2>2, <2>4, <2>9, <2>10, <2>11 DEF RecordedOnce, RecordedDecided
<1> QED
  BY <1>7, <1>8

LEMMA ReassignKept ==
    ASSUME PlatformInv, Reassign
    PROVE  PlatformInv'
<1> USE DEF PlatformInv
<1>1. PICK new \in UserIds \cup {Null} :
          /\ reviewer' = new
          /\ status' = IF new = Null THEN "NOT_REQUIRED" ELSE "PENDING"
  BY DEF Reassign, Review!Assign
<1>2. status' \in ReviewStatus
  BY <1>1 DEF ReviewStatus
<1>3. requests \in [Requests -> Request \cup {Null}]
  BY DEF TypeOK
<1>4. /\ recorded' = 0 /\ UNCHANGED authVars
      /\ requests' = [r \in Requests |->
            IF requests[r] = Null THEN Null ELSE [requests[r] EXCEPT !.current = FALSE]]
  BY DEF Reassign
<1>5. ASSUME NEW r \in Requests, requests[r] # Null
      PROVE  /\ requests'[r] \in Request
             /\ requests'[r].role = requests[r].role
             /\ requests'[r].job = requests[r].job
             /\ requests'[r].prevStatus = requests[r].prevStatus
             /\ requests'[r].current = FALSE
  <2>1. requests[r] \in Request /\ requests'[r] = [requests[r] EXCEPT !.current = FALSE]
    BY <1>3, <1>4, <1>5
  <2> QED
    BY <2>1 DEF Request
<1>6. \A r \in Requests : requests[r] = Null => requests'[r] = Null
  BY <1>4
<1>7. requests' \in [Requests -> Request \cup {Null}]
  BY <1>4, <1>5, <1>6
<1>8. TypeOK'
  BY <1>1, <1>2, <1>4, <1>7 DEF TypeOK, authVars
<1>9. ReadsPending' /\ AnswersSound'
  BY <1>5, <1>6 DEF ReadsPending, AnswersSound
<1> QED
  BY <1>4, <1>8, <1>9 DEF RecordedOnce, RecordedDecided

LEMMA EndKept ==
    ASSUME PlatformInv, NEW r \in Requests, ends(r),
           UNCHANGED <<authVars, reviewer, status, recorded>>
    PROVE  PlatformInv'
<1> DEFINE none == Null
<1>1. requests' = [requests EXCEPT ![r] = none]
  BY DEF ends
<1>2. none = Null
  OBVIOUS
<1> HIDE DEF none
<1> QED
  BY <1>1, <1>2, RequestChanged

LEMMA TimeoutKept ==
    ASSUME PlatformInv, NEW r \in Requests, Timeout(r)
    PROVE  PlatformInv'
<1> DEFINE request == [requests[r] EXCEPT !.waiting = FALSE]
<1>1. requests[r] \in Request /\ requests[r] # Null
  BY DEF Timeout, PlatformInv, TypeOK
<1>2. /\ request \in Request
      /\ request.role = requests[r].role
      /\ request.job = requests[r].job
      /\ request.prevStatus = requests[r].prevStatus
      /\ request.current = requests[r].current
  BY <1>1 DEF Request
<1>3. becomes(r, request) /\ UNCHANGED <<authVars, reviewer, status, recorded>>
  BY DEF Timeout
<1> HIDE DEF request
<1> QED
  BY <1>1, <1>2, <1>3, JobChanged DEF PlatformInv, ReadsPending, AnswersSound

LEMMA DecideElsewhereKept ==
    ASSUME PlatformInv, DecideElsewhere
    PROVE  PlatformInv'
<1>1. status' \in Decided /\ UNCHANGED <<authVars, reviewer, requests, recorded>>
  BY DEF DecideElsewhere, Review!Decide
<1>2. status' \in ReviewStatus /\ status' # "PENDING"
  BY <1>1 DEF Decided, ReviewStatus
<1> QED
  BY <1>1, <1>2
     DEF PlatformInv, TypeOK, RecordedOnce, RecordedDecided, ReadsPending, AnswersSound, authVars

LEMMA PlatformInductive == PlatformInv /\ [Next]_vars => PlatformInv'
<1> SUFFICES ASSUME PlatformInv, [Next]_vars PROVE PlatformInv'
  OBVIOUS
<1>1. CASE Auth!Next /\ UNCHANGED reviewVars
  BY <1>1, SessionsKept
<1>2. ASSUME NEW r \in Requests, Send(r) PROVE PlatformInv'
  BY <1>2, SendKept
<1>3. ASSUME NEW r \in Requests, Deliver(r) PROVE PlatformInv'
  BY <1>3, EndKept DEF Deliver
<1>4. ASSUME NEW r \in Requests, Timeout(r) PROVE PlatformInv'
  BY <1>4, TimeoutKept
<1>5. ASSUME NEW r \in Requests, UpdateStatus(r) PROVE PlatformInv'
  BY <1>5, UpdateStatusKept
<1>6. ASSUME NEW r \in Requests, WriteStatus(r) PROVE PlatformInv'
  BY <1>6, WriteStatusKept
<1>7. ASSUME NEW r \in Requests, Lose(r) PROVE PlatformInv'
  BY <1>7, EndKept DEF Lose
<1>8. CASE DecideElsewhere
  BY <1>8, DecideElsewhereKept
<1>9. CASE Reassign
  BY <1>9, ReassignKept
<1>10. CASE UNCHANGED vars
  BY <1>10 DEF vars, authVars, reviewVars, PlatformInv, TypeOK, RecordedOnce, RecordedDecided,
               ReadsPending, AnswersSound
<1> QED
  BY <1>1, <1>2, <1>3, <1>4, <1>5, <1>6, <1>7, <1>8, <1>9, <1>10 DEF Next

----------------------------------------------------------------------------
THEOREM PlatformInvHolds == Spec => []PlatformInv
BY PlatformInit, PlatformInductive, PTL DEF Spec

\* Sessions, document and requests keep their types.
THEOREM TypeCorrect == Spec => []TypeOK
BY PlatformInvHolds, PTL DEF PlatformInv

\* Between two reassignments at most one decision of the account as a REVIEWER is
\* stored, whatever is repeated, lost or late.
THEOREM RecordedOnceHolds == Spec => []RecordedOnce
BY PlatformInvHolds, PTL DEF PlatformInv

\* A REVIEWER's 2xx and 409 are true of the team when they arrive, unless it has been
\* reassigned.
THEOREM AnswersHoldHolds == Spec => AnswersHold
<1> DEFINE True(r) ==
        (Deliver(r) /\ requests[r].current /\ requests[r].role = "REVIEWER") =>
            /\ requests[r].job = "2xx" => recorded = 1
            /\ status # "PENDING"
<1>1. ASSUME PlatformInv, NEW r \in Requests PROVE True(r)
  BY <1>1 DEF PlatformInv, AnswersSound, Deliver
<1>2. PlatformInv /\ [Next]_vars =>
        [\A r \in Requests :
            (Deliver(r) /\ requests[r].current /\ requests[r].role = "REVIEWER") =>
                /\ requests[r].job = "2xx" => recorded = 1
                /\ status # "PENDING"]_vars
  BY <1>1
<1> QED
  BY <1>2, PlatformInvHolds, PTL DEF Spec, AnswersHold

----------------------------------------------------------------------------
(* One team's review                                                         *)

\* The status speaks of a reviewer exactly when there is one. A job that is to write
\* has read a status that its role may turn into the decision.
WritesAllowed ==
    \A r \in Requests :
        requests[r] # Null /\ requests[r].job = "read" =>
            /\ canTransition(requests[r].prevStatus, requests[r].desired, requests[r].role)
            /\ requests[r].prevStatus # requests[r].desired

ReviewInv ==
    /\ status = "NOT_REQUIRED" <=> reviewer = Null
    /\ WritesAllowed

LEMMA ReviewInit == Init => ReviewInv
BY DEF Init, Review!Init, ReviewInv, WritesAllowed

\* A step that touches one request, and makes it one that is to write only if it may.
LEMMA WritesStayAllowed ==
    ASSUME TypeOK, WritesAllowed, NEW r \in Requests, NEW request \in Request \cup {Null},
           requests' = [requests EXCEPT ![r] = request],
           request # Null /\ request.job = "read" =>
                /\ canTransition(request.prevStatus, request.desired, request.role)
                /\ request.prevStatus # request.desired
    PROVE  WritesAllowed'
<1>1. requests \in [Requests -> Request \cup {Null}]
  BY DEF TypeOK
<1>2. requests'[r] = request /\ \A s \in Requests \ {r} : requests'[s] = requests[s]
  BY <1>1
<1>3. ASSUME NEW s \in Requests, requests'[s] # Null, requests'[s].job = "read"
      PROVE  /\ canTransition(requests'[s].prevStatus, requests'[s].desired, requests'[s].role)
             /\ requests'[s].prevStatus # requests'[s].desired
  <2>1. CASE s = r
    BY <1>2, <1>3, <2>1
  <2>2. CASE s # r
    BY <1>2, <1>3, <2>2 DEF WritesAllowed
  <2> QED
    BY <2>1, <2>2
<1> QED
  BY <1>3 DEF WritesAllowed, canTransition

LEMMA EndStaysAllowed ==
    ASSUME TypeOK, WritesAllowed, NEW r \in Requests, ends(r)
    PROVE  WritesAllowed'
<1> DEFINE none == Null
<1>1. requests' = [requests EXCEPT ![r] = none]
  BY DEF ends
<1>2. none = Null
  OBVIOUS
<1> HIDE DEF none
<1> QED
  BY <1>1, <1>2, WritesStayAllowed

LEMMA JobStaysAllowed ==
    ASSUME TypeOK, WritesAllowed, NEW r \in Requests, NEW request \in Request,
           becomes(r, request),
           request.job = "read" =>
                /\ canTransition(request.prevStatus, request.desired, request.role)
                /\ request.prevStatus # request.desired
    PROVE  WritesAllowed'
BY EndStaysAllowed, WritesStayAllowed DEF becomes

LEMMA ReadAllowed ==
    ASSUME PlatformInv, ReviewInv, NEW r \in Requests, UpdateStatus(r)
    PROVE  WritesAllowed'
<1>1. /\ requests[r] \in Request /\ status \in ReviewStatus
      /\ TypeOK /\ WritesAllowed
  BY DEF UpdateStatus, PlatformInv, TypeOK, ReviewInv
<1>2. CASE refused(requests[r])
  BY <1>1, <1>2, EndStaysAllowed DEF UpdateStatus
<1>3. CASE ~refused(requests[r])
  <2> DEFINE job == reaches(requests[r])
             prev == IF job = "read" THEN status ELSE Null
             current == job \in Result
             request == [requests[r] EXCEPT !.job = job, !.current = current,
                                            !.prevStatus = prev]
  <2>1. becomes(r, request)
    BY <1>3 DEF UpdateStatus
  <2>2. job \in {"read"} \cup Result
    BY DEF reaches, Result
  <2>3. job = "read" => /\ canTransition(status, requests[r].desired, requests[r].role)
                        /\ status # requests[r].desired
    BY DEF reaches
  <2>4. /\ prev \in ReviewStatus \cup {Null} /\ current \in BOOLEAN
        /\ job = "read" => prev = status
    BY <1>1
  <2> HIDE DEF job, prev, current
  <2>5. request \in Request
    BY <1>1, <2>2, <2>4, JobType
  <2>6. /\ request.role = requests[r].role
        /\ request.desired = requests[r].desired
        /\ request.job = job
        /\ request.prevStatus = prev
    BY <1>1, <2>5 DEF Request
  <2> HIDE DEF request
  <2> QED
    BY <1>1, <2>1, <2>3, <2>4, <2>5, <2>6, JobStaysAllowed
<1> QED
  BY <1>2, <1>3

\* The write of a decision is a decision of the team's review, and leaves nothing to write.
LEMMA WriteDecides ==
    ASSUME PlatformInv, ReviewInv, NEW r \in Requests, WriteStatus(r)
    PROVE  /\ ReviewInv'
           /\ [Review!Next]_(Review!tvars)
<1> DEFINE job == IF matches(requests[r]) THEN "2xx" ELSE "409"
           request == [requests[r] EXCEPT !.job = job, !.current = TRUE, !.prevStatus = Null]
<1>1. /\ requests[r] \in Request /\ requests[r].job = "read" /\ requests[r] # Null
      /\ status \in ReviewStatus /\ TypeOK /\ WritesAllowed
  BY DEF WriteStatus, PlatformInv, TypeOK, ReviewInv
<1>2. [requests[r] EXCEPT !.prevStatus = Null, !.current = TRUE, !.job = job] = request
  BY <1>1 DEF Request
<1>3. becomes(r, request)
  BY <1>2 DEF WriteStatus
<1>4. job \in Result /\ job # "read"
  BY DEF Result
<1>5. request \in Request /\ request.job = job
  <2>1. request \in Request
    BY <1>1, <1>4, JobType
  <2> QED
    BY <1>1, <2>1 DEF Request
<1>6. WritesAllowed'
  <2> HIDE DEF job, request
  <2> QED
    BY <1>1, <1>3, <1>4, <1>5, JobStaysAllowed
<1>7. CASE ~matches(requests[r])
  <2>1. UNCHANGED <<reviewer, status>>
    BY <1>7 DEF WriteStatus
  <2> QED
    BY <1>6, <2>1 DEF ReviewInv, Review!tvars
<1>8. CASE matches(requests[r])
  <2> DEFINE verdict == requests[r].desired
             role == requests[r].role
  <2>1. status' = verdict /\ UNCHANGED reviewer
    BY <1>8 DEF WriteStatus
  <2>2. canTransition(status, verdict, role) /\ status # verdict
    BY <1>1, <1>8 DEF matches, WritesAllowed
  <2>3. verdict \in Decided
    BY <1>1 DEF Request
  <2>4. /\ status # "NOT_REQUIRED"
        /\ status = "PENDING" \/ role = "ADMIN"
    BY <2>2 DEF canTransition, Decided
  <2>5. reviewer # Null
    BY <2>4 DEF ReviewInv
  <2>6. ReviewInv'
    BY <1>6, <2>1, <2>3, <2>5 DEF ReviewInv, Decided
  <2>7. \/ Review!Decide("REVIEWER", verdict)
        \/ Review!Decide("ADMIN", verdict)
    BY <2>1, <2>2, <2>4, <2>5 DEF Review!Decide
  <2>8. Review!Next
    BY <2>3, <2>7 DEF Review!Next, Decided
  <2> QED
    BY <2>6, <2>8
<1> QED
  BY <1>7, <1>8

LEMMA ReassignAssigns ==
    ASSUME PlatformInv, ReviewInv, Reassign
    PROVE  /\ ReviewInv'
           /\ [Review!Next]_(Review!tvars)
<1>1. PICK new \in UserIds \cup {Null} : Review!Assign(new)
  BY DEF Reassign
<1>2. Review!Next
  BY <1>1 DEF Review!Next
<1>3. status' = "NOT_REQUIRED" <=> reviewer' = Null
  BY <1>1 DEF Review!Assign
<1>4. ASSUME NEW r \in Requests, requests'[r] # Null, requests'[r].job = "read"
      PROVE  /\ canTransition(requests'[r].prevStatus, requests'[r].desired, requests'[r].role)
             /\ requests'[r].prevStatus # requests'[r].desired
  <2>1. requests[r] # Null /\ requests'[r] = [requests[r] EXCEPT !.current = FALSE]
    BY <1>4 DEF Reassign
  <2>2. requests[r] \in Request
    BY <2>1 DEF PlatformInv, TypeOK
  <2>3. /\ requests'[r].role = requests[r].role
        /\ requests'[r].desired = requests[r].desired
        /\ requests'[r].job = requests[r].job
        /\ requests'[r].prevStatus = requests[r].prevStatus
    BY <2>1, <2>2 DEF Request
  <2> QED
    BY <1>4, <2>1, <2>3 DEF ReviewInv, WritesAllowed
<1>5. WritesAllowed'
  BY <1>4 DEF WritesAllowed, canTransition
<1> QED
  BY <1>2, <1>3, <1>5 DEF ReviewInv

LEMMA DecideElsewhereDecides ==
    ASSUME PlatformInv, ReviewInv, DecideElsewhere
    PROVE  /\ ReviewInv'
           /\ [Review!Next]_(Review!tvars)
<1>1. PICK verdict \in Decided : Review!Decide("ADMIN", verdict)
  BY DEF DecideElsewhere
<1>2. Review!Next
  BY <1>1 DEF Review!Next, Decided
<1>3. reviewer' # Null /\ status' # "NOT_REQUIRED"
  BY <1>1 DEF Review!Decide, Decided
<1>4. WritesAllowed'
  BY DEF ReviewInv, WritesAllowed, DecideElsewhere, canTransition
<1> QED
  BY <1>2, <1>3, <1>4 DEF ReviewInv

\* A step that leaves the team alone.
LEMMA ReviewLeftAlone ==
    ASSUME ReviewInv, WritesAllowed', UNCHANGED <<reviewer, status>>
    PROVE  /\ ReviewInv'
           /\ [Review!Next]_(Review!tvars)
BY DEF ReviewInv, Review!tvars

LEMMA ReviewStep ==
    PlatformInv /\ ReviewInv /\ [Next]_vars => ReviewInv' /\ [Review!Next]_(Review!tvars)
<1> SUFFICES ASSUME PlatformInv, ReviewInv, [Next]_vars
             PROVE  ReviewInv' /\ [Review!Next]_(Review!tvars)
  OBVIOUS
<1> USE DEF ReviewInv
<1>1. TypeOK
  BY DEF PlatformInv
<1>2. ASSUME UNCHANGED reviewVars PROVE ReviewInv' /\ [Review!Next]_(Review!tvars)
  <2>1. UNCHANGED <<reviewer, status>> /\ WritesAllowed'
    BY <1>2 DEF reviewVars, WritesAllowed, canTransition
  <2> QED
    BY <2>1, ReviewLeftAlone
<1>3. ASSUME NEW r \in Requests, Send(r)
      PROVE  ReviewInv' /\ [Review!Next]_(Review!tvars)
  <2>1. PICK t \in access, desired \in Decided :
            requests' = [requests EXCEPT ![r] =
                  [desired |-> desired, role |-> t.claims.role, waiting |-> TRUE,
                   job |-> "queued", prevStatus |-> Null, current |-> FALSE]]
    BY <1>3 DEF Send
  <2> DEFINE request == [desired |-> desired, role |-> t.claims.role, waiting |-> TRUE,
                         job |-> "queued", prevStatus |-> Null, current |-> FALSE]
  <2>2. t.claims.role \in Role
    BY <1>1, ClaimsAssumption DEF TypeOK
  <2>3. request \in Request /\ request.job = "queued" /\ requests' = [requests EXCEPT ![r] = request]
    BY <2>1, <2>2 DEF Request
  <2> HIDE DEF request
  <2>4. WritesAllowed'
    BY <1>1, <2>3, WritesStayAllowed
  <2> QED
    BY <1>3, <2>4, ReviewLeftAlone DEF Send
<1>4. ASSUME NEW r \in Requests, Deliver(r) \/ Lose(r)
      PROVE  ReviewInv' /\ [Review!Next]_(Review!tvars)
  <2>1. ends(r) /\ UNCHANGED <<reviewer, status>>
    BY <1>4 DEF Deliver, Lose
  <2> QED
    BY <1>1, <2>1, EndStaysAllowed, ReviewLeftAlone
<1>5. ASSUME NEW r \in Requests, Timeout(r)
      PROVE  ReviewInv' /\ [Review!Next]_(Review!tvars)
  <2> DEFINE request == [requests[r] EXCEPT !.waiting = FALSE]
  <2>1. requests[r] \in Request /\ requests[r] # Null
    BY <1>1, <1>5 DEF Timeout, TypeOK
  <2>2. /\ request \in Request
        /\ request.role = requests[r].role
        /\ request.desired = requests[r].desired
        /\ request.job = requests[r].job
        /\ request.prevStatus = requests[r].prevStatus
    BY <2>1 DEF Request
  <2>3. becomes(r, request) /\ UNCHANGED <<reviewer, status>>
    BY <1>5 DEF Timeout
  <2> HIDE DEF request
  <2>4. WritesAllowed'
    BY <1>1, <2>1, <2>2, <2>3, JobStaysAllowed DEF WritesAllowed
  <2> QED
    BY <2>3, <2>4, ReviewLeftAlone
<1>6. ASSUME NEW r \in Requests, UpdateStatus(r)
      PROVE  ReviewInv' /\ [Review!Next]_(Review!tvars)
  BY <1>6, ReadAllowed, ReviewLeftAlone DEF UpdateStatus
<1>7. ASSUME NEW r \in Requests, WriteStatus(r)
      PROVE  ReviewInv' /\ [Review!Next]_(Review!tvars)
  BY <1>7, WriteDecides
<1> QED
  BY <1>2, <1>3, <1>4, <1>5, <1>6, <1>7, DecideElsewhereDecides, ReassignAssigns
     DEF Next, vars

\* The platform implements one team's review: whatever the gateway gives up, loses or
\* lets a client repeat, and whatever tokens say of roles meanwhile, the document only
\* ever sees a decision on a review that is open, an ADMIN's other decision on one that
\* is not, or a new reviewer with a fresh status.
THEOREM ImplementsTeamReview == Spec => Review!Spec
<1>1. Init => Review!Init
  BY DEF Init
<1> QED
  BY <1>1, ReviewInit, ReviewStep, PlatformInvHolds, PTL DEF Spec, Review!Spec

\* The gateway and game-event leave the account's sessions as the auth service has them.
THEOREM ImplementsSessions == Spec => Auth!Spec
<1>1. Init => Auth!Init
  BY DEF Init
<1>2. [Next]_vars => [Auth!Next]_(Auth!svars)
  <2> SUFFICES ASSUME [Next]_vars PROVE [Auth!Next]_(Auth!svars)
    OBVIOUS
  <2>1. \/ Auth!Next
        \/ UNCHANGED authVars
    BY DEF Next, vars, Send, Deliver, Timeout, UpdateStatus, WriteStatus, Lose,
           DecideElsewhere, Reassign
  <2> QED
    BY <2>1 DEF authVars, Auth!svars
<1> QED
  BY <1>1, <1>2, PTL DEF Spec, Auth!Spec

----------------------------------------------------------------------------
(* Where a right comes from                                                  *)

\* Nothing on its way, at any of the three services, speaks for the role.
Quiet(role) ==
    /\ \A c \in Calls : pending[c] # Null => pending[c].role # role
    /\ \A t \in access : t.claims.role # role
    /\ \A r \in Requests : requests[r] # Null => requests[r].role # role

\* Once nothing speaks for a role any more, no decision is taken in it, and nothing
\* speaks for it again unless the account has it and is active: the part of RightsEnd
\* that is left when every token has expired and every job has ended.
RightsBegin ==
    [][\A role \in Role :
        Quiet(role) => ~DecidesAs(role) /\ (Quiet(role)' \/ Holds(role))]_vars

LEMMA QuietSessions ==
    ASSUME TypeOK, NEW role \in Role, Quiet(role), Auth!Next, UNCHANGED requests, ~Holds(role)
    PROVE  Quiet(role)'
<1>1. /\ pending \in [Calls -> Claims \cup {Null}]
      /\ access \subseteq [claims : Claims, ttl : 1 .. AccessTTL]
  BY DEF TypeOK
<1>2. /\ \A c \in Calls : pending'[c] # Null => pending'[c].role # role
      /\ \A t \in access' : t.claims.role # role
  <2>1. CASE Auth!Change
    BY <2>1 DEF Auth!Change, Quiet
  <2>2. ASSUME NEW c \in Calls, Auth!Start(c)
        PROVE  /\ \A d \in Calls : pending'[d] # Null => pending'[d].role # role
               /\ \A t \in access' : t.claims.role # role
    <3>1. profile.claims.role # role
      BY <2>2 DEF Holds, Auth!Start
    <3>2. /\ pending'[c] = profile.claims
          /\ \A d \in Calls \ {c} : pending'[d] = pending[d]
          /\ access' = access
      BY <1>1, <2>2 DEF Auth!Start
    <3> QED
      BY <3>1, <3>2 DEF Quiet
  <2>3. ASSUME NEW c \in Calls, Auth!Sign(c)
        PROVE  /\ \A d \in Calls : pending'[d] # Null => pending'[d].role # role
               /\ \A t \in access' : t.claims.role # role
    <3>1. Auth!token(pending[c]).claims.role # role
      BY <2>3 DEF Auth!Sign, Auth!token, Quiet
    <3>2. /\ pending'[c] = Null
          /\ \A d \in Calls \ {c} : pending'[d] = pending[d]
          /\ access' = access \cup {Auth!token(pending[c])}
      BY <1>1, <2>3 DEF Auth!Sign
    <3> QED
      BY <3>1, <3>2 DEF Quiet
  <2>4. CASE Auth!Drop
    BY <2>4 DEF Auth!Drop, Quiet
  <2>5. CASE Auth!Tick
    <3>1. /\ access' = {[t EXCEPT !.ttl = @ - 1] : t \in {u \in access : u.ttl > 1}}
          /\ UNCHANGED pending
      BY <2>5 DEF Auth!Tick
    <3>2. ASSUME NEW t \in access' PROVE t.claims.role # role
      <4>1. PICK u \in access : t = [u EXCEPT !.ttl = @ - 1]
        BY <3>1, <3>2
      <4>2. t.claims = u.claims
        BY <1>1, <4>1
      <4> QED
        BY <4>2 DEF Quiet
    <3> QED
      BY <3>1, <3>2 DEF Quiet
  <2> QED
    BY <2>1, <2>2, <2>3, <2>4, <2>5 DEF Auth!Next
<1> QED
  BY <1>2 DEF Quiet

\* No step changes the role of a request but Send, which takes it from a token.
LEMMA QuietRequests ==
    ASSUME TypeOK, NEW role \in Role, Quiet(role), UNCHANGED authVars,
           \A r \in Requests :
              requests'[r] # Null => \/ requests[r] # Null /\ requests'[r].role = requests[r].role
                                     \/ \E t \in access : requests'[r].role = t.claims.role
    PROVE  Quiet(role)'
BY DEF Quiet, authVars

LEMMA QuietJob ==
    ASSUME TypeOK, NEW role \in Role, Quiet(role), UNCHANGED authVars,
           NEW r \in Requests, requests[r] # Null,
           NEW request, becomes(r, request), request.role = requests[r].role
    PROVE  Quiet(role)'
<1>1. requests \in [Requests -> Request \cup {Null}]
  BY DEF TypeOK
<1>2. /\ requests'[r] = request \/ requests'[r] = Null
      /\ \A s \in Requests \ {r} : requests'[s] = requests[s]
  BY <1>1 DEF becomes, ends
<1> QED
  BY <1>2, QuietRequests

LEMMA QuietEnds ==
    ASSUME TypeOK, NEW role \in Role, Quiet(role), UNCHANGED authVars,
           NEW r \in Requests, ends(r)
    PROVE  Quiet(role)'
<1>1. requests \in [Requests -> Request \cup {Null}]
  BY DEF TypeOK
<1>2. requests'[r] = Null /\ \A s \in Requests \ {r} : requests'[s] = requests[s]
  BY <1>1 DEF ends
<1> QED
  BY <1>2, QuietRequests

LEMMA QuietStep ==
    ASSUME TypeOK, NEW role \in Role, Quiet(role), [Next]_vars, ~Holds(role)
    PROVE  Quiet(role)'
<1>1. requests \in [Requests -> Request \cup {Null}]
  BY DEF TypeOK
<1>2. CASE Auth!Next /\ UNCHANGED reviewVars
  BY <1>2, QuietSessions DEF reviewVars
<1>3. ASSUME NEW r \in Requests, Send(r) PROVE Quiet(role)'
  <2>1. PICK t \in access, desired \in Decided :
            requests' = [requests EXCEPT ![r] =
                  [desired |-> desired, role |-> t.claims.role, waiting |-> TRUE,
                   job |-> "queued", prevStatus |-> Null, current |-> FALSE]]
    BY <1>3 DEF Send
  <2>2. /\ requests'[r].role = t.claims.role
        /\ \A s \in Requests \ {r} : requests'[s] = requests[s]
    BY <1>1, <2>1
  <2> QED
    BY <1>3, <2>2, QuietRequests DEF Send
<1>4. ASSUME NEW r \in Requests, Deliver(r) \/ Lose(r) PROVE Quiet(role)'
  BY <1>4, QuietEnds DEF Deliver, Lose
<1>5. ASSUME NEW r \in Requests, Timeout(r) PROVE Quiet(role)'
  <2>1. requests[r] \in Request
    BY <1>1, <1>5 DEF Timeout
  <2>2. [requests[r] EXCEPT !.waiting = FALSE].role = requests[r].role
    BY <2>1 DEF Request
  <2> QED
    BY <1>5, <2>2, QuietJob DEF Timeout
<1>6. ASSUME NEW r \in Requests, UpdateStatus(r) PROVE Quiet(role)'
  <2>1. requests[r] \in Request
    BY <1>1, <1>6 DEF UpdateStatus
  <2>2. CASE refused(requests[r])
    BY <1>6, <2>2, QuietEnds DEF UpdateStatus
  <2>3. CASE ~refused(requests[r])
    <3> DEFINE job == reaches(requests[r])
               request == [requests[r] EXCEPT !.job = job, !.current = job \in Result,
                               !.prevStatus = IF job = "read" THEN status ELSE Null]
    <3>1. becomes(r, request)
      BY <1>6, <2>3 DEF UpdateStatus
    <3>2. request.role = requests[r].role
      BY <2>1 DEF Request
    <3> HIDE DEF request
    <3> QED
      BY <1>6, <3>1, <3>2, QuietJob DEF UpdateStatus
  <2> QED
    BY <2>2, <2>3
<1>7. ASSUME NEW r \in Requests, WriteStatus(r) PROVE Quiet(role)'
  <2>1. requests[r] \in Request
    BY <1>1, <1>7 DEF WriteStatus
  <2>2. PICK request :
            /\ becomes(r, request)
            /\ \E job : request = [requests[r] EXCEPT !.prevStatus = Null, !.current = TRUE,
                                                      !.job = job]
    BY <1>7 DEF WriteStatus
  <2>3. request.role = requests[r].role
    BY <2>1, <2>2 DEF Request
  <2> QED
    BY <1>7, <2>2, <2>3, QuietJob DEF WriteStatus
<1>8. CASE DecideElsewhere
  BY <1>8, QuietRequests DEF DecideElsewhere
<1>9. CASE Reassign
  <2>1. ASSUME NEW r \in Requests, requests'[r] # Null
        PROVE  requests[r] # Null /\ requests'[r].role = requests[r].role
    <3>1. requests[r] # Null /\ requests'[r] = [requests[r] EXCEPT !.current = FALSE]
      BY <1>9, <2>1 DEF Reassign
    <3>2. requests[r] \in Request
      BY <1>1, <3>1
    <3> QED
      BY <3>1, <3>2 DEF Request
  <2> QED
    BY <1>9, <2>1, QuietRequests DEF Reassign
<1>10. CASE UNCHANGED vars
  BY <1>10 DEF vars, authVars, reviewVars, Quiet
<1> QED
  BY <1>2, <1>3, <1>4, <1>5, <1>6, <1>7, <1>8, <1>9, <1>10 DEF Next

\* A role that no login, token or request carries stays so, and decides nothing, until
\* the account has it and is active.
THEOREM RightsBeginHolds == Spec => RightsBegin
<1>1. TypeOK /\ [Next]_vars =>
        [\A role \in Role :
            Quiet(role) => ~DecidesAs(role) /\ (Quiet(role)' \/ Holds(role))]_vars
  <2> SUFFICES ASSUME TypeOK, [Next]_vars, NEW role \in Role, Quiet(role)
               PROVE  ~DecidesAs(role) /\ (Quiet(role)' \/ Holds(role))
    OBVIOUS
  <2>1. ~DecidesAs(role)
    BY DEF DecidesAs, WriteStatus, Quiet
  <2> QED
    BY <2>1, QuietStep
<1> QED
  BY <1>1, TypeCorrect, PTL DEF Spec, RightsBegin

=============================================================================
