------------------------- MODULE AuthAccountsProofs -------------------------
(***************************************************************************)
(* Type correctness of the account and its tokens, and what overlapping      *)
(* registrations, seeds, logouts and deactivations leave of it, for any      *)
(* number of requests in flight and any lifetimes.                           *)
(*                                                                          *)
(* TypeOK is not inductive: the seed writes only the fields that differ from *)
(* the document it has found, so that the pair it leaves is one the rules    *)
(* allow needs SeedReads, what the account can have become since.            *)
(***************************************************************************)
EXTENDS AuthLogouts, TLAPS

seedPair == normalizeRoleTeam(SeedUser.pair)

SeedReads ==
    \A c \in Calls : calls[c].op = "seed" /\ calls[c].found # Null =>
        /\ account # Null
        /\ \/ account.role = calls[c].found.role /\ account.team = calls[c].found.team
           \/ account.role = seedPair.role /\ account.team = seedPair.team

\* Tokens and the requests that follow a login have an account.
OnlyWithAccount ==
    /\ access # {} => account # Null
    /\ \A c \in Calls :
          calls[c].op \in {"login", "refresh", "logout", "role-team"} => account # Null

AccountsInv == TypeOK /\ SeedReads /\ OnlyWithAccount

----------------------------------------------------------------------------
\* What is stored for a request is a pair the rules allow.
LEMMA NormalizedPair ==
    ASSUME NEW req \in RoleTeamRequest, normalizable(req)
    PROVE  normalizeRoleTeam(req) \in RoleTeam
BY DEF RoleTeamRequest, normalizable, normalizeRoleTeam, RoleTeam, validatePair, Role, Team

LEMMA SeedPair == seedPair \in RoleTeam
BY SeedAssumption, NormalizedPair DEF seedPair, normalizable

LEMMA NewUser ==
    ASSUME NEW password \in Password, NEW pair \in RoleTeam
    PROVE  /\ newUser(password, pair) \in User
           /\ validatePair(newUser(password, pair).role, newUser(password, pair).team)
BY DEF newUser, User, RoleTeam

\* The claims of an account are a pair the rules allow.
LEMMA Claims ==
    ASSUME NEW user \in User, validatePair(user.role, user.team)
    PROVE  accessPayload(user) \in RoleTeam
BY DEF User, accessPayload, RoleTeam

LEMMA Signed ==
    ASSUME NEW payload \in RoleTeam
    PROVE  sign(payload) \in AccessToken /\ validatePair(sign(payload).role, sign(payload).team)
BY TTLAssumption DEF sign, AccessToken, RoleTeam

\* The fields the seed leaves alone are those it has found as it wants them.
LEMMA SeededPair ==
    ASSUME NEW found \in User, account \in User,
           \/ account.role = found.role /\ account.team = found.team
           \/ account.role = seedPair.role /\ account.team = seedPair.team
    PROVE  /\ seeded(found) \in User
           /\ seeded(found).role = seedPair.role
           /\ seeded(found).team = seedPair.team
           /\ seeded(found).password = account.password
<1> DEFINE pair == seedPair
           role == IF found.role = pair.role THEN account.role ELSE pair.role
           team == IF found.team = pair.team THEN account.team ELSE pair.team
           isActive == account.isActive \/ ~found.isActive
<1>1. pair.role \in Role /\ pair.team \in Team \cup {Null}
  BY SeedPair DEF RoleTeam
<1>2. role = pair.role /\ team = pair.team
  OBVIOUS
<1>3. isActive \in BOOLEAN
  OBVIOUS
<1>4. seeded(found) = [account EXCEPT !.role = role, !.team = team, !.isActive = isActive]
  BY DEF seeded, seedPair
<1>5. role \in Role /\ team \in Team \cup {Null}
  BY <1>1, <1>2
<1>6. role = seedPair.role /\ team = seedPair.team
  BY <1>2
<1> HIDE DEF pair, role, team, isActive
<1> QED
  BY <1>3, <1>4, <1>5, <1>6 DEF User

----------------------------------------------------------------------------
LEMMA AccountsInit == Init => AccountsInv
BY TTLAssumption DEF Init, AccountsInv, TypeOK, SeedReads, OnlyWithAccount, Call, Idle

\* What completing a request does to the requests in flight.
LEMMA Finished ==
    ASSUME AccountsInv, NEW c \in Calls, NEW op, Finish(c, op)
    PROVE  /\ calls' \in [Calls -> Call]
           /\ calls[c].op = op
           /\ \A d \in Calls : calls'[d] = calls[d] \/ calls'[d] = Idle
BY DEF AccountsInv, TypeOK, Finish, Call

\* The seeds in flight notice only a change of the role or the team.
LEMMA SeedReadsKept ==
    ASSUME AccountsInv,
           \A d \in Calls : calls'[d] = calls[d] \/ calls'[d] = Idle,
           account # Null => /\ account' # Null
                             /\ \/ account'.role = account.role /\ account'.team = account.team
                                \/ account'.role = seedPair.role /\ account'.team = seedPair.team
    PROVE  SeedReads'
BY DEF AccountsInv, SeedReads, Idle, seedPair

LEMMA OnlyWithAccountKept ==
    ASSUME AccountsInv,
           \A d \in Calls : calls'[d] = calls[d] \/ calls'[d] = Idle,
           account # Null => account' # Null,
           access' # {} => account' # Null
    PROVE  OnlyWithAccount'
BY DEF AccountsInv, OnlyWithAccount, Idle

\* create leaves the account there is, or the one it was given.
LEMMA Created ==
    ASSUME AccountsInv, NEW user \in User, create(user)
    PROVE  /\ account' \in User \cup {Null}
           /\ account' # Null => validatePair(account'.role, account'.team)
           /\ account # Null => account' = account
BY DEF AccountsInv, TypeOK, create

LEMMA AccountsInductive == AccountsInv /\ [Next]_vars => AccountsInv'
<1> SUFFICES ASSUME AccountsInv, [Next]_vars PROVE AccountsInv'
  OBVIOUS
<1> USE DEF AccountsInv, TypeOK
<1>1. ASSUME NEW c \in Calls, Register(c) PROVE AccountsInv'
  <2>1. PICK password \in Password, req \in Requests :
            /\ normalizable(req)
            /\ Start(c, [op |-> "register", user |-> newUser(password, normalizeRoleTeam(req))])
    BY <1>1 DEF Register
  <2>2. newUser(password, normalizeRoleTeam(req)) \in User
    BY <2>1, RequestAssumption, NormalizedPair, NewUser
  <2> QED
    BY <2>1, <2>2 DEF Start, Call, SeedReads, OnlyWithAccount
<1>2. ASSUME NEW c \in Calls, Seed(c) PROVE AccountsInv'
  BY <1>2 DEF Seed, Start, Call, SeedReads, OnlyWithAccount
<1>3. ASSUME NEW c \in Calls, Login(c) PROVE AccountsInv'
  <2>1. accessPayload(account) \in RoleTeam
    BY <1>3, Claims DEF Login
  <2> QED
    BY <1>3, <2>1 DEF Login, Start, Call, SeedReads, OnlyWithAccount
<1>4. ASSUME NEW c \in Calls, Logout(c) PROVE AccountsInv'
  BY <1>4 DEF Logout, Start, Call, SeedReads, OnlyWithAccount, User
<1>5. ASSUME NEW c \in Calls, UpdateRoleTeam(c) PROVE AccountsInv'
  <2>1. PICK req \in Requests :
            /\ account # Null
            /\ validRoleTeamPatch(req)
            /\ Start(c, [op |-> "role-team", pair |-> normalizeRoleTeam(req)])
    BY <1>5 DEF UpdateRoleTeam
  <2>2. normalizable(req)
    BY <2>1 DEF validRoleTeamPatch, normalizable
  <2>3. normalizeRoleTeam(req) \in RoleTeam
    BY <2>2, RequestAssumption, NormalizedPair
  <2> QED
    BY <2>1, <2>3 DEF Start, Call, SeedReads, OnlyWithAccount
<1>6. ASSUME NEW c \in Calls, NEW token \in Tokens, Refresh(c, token) PROVE AccountsInv'
  <2>1. accessPayload(account) \in RoleTeam
    BY <1>6, Claims DEF Refresh
  <2> QED
    BY <1>6, <2>1 DEF Refresh, Start, Call, SeedReads, OnlyWithAccount
<1>7. ASSUME NEW c \in Calls, Complete(c) PROVE AccountsInv'
  <2>1. CASE CreateRegistered(c)
    <3>1. Finish(c, "register") /\ create(calls[c].user) /\ UNCHANGED <<access, refreshTtl>>
      BY <2>1 DEF CreateRegistered
    <3>2. calls[c].user \in User
      BY <3>1, Finished DEF Call, Idle
    <3> QED
      BY <3>1, <3>2, Finished, Created, SeedReadsKept, OnlyWithAccountKept DEF OnlyWithAccount
  <2>2. CASE SaveSeeded(c)
    <3>1. Finish(c, "seed") /\ UNCHANGED <<access, refreshTtl>>
      BY <2>2 DEF SaveSeeded
    <3>2. CASE calls[c].found = Null
      <4> DEFINE user == newUser(SeedUser.password, seedPair)
      <4>1. user \in User
        BY SeedAssumption, SeedPair, NewUser
      <4>2. create(user)
        BY <2>2, <3>2 DEF SaveSeeded, seedPair
      <4> QED
        BY <3>1, <4>1, <4>2, Finished, Created, SeedReadsKept, OnlyWithAccountKept
           DEF OnlyWithAccount
    <3>3. CASE calls[c].found # Null
      <4>1. calls[c].found \in User
        BY <3>1, <3>3, Finished DEF Call, Idle
      <4>2. /\ account \in User
            /\ \/ account.role = calls[c].found.role /\ account.team = calls[c].found.team
               \/ account.role = seedPair.role /\ account.team = seedPair.team
        BY <3>1, <3>3, Finished DEF SeedReads
      <4>3. account' = seeded(calls[c].found)
        BY <2>2, <3>3 DEF SaveSeeded
      <4>4. /\ account' \in User
            /\ account'.role = seedPair.role
            /\ account'.team = seedPair.team
        BY <4>1, <4>2, <4>3, SeededPair
      <4>5. account' # Null /\ validatePair(account'.role, account'.team)
        BY <4>4, SeedPair, UserAssumption DEF RoleTeam
      <4> QED
        BY <3>1, <4>4, <4>5, Finished, SeedReadsKept, OnlyWithAccountKept
    <3> QED
      BY <3>2, <3>3
  <2>3. CASE SaveLogin(c)
    <3>1. PICK token \in Tokens :
              /\ Finish(c, "login")
              /\ account' = [account EXCEPT !.refreshTokenHash = token]
              /\ access' = access \cup {sign(calls[c].payload)}
              /\ refreshTtl' = [refreshTtl EXCEPT ![token] = RefreshTTL]
      BY <2>3 DEF SaveLogin
    <3>2. calls[c].payload \in RoleTeam
      BY <3>1, Finished DEF Call, Idle
    <3>3. account \in User
      BY <3>1, Finished DEF OnlyWithAccount
    <3>4. /\ account' \in User
          /\ account'.role = account.role
          /\ account'.team = account.team
      BY <3>1, <3>3 DEF User
    <3>5. refreshTtl' \in [Tokens -> 0 .. RefreshTTL]
      BY <3>1, TTLAssumption
    <3>6. access' \subseteq AccessToken /\ \A t \in access' : validatePair(t.role, t.team)
      BY <3>1, <3>2, Signed
    <3>7. account # Null /\ account' # Null
      BY <3>3, <3>4, UserAssumption
    <3> QED
      BY <3>1, <3>4, <3>5, <3>6, <3>7, Finished, SeedReadsKept, OnlyWithAccountKept
  <2>4. CASE SignRefreshed(c)
    <3>1. /\ Finish(c, "refresh")
          /\ access' = access \cup {sign(calls[c].payload)}
          /\ UNCHANGED <<account, refreshTtl>>
      BY <2>4 DEF SignRefreshed
    <3>2. calls[c].payload \in RoleTeam
      BY <3>1, Finished DEF Call, Idle
    <3>3. access' \subseteq AccessToken /\ \A t \in access' : validatePair(t.role, t.team)
      BY <3>1, <3>2, Signed
    <3>4. account # Null
      BY <3>1, Finished DEF OnlyWithAccount
    <3> QED
      BY <3>1, <3>3, <3>4, Finished, SeedReadsKept, OnlyWithAccountKept
  <2>5. CASE SaveLogout(c)
    <3>1. Finish(c, "logout") /\ UNCHANGED <<access, refreshTtl>>
      BY <2>5 DEF SaveLogout
    <3>2. account \in User
      BY <3>1, Finished DEF OnlyWithAccount
    <3>3. /\ account' \in User
          /\ account'.role = account.role
          /\ account'.team = account.team
      BY <2>5, <3>2 DEF SaveLogout, User
    <3>4. account # Null /\ account' # Null
      BY <3>2, <3>3, UserAssumption
    <3> QED
      BY <3>1, <3>3, <3>4, Finished, SeedReadsKept, OnlyWithAccountKept
  <2>6. CASE SaveRoleTeam(c)
    <3>1. Finish(c, "role-team") /\ UNCHANGED <<access, refreshTtl>>
      BY <2>6 DEF SaveRoleTeam
    <3>2. ~validatePair(roleOfQuery, calls[c].pair.team)
      BY AbsentAssumption DEF validatePair, roleOfQuery, Role
    <3>3. UNCHANGED account
      BY <2>6, <3>2 DEF SaveRoleTeam
    <3> QED
      BY <3>1, <3>3, Finished, SeedReadsKept, OnlyWithAccountKept DEF OnlyWithAccount
  <2> QED
    BY <1>7, <2>1, <2>2, <2>3, <2>4, <2>5, <2>6 DEF Complete
<1>8. ASSUME NEW isActive \in BOOLEAN, UpdateActive(isActive) PROVE AccountsInv'
  <2> DEFINE user == [account EXCEPT !.isActive = isActive]
  <2>1. account \in User /\ account # Null
    BY <1>8 DEF UpdateActive
  <2>2. /\ user \in User
        /\ user.role = account.role
        /\ user.team = account.team
    BY <2>1 DEF User
  <2>3. account' = user /\ UNCHANGED <<calls, access, refreshTtl>>
    BY <1>8 DEF UpdateActive
  <2>4. user # Null
    BY <2>2, UserAssumption
  <2> HIDE DEF user
  <2> QED
    BY <2>1, <2>2, <2>3, <2>4 DEF SeedReads, OnlyWithAccount
<1>9. CASE Tick
  BY <1>9, TTLAssumption DEF Tick, AccessToken, SeedReads, OnlyWithAccount
<1>10. CASE Restart
  BY <1>10 DEF Restart, Call, Idle, SeedReads, OnlyWithAccount
<1>11. CASE UNCHANGED vars
  BY <1>11 DEF vars, SeedReads, OnlyWithAccount
<1> QED
  BY <1>1, <1>2, <1>3, <1>4, <1>5, <1>6, <1>7, <1>8, <1>9, <1>10, <1>11 DEF Next

THEOREM AccountsInvHolds == Spec => []AccountsInv
BY AccountsInit, AccountsInductive, PTL DEF Spec

\* In every interleaving the account and the tokens keep the schema, and their
\* role and team are a pair the rules allow.
THEOREM TypeCorrect == Spec => []TypeOK
BY AccountsInvHolds, PTL DEF AccountsInv

----------------------------------------------------------------------------
\* The user who registers first keeps the account, whatever overlaps.
THEOREM AccountNotReplacedHolds == Spec => AccountNotReplaced
<1> DEFINE Kept == account # Null => account' # Null /\ account'.password = account.password
<1>1. ASSUME AccountsInv, Next PROVE Kept
  <2> SUFFICES ASSUME account # Null
               PROVE  account' # Null /\ account'.password = account.password
    OBVIOUS
  <2>1. account \in User
    BY <1>1 DEF AccountsInv, TypeOK
  <2>2. ASSUME NEW user \in User, account' = user, user.password = account.password
        PROVE  account' # Null /\ account'.password = account.password
    BY <2>2, UserAssumption
  <2>3. ASSUME NEW c \in Calls, Complete(c)
        PROVE  account' # Null /\ account'.password = account.password
    <3>1. CASE CreateRegistered(c)
      BY <3>1 DEF CreateRegistered, create
    <3>2. CASE SaveSeeded(c)
      <4>1. Finish(c, "seed")
        BY <3>2 DEF SaveSeeded
      <4>2. CASE calls[c].found = Null
        BY <3>2, <4>2 DEF SaveSeeded, create
      <4>3. CASE calls[c].found # Null
        <5>1. calls[c].found \in User
          BY <1>1, <4>1, <4>3, Finished DEF Call, Idle, AccountsInv, TypeOK
        <5>2. \/ account.role = calls[c].found.role /\ account.team = calls[c].found.team
              \/ account.role = seedPair.role /\ account.team = seedPair.team
          BY <1>1, <4>1, <4>3, Finished DEF AccountsInv, SeedReads
        <5>3. account' = seeded(calls[c].found)
          BY <3>2, <4>3 DEF SaveSeeded
        <5> QED
          BY <2>1, <2>2, <5>1, <5>2, <5>3, SeededPair
      <4> QED
        BY <4>2, <4>3
    <3>3. CASE SaveLogin(c)
      <4>1. PICK token \in Tokens : account' = [account EXCEPT !.refreshTokenHash = token]
        BY <3>3 DEF SaveLogin
      <4> QED
        BY <2>1, <2>2, <4>1 DEF User
    <3>4. CASE SignRefreshed(c)
      BY <3>4 DEF SignRefreshed
    <3>5. CASE SaveLogout(c)
      <4>1. \/ account' = account
            \/ account' = [account EXCEPT !.refreshTokenHash = Null]
        BY <3>5 DEF SaveLogout
      <4> QED
        BY <2>1, <2>2, <4>1 DEF User
    <3>6. CASE SaveRoleTeam(c)
      <4>1. ~validatePair(roleOfQuery, calls[c].pair.team)
        BY AbsentAssumption DEF validatePair, roleOfQuery, Role
      <4> QED
        BY <3>6, <4>1 DEF SaveRoleTeam
    <3> QED
      BY <2>3, <3>1, <3>2, <3>3, <3>4, <3>5, <3>6 DEF Complete
  <2>4. ASSUME NEW isActive \in BOOLEAN, UpdateActive(isActive)
        PROVE  account' # Null /\ account'.password = account.password
    <3>1. account' = [account EXCEPT !.isActive = isActive]
      BY <2>4 DEF UpdateActive
    <3> QED
      BY <2>1, <2>2, <3>1 DEF User
  <2>5. CASE UNCHANGED account
    BY <2>5
  <2> QED
    BY <1>1, <2>3, <2>4, <2>5
       DEF Next, Register, Seed, Login, Logout, UpdateRoleTeam, Refresh, Start, Tick, Restart
<1>2. AccountsInv /\ [Next]_vars => [Kept]_vars
  BY <1>1
<1> QED
  BY <1>2, AccountsInvHolds, PTL DEF Spec, AccountNotReplaced

----------------------------------------------------------------------------
(* What a logout has ended when it is answered                               *)

\* A logout in flight has been there before, or has just read the account.
LEMMA LogoutReads ==
    ASSUME AccountsInv, Next, NEW c \in Calls, calls'[c].op = "logout"
    PROVE  \/ calls'[c] = calls[c]
           \/ calls'[c].hash = account.refreshTokenHash /\ account' = account
<1>1. ASSUME NEW d \in Calls, NEW request, Start(d, request), request.op # "logout"
      PROVE  calls'[c] = calls[c]
  BY <1>1 DEF Start, AccountsInv, TypeOK
<1>2. ASSUME NEW d \in Calls, Register(d) PROVE calls'[c] = calls[c]
  <2>1. PICK password \in Password, req \in Requests :
            Start(d, [op |-> "register", user |-> newUser(password, normalizeRoleTeam(req))])
    BY <1>2 DEF Register
  <2> QED
    BY <1>1, <2>1
<1>3. ASSUME NEW d \in Calls, Seed(d) \/ Login(d) PROVE calls'[c] = calls[c]
  BY <1>1, <1>3 DEF Seed, Login
<1>4. ASSUME NEW d \in Calls, Logout(d)
      PROVE  \/ calls'[c] = calls[c]
             \/ calls'[c].hash = account.refreshTokenHash /\ account' = account
  BY <1>4 DEF Logout, Start, AccountsInv, TypeOK
<1>5. ASSUME NEW d \in Calls, UpdateRoleTeam(d) PROVE calls'[c] = calls[c]
  <2>1. PICK req \in Requests : Start(d, [op |-> "role-team", pair |-> normalizeRoleTeam(req)])
    BY <1>5 DEF UpdateRoleTeam
  <2> QED
    BY <1>1, <2>1
<1>6. ASSUME NEW d \in Calls, NEW token \in Tokens, Refresh(d, token) PROVE calls'[c] = calls[c]
  BY <1>1, <1>6 DEF Refresh
<1>7. ASSUME NEW d \in Calls, Complete(d) PROVE calls'[c] = calls[c]
  <2>1. \E op : Finish(d, op)
    BY <1>7 DEF Complete, CreateRegistered, SaveSeeded, SaveLogin, SignRefreshed, SaveLogout,
                SaveRoleTeam
  <2>2. calls' = [calls EXCEPT ![d] = Idle]
    BY <2>1 DEF Finish
  <2> QED
    BY <2>2 DEF AccountsInv, TypeOK, Idle
<1>8. CASE UNCHANGED calls
  BY <1>8
<1>9. CASE Restart
  BY <1>9 DEF Restart, Idle
<1> QED
  BY <1>2, <1>3, <1>4, <1>5, <1>6, <1>7, <1>8, <1>9 DEF Next, UpdateActive, Tick

\* Only a login opens a session.
LEMMA OnlyLoginsOpen ==
    ASSUME AccountsInv, Next, account # Null, ~LoginSaved
    PROVE  account'.refreshTokenHash \in {Null, account.refreshTokenHash}
<1>1. account \in User
  BY DEF AccountsInv, TypeOK
<1>2. ASSUME NEW c \in Calls, Complete(c)
      PROVE  account'.refreshTokenHash \in {Null, account.refreshTokenHash}
  <2>1. CASE CreateRegistered(c)
    BY <2>1 DEF CreateRegistered, create
  <2>2. CASE SaveSeeded(c)
    BY <1>1, <2>2 DEF SaveSeeded, create, seeded, User
  <2>3. CASE SaveLogin(c)
    BY <2>3 DEF LoginSaved
  <2>4. CASE SignRefreshed(c)
    BY <2>4 DEF SignRefreshed
  <2>5. CASE SaveLogout(c)
    BY <1>1, <2>5 DEF SaveLogout, User
  <2>6. CASE SaveRoleTeam(c)
    BY <1>1, <2>6 DEF SaveRoleTeam, User
  <2> QED
    BY <1>2, <2>1, <2>2, <2>3, <2>4, <2>5, <2>6 DEF Complete
<1>3. ASSUME NEW isActive \in BOOLEAN, UpdateActive(isActive)
      PROVE  account'.refreshTokenHash \in {Null, account.refreshTokenHash}
  BY <1>1, <1>3 DEF UpdateActive, User
<1>4. CASE UNCHANGED account
  BY <1>4
<1> QED
  BY <1>2, <1>3, <1>4
     DEF Next, Register, Seed, Login, Logout, UpdateRoleTeam, Refresh, Start, Tick, Restart

\* A session open beside a logout that has read none was opened since.
OpenedSince ==
    \A c \in Calls : calls[c].op = "logout" /\ calls[c].hash = Null =>
        account.refreshTokenHash \in {Null} \cup opened[c]

LEMMA OpenedSinceInductive ==
    ASSUME AccountsInv, OpenedSince, [HNext]_hvars
    PROVE  OpenedSince'
<1>1. CASE HNext
  <2> SUFFICES ASSUME NEW c \in Calls, calls'[c].op = "logout", calls'[c].hash = Null
               PROVE  account'.refreshTokenHash \in {Null} \cup opened'[c]
    BY DEF OpenedSince
  <2>1. Next /\ RecordLogins
    BY <1>1 DEF HNext
  <2>2. opened'[c] = opened[c] \cup (IF LoginSaved THEN {account'.refreshTokenHash} ELSE {})
    BY <2>1 DEF RecordLogins
  <2>3. CASE LoginSaved
    BY <2>2, <2>3
  <2>4. CASE ~LoginSaved
    <3>1. CASE calls'[c] = calls[c]
      <4>1. account # Null /\ account.refreshTokenHash \in {Null} \cup opened[c]
        BY <3>1 DEF OpenedSince, AccountsInv, OnlyWithAccount
      <4> QED
        BY <2>1, <2>2, <2>4, <4>1, OnlyLoginsOpen
    <3>2. CASE calls'[c].hash = account.refreshTokenHash /\ account' = account
      BY <3>2
    <3> QED
      BY <2>1, <3>1, <3>2, LogoutReads
  <2> QED
    BY <2>3, <2>4
<1>2. CASE UNCHANGED hvars
  BY <1>2 DEF hvars, OpenedSince
<1> QED
  BY <1>1, <1>2

\* The history variable adds no behaviour.
LEMMA HistoryOnlyWatches == HSpec => Spec
<1>1. HInit => Init
  BY DEF HInit
<1>2. [HNext]_hvars => [Next]_vars
  BY DEF HNext, hvars, vars
<1> QED
  BY <1>1, <1>2, PTL DEF HSpec, Spec

\* Whatever overlaps with it, a logout leaves no session open that was open when it
\* read the account, or had been opened before.
THEOREM LogoutEndsEarlierSessionsHolds == HSpec => LogoutEndsEarlierSessions
<1>1. HInit => OpenedSince
  BY DEF HInit, Init, OpenedSince, Idle
<1>2. AccountsInv /\ OpenedSince /\ [HNext]_hvars => OpenedSince'
  BY OpenedSinceInductive
<1>3. ASSUME AccountsInv, OpenedSince, NEW c \in Calls, SaveLogout(c)
      PROVE  account'.refreshTokenHash \in {Null} \cup opened[c]
  <2>1. account \in User /\ calls[c].op = "logout"
    BY <1>3, Finished DEF SaveLogout, AccountsInv, TypeOK, OnlyWithAccount, Finish
  <2>2. CASE calls[c].hash = Null
    BY <1>3, <2>1, <2>2 DEF SaveLogout, OpenedSince
  <2>3. CASE calls[c].hash # Null
    BY <1>3, <2>1, <2>3 DEF SaveLogout, User
  <2> QED
    BY <2>2, <2>3
<1>4. AccountsInv /\ OpenedSince /\ [HNext]_hvars =>
        [\A c \in Calls : SaveLogout(c) => account'.refreshTokenHash \in {Null} \cup opened[c]]_hvars
  BY <1>3
<1> QED
  BY <1>1, <1>2, <1>4, HistoryOnlyWatches, AccountsInvHolds, PTL
     DEF HSpec, LogoutEndsEarlierSessions

----------------------------------------------------------------------------
\* Time passing issues no token.
LEMMA AgedOnly ==
    ASSUME AccountsInv, access' = access \/ Tick
    PROVE  NoneIssued
<1>1. access \subseteq AccessToken
  BY DEF AccountsInv, TypeOK
<1>2. CASE access' = access
  BY <1>1, <1>2 DEF NoneIssued, AccessToken
<1>3. CASE Tick
  <2> SUFFICES ASSUME NEW t \in access'
               PROVE  \E u \in access : t.role = u.role /\ t.team = u.team /\ t.ttl <= u.ttl
    BY DEF NoneIssued
  <2>1. PICK u \in access : t = [u EXCEPT !.ttl = @ - 1]
    BY <1>3 DEF Tick
  <2>2. u \in AccessToken
    BY <1>1
  <2>3. t.role = u.role /\ t.team = u.team /\ t.ttl = u.ttl - 1 /\ u.ttl \in Nat
    BY <2>1, <2>2, TTLAssumption DEF AccessToken
  <2> QED
    BY <2>3
<1> QED
  BY <1>2, <1>3

\* A request of another kind starts.
LEMMA OtherStarted ==
    ASSUME AccountsInv, NEW ops, ~InFlight(ops),
           NEW c \in Calls, NEW request, request.op \notin ops, Start(c, request)
    PROVE  ~InFlight(ops)' /\ NoneIssued
<1>1. calls' = [calls EXCEPT ![c] = request] /\ calls \in [Calls -> Call]
  BY DEF Start, AccountsInv, TypeOK
<1>2. ~InFlight(ops)'
  BY <1>1 DEF InFlight
<1> QED
  BY <1>2, AgedOnly DEF Start

\* A request completes that issues no token.
LEMMA OtherFinished ==
    ASSUME AccountsInv, NEW ops, "idle" \notin ops, ~InFlight(ops),
           NEW c \in Calls, NEW op, Finish(c, op), access' = access
    PROVE  ~InFlight(ops)' /\ NoneIssued
BY AgedOnly, Finished DEF InFlight, Idle

\* Every step but the start of a login or a refresh, and the end of one, keeps
\* such requests from appearing and issues no token.
LEMMA OtherSteps ==
    ASSUME AccountsInv, Next, NEW ops, ops \subseteq {"login", "refresh"}, ~InFlight(ops),
           \A c \in Calls : ~SaveLogin(c) /\ ~SignRefreshed(c),
           \A c \in Calls : Login(c) => "login" \notin ops,
           \A c \in Calls, token \in Tokens : Refresh(c, token) => "refresh" \notin ops
    PROVE  ~InFlight(ops)' /\ NoneIssued
<1>1. ASSUME NEW c \in Calls, Register(c) PROVE ~InFlight(ops)' /\ NoneIssued
  <2>1. PICK password \in Password, req \in Requests :
            Start(c, [op |-> "register", user |-> newUser(password, normalizeRoleTeam(req))])
    BY <1>1 DEF Register
  <2> QED
    BY <2>1, OtherStarted
<1>2. ASSUME NEW c \in Calls, Seed(c) PROVE ~InFlight(ops)' /\ NoneIssued
  BY <1>2, OtherStarted DEF Seed
<1>3. ASSUME NEW c \in Calls, Login(c) PROVE ~InFlight(ops)' /\ NoneIssued
  <2>1. [op |-> "login", payload |-> accessPayload(account)].op \notin ops
    BY <1>3
  <2> QED
    BY <1>3, <2>1, OtherStarted DEF Login
<1>4. ASSUME NEW c \in Calls, Logout(c) PROVE ~InFlight(ops)' /\ NoneIssued
  BY <1>4, OtherStarted DEF Logout
<1>5. ASSUME NEW c \in Calls, UpdateRoleTeam(c) PROVE ~InFlight(ops)' /\ NoneIssued
  <2>1. PICK req \in Requests : Start(c, [op |-> "role-team", pair |-> normalizeRoleTeam(req)])
    BY <1>5 DEF UpdateRoleTeam
  <2> QED
    BY <2>1, OtherStarted
<1>6. ASSUME NEW c \in Calls, NEW token \in Tokens, Refresh(c, token)
      PROVE  ~InFlight(ops)' /\ NoneIssued
  <2>1. [op |-> "refresh", payload |-> accessPayload(account)].op \notin ops
    BY <1>6
  <2> QED
    BY <1>6, <2>1, OtherStarted DEF Refresh
<1>7. ASSUME NEW c \in Calls, Complete(c) PROVE ~InFlight(ops)' /\ NoneIssued
  <2>1. "idle" \notin ops
    OBVIOUS
  <2> QED
    BY <1>7, <2>1, OtherFinished DEF Complete, CreateRegistered, SaveSeeded, SaveLogout, SaveRoleTeam
<1>8. ASSUME NEW isActive \in BOOLEAN, UpdateActive(isActive)
      PROVE  ~InFlight(ops)' /\ NoneIssued
  BY <1>8, AgedOnly DEF UpdateActive, InFlight
<1>9. CASE Tick
  BY <1>9, AgedOnly DEF Tick, InFlight
<1>10. CASE Restart
  BY <1>10, AgedOnly DEF Restart, InFlight, Idle
<1> QED
  BY <1>1, <1>2, <1>3, <1>4, <1>5, <1>6, <1>7, <1>8, <1>9, <1>10 DEF Next

\* While an account is deactivated no token is issued but by requests that had
\* passed the check of isActive before.
THEOREM DeactivationTakesEffectHolds == Spec => DeactivationTakesEffect
<1> DEFINE ops == {"login", "refresh"}
<1>1. ASSUME AccountsInv, Next, Deactivated, ~InFlight(ops)
      PROVE  ~InFlight(ops)' /\ NoneIssued
  <2>1. \A c \in Calls : ~SaveLogin(c) /\ ~SignRefreshed(c)
    BY <1>1 DEF SaveLogin, SignRefreshed, Finish, InFlight
  <2>2. \A c \in Calls : ~Login(c)
    BY <1>1 DEF Login, Deactivated
  <2>3. \A c \in Calls, token \in Tokens : ~Refresh(c, token)
    BY <1>1 DEF Refresh, Deactivated
  <2> HIDE DEF ops
  <2>4. ops \subseteq {"login", "refresh"}
    BY DEF ops
  <2> QED
    BY <1>1, <2>1, <2>2, <2>3, <2>4, OtherSteps
<1>2. AccountsInv /\ [Next]_vars =>
        [Deactivated /\ ~InFlight({"login", "refresh"}) /\ Deactivated'
            => ~InFlight({"login", "refresh"})' /\ NoneIssued]_vars
  BY <1>1
<1> QED
  BY <1>2, AccountsInvHolds, PTL DEF Spec, DeactivationTakesEffect

\* While an account is logged out no token is issued but by refreshes that had
\* compared their token with the stored hash before.
THEOREM LogoutTakesEffectHolds == Spec => LogoutTakesEffect
<1> DEFINE ops == {"refresh"}
<1>1. ASSUME AccountsInv, Next, LoggedOut, LoggedOut', ~InFlight(ops)
      PROVE  ~InFlight(ops)' /\ NoneIssued
  <2>1. \A c \in Calls : ~SignRefreshed(c)
    BY <1>1 DEF SignRefreshed, Finish, InFlight
  <2>2. ASSUME NEW c \in Calls, SaveLogin(c) PROVE FALSE
    <3>1. account \in User
      BY <1>1 DEF LoggedOut, AccountsInv, TypeOK
    <3>2. PICK token \in Tokens : account' = [account EXCEPT !.refreshTokenHash = token]
      BY <2>2 DEF SaveLogin
    <3>3. account'.refreshTokenHash = token
      BY <3>1, <3>2 DEF User
    <3> QED
      BY <1>1, <3>3, NullAssumption DEF LoggedOut
  <2>3. \A c \in Calls, token \in Tokens : ~Refresh(c, token)
    BY <1>1 DEF Refresh, compareRefreshToken, LoggedOut
  <2>4. ops \subseteq {"login", "refresh"} /\ "login" \notin ops
    OBVIOUS
  <2> HIDE DEF ops
  <2> QED
    BY <1>1, <2>1, <2>2, <2>3, <2>4, OtherSteps
<1>2. AccountsInv /\ [Next]_vars =>
        [LoggedOut /\ ~InFlight({"refresh"}) /\ LoggedOut'
            => ~InFlight({"refresh"})' /\ NoneIssued]_vars
  BY <1>1
<1> QED
  BY <1>2, AccountsInvHolds, PTL DEF Spec, LogoutTakesEffect

\* No refresh token is good any more, and no login or refresh is in flight.
SessionOver == (\A t \in Tokens : refreshTtl[t] = 0) /\ ~InFlight({"login", "refresh"})

\* What SessionsEnd rests on. Once the refresh tokens have expired, whichever of them the
\* stored hash stands for, no access token is issued and none but a login changes that.
SessionStaysOver ==
    [][SessionOver => NoneIssued /\ (SessionOver' \/ \E c \in Calls : Login(c))]_vars

\* A session that is over stays over until the next login.
THEOREM SessionStaysOverHolds == Spec => SessionStaysOver
<1> DEFINE both == {"login", "refresh"}
           one == {"refresh"}
<1>1. ASSUME AccountsInv, Next, SessionOver
      PROVE  NoneIssued /\ (SessionOver' \/ \E c \in Calls : Login(c))
  <2>1. \A c \in Calls : ~SaveLogin(c) /\ ~SignRefreshed(c)
    BY <1>1 DEF SaveLogin, SignRefreshed, Finish, InFlight, SessionOver
  <2>2. \A c \in Calls, token \in Tokens : ~Refresh(c, token)
    BY <1>1 DEF Refresh, SessionOver
  <2>3. ~InFlight(both) /\ ~InFlight(one)
    BY <1>1 DEF SessionOver, InFlight
  <2>4. both \subseteq {"login", "refresh"} /\ one \subseteq {"login", "refresh"}
    OBVIOUS
  <2>5. "login" \notin one
    OBVIOUS
  <2>6. \A t \in Tokens : refreshTtl'[t] = 0
    <3>1. CASE Tick
      BY <1>1, <3>1 DEF Tick, SessionOver
    <3>2. CASE ~Tick
      <4>1. UNCHANGED refreshTtl
        BY <1>1, <2>1, <3>2
           DEF Next, Register, Seed, Login, Logout, UpdateRoleTeam, Refresh, Start, Complete,
               CreateRegistered, SaveSeeded, SaveLogout, SaveRoleTeam, UpdateActive, Restart
      <4> QED
        BY <1>1, <4>1 DEF SessionOver
    <3> QED
      BY <3>1, <3>2
  <2> HIDE DEF both, one
  <2>7. NoneIssued
    BY <1>1, <2>1, <2>2, <2>3, <2>4, <2>5, OtherSteps
  <2>8. CASE \A c \in Calls : ~Login(c)
    <3>1. ~InFlight(both)'
      BY <1>1, <2>1, <2>2, <2>3, <2>4, <2>8, OtherSteps
    <3>2. ~InFlight({"login", "refresh"})'
      BY <3>1 DEF both, InFlight
    <3> QED
      BY <2>6, <2>7, <3>2 DEF SessionOver
  <2> QED
    BY <2>7, <2>8
<1>2. AccountsInv /\ [Next]_vars =>
        [SessionOver => NoneIssued /\ (SessionOver' \/ \E c \in Calls : Login(c))]_vars
  BY <1>1
<1> QED
  BY <1>2, AccountsInvHolds, PTL DEF Spec, SessionStaysOver

----------------------------------------------------------------------------
(* The account implements Sessions                                           *)

PendingOp == {"login", "refresh"}

LEMMA SessionInit == Init => Session!Init
BY DEF Init, Idle, Session!Init, sessionProfile, sessionPending, sessionAccess

LEMMA ProfileType ==
    ASSUME AccountsInv, account # Null
    PROVE  sessionProfile \in Session!Profile
BY Claims DEF AccountsInv, TypeOK, sessionProfile, Session!Profile, User

\* The profile changes only with the role, the team or the flag.
LEMMA ProfileKept ==
    ASSUME account # Null, account' # Null,
           account'.role = account.role, account'.team = account.team,
           account'.isActive = account.isActive
    PROVE  UNCHANGED sessionProfile
BY DEF sessionProfile, accessPayload

\* What a slot contributes.
pendingOf(request) == IF request.op \in PendingOp THEN request.payload ELSE Null

LEMMA PendingOf == sessionPending = [c \in Calls |-> pendingOf(calls[c])]
BY DEF sessionPending, pendingOf, PendingOp

LEMMA SlotChanged ==
    ASSUME AccountsInv, NEW c \in Calls, NEW request, calls' = [calls EXCEPT ![c] = request]
    PROVE  sessionPending' = [sessionPending EXCEPT ![c] = pendingOf(request)]
<1>1. calls \in [Calls -> Call]
  BY DEF AccountsInv, TypeOK
<1>2. sessionPending' = [d \in Calls |-> pendingOf(calls'[d])]
  BY DEF sessionPending, pendingOf, PendingOp
<1>3. \A d \in Calls : calls'[d] = IF d = c THEN request ELSE calls[d]
  BY <1>1
<1> QED
  BY <1>2, <1>3, PendingOf

\* A request of another kind starts or ends.
LEMMA PendingKept ==
    ASSUME AccountsInv, NEW c \in Calls, NEW request, calls' = [calls EXCEPT ![c] = request],
           calls[c].op \notin PendingOp, request.op \notin PendingOp
    PROVE  UNCHANGED sessionPending
<1>1. sessionPending' = [sessionPending EXCEPT ![c] = pendingOf(request)]
  BY SlotChanged
<1>2. pendingOf(request) = Null /\ sessionPending[c] = Null
  BY PendingOf DEF pendingOf
<1> QED
  BY <1>1, <1>2, PendingOf

LEMMA OtherStart ==
    ASSUME AccountsInv, NEW c \in Calls, NEW request, Start(c, request),
           request.op \notin PendingOp
    PROVE  UNCHANGED <<sessionProfile, sessionPending, sessionAccess>>
<1>1. calls' = [calls EXCEPT ![c] = request] /\ calls[c].op \notin PendingOp
  BY DEF Start, Idle, PendingOp
<1>2. UNCHANGED sessionPending
  BY <1>1, PendingKept
<1> QED
  BY <1>2 DEF Start, sessionProfile, sessionAccess

\* A login or a refresh that has passed its checks.
LEMMA SessionStart ==
    ASSUME AccountsInv, NEW c \in Calls, NEW op \in PendingOp,
           account # Null, account.isActive,
           Start(c, [op |-> op, payload |-> accessPayload(account)])
    PROVE  Session!Start(c)
<1> DEFINE request == [op |-> op, payload |-> accessPayload(account)]
<1>1. sessionProfile \in Session!Profile
  BY ProfileType
<1>2. sessionProfile # Null
  BY <1>1, PairAssumption DEF Session!Profile
<1>3. sessionProfile.isActive /\ sessionProfile.claims = accessPayload(account)
  BY DEF sessionProfile
<1>4. sessionPending[c] = Null
  BY PendingOf DEF pendingOf, Start, Idle, PendingOp
<1>5. pendingOf(request) = accessPayload(account)
  BY DEF pendingOf
<1>6. calls' = [calls EXCEPT ![c] = request]
  BY DEF Start
<1> HIDE DEF request
<1>7. sessionPending' = [sessionPending EXCEPT ![c] = accessPayload(account)]
  BY <1>5, <1>6, SlotChanged
<1>8. UNCHANGED <<sessionProfile, sessionAccess>>
  BY DEF Start, sessionProfile, sessionAccess
<1> QED
  BY <1>2, <1>3, <1>4, <1>7, <1>8 DEF Session!Start

\* It ends with a token.
LEMMA SessionSign ==
    ASSUME AccountsInv, NEW c \in Calls, NEW op \in PendingOp, Finish(c, op),
           access' = access \cup {sign(calls[c].payload)},
           UNCHANGED sessionProfile
    PROVE  Session!Sign(c)
<1>1. calls[c].op = op /\ calls[c] \in Call
  BY DEF Finish, AccountsInv, TypeOK
<1>2. calls[c].payload \in RoleTeam
  BY <1>1 DEF Call, Idle, PendingOp
<1>3. sessionPending[c] = calls[c].payload
  BY <1>1, PendingOf DEF pendingOf
<1>4. sessionPending' = [sessionPending EXCEPT ![c] = Null]
  <2>1. pendingOf(Idle) = Null
    BY DEF pendingOf, Idle, PendingOp
  <2> QED
    BY <2>1, SlotChanged DEF Finish
<1>5. accessPayload(calls[c].payload) = calls[c].payload
  BY <1>2 DEF accessPayload, RoleTeam
<1>6. /\ accessPayload(sign(calls[c].payload)) = calls[c].payload
      /\ sign(calls[c].payload).ttl = AccessTTL
  BY <1>5 DEF accessPayload, sign
<1>7. sessionAccess' = sessionAccess \cup {Session!token(sessionPending[c])}
  BY <1>3, <1>6 DEF sessionAccess, Session!token
<1> QED
  BY <1>2, <1>3, <1>4, <1>7, PairAssumption DEF Session!Sign

\* The document is created or changed, while no login or refresh ends.
LEMMA SessionChange ==
    ASSUME AccountsInv, AccountsInv', account # Null => account' # Null,
           UNCHANGED <<sessionPending, sessionAccess>>
    PROVE  [Session!Next]_(Session!svars)
<1>1. CASE account' = Null
  BY <1>1 DEF sessionProfile, Session!svars
<1>2. CASE account' # Null
  <2>1. sessionProfile' \in Session!Profile
    <3>1. account' \in User /\ validatePair(account'.role, account'.team)
      BY <1>2 DEF AccountsInv, TypeOK
    <3>2. accessPayload(account') \in RoleTeam /\ account'.isActive \in BOOLEAN
      BY <3>1, Claims DEF User
    <3> QED
      BY <1>2, <3>2 DEF sessionProfile, Session!Profile
  <2> QED
    BY <2>1 DEF Session!Change, Session!Next
<1> QED
  BY <1>1, <1>2

LEMMA OtherFinish ==
    ASSUME AccountsInv, NEW c \in Calls, NEW op, op \notin PendingOp, Finish(c, op)
    PROVE  UNCHANGED sessionPending
<1>1. calls' = [calls EXCEPT ![c] = Idle] /\ calls[c].op \notin PendingOp
  BY DEF Finish
<1>2. Idle.op \notin PendingOp
  BY DEF Idle, PendingOp
<1> QED
  BY <1>1, <1>2, PendingKept

LEMMA SessionCompletes ==
    ASSUME AccountsInv, AccountsInv', NEW c \in Calls, Complete(c)
    PROVE  [Session!Next]_(Session!svars)
<1>1. CASE CreateRegistered(c)
  <2>1. UNCHANGED sessionPending
    BY <1>1, OtherFinish DEF CreateRegistered, PendingOp
  <2>2. UNCHANGED sessionAccess /\ (account # Null => account' # Null)
    BY <1>1 DEF CreateRegistered, create, sessionAccess
  <2> QED
    BY <2>1, <2>2, SessionChange
<1>2. CASE SaveSeeded(c)
  <2>1. UNCHANGED sessionPending
    BY <1>2, OtherFinish DEF SaveSeeded, PendingOp
  <2>2. UNCHANGED sessionAccess
    BY <1>2 DEF SaveSeeded, sessionAccess
  <2>3. account # Null => account' # Null
    <3>1. CASE calls[c].found = Null
      BY <1>2, <3>1 DEF SaveSeeded, create
    <3>2. CASE calls[c].found # Null
      <4>0. Finish(c, "seed")
        BY <1>2 DEF SaveSeeded
      <4>1. calls[c].op = "seed" /\ calls[c].found \in User
        BY <3>2, <4>0, Finished DEF AccountsInv, TypeOK, Call, Idle
      <4>2. /\ account \in User
            /\ \/ account.role = calls[c].found.role /\ account.team = calls[c].found.team
               \/ account.role = seedPair.role /\ account.team = seedPair.team
        BY <3>2, <4>1 DEF AccountsInv, TypeOK, SeedReads
      <4>3. account' = seeded(calls[c].found)
        BY <1>2, <3>2 DEF SaveSeeded
      <4> QED
        BY <4>1, <4>2, <4>3, SeededPair, UserAssumption
    <3> QED
      BY <3>1, <3>2
  <2> QED
    BY <2>1, <2>2, <2>3, SessionChange
<1>3. CASE SaveLogin(c)
  <2>1. PICK token \in Tokens :
            /\ Finish(c, "login")
            /\ account' = [account EXCEPT !.refreshTokenHash = token]
            /\ access' = access \cup {sign(calls[c].payload)}
    BY <1>3 DEF SaveLogin
  <2>2. account \in User
    BY <2>1, Finished DEF AccountsInv, TypeOK, OnlyWithAccount
  <2>3. /\ account' \in User
        /\ account'.role = account.role
        /\ account'.team = account.team
        /\ account'.isActive = account.isActive
    BY <2>1, <2>2 DEF User
  <2>4. UNCHANGED sessionProfile
    BY <2>2, <2>3, UserAssumption, ProfileKept
  <2>5. Session!Sign(c)
    BY <2>1, <2>4, SessionSign DEF PendingOp
  <2> QED
    BY <2>5 DEF Session!Next
<1>4. CASE SignRefreshed(c)
  <2>1. /\ Finish(c, "refresh")
        /\ access' = access \cup {sign(calls[c].payload)}
        /\ UNCHANGED account
    BY <1>4 DEF SignRefreshed
  <2>2. UNCHANGED sessionProfile
    BY <2>1 DEF sessionProfile
  <2>3. Session!Sign(c)
    BY <2>1, <2>2, SessionSign DEF PendingOp
  <2> QED
    BY <2>3 DEF Session!Next
<1>5. CASE SaveLogout(c)
  <2>1. UNCHANGED sessionPending /\ UNCHANGED sessionAccess
    BY <1>5, OtherFinish DEF SaveLogout, PendingOp, sessionAccess
  <2>2. account \in User
    BY <1>5, Finished DEF SaveLogout, AccountsInv, TypeOK, OnlyWithAccount
  <2>3. account' \in User
    BY <1>5, <2>2 DEF SaveLogout, User
  <2> QED
    BY <2>1, <2>2, <2>3, UserAssumption, SessionChange
<1>6. CASE SaveRoleTeam(c)
  <2>1. UNCHANGED sessionPending
    BY <1>6, OtherFinish DEF SaveRoleTeam, PendingOp
  <2>2. ~validatePair(roleOfQuery, calls[c].pair.team)
    BY AbsentAssumption DEF validatePair, roleOfQuery, Role
  <2>3. UNCHANGED sessionAccess /\ UNCHANGED account
    BY <1>6, <2>2 DEF SaveRoleTeam, sessionAccess
  <2> QED
    BY <2>1, <2>3, SessionChange
<1> QED
  BY <1>1, <1>2, <1>3, <1>4, <1>5, <1>6 DEF Complete

LEMMA SessionTick ==
    ASSUME AccountsInv, Tick
    PROVE  [Session!Next]_(Session!svars)
<1>1. UNCHANGED <<sessionProfile, sessionPending>>
  BY DEF Tick, sessionProfile, sessionPending
<1>2. access \subseteq AccessToken
  BY DEF AccountsInv, TypeOK
<1>3. access' = {[t EXCEPT !.ttl = @ - 1] : t \in {u \in access : u.ttl > 1}}
  BY DEF Tick
<1>4. CASE sessionAccess = {}
  <2>1. access = {}
    BY <1>4 DEF sessionAccess
  <2>2. access' = {}
    BY <1>3, <2>1
  <2> QED
    BY <1>1, <2>1, <2>2 DEF sessionAccess, Session!svars
<1>5. CASE sessionAccess # {}
  <2> DEFINE of(t) == [claims |-> accessPayload(t), ttl |-> t.ttl]
             aged(u) == [u EXCEPT !.ttl = @ - 1]
  <2>1. sessionAccess = {of(t) : t \in access} /\ sessionAccess' = {of(t) : t \in access'}
    BY DEF sessionAccess, accessPayload
  <2>2. ASSUME NEW t \in access PROVE of(aged(t)) = aged(of(t)) /\ of(t).ttl = t.ttl
    BY <1>2, <2>2 DEF AccessToken, accessPayload
  <2>3. access' = {aged(t) : t \in {u \in access : u.ttl > 1}}
    BY <1>3
  <2> HIDE DEF of, aged
  <2>4. sessionAccess' = {aged(u) : u \in {w \in sessionAccess : w.ttl > 1}}
    <3>1. ASSUME NEW x \in sessionAccess'
          PROVE  x \in {aged(u) : u \in {w \in sessionAccess : w.ttl > 1}}
      <4>1. PICK t \in access : t.ttl > 1 /\ x = of(aged(t))
        BY <2>1, <2>3, <3>1
      <4> QED
        BY <2>1, <2>2, <4>1
    <3>2. ASSUME NEW u \in sessionAccess, u.ttl > 1 PROVE aged(u) \in sessionAccess'
      <4>1. PICK t \in access : u = of(t)
        BY <2>1, <3>2
      <4>2. t.ttl > 1 /\ aged(u) = of(aged(t))
        BY <2>2, <3>2, <4>1
      <4> QED
        BY <2>1, <2>3, <4>2
    <3> QED
      BY <3>1, <3>2
  <2> QED
    BY <1>1, <1>5, <2>4 DEF Session!Tick, Session!Next, aged
<1> QED
  BY <1>4, <1>5

\* One step of Sessions, or none.
Step == [Session!Next]_(Session!svars)

LEMMA SessionStep ==
    ASSUME AccountsInv, AccountsInv', [Next]_vars
    PROVE  Step
<1>1. ASSUME UNCHANGED <<sessionProfile, sessionPending, sessionAccess>> PROVE Step
  BY <1>1 DEF Step, Session!svars
<1>2. ASSUME NEW c \in Calls, Session!Start(c) PROVE Step
  BY <1>2 DEF Step, Session!Next
<1>3. ASSUME NEW c \in Calls, Register(c) PROVE Step
  <2>1. PICK password \in Password, req \in Requests :
            Start(c, [op |-> "register", user |-> newUser(password, normalizeRoleTeam(req))])
    BY <1>3 DEF Register
  <2> QED
    BY <1>1, <2>1, OtherStart DEF PendingOp
<1>4. ASSUME NEW c \in Calls, Seed(c) PROVE Step
  BY <1>1, <1>4, OtherStart DEF Seed, PendingOp
<1>5. ASSUME NEW c \in Calls, Login(c) PROVE Step
  BY <1>2, <1>5, SessionStart DEF Login, PendingOp
<1>6. ASSUME NEW c \in Calls, Logout(c) PROVE Step
  BY <1>1, <1>6, OtherStart DEF Logout, PendingOp
<1>7. ASSUME NEW c \in Calls, UpdateRoleTeam(c) PROVE Step
  <2>1. PICK req \in Requests : Start(c, [op |-> "role-team", pair |-> normalizeRoleTeam(req)])
    BY <1>7 DEF UpdateRoleTeam
  <2> QED
    BY <1>1, <2>1, OtherStart DEF PendingOp
<1>8. ASSUME NEW c \in Calls, NEW token \in Tokens, Refresh(c, token) PROVE Step
  BY <1>2, <1>8, SessionStart DEF Refresh, PendingOp
<1>9. ASSUME NEW c \in Calls, Complete(c) PROVE Step
  BY <1>9, SessionCompletes DEF Step
<1>10. ASSUME NEW isActive \in BOOLEAN, UpdateActive(isActive) PROVE Step
  <2>1. account \in User /\ account' = [account EXCEPT !.isActive = isActive]
    BY <1>10 DEF UpdateActive, AccountsInv, TypeOK
  <2>2. account' # Null
    BY <2>1, UserAssumption DEF User
  <2>3. UNCHANGED <<sessionPending, sessionAccess>>
    BY <1>10 DEF UpdateActive, sessionPending, sessionAccess
  <2> QED
    BY <2>2, <2>3, SessionChange DEF Step
<1>11. CASE Tick
  BY <1>11, SessionTick DEF Step
<1>12. CASE Restart
  <2>1. sessionPending' = [c \in Calls |-> Null]
    BY <1>12 DEF Restart, Idle, sessionPending
  <2>2. UNCHANGED <<sessionProfile, sessionAccess>>
    BY <1>12 DEF Restart, sessionProfile, sessionAccess
  <2> QED
    BY <2>1, <2>2 DEF Step, Session!Drop, Session!Next
<1>13. CASE UNCHANGED vars
  <2>1. UNCHANGED account /\ UNCHANGED calls /\ UNCHANGED access
    BY <1>13 DEF vars
  <2> QED
    BY <1>1, <2>1 DEF sessionProfile, sessionPending, sessionAccess
<1> QED
  BY <1>3, <1>4, <1>5, <1>6, <1>7, <1>8, <1>9, <1>10, <1>11, <1>12, <1>13 DEF Next

\* Every interleaving of the handlers is one of Sessions, which is all that the other
\* services rely on.
THEOREM ImplementsSessionsHolds == Spec => ImplementsSessions
<1>1. Init => Session!Init
  BY SessionInit
<1>2. AccountsInv /\ AccountsInv' /\ [Next]_vars => [Session!Next]_(Session!svars)
  BY SessionStep DEF Step
<1> QED
  BY <1>1, <1>2, AccountsInvHolds, PTL DEF Spec, ImplementsSessions, Session!Spec
=============================================================================
