------------------------------ MODULE Sessions ------------------------------
(***************************************************************************)
(* What the other services may rely on of an account of the auth service: a  *)
(* profile, and access tokens that carry the role and team the profile had   *)
(* while it was active, each for one lifetime. Nothing is said of passwords, *)
(* refresh tokens, or which request does what.                               *)
(***************************************************************************)
EXTENDS Naturals

CONSTANTS
    Calls,       \* slots for the logins and refreshes in flight
    Claims,      \* the pairs of role and team an account may have
    AccessTTL,   \* the lifetime of an access token, in ticks
    NoClaims     \* no profile, or nothing in flight

VARIABLES
    profile,   \* NoClaims until there is an account
    pending,   \* the claims of the logins and refreshes that have passed their checks
    access     \* the access tokens that have not expired

svars == <<profile, pending, access>>

Profile == [claims : Claims, isActive : BOOLEAN]

token(claims) == [claims |-> claims, ttl |-> AccessTTL]

Init ==
    /\ profile = NoClaims
    /\ pending = [c \in Calls |-> NoClaims]
    /\ access = {}

\* The account is created, or its profile changes. It never goes away.
Change ==
    /\ profile' \in Profile
    /\ UNCHANGED <<pending, access>>

\* A login or a refresh passes its checks.
Start(c) ==
    /\ pending[c] = NoClaims
    /\ profile # NoClaims
    /\ profile.isActive
    /\ pending' = [pending EXCEPT ![c] = profile.claims]
    /\ UNCHANGED <<profile, access>>

\* It ends with a token.
Sign(c) ==
    /\ pending[c] # NoClaims
    /\ access' = access \cup {token(pending[c])}
    /\ pending' = [pending EXCEPT ![c] = NoClaims]
    /\ UNCHANGED profile

\* The auth service restarts.
Drop ==
    /\ pending' = [c \in Calls |-> NoClaims]
    /\ UNCHANGED <<profile, access>>

\* Mutant: the expiry of a token is not looked at.
MutTickIgnoresExpiry ==
    /\ access # {}
    /\ access' = {[t EXCEPT !.ttl = IF @ > 1 THEN @ - 1 ELSE @] : t \in access}
    /\ UNCHANGED <<profile, pending>>

\* Mutant: a token is good for one more tick when it has expired.
MutTickOneMore ==
    /\ access # {}
    /\ access' = {[t EXCEPT !.ttl = @ - 1] : t \in {u \in access : u.ttl > 0}}
    /\ UNCHANGED <<profile, pending>>

\* A token is gone when it expires: jwt.verify refuses it from then on.
Tick ==
    /\ access # {}
    /\ access' = {[t EXCEPT !.ttl = @ - 1] : t \in {u \in access : u.ttl > 1}}
    /\ UNCHANGED <<profile, pending>>

Next ==
    \/ Change
    \/ \E c \in Calls : Start(c) \/ Sign(c)
    \/ Drop
    \/ Tick

Spec == Init /\ [][Next]_svars
=============================================================================
