----------------------------- MODULE AuthLogouts -----------------------------
(***************************************************************************)
(* AuthAccounts with a history variable. A logout has two halves, a read of  *)
(* the account and a save that may write nothing, and what its answer can    *)
(* promise depends on the logins saved in between: opened keeps them. The    *)
(* handlers do not read it, so every behaviour of AuthAccounts is one of     *)
(* this specification, and the other way round.                              *)
(***************************************************************************)
EXTENDS AuthAccounts

VARIABLE opened  \* of each logout in flight, the sessions opened since its read

hvars == <<account, calls, access, refreshTtl, opened>>

LoginSaved == \E c \in Calls : SaveLogin(c)

\* Read after a step of AuthAccounts, in which account' is the account it leaves.
RecordLogins ==
    opened' = [c \in Calls |->
        IF calls'[c].op # "logout" THEN {}
        ELSE opened[c] \cup (IF LoginSaved THEN {account'.refreshTokenHash} ELSE {})]

HInit == Init /\ opened = [c \in Calls |-> {}]

HNext == Next /\ RecordLogins

HSpec == HInit /\ [][HNext]_hvars

FairHSpec == HSpec /\ Fairness

\* When a logout is answered, the account has no session but one that a login has
\* opened since the logout's read: a session that was open by then is over, also
\* where the logout has read that there is none and writes nothing, and whatever
\* other saves of the account overlap with it.
LogoutEndsEarlierSessions ==
    [][\A c \in Calls : SaveLogout(c) =>
          account'.refreshTokenHash \in {Null} \cup opened[c]]_hvars
=============================================================================
