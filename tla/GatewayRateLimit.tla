-------------------------- MODULE GatewayRateLimit --------------------------
(***************************************************************************)
(* The gateway's rate limiter: canActivate runs for every request before    *)
(* authentication, without an await, and counts the requests of a key (the   *)
(* first x-forwarded-for entry, else the peer's address) in fixed windows    *)
(* kept in memory. OPTIONS and /health bypass it and touch no state.         *)
(*                                                                          *)
(* Time is relative: an entry's ttl is expiresAt - now and sinceCleanup is   *)
(* now - lastCleanup. An entry that has been expired for a whole window and  *)
(* a cleanup that is a whole window old grow no older here: the code asks    *)
(* only whether ttl <= 0 and whether sinceCleanup >= windowMs. Every         *)
(* behaviour of one run of the process is covered, with no bound on time.    *)
(***************************************************************************)
EXTENDS Integers

CONSTANTS
    Keys,
    Window,   \* GATEWAY_RATE_LIMIT_TTL_SEC, in ticks
    Limit,    \* GATEWAY_RATE_LIMIT_LIMIT; 0 is accepted by the configuration
    NoEntry   \* a key the store does not hold

ASSUME WindowAssumption == Window \in Nat \ {0}
ASSUME LimitAssumption == Limit \in Nat

\* The most one counter lets through: the request that opens a window is not compared
\* with the limit.
Most == IF Limit > 1 THEN Limit ELSE 1

Counter == [count : 1 .. Most, ttl : -Window .. Window]

ASSUME NoEntryAssumption == NoEntry \notin Counter

VARIABLES
    store,         \* per key NoEntry or its counter
    sinceCleanup,
    recent         \* history: how long ago each of a key's latest requests was let
                   \* through, the latest first; Window for a window or longer

vars == <<store, sinceCleanup, recent>>

Init ==
    /\ store = [k \in Keys |-> NoEntry]
    /\ sinceCleanup = 0
    /\ recent = [k \in Keys |-> [i \in 1 .. 2 * Most |-> Window]]

Expired(k) == store[k] # NoEntry /\ store[k].ttl <= 0

\* Mutant: the sweep is skipped.
MutCleanupNever == store

\* The store after cleanup(now).
cleanup == IF sinceCleanup < Window THEN store
           ELSE [k \in Keys |-> IF Expired(k) THEN NoEntry ELSE store[k]]

Swept == sinceCleanup' = IF sinceCleanup < Window THEN sinceCleanup ELSE 0

LetThrough(k) ==
    recent' = [recent EXCEPT ![k] = [i \in 1 .. 2 * Most |-> IF i = 1 THEN 0 ELSE @[i - 1]]]

\* Mutant: an expired counter is renewed but keeps its count.
MutOpenWindowKeepsCount(k) ==
    /\ store[k] = NoEntry \/ Expired(k)
    /\ store' = [cleanup EXCEPT ![k] =
            [count |-> IF store[k] = NoEntry THEN 1 ELSE store[k].count + 1, ttl |-> Window]]
    /\ LetThrough(k)
    /\ Swept

\* The first request of a window.
OpenWindow(k) ==
    /\ store[k] = NoEntry \/ Expired(k)
    /\ store' = [cleanup EXCEPT ![k] = [count |-> 1, ttl |-> Window]]
    /\ LetThrough(k)
    /\ Swept

\* Mutant: the count that reaches the limit is let through once more.
MutCountOneMore(k) ==
    /\ store[k] # NoEntry /\ ~Expired(k)
    /\ store[k].count <= Limit
    /\ store' = [cleanup EXCEPT ![k].count = @ + 1]
    /\ LetThrough(k)
    /\ Swept

\* A further request of the window, within the limit.
Count(k) ==
    /\ store[k] # NoEntry /\ ~Expired(k)
    /\ store[k].count < Limit
    /\ store' = [cleanup EXCEPT ![k].count = @ + 1]
    /\ LetThrough(k)
    /\ Swept

\* Mutant: a refused request starts the window afresh.
MutRefuseRenews(k) ==
    /\ store[k] # NoEntry /\ ~Expired(k)
    /\ store[k].count >= Limit
    /\ store' = [cleanup EXCEPT ![k].ttl = Window]
    /\ Swept
    /\ UNCHANGED recent

\* A request past the limit: 429.
Refuse(k) ==
    /\ store[k] # NoEntry /\ ~Expired(k)
    /\ store[k].count >= Limit
    /\ store' = cleanup
    /\ Swept
    /\ UNCHANGED recent

Tick ==
    /\ store' = [k \in Keys |->
            IF store[k] = NoEntry \/ store[k].ttl = -Window THEN store[k]
            ELSE [store[k] EXCEPT !.ttl = @ - 1]]
    /\ sinceCleanup' = IF sinceCleanup < Window THEN sinceCleanup + 1 ELSE Window
    /\ recent' = [k \in Keys |-> [i \in 1 .. 2 * Most |->
            IF recent[k][i] < Window THEN recent[k][i] + 1 ELSE Window]]

Request(k) == OpenWindow(k) \/ Count(k) \/ Refuse(k)

Next == Tick \/ \E k \in Keys : Request(k)

\* Time passes.
Spec == Init /\ [][Next]_vars /\ WF_vars(Tick)

----------------------------------------------------------------------------
\* The store and its history keep their types; a count never passes the limit,
\* but for the one request that opens a window whatever the limit.
TypeOK ==
    /\ store \in [Keys -> {NoEntry} \cup Counter]
    /\ sinceCleanup \in 0 .. Window
    /\ recent \in [Keys -> [1 .. 2 * Most -> 0 .. Window]]

\* Fixed windows let bursts meet at their border: in any window-long stretch of time,
\* not only those that start a counter, a key still gets less than twice the limit.
BurstBound == \A k \in Keys : recent[k][2 * Most] = Window

\* Right after a request of any key, no entry is left that expired a window ago:
\* the store holds only keys seen in the last two windows.
StaleEntriesGo ==
    [][(\E k \in Keys : Request(k)) =>
        \A k \in Keys : store'[k] # NoEntry => store'[k].ttl > -Window]_vars

\* A key that has used up its window is let through again, however often it is
\* refused in the meantime.
RefusedNotForever ==
    \A k \in Keys :
        (store[k] # NoEntry /\ store[k].ttl > 0) ~> (store[k] = NoEntry \/ store[k].ttl <= 0)
=============================================================================
