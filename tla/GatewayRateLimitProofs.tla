----------------------- MODULE GatewayRateLimitProofs -----------------------
(***************************************************************************)
(* The rate limiter's safety for every set of keys, window and limit.        *)
(*                                                                          *)
(* BurstBound is not inductive: what a counter still lets through depends on *)
(* what it has let through. WindowInv ties each counter to the history: its  *)
(* count is the number of requests let through since it was opened, the      *)
(* opener being the oldest of them, and before it only one other window can  *)
(* have let requests through that recently.                                  *)
(***************************************************************************)
EXTENDS GatewayRateLimit, TLAPS

Position == 1 .. 2 * Most

\* What the history of k is worth when its counter is c: from the opener on, at least
\* the age of the window; a full window's worth before it, at least a window.
OpenedBy(c, ages) ==
    /\ \A i \in Position : i >= c.count => ages[i] >= Window - c.ttl
    /\ \A i \in Position : i >= c.count + Most => ages[i] = Window

ExpiredBy(c, ages) == \A i \in Position : i >= c.count => ages[i] = Window

KeyInv(e, ages) ==
    /\ e = NoEntry => \A i \in Position : i >= Most => ages[i] = Window
    /\ e # NoEntry /\ e.ttl > 0 => OpenedBy(e, ages)
    /\ e # NoEntry /\ e.ttl <= 0 => ExpiredBy(e, ages)

WindowInv == \A k \in Keys : KeyInv(store[k], recent[k])

\* No entry has been expired for longer than the last sweep is ago.
SweepInv == \A k \in Keys : store[k] # NoEntry => store[k].ttl + sinceCleanup >= 0

LimiterInv == TypeOK /\ WindowInv /\ SweepInv

----------------------------------------------------------------------------
LEMMA MostType == Most \in Nat \ {0} /\ Window \in Nat \ {0}
BY WindowAssumption, LimitAssumption DEF Most

\* The sweep drops entries and changes none.
LEMMA CleanupKeeps ==
    ASSUME LimiterInv
    PROVE  /\ cleanup \in [Keys -> {NoEntry} \cup Counter]
           /\ \A k \in Keys : cleanup[k] = store[k] \/ (cleanup[k] = NoEntry /\ Expired(k))
BY DEF LimiterInv, TypeOK, cleanup, Expired

\* After a sweep the entries that are left are no longer expired than the sweep is ago.
LEMMA SweptEntries ==
    ASSUME LimiterInv, Swept, NEW k \in Keys, cleanup[k] # NoEntry
    PROVE  cleanup[k].ttl + sinceCleanup' >= 0 /\ cleanup[k].ttl > -Window
<1>1. store[k] \in {NoEntry} \cup Counter /\ sinceCleanup \in 0 .. Window
  BY DEF LimiterInv, TypeOK
<1>2. CASE sinceCleanup < Window
  <2>1. cleanup[k] = store[k] /\ sinceCleanup' = sinceCleanup
    BY <1>2 DEF cleanup, Swept
  <2>2. store[k] \in Counter /\ store[k].ttl + sinceCleanup >= 0
    BY <1>1, <2>1 DEF LimiterInv, SweepInv
  <2>3. store[k].ttl \in Int
    BY <2>2, MostType DEF Counter
  <2> QED
    BY <1>1, <1>2, <2>1, <2>2, <2>3, MostType
<1>3. CASE ~(sinceCleanup < Window)
  <2>1. cleanup[k] = store[k] /\ store[k] \in Counter /\ ~(store[k].ttl <= 0)
    BY <1>1, <1>3 DEF cleanup, Expired
  <2>2. sinceCleanup' = 0
    BY <1>3 DEF Swept
  <2>3. store[k].ttl \in Int
    BY <2>1, MostType DEF Counter
  <2> QED
    BY <2>1, <2>2, <2>3, MostType
<1> QED
  BY <1>2, <1>3

\* An entry that is swept leaves the history a window old from its window on.
LEMMA CleanupWindow ==
    ASSUME LimiterInv, NEW k \in Keys, cleanup[k] = NoEntry
    PROVE  \A i \in Position : i >= Most => recent[k][i] = Window
<1>1. CASE store[k] = NoEntry
  BY <1>1 DEF LimiterInv, WindowInv, KeyInv
<1>2. CASE store[k] # NoEntry
  <2>1. Expired(k)
    BY <1>2, CleanupKeeps
  <2>2. store[k].count \in 1 .. Most /\ ExpiredBy(store[k], recent[k])
    BY <1>2, <2>1 DEF LimiterInv, TypeOK, WindowInv, KeyInv, Expired, Counter
  <2> QED
    BY <2>2, MostType DEF ExpiredBy, Position
<1> QED
  BY <1>1, <1>2

\* The history of a key that is let through.
LEMMA History ==
    ASSUME LimiterInv, NEW k \in Keys, LetThrough(k)
    PROVE  /\ recent' \in [Keys -> [Position -> 0 .. Window]]
           /\ recent'[k][1] = 0
           /\ \A i \in Position : i > 1 => i - 1 \in Position /\ recent'[k][i] = recent[k][i - 1]
           /\ \A m \in Keys : m # k => recent'[m] = recent[m]
BY MostType DEF LimiterInv, TypeOK, LetThrough, Position

\* What a request leaves of a key whose counter is only swept.
LEMMA SweptKey ==
    ASSUME LimiterInv, Swept, NEW k \in Keys,
           store'[k] = cleanup[k], recent'[k] = recent[k]
    PROVE  /\ KeyInv(store'[k], recent'[k])
           /\ store'[k] # NoEntry => store'[k].ttl + sinceCleanup' >= 0
<1>1. CASE cleanup[k] = NoEntry
  BY <1>1, CleanupWindow DEF KeyInv
<1>2. CASE cleanup[k] # NoEntry
  <2>1. cleanup[k] = store[k]
    BY <1>2, CleanupKeeps
  <2> QED
    BY <1>2, <2>1, SweptEntries DEF LimiterInv, WindowInv
<1> QED
  BY <1>1, <1>2

\* What a request leaves of the key it counts, given the counter it writes.
LEMMA CountedKey ==
    ASSUME LimiterInv, Swept, NEW k \in Keys, NEW c \in Counter, LetThrough(k),
           store' = [cleanup EXCEPT ![k] = c], c.ttl > 0, OpenedBy(c, recent'[k])
    PROVE  LimiterInv'
<1>1. store' \in [Keys -> {NoEntry} \cup Counter] /\ store'[k] = c
      /\ \A m \in Keys : m # k => store'[m] = cleanup[m]
  BY CleanupKeeps
<1>2. c # NoEntry /\ c.ttl \in Int
  BY NoEntryAssumption, MostType DEF Counter
<1>3. sinceCleanup' \in 0 .. Window
  BY MostType DEF LimiterInv, TypeOK, Swept
<1>4. TypeOK'
  BY <1>1, <1>3, History DEF TypeOK, Position
<1>5. ASSUME NEW m \in Keys
      PROVE  /\ KeyInv(store'[m], recent'[m])
             /\ store'[m] # NoEntry => store'[m].ttl + sinceCleanup' >= 0
  <2>1. CASE m = k
    BY <1>1, <1>2, <1>3, <2>1, MostType DEF KeyInv
  <2>2. CASE m # k
    <3>1. store'[m] = cleanup[m] /\ recent'[m] = recent[m]
      BY <1>1, <2>2, History
    <3> QED
      BY <3>1, SweptKey
  <2> QED
    BY <2>1, <2>2
<1> QED
  BY <1>4, <1>5 DEF LimiterInv, WindowInv, SweepInv

LEMMA OpenWindowKeeps ==
    ASSUME LimiterInv, NEW k \in Keys, OpenWindow(k)
    PROVE  LimiterInv'
<1> DEFINE c == [count |-> 1, ttl |-> Window]
<1>1. c \in Counter /\ c.ttl > 0 /\ c.count = 1 /\ c.ttl = Window
  BY MostType DEF Counter
<1>2. Swept /\ LetThrough(k) /\ store' = [cleanup EXCEPT ![k] = c]
  BY DEF OpenWindow
<1>3. \A i \in Position : i >= Most => recent[k][i] = Window
  <2>1. CASE store[k] = NoEntry
    BY <2>1 DEF LimiterInv, WindowInv, KeyInv
  <2>2. CASE store[k] # NoEntry
    <3>1. Expired(k)
      BY <2>2 DEF OpenWindow
    <3>2. store[k].count \in 1 .. Most /\ ExpiredBy(store[k], recent[k])
      BY <2>2, <3>1 DEF LimiterInv, TypeOK, WindowInv, KeyInv, Expired, Counter
    <3> QED
      BY <3>2, MostType DEF ExpiredBy, Position
  <2> QED
    BY <2>1, <2>2
<1> HIDE DEF c
<1>4. OpenedBy(c, recent'[k])
  <2>1. \A i \in Position : recent'[k][i] \in 0 .. Window
    BY <1>2, History
  <2>2. ASSUME NEW i \in Position, i >= 1 + Most PROVE recent'[k][i] = Window
    <3>1. i > 1 /\ i - 1 >= Most
      BY <2>2, MostType DEF Position
    <3>2. i - 1 \in Position /\ recent'[k][i] = recent[k][i - 1]
      BY <1>2, <3>1, History
    <3> QED
      BY <1>3, <3>1, <3>2
  <2> QED
    BY <1>1, <2>1, <2>2, MostType DEF OpenedBy
<1> QED
  BY <1>1, <1>2, <1>4, CountedKey

LEMMA CountKeeps ==
    ASSUME LimiterInv, NEW k \in Keys, Count(k)
    PROVE  LimiterInv'
<1> DEFINE c == [store[k] EXCEPT !.count = @ + 1]
<1>1. store[k] \in Counter /\ store[k] # NoEntry /\ store[k].ttl > 0
  BY MostType DEF LimiterInv, TypeOK, Count, Expired, Counter
<1>2. store[k].count \in 1 .. Most /\ store[k].count + 1 <= Most
  BY <1>1, LimitAssumption DEF Count, Counter, Most
<1>3. c \in Counter /\ c.count = store[k].count + 1 /\ c.ttl = store[k].ttl
  BY <1>1, <1>2, MostType DEF Counter
<1>4. Swept /\ LetThrough(k) /\ store' = [cleanup EXCEPT ![k] = c]
  <2>1. cleanup[k] = store[k] /\ cleanup \in [Keys -> {NoEntry} \cup Counter]
    BY CleanupKeeps DEF Count
  <2> QED
    BY <2>1 DEF Count
<1>5. OpenedBy(store[k], recent[k])
  BY <1>1 DEF LimiterInv, WindowInv, KeyInv
<1> HIDE DEF c
<1>6. OpenedBy(c, recent'[k])
  <2>1. ASSUME NEW i \in Position, i >= c.count
        PROVE  i - 1 \in Position /\ i - 1 >= store[k].count /\ recent'[k][i] = recent[k][i - 1]
    <3>1. i > 1 /\ i - 1 >= store[k].count
      BY <1>2, <1>3, <2>1 DEF Position
    <3> QED
      BY <1>4, <3>1, History
  <2>2. \A i \in Position : i >= c.count => recent'[k][i] >= Window - c.ttl
    BY <1>3, <1>5, <2>1 DEF OpenedBy
  <2>3. ASSUME NEW i \in Position, i >= c.count + Most PROVE recent'[k][i] = Window
    <3>1. i >= c.count /\ i - 1 >= store[k].count + Most
      BY <1>2, <1>3, <2>3, MostType DEF Position
    <3> QED
      BY <1>5, <2>1, <3>1 DEF OpenedBy
  <2> QED
    BY <2>2, <2>3 DEF OpenedBy
<1> QED
  BY <1>1, <1>3, <1>4, <1>6, CountedKey

LEMMA RefuseKeeps ==
    ASSUME LimiterInv, NEW k \in Keys, Refuse(k)
    PROVE  LimiterInv'
<1>1. Swept /\ store' = cleanup /\ recent' = recent
  BY DEF Refuse
<1>2. TypeOK'
  BY <1>1, CleanupKeeps, MostType DEF LimiterInv, TypeOK, Swept
<1>3. \A m \in Keys : KeyInv(store'[m], recent'[m])
                       /\ (store'[m] # NoEntry => store'[m].ttl + sinceCleanup' >= 0)
  BY <1>1, SweptKey
<1> QED
  BY <1>2, <1>3 DEF LimiterInv, WindowInv, SweepInv

LEMMA TickKeeps ==
    ASSUME LimiterInv, Tick
    PROVE  LimiterInv'
<1>1. sinceCleanup \in 0 .. Window /\ sinceCleanup' \in 0 .. Window
      /\ (sinceCleanup' = sinceCleanup + 1 \/ sinceCleanup' = Window)
  BY MostType DEF LimiterInv, TypeOK, Tick
<1>2. ASSUME NEW k \in Keys
      PROVE  /\ recent'[k] \in [Position -> 0 .. Window]
             /\ \A i \in Position : recent'[k][i] =
                    IF recent[k][i] < Window THEN recent[k][i] + 1 ELSE Window
             /\ \A i \in Position : recent[k][i] \in 0 .. Window
  BY MostType DEF LimiterInv, TypeOK, Tick, Position
<1>3. ASSUME NEW k \in Keys, store[k] = NoEntry \/ store[k].ttl = -Window
      PROVE  store'[k] = store[k]
  BY <1>3 DEF Tick
<1>4. ASSUME NEW k \in Keys, store[k] # NoEntry, store[k].ttl # -Window
      PROVE  /\ store'[k] \in Counter /\ store'[k] # NoEntry
             /\ store'[k].count = store[k].count /\ store'[k].ttl = store[k].ttl - 1
  <2>1. store[k] \in Counter
    BY <1>4 DEF LimiterInv, TypeOK
  <2>2. store'[k] = [store[k] EXCEPT !.ttl = @ - 1]
    BY <1>4 DEF Tick
  <2> QED
    BY <2>1, <2>2, <1>4, MostType, NoEntryAssumption DEF Counter
<1>5. TypeOK'
  <2>1. store' \in [Keys -> {NoEntry} \cup Counter]
    <3>1. \A k \in Keys : store'[k] \in {NoEntry} \cup Counter
      BY <1>3, <1>4 DEF LimiterInv, TypeOK
    <3> QED
      BY <3>1 DEF Tick
  <2>2. recent' \in [Keys -> [1 .. 2 * Most -> 0 .. Window]]
    BY <1>2 DEF Tick, Position
  <2> QED
    BY <1>1, <2>1, <2>2 DEF TypeOK
<1>6. ASSUME NEW k \in Keys
      PROVE  /\ KeyInv(store'[k], recent'[k])
             /\ store'[k] # NoEntry => store'[k].ttl + sinceCleanup' >= 0
  <2>1. CASE store[k] = NoEntry
    <3>1. store'[k] = NoEntry
      BY <1>3, <2>1
    <3>2. \A i \in Position : i >= Most => recent[k][i] = Window
      BY <2>1 DEF LimiterInv, WindowInv, KeyInv
    <3> QED
      BY <1>2, <3>1, <3>2, MostType DEF KeyInv
  <2>2. CASE store[k] # NoEntry
    <3>1. /\ store[k].count \in 1 .. Most /\ store[k].ttl \in -Window .. Window
          /\ store[k].ttl + sinceCleanup >= 0
      BY <2>2 DEF LimiterInv, TypeOK, SweepInv, Counter
    <3>2. CASE store[k].ttl = -Window
      <4>1. store'[k] = store[k] /\ ExpiredBy(store[k], recent[k])
        BY <1>3, <2>2, <3>1, <3>2, MostType DEF LimiterInv, WindowInv, KeyInv
      <4>2. ExpiredBy(store'[k], recent'[k])
        BY <1>2, <4>1, MostType DEF ExpiredBy
      <4> QED
        BY <1>1, <2>2, <3>1, <3>2, <4>1, <4>2, MostType DEF KeyInv
    <3>3. CASE store[k].ttl # -Window
      <4>1. /\ store'[k] # NoEntry /\ store'[k].count = store[k].count
            /\ store'[k].ttl = store[k].ttl - 1
        BY <1>4, <2>2, <3>3
      <4>2. store'[k].ttl + sinceCleanup' >= 0
        BY <1>1, <3>1, <3>3, <4>1, MostType
      <4>3. CASE store[k].ttl <= 0
        <5>1. ExpiredBy(store[k], recent[k])
          BY <2>2, <4>3 DEF LimiterInv, WindowInv, KeyInv
        <5>2. ExpiredBy(store'[k], recent'[k])
          BY <1>2, <4>1, <5>1, MostType DEF ExpiredBy
        <5> QED
          BY <3>1, <4>1, <4>2, <4>3, <5>2, MostType DEF KeyInv
      <4>4. CASE store[k].ttl > 0
        <5>1. OpenedBy(store[k], recent[k])
          BY <2>2, <4>4 DEF LimiterInv, WindowInv, KeyInv
        <5>2. OpenedBy(store'[k], recent'[k])
          BY <1>2, <3>1, <4>1, <4>4, <5>1, MostType DEF OpenedBy
        <5>3. store'[k].ttl <= 0 => ExpiredBy(store'[k], recent'[k])
          BY <1>2, <3>1, <4>1, <4>4, <5>1, MostType DEF OpenedBy, ExpiredBy
        <5> QED
          BY <4>1, <4>2, <5>2, <5>3 DEF KeyInv
      <4> QED
        BY <3>1, <4>3, <4>4, MostType
    <3> QED
      BY <3>2, <3>3
  <2> QED
    BY <2>1, <2>2
<1> QED
  BY <1>5, <1>6 DEF LimiterInv, WindowInv, SweepInv

LEMMA LimiterInductive == LimiterInv /\ [Next]_vars => LimiterInv'
<1> SUFFICES ASSUME LimiterInv, [Next]_vars PROVE LimiterInv'
  OBVIOUS
<1>1. CASE UNCHANGED vars
  BY <1>1 DEF vars, LimiterInv, TypeOK, WindowInv, SweepInv, KeyInv, OpenedBy, ExpiredBy
<1> QED
  BY <1>1, OpenWindowKeeps, CountKeeps, RefuseKeeps, TickKeeps DEF Next, Request

LEMMA LimiterInit == Init => LimiterInv
BY MostType DEF Init, LimiterInv, TypeOK, WindowInv, SweepInv, KeyInv, Position

THEOREM LimiterInvHolds == Spec => []LimiterInv
BY LimiterInit, LimiterInductive, PTL DEF Spec

\* The store and its history keep their types: no count passes the limit, but for the
\* one request that opens a window whatever the limit.
THEOREM TypeCorrect == Spec => []TypeOK
BY LimiterInvHolds, PTL DEF LimiterInv

\* A key gets less than twice the limit in any stretch of a window's length.
THEOREM BurstBoundHolds == Spec => []BurstBound
<1>1. LimiterInv => BurstBound
  <2> SUFFICES ASSUME LimiterInv, NEW k \in Keys PROVE recent[k][2 * Most] = Window
    BY DEF BurstBound
  <2>1. 2 * Most \in Position /\ 2 * Most >= Most
    BY MostType DEF Position
  <2>2. CASE store[k] = NoEntry
    BY <2>1, <2>2 DEF LimiterInv, WindowInv, KeyInv
  <2>3. CASE store[k] # NoEntry
    <3>1. store[k].count \in 1 .. Most /\ store[k].ttl \in Int
      BY <2>3, MostType DEF LimiterInv, TypeOK, Counter
    <3>2. 2 * Most >= store[k].count + Most /\ 2 * Most >= store[k].count
      BY <3>1, MostType
    <3>3. CASE store[k].ttl > 0
      BY <2>1, <2>3, <3>2, <3>3 DEF LimiterInv, WindowInv, KeyInv, OpenedBy
    <3>4. CASE ~(store[k].ttl > 0)
      BY <2>1, <2>3, <3>1, <3>2, <3>4 DEF LimiterInv, WindowInv, KeyInv, ExpiredBy
    <3> QED
      BY <3>3, <3>4
  <2> QED
    BY <2>2, <2>3
<1> QED
  BY <1>1, LimiterInvHolds, PTL

\* A request leaves no entry that has been expired for a window.
THEOREM StaleEntriesGoHolds == Spec => StaleEntriesGo
<1>1. LimiterInv /\ [Next]_vars
      => [(\E k \in Keys : Request(k)) =>
            \A k \in Keys : store'[k] # NoEntry => store'[k].ttl > -Window]_vars
  <2> SUFFICES ASSUME LimiterInv, NEW k \in Keys, Request(k), NEW m \in Keys,
                      store'[m] # NoEntry
               PROVE  store'[m].ttl > -Window
    OBVIOUS
  <2>1. Swept
    BY DEF Request, OpenWindow, Count, Refuse
  <2>2. cleanup \in [Keys -> {NoEntry} \cup Counter]
    BY CleanupKeeps
  <2>3. CASE OpenWindow(k)
    <3>1. store' = [cleanup EXCEPT ![k] = [count |-> 1, ttl |-> Window]]
      BY <2>3 DEF OpenWindow
    <3>2. CASE m = k
      BY <2>2, <3>1, <3>2, MostType
    <3>3. CASE m # k
      BY <2>1, <2>2, <3>1, <3>3, SweptEntries
    <3> QED
      BY <3>2, <3>3
  <2>4. CASE Count(k)
    <3>1. store' = [cleanup EXCEPT ![k].count = @ + 1]
      BY <2>4 DEF Count
    <3>2. cleanup[k] # NoEntry /\ cleanup[k] \in Counter
      BY <2>2, <2>4, CleanupKeeps DEF Count
    <3>3. cleanup[m] # NoEntry /\ store'[m].ttl = cleanup[m].ttl
      BY <2>2, <3>1, <3>2 DEF Counter
    <3> QED
      BY <2>1, <3>3, SweptEntries
  <2>5. CASE Refuse(k)
    BY <2>1, <2>5, SweptEntries DEF Refuse
  <2> QED
    BY <2>3, <2>4, <2>5 DEF Request
<1> QED
  BY <1>1, LimiterInvHolds, PTL DEF Spec, StaleEntriesGo

----------------------------------------------------------------------------
\* What RefusedNotForever rests on. No request moves the end of a window that is
\* running or takes back what it has counted, be it refused, let through or of
\* another key, and the sweep leaves such a window alone; time alone ends it.
WindowsRunOut ==
    [][\A k \in Keys : store[k] # NoEntry /\ store[k].ttl > 0 =>
            /\ store'[k] # NoEntry
            /\ store'[k].count >= store[k].count
            /\ \/ Tick /\ store'[k].ttl = store[k].ttl - 1
               \/ (\E m \in Keys : Request(m)) /\ store'[k].ttl = store[k].ttl]_vars

\* A running window ends when it was to end, whatever is requested meanwhile.
THEOREM WindowsRunOutHolds == Spec => WindowsRunOut
<1> DEFINE RunsOn(k) ==
        /\ store'[k] # NoEntry
        /\ store'[k].count >= store[k].count
        /\ \/ Tick /\ store'[k].ttl = store[k].ttl - 1
           \/ (\E m \in Keys : Request(m)) /\ store'[k].ttl = store[k].ttl
<1>1. ASSUME LimiterInv, Next, NEW k \in Keys, store[k] # NoEntry, store[k].ttl > 0
      PROVE  RunsOn(k)
  <2>1. store[k] \in Counter /\ store[k].ttl \in Int /\ store[k].count \in Nat
    BY <1>1, MostType DEF LimiterInv, TypeOK, Counter
  <2>2. cleanup \in [Keys -> {NoEntry} \cup Counter] /\ cleanup[k] = store[k]
    BY <1>1, <2>1, CleanupKeeps DEF Expired
  <2>3. CASE Tick
    <3>1. store'[k] = [store[k] EXCEPT !.ttl = @ - 1]
      BY <1>1, <2>1, <2>3, MostType DEF Tick
    <3>2. store'[k].ttl = store[k].ttl - 1 /\ store'[k].count = store[k].count
      BY <2>1, <3>1 DEF Counter
    <3>3. store'[k] \in Counter
      BY <1>1, <2>1, <3>1, MostType DEF Counter
    <3> QED
      BY <2>1, <2>3, <3>2, <3>3, NoEntryAssumption
  <2>4. ASSUME NEW m \in Keys, Request(m) PROVE RunsOn(k)
    <3>1. CASE OpenWindow(m)
      <4>1. m # k
        BY <1>1, <2>1, <3>1 DEF OpenWindow, Expired
      <4>2. store'[k] = store[k]
        BY <2>2, <3>1, <4>1 DEF OpenWindow
      <4> QED
        BY <1>1, <2>1, <2>4, <4>2
    <3>2. CASE Count(m)
      <4>1. store' = [cleanup EXCEPT ![m].count = @ + 1]
        BY <3>2 DEF Count
      <4>2. CASE m = k
        <5>1. store'[k] = [store[k] EXCEPT !.count = @ + 1]
          BY <2>2, <4>1, <4>2
        <5>2. store'[k].count = store[k].count + 1 /\ store'[k].ttl = store[k].ttl
          BY <2>1, <5>1 DEF Counter
        <5>3. store'[k].count \in 1 .. Most
          BY <2>1, <3>2, <4>2, <5>2, MostType, LimitAssumption DEF Count, Most
        <5>4. store'[k] \in Counter
          BY <2>1, <5>1, <5>2, <5>3 DEF Counter
        <5> QED
          BY <2>1, <2>4, <5>2, <5>4, NoEntryAssumption
      <4>3. CASE m # k
        <5>1. store'[k] = store[k]
          BY <2>2, <4>1, <4>3
        <5> QED
          BY <1>1, <2>1, <2>4, <5>1
      <4> QED
        BY <4>2, <4>3
    <3>3. CASE Refuse(m)
      BY <1>1, <2>1, <2>2, <2>4, <3>3 DEF Refuse
    <3> QED
      BY <2>4, <3>1, <3>2, <3>3 DEF Request
  <2> QED
    BY <1>1, <2>3, <2>4 DEF Next
<1>2. LimiterInv /\ [Next]_vars =>
        [\A k \in Keys : store[k] # NoEntry /\ store[k].ttl > 0 => RunsOn(k)]_vars
  BY <1>1
<1> QED
  BY <1>2, LimiterInvHolds, PTL DEF Spec, WindowsRunOut
=============================================================================
