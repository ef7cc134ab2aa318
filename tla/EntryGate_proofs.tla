--------------------------- MODULE EntryGate_proofs ---------------------------
(***************************************************************************)
(* Proofs about EntryGate, for every set of timeframes, regimes, limits    *)
(* and bounds.                                                             *)
(***************************************************************************)
EXTENDS EntryGate, FiniteSetTheorems, SequenceTheorems, TLAPS

(* What the first look leaves to the order: no position at all.  A first   *)
(* look can miss a position only while it is fresh, and a bridge that lags *)
(* loses no answer, so whatever is fresh has raised the flag of the tick.  *)
FlatBeforeOrder == pc \in {"confirm", "sent"} => positions = {}

FreshFlagged ==
  pc \in {"bars", "confirm", "sent"} /\ "lag" \in bridge /\ fresh # {} => opened

OneInv ==
  /\ OnePosition
  /\ IsFiniteSet(positions) /\ fresh \subseteq positions
  /\ bridge \in Bridges
  /\ FlatBeforeOrder
  /\ FreshFlagged

(* A first look that lets an order through with MAX_OPEN_TRADES = 1, while *)
(* the tick has opened nothing, has seen a flat account.                   *)
LEMMA FirstLookFlat ==
  ASSUME OneInv, MaxOpen = 1, pc = "bars", ~opened,
         NEW r \in PositionReports, PositionsAllow(r)
  PROVE  positions = {}
<1>1. IsFiniteSet(Recognised(r))
  BY FS_Subset DEF OneInv, Recognised
<1>2. Recognised(r) = {}
  BY <1>1, FS_EmptySet, FS_CardinalityType DEF PositionsAllow
<1>3. Unidentified(r) = {}
  BY <1>2 DEF PositionsAllow
<1>4. \A p \in positions : r[p] = "missing"
  BY <1>2, <1>3 DEF Recognised, Unidentified, PositionReports
<1>5. ASSUME NEW p \in positions PROVE FALSE
  BY <1>4, <1>5 DEF PositionReports, OneInv, FreshFlagged
<1>6. QED BY <1>5

LEMMA OneInit == Init => OneInv
BY FS_EmptySet DEF Init, OneInv, OnePosition, FlatBeforeOrder, FreshFlagged

LEMMA OneStep ==
  ASSUME MaxOpen = 1, {"lag", "lost"} \notin Bridges, OneInv, [Next]_vars
  PROVE  OneInv'
<1> USE DEF OneInv, OnePosition, FlatBeforeOrder, FreshFlagged
<1>1. CASE EngineStarts
  BY <1>1 DEF EngineStarts
<1>2. CASE Connected
  BY <1>2 DEF Connected, broker, engine
<1>3. CASE EngineEnds
  BY <1>3 DEF EngineEnds, broker, engine
<1>4. CASE Crash
  BY <1>4 DEF Crash, broker, engine
<1>5. CASE RedisExpires
  BY <1>5 DEF RedisExpires, broker, engine
<1>6. CASE Poll
  BY <1>6 DEF Poll
<1>7. CASE TrailLogged
  BY <1>7 DEF TrailLogged, broker
<1>8. CASE CloseAll
  <2>1. PICK p : Closed(p)
    BY <1>8 DEF CloseAll
  <2>2. IsFiniteSet(positions \ {p})
    BY FS_Subset
  <2>3. QED BY <1>8, <2>1, <2>2 DEF CloseAll, Closed
<1>9. CASE BarSkipped
  BY <1>9 DEF BarSkipped, BarDone, broker
<1>10. CASE FirstLook
  <2>1. positions = {}
    BY <1>10, FirstLookFlat DEF FirstLook
  <2>2. QED BY <1>10, <2>1 DEF FirstLook, broker
<1>11. CASE SecondLook
  BY <1>11 DEF SecondLook, broker, engine
<1>12. CASE OrderExecuted
  <2>1. positions' = {tickets + 1}
    BY <1>12 DEF OrderExecuted
  <2>2. IsFiniteSet(positions')
    BY <2>1, FS_Singleton
  <2>3. QED BY <1>12, <2>1, <2>2 DEF OrderExecuted
<1>13. CASE OrderAcknowledged
  BY <1>13 DEF OrderAcknowledged, EntryMade, BarDone, broker
<1>14. CASE OrderFails
  <2>1. CASE pc = "sent"
    BY <1>14, <2>1 DEF OrderFails, BarDone, broker
  <2>2. CASE "lost" \in bridge
    <3>1. "lag" \notin bridge
      BY <2>2, BridgesAssumption
    <3>2. QED BY <1>14, <3>1 DEF OrderFails, BarDone, broker
  <2>3. QED BY <1>14, <2>1, <2>2 DEF OrderFails
<1>15. CASE PositionCloses
  <2>1. PICK p : Closed(p)
    BY <1>15 DEF PositionCloses
  <2>2. IsFiniteSet(positions \ {p})
    BY FS_Subset
  <2>3. QED BY <1>15, <2>1, <2>2 DEF PositionCloses, Closed, engine
<1>16. CASE Clock
  BY <1>16 DEF Clock, broker, engine
<1>17. CASE UNCHANGED vars
  BY <1>17 DEF vars, broker, engine
<1>18. QED
  BY <1>1, <1>2, <1>3, <1>4, <1>5, <1>6, <1>7, <1>8, <1>9, <1>10, <1>11, <1>12,
     <1>13, <1>14, <1>15, <1>16, <1>17 DEF Next

(* With the default MAX_OPEN_TRADES = 1 and a bridge that does not both    *)
(* lag and lose answers, the robot never has two positions open, through   *)
(* every crash and restart and for any timeframes, limits and log size.    *)
THEOREM NeverTwoPositions ==
  ASSUME MaxOpen = 1, {"lag", "lost"} \notin Bridges
  PROVE  Spec => []OnePosition
<1>1. OneInv /\ [Next]_vars => OneInv'
  BY OneStep
<1>2. OneInv => OnePosition
  BY DEF OneInv
<1>3. QED BY <1>1, <1>2, OneInit, PTL DEF Spec

-----------------------------------------------------------------------------
(***************************************************************************)
(* Types, for the proofs below.  The bars of a tick and the log a restart  *)
(* merges are loops: what holds of every turn is shown of the first that   *)
(* would not have it.                                                      *)
(***************************************************************************)
(* Every nonempty set of naturals has a least element. *)
LEMMA NatMin ==
  ASSUME NEW T, T \subseteq Nat, T # {}
  PROVE  \E x \in T : \A y \in T : x <= y
<1> DEFINE F == {0 .. k : k \in T}
<1>1. \A k \in Nat : 0 .. k \in FiniteSubsetsOf(Nat)
  BY FS_Interval DEF FiniteSubsetsOf
<1>2. F \subseteq FiniteSubsetsOf(Nat) /\ F # {}
  BY <1>1
<1>3. PICK s \in F : \A t \in F : ~ (<<t, s>> \in StrictSubsetOrdering(Nat))
  BY <1>2, FS_StrictSubsetOrderingWellFounded, WFMin, Zenon
<1>4. PICK x \in T : s = 0 .. x
  BY <1>3
<1>5. ASSUME NEW y \in T, y < x PROVE FALSE
  <2>1. 0 .. y \in F /\ 0 .. y \subseteq 0 .. x /\ x \notin 0 .. y /\ x \in 0 .. x
    BY <1>5
  <2>2. 0 .. y # s BY <2>1, <1>4
  <2>3. <<0 .. y, s>> \in StrictSubsetOrdering(Nat)
    <3>1. 0 .. y \in SUBSET Nat /\ s \in SUBSET Nat
      BY <1>4
    <3> HIDE DEF F
    <3> QED BY <2>1, <2>2, <1>4, <3>1 DEF StrictSubsetOrdering
  <2>4. QED BY <2>1, <2>3, <1>3
<1>6. QED
  BY <1>5

(* The turns of a loop, as the bodies of NewBars and Merged have them.     *)
BarsUpTo(f, n, r) == f = [i \in 0 .. n |-> IF i = 0 THEN <<>> ELSE WithNew(f[i - 1], i, r)]

RowsUpTo(g, n, f, r) ==
  g = [i \in 0 .. n |-> IF i = 0 THEN f ELSE WithMissing(g[i - 1], r[i])]

LEMMA BarsUpToExists ==
  ASSUME NEW r, NEW n \in Nat
  PROVE  \E f : BarsUpTo(f, n, r)
<1> DEFINE T == {m \in Nat : ~ \E f : BarsUpTo(f, m, r)}
<1>1. SUFFICES ASSUME T # {} PROVE FALSE
  OBVIOUS
<1>2. PICK m \in T : \A k \in T : m <= k
  <2>1. T \subseteq Nat
    OBVIOUS
  <2> HIDE DEF T
  <2>2. QED BY <1>1, <2>1, NatMin
<1>3. m \in Nat /\ ~ \E f : BarsUpTo(f, m, r)
  OBVIOUS
<1>4. m # 0
  <2> DEFINE f == [i \in 0 .. 0 |-> <<>>]
  <2>1. BarsUpTo(f, 0, r)
    BY DEF BarsUpTo
  <2> HIDE DEF f
  <2>2. QED BY <2>1, <1>3
<1>5. m - 1 \in Nat /\ m - 1 \notin T
  <2>1. m - 1 \in Nat /\ ~ (m <= m - 1)
    BY <1>3, <1>4
  <2> HIDE DEF T
  <2>2. QED BY <2>1, <1>2
<1>6. PICK f : BarsUpTo(f, m - 1, r)
  BY <1>5
<1> DEFINE g == [i \in 0 .. m |-> IF i = m THEN WithNew(f[m - 1], m, r) ELSE f[i]]
<1>7. ASSUME NEW i \in 0 .. m
      PROVE  g[i] = IF i = 0 THEN <<>> ELSE WithNew(g[i - 1], i, r)
  <2>1. CASE i = m
    <3>1. g[m - 1] = f[m - 1]
      BY <1>3, <1>4
    <3>2. QED BY <2>1, <3>1, <1>4
  <2>2. CASE i # m
    <3>1. i \in 0 .. (m - 1) /\ g[i] = f[i] /\ (i # 0 => g[i - 1] = f[i - 1])
      BY <2>2, <1>3
    <3>2. f[i] = IF i = 0 THEN <<>> ELSE WithNew(f[i - 1], i, r)
      BY <1>6, <3>1 DEF BarsUpTo
    <3> HIDE DEF g
    <3>3. QED BY <3>1, <3>2
  <2>3. QED BY <2>1, <2>2
<1>8. BarsUpTo(g, m, r)
  BY <1>7 DEF BarsUpTo
<1> HIDE DEF g
<1>9. QED BY <1>8, <1>3

LEMMA NewBarsTyped ==
  ASSUME NEW r \in [DOMAIN Timeframes -> Int]
  PROVE  NewBars(r) \in Seq(Bars)
<1> DEFINE N == Len(Timeframes)
           f == CHOOSE g : BarsUpTo(g, N, r)
<1>1. N \in Nat /\ DOMAIN Timeframes = 1 .. N
  BY TimeframesAssumption
<1>2. BarsUpTo(f, N, r)
  BY <1>1, BarsUpToExists, Zenon
<1>3. NewBars(r) = f[N]
  BY DEF NewBars, BarsUpTo
<1> HIDE DEF f, N
<1> DEFINE T == {i \in 0 .. N : f[i] \notin Seq(Bars)}
<1>4. ASSUME T # {} PROVE FALSE
  <2>1. PICK m \in T : \A k \in T : m <= k
    <3>1. T \subseteq Nat
      BY <1>1
    <3> HIDE DEF T
    <3>2. QED BY <3>1, <1>4, NatMin
  <2>2. m \in 0 .. N /\ f[m] \notin Seq(Bars)
    OBVIOUS
  <2>3. f[m] = IF m = 0 THEN <<>> ELSE WithNew(f[m - 1], m, r)
    BY <1>2, <2>2 DEF BarsUpTo
  <2>4. m # 0
    BY <2>2, <2>3
  <2>5. m - 1 \in 0 .. N /\ ~ (m <= m - 1) /\ m \in 1 .. N
    BY <2>2, <2>4, <1>1
  <2>6. f[m - 1] \in Seq(Bars)
    BY <2>1, <2>5
  <2>7. [tf |-> m, bar |-> r[m]] \in Bars
    BY <2>5, <1>1 DEF Bars
  <2>8. QED BY <2>2, <2>3, <2>4, <2>6, <2>7 DEF WithNew
<1>5. QED BY <1>1, <1>3, <1>4

LEMMA RowsUpToExists ==
  ASSUME NEW f, NEW r, NEW n \in Nat
  PROVE  \E g : RowsUpTo(g, n, f, r)
<1> DEFINE T == {m \in Nat : ~ \E g : RowsUpTo(g, m, f, r)}
<1>1. SUFFICES ASSUME T # {} PROVE FALSE
  OBVIOUS
<1>2. PICK m \in T : \A k \in T : m <= k
  <2>1. T \subseteq Nat
    OBVIOUS
  <2> HIDE DEF T
  <2>2. QED BY <1>1, <2>1, NatMin
<1>3. m \in Nat /\ ~ \E g : RowsUpTo(g, m, f, r)
  OBVIOUS
<1>4. m # 0
  <2> DEFINE g == [i \in 0 .. 0 |-> f]
  <2>1. RowsUpTo(g, 0, f, r)
    BY DEF RowsUpTo
  <2> HIDE DEF g
  <2>2. QED BY <2>1, <1>3
<1>5. m - 1 \in Nat /\ m - 1 \notin T
  <2>1. m - 1 \in Nat /\ ~ (m <= m - 1)
    BY <1>3, <1>4
  <2> HIDE DEF T
  <2>2. QED BY <2>1, <1>2
<1>6. PICK h : RowsUpTo(h, m - 1, f, r)
  BY <1>5
<1> DEFINE g == [i \in 0 .. m |-> IF i = m THEN WithMissing(h[m - 1], r[m]) ELSE h[i]]
<1>7. ASSUME NEW i \in 0 .. m
      PROVE  g[i] = IF i = 0 THEN f ELSE WithMissing(g[i - 1], r[i])
  <2>1. CASE i = m
    <3>1. g[m - 1] = h[m - 1]
      BY <1>3, <1>4
    <3>2. QED BY <2>1, <3>1, <1>4
  <2>2. CASE i # m
    <3>1. i \in 0 .. (m - 1) /\ g[i] = h[i] /\ (i # 0 => g[i - 1] = h[i - 1])
      BY <2>2, <1>3
    <3>2. h[i] = IF i = 0 THEN f ELSE WithMissing(h[i - 1], r[i])
      BY <1>6, <3>1 DEF RowsUpTo
    <3> HIDE DEF g
    <3>3. QED BY <3>1, <3>2
  <2>3. QED BY <2>1, <2>2
<1>8. RowsUpTo(g, m, f, r)
  BY <1>7 DEF RowsUpTo
<1> HIDE DEF g
<1>9. QED BY <1>8, <1>3

(* A merged log is no longer than the two copies together.                 *)
LEMMA MergedTyped ==
  ASSUME NEW f \in Seq(Rows), NEW r \in Seq(Rows)
  PROVE  Merged(f, r) \in Seq(Rows) /\ Len(Merged(f, r)) <= Len(f) + Len(r)
<1> DEFINE N == Len(r)
           g == CHOOSE h : RowsUpTo(h, N, f, r)
<1>1. N \in Nat /\ Len(f) \in Nat
  OBVIOUS
<1>2. RowsUpTo(g, N, f, r)
  BY <1>1, RowsUpToExists, Zenon
<1>3. Merged(f, r) = g[N]
  BY DEF Merged, RowsUpTo
<1> HIDE DEF g
<1> DEFINE Good(i) == g[i] \in Seq(Rows) /\ Len(g[i]) <= Len(f) + i
           T == {i \in 0 .. N : ~ Good(i)}
<1>4. ASSUME T # {} PROVE FALSE
  <2>1. PICK m \in T : \A k \in T : m <= k
    <3>1. T \subseteq Nat
      BY <1>1
    <3> HIDE DEF T
    <3>2. QED BY <3>1, <1>4, NatMin
  <2>2. m \in 0 .. N /\ ~ Good(m)
    OBVIOUS
  <2>3. g[m] = IF m = 0 THEN f ELSE WithMissing(g[m - 1], r[m])
    BY <1>2, <2>2 DEF RowsUpTo
  <2>4. m # 0
    BY <2>2, <2>3, <1>1
  <2>5. m - 1 \in 0 .. N /\ ~ (m <= m - 1) /\ m \in 1 .. N
    BY <2>2, <2>4, <1>1
  <2>6. Good(m - 1)
    BY <2>1, <2>5
  <2>7. r[m] \in Rows
    BY <2>5
  <2>8. WithMissing(g[m - 1], r[m]) \in Seq(Rows)
        /\ Len(WithMissing(g[m - 1], r[m])) <= Len(g[m - 1]) + 1
    BY <2>6, <2>7 DEF WithMissing
  <2>9. QED BY <2>2, <2>3, <2>4, <2>5, <2>6, <2>8, <1>1
<1>5. QED BY <1>1, <1>3, <1>4

LEMMA LogTyped ==
  ASSUME NEW h \in Seq(Rows)
  PROVE  /\ LastRows(h) \in Seq(Rows) /\ Len(LastRows(h)) <= HistoryCap
         /\ Len(h) < HistoryCap => LastRows(h) = h
<1>1. HistoryCap \in Nat /\ HistoryCap > 0
  BY GateAssumption
<1>2. CASE Len(h) > HistoryCap
  <2> DEFINE m == Len(h) - HistoryCap + 1
  <2>1. m \in 1 .. Len(h) + 1 /\ Len(h) \in 0 .. Len(h) /\ m \in 1 .. Len(h)
    BY <1>1, <1>2
  <2>2. SubSeq(h, m, Len(h)) \in Seq(Rows) /\ Len(SubSeq(h, m, Len(h))) = Len(h) - m + 1
    BY <2>1, SubSeqProperties
  <2>3. QED BY <1>1, <1>2, <2>2 DEF LastRows
<1>3. CASE ~ (Len(h) > HistoryCap)
  BY <1>1, <1>3 DEF LastRows
<1>4. QED BY <1>2, <1>3

LEMMA LoggedTyped ==
  ASSUME log \in Seq(Rows), NEW row \in Rows
  PROVE  /\ Logged(row) \in Seq(Rows) /\ Len(Logged(row)) <= HistoryCap
         /\ Len(log) < HistoryCap => Logged(row) = Append(log, row)
         /\ Len(Logged(row)) < HistoryCap => Len(log) < HistoryCap
<1>1. Append(log, row) \in Seq(Rows) /\ Len(Append(log, row)) = Len(log) + 1
  OBVIOUS
<1>2. HistoryCap \in Nat
  BY GateAssumption
<1>3. /\ Logged(row) \in Seq(Rows) /\ Len(Logged(row)) <= HistoryCap
      /\ Len(Append(log, row)) < HistoryCap => Logged(row) = Append(log, row)
  BY <1>1, LogTyped DEF Logged
<1>4. Len(log) < HistoryCap => Logged(row) = Append(log, row)
  BY <1>1, <1>2 DEF Logged, LastRows
<1>5. ASSUME Len(Logged(row)) < HistoryCap PROVE Len(log) < HistoryCap
  <2>1. CASE Len(Append(log, row)) > HistoryCap
    <3> DEFINE h == Append(log, row)
               m == Len(h) - HistoryCap + 1
    <3>1. m \in 1 .. Len(h) /\ Len(h) \in Nat
      BY <1>1, <1>2, <2>1, GateAssumption
    <3>2. Len(SubSeq(h, m, Len(h))) = Len(h) - m + 1
      BY <1>1, <3>1, SubSeqProperties
    <3>3. Len(Logged(row)) = HistoryCap
      BY <1>1, <1>2, <2>1, <3>2 DEF Logged, LastRows
    <3>4. QED BY <3>3, <1>5, <1>2
  <2>2. CASE ~ (Len(Append(log, row)) > HistoryCap)
    BY <1>1, <1>2, <1>5, <2>2 DEF Logged, LastRows
  <2>3. QED BY <2>1, <2>2
<1>6. QED BY <1>3, <1>4, <1>5

CopiesCapped == Len(file) <= HistoryCap /\ Len(redis) <= HistoryCap

LEMMA SaveTyped ==
  ASSUME TypeOK, CopiesCapped, NEW h \in Seq(Rows), Save(h)
  PROVE  file' \in Seq(Rows) /\ redis' \in Seq(Rows) /\ CopiesCapped'
BY LogTyped DEF TypeOK, CopiesCapped, Save

LEMMA ReportsTyped ==
  ASSUME TypeOK, NEW r \in BarReports
  PROVE  r \in [DOMAIN Timeframes -> Int] /\ Seen(r) \in [DOMAIN Timeframes -> Int]
<1>1. NoneSeen \in Int /\ CachedBar \in Int
  BY TimeframesAssumption DEF NoneSeen, CachedBar
<1>2. ASSUME NEW i \in DOMAIN Timeframes PROVE LastBar(i) \in Int
  <2>1. Timeframes[i] \in Nat \ {0} /\ now \in Int
    BY <1>2, TimeframesAssumption, GateAssumption DEF TypeOK
  <2> DEFINE q == now \div Timeframes[i]
  <2>2. q \in Int
    BY <2>1
  <2> HIDE DEF q
  <2>3. QED BY <2>1, <2>2 DEF LastBar, q
<1>3. \A i \in DOMAIN Timeframes : r[i] \in Int
  BY <1>1, <1>2 DEF BarReports
<1>4. r \in [DOMAIN Timeframes -> Int]
  BY <1>3 DEF BarReports
<1>5. QED BY <1>4 DEF Seen, TypeOK

(* What ending a bar does to the queue. *)
LEMMA BarDoneTyped ==
  ASSUME TypeOK, pc \in {"bars", "confirm", "sent", "filled"}, BarDone
  PROVE  /\ queue' \in Seq(Bars) /\ pc' \in {"idle", "bars"}
         /\ pc' = "bars" => queue' # <<>>
BY DEF TypeOK, BarDone

LEMMA BarTyped ==
  ASSUME TypeOK, pc \in {"bars", "confirm", "sent", "filled"}
  PROVE  Bar \in Bars
BY DEF TypeOK, Bar

LEMMA TypesInit == Init => TypeOK /\ CopiesCapped
<1> SUFFICES ASSUME Init PROVE TypeOK /\ CopiesCapped
  OBVIOUS
<1>1. NoneSeen \in Int
  BY TimeframesAssumption DEF NoneSeen, CachedBar
<1>2. <<>> \in Seq(Rows) /\ Len(<<>>) = 0 /\ <<>> \in Seq(Bars) /\ <<>> \in Seq(Entry)
  OBVIOUS
<1>3. seen \in [DOMAIN Timeframes -> Int] /\ signal = NoSignal /\ last = NoEntry
  BY <1>1 DEF Init
<1>4. /\ file \in Seq(Rows) /\ redis \in Seq(Rows) /\ log \in Seq(Rows)
      /\ CopiesCapped /\ Len(log) <= 2 * HistoryCap
  BY <1>2, GateAssumption DEF Init, CopiesCapped
<1>5. entries \in Seq(Entry) /\ born \in 0 .. Len(entries) /\ queue \in Seq(Bars)
  BY <1>2 DEF Init
<1>6. tickets \in 0 .. MaxTickets /\ now \in 0 .. MaxTime
  BY GateAssumption DEF Init
<1>7. QED BY <1>3, <1>4, <1>5, <1>6 DEF Init, TypeOK

LEMMA TypesStep ==
  ASSUME TypeOK, CopiesCapped, [Next]_vars
  PROVE  TypeOK' /\ CopiesCapped'
<1>0. HistoryCap \in Nat \ {0} /\ MaxTime \in Nat /\ MaxTickets \in Nat /\ tickets \in Nat
      /\ Len(log) \in Nat
  BY GateAssumption DEF TypeOK
<1>1. CASE EngineStarts
  <2>1. <<>> \in Seq(Rows)
    OBVIOUS
  <2>2. file' \in Seq(Rows) /\ redis' \in Seq(Rows) /\ CopiesCapped'
    BY <1>1, <2>1, SaveTyped DEF EngineStarts
  <2>3. log' \in Seq(Rows) /\ Len(log') <= 2 * HistoryCap
    <3>1. CASE log' = file'
      BY <1>0, <2>2, <3>1 DEF CopiesCapped
    <3>2. CASE log' = Merged(file', redis')
      <4>1. log' \in Seq(Rows) /\ Len(log') <= Len(file') + Len(redis')
        BY <2>2, <3>2, MergedTyped
      <4>2. Len(file') \in Nat /\ Len(redis') \in Nat /\ Len(log') \in Nat
        BY <2>2, <4>1
      <4>3. QED BY <1>0, <2>2, <4>1, <4>2 DEF CopiesCapped
    <3>3. QED BY <1>1, <3>1, <3>2 DEF EngineStarts
  <2>4. NoneSeen \in Int
    BY TimeframesAssumption DEF NoneSeen, CachedBar
  <2>5. <<>> \in Seq(Bars) /\ Len(entries) \in Nat
    BY DEF TypeOK
  <2>6. seen' \in [DOMAIN Timeframes -> Int] /\ last' = NoEntry /\ queue' \in Seq(Bars)
    BY <1>1, <2>4, <2>5 DEF EngineStarts
  <2>7. entries' \in Seq(Entry) /\ born' \in 0 .. Len(entries')
    BY <1>1, <2>5 DEF EngineStarts, TypeOK
  <2>8. pc' = "connect" /\ opened' = FALSE /\ fresh' = {}
        /\ UNCHANGED <<positions, tickets, bridge, now>>
    BY <1>1 DEF EngineStarts
  <2>9. QED BY <2>2, <2>3, <2>6, <2>7, <2>8 DEF TypeOK
<1>2. CASE Connected
  BY <1>2 DEF Connected, TypeOK, CopiesCapped, engine, copies, broker, past
<1>3. CASE EngineEnds
  <2>1. file' \in Seq(Rows) /\ redis' \in Seq(Rows) /\ CopiesCapped'
    BY <1>3, SaveTyped DEF EngineEnds, TypeOK
  <2>2. QED BY <1>3, <2>1 DEF EngineEnds, TypeOK, engine, broker, past
<1>4. CASE Crash
  <2>1. file' \in Seq(Rows) /\ Len(file') <= HistoryCap /\ redis' = redis
    <3>1. <<>> \in Seq(Rows) /\ Len(<<>>) <= HistoryCap
      BY <1>0
    <3>2. QED BY <1>4, <3>1 DEF Crash, TypeOK, CopiesCapped
  <2>2. CopiesCapped'
    BY <2>1 DEF CopiesCapped
  <2>3. QED BY <1>4, <2>1, <2>2 DEF Crash, TypeOK, engine, broker, past
<1>5. CASE RedisExpires
  <2>1. redis' \in Seq(Rows) /\ Len(redis') <= HistoryCap /\ file' = file
    BY <1>5, <1>0 DEF RedisExpires
  <2>2. CopiesCapped'
    BY <2>1 DEF CopiesCapped
  <2>3. QED BY <1>5, <2>1, <2>2 DEF RedisExpires, TypeOK, engine, broker, past
<1>6. CASE Poll
  <2>1. PICK r \in BarReports :
          /\ seen' = Seen(r) /\ queue' = NewBars(r)
          /\ IF NewBars(r) = <<>>
             THEN pc' = "idle" /\ Save(log)
             ELSE pc' = "bars" /\ UNCHANGED copies
    BY <1>6 DEF Poll
  <2>2. seen' \in [DOMAIN Timeframes -> Int] /\ queue' \in Seq(Bars)
    BY <2>1, ReportsTyped, NewBarsTyped
  <2>3. file' \in Seq(Rows) /\ redis' \in Seq(Rows) /\ CopiesCapped'
    <3>1. CASE Save(log)
      BY <3>1, SaveTyped DEF TypeOK
    <3>2. CASE UNCHANGED copies
      BY <3>2 DEF TypeOK, CopiesCapped, copies
    <3>3. QED BY <2>1, <3>1, <3>2
  <2>4. pc' \in {"idle", "bars"} /\ (pc' = "bars" => queue' # <<>>)
    BY <2>1
  <2>5. /\ opened' = FALSE /\ fresh' = {}
        /\ UNCHANGED <<last, log, positions, tickets, bridge, now, past>>
    BY <1>6 DEF Poll
  <2>6. QED BY <2>2, <2>3, <2>4, <2>5 DEF TypeOK, past
<1>7. CASE TrailLogged
  <2>1. PICK p \in positions : log' = Logged(AuditRow(p))
    BY <1>7 DEF TrailLogged
  <2>2. AuditRow(p) \in Rows
    BY DEF TypeOK, AuditRow, Rows
  <2>3. log' \in Seq(Rows) /\ Len(log') <= HistoryCap
    BY <2>1, <2>2, LoggedTyped DEF TypeOK
  <2>4. Len(log') <= 2 * HistoryCap
    BY <2>3, <1>0
  <2>5. QED BY <1>7, <2>3, <2>4 DEF TrailLogged, TypeOK, CopiesCapped, copies, broker, past
<1>8. CASE CloseAll
  <2>1. PICK p \in positions : Closed(p) /\ log' = Logged(AuditRow(p))
    BY <1>8 DEF CloseAll, Recognised
  <2>2. AuditRow(p) \in Rows
    BY DEF TypeOK, AuditRow, Rows
  <2>3. log' \in Seq(Rows) /\ Len(log') <= HistoryCap
    BY <2>1, <2>2, LoggedTyped DEF TypeOK
  <2>4. Len(log') <= 2 * HistoryCap
    BY <2>3, <1>0
  <2>5. file' \in Seq(Rows) /\ redis' \in Seq(Rows) /\ CopiesCapped'
    BY <1>8, <2>3, SaveTyped DEF CloseAll
  <2>6. QED BY <1>8, <2>1, <2>3, <2>4, <2>5 DEF CloseAll, Closed, TypeOK, past
<1>9. CASE BarSkipped
  <2>1. queue' \in Seq(Bars) /\ pc' \in {"idle", "bars"} /\ (pc' = "bars" => queue' # <<>>)
    BY <1>9, BarDoneTyped DEF BarSkipped
  <2>2. file' \in Seq(Rows) /\ redis' \in Seq(Rows) /\ CopiesCapped'
    <3>1. CASE Save(log)
      BY <3>1, SaveTyped DEF TypeOK
    <3>2. CASE UNCHANGED copies
      BY <3>2 DEF TypeOK, CopiesCapped, copies
    <3>3. QED BY <1>9, <3>1, <3>2 DEF BarSkipped
  <2>3. QED BY <1>9, <2>1, <2>2 DEF BarSkipped, TypeOK, broker, past
<1>10. CASE FirstLook
  BY <1>10 DEF FirstLook, TypeOK, CopiesCapped, copies, broker, past
<1>11. CASE SecondLook
  BY <1>11 DEF SecondLook, TypeOK, CopiesCapped, engine, copies, broker, past
<1>12. CASE OrderExecuted
  <2>1. 1 .. tickets \cup {tickets + 1} \subseteq 1 .. (tickets + 1)
    BY <1>0
  <2>2. tickets + 1 \in 0 .. MaxTickets
    BY <1>12, <1>0 DEF OrderExecuted
  <2>3. QED
    BY <1>12, <2>1, <2>2 DEF OrderExecuted, TypeOK, CopiesCapped, engine, copies, past
<1>13. CASE OrderAcknowledged
  <2>1. Bar \in Bars
    BY <1>13, BarTyped DEF OrderAcknowledged
  <2>2. signal \in Signals
    BY <1>13 DEF OrderAcknowledged, TypeOK
  <2>3. EntryRow(tickets, signal, Bar.bar) \in Rows
    BY <1>0, <2>1, <2>2 DEF EntryRow, Rows, Signals, Bars
  <2>4. log' \in Seq(Rows) /\ Len(log') <= HistoryCap
    BY <1>13, <2>3, LoggedTyped DEF OrderAcknowledged, EntryMade, TypeOK
  <2>5. Len(log') <= 2 * HistoryCap
    BY <2>4, <1>0
  <2>6. file' \in Seq(Rows) /\ redis' \in Seq(Rows) /\ CopiesCapped'
    BY <1>13, <2>4, SaveTyped DEF OrderAcknowledged, EntryMade
  <2>7. queue' \in Seq(Bars) /\ pc' \in {"idle", "bars"} /\ (pc' = "bars" => queue' # <<>>)
    BY <1>13, BarDoneTyped DEF OrderAcknowledged
  <2>8. last' \in [dir : Directions, bar : Int] \cup {NoEntry}
    BY <1>13, <2>1, <2>2 DEF OrderAcknowledged, EntryMade, Signals, Bars
  <2> DEFINE e == [tf |-> Bar.tf, bar |-> Bar.bar, dir |-> signal.dir, regime |-> signal.regime]
  <2>9. e \in Entry
    BY <2>1, <2>2 DEF Entry, Signals, Bars
  <2>10. entries' \in Seq(Entry) /\ born' \in 0 .. Len(entries')
    <3>1. entries' = Append(entries, e) /\ born' = born
      BY <1>13 DEF OrderAcknowledged
    <3> HIDE DEF e
    <3>2. entries' \in Seq(Entry) /\ Len(entries') = Len(entries) + 1
      BY <2>9, <3>1 DEF TypeOK
    <3>3. QED BY <3>1, <3>2 DEF TypeOK
  <2> HIDE DEF e
  <2>11. opened' \in BOOLEAN /\ UNCHANGED <<seen, broker, now>>
    BY <1>13 DEF OrderAcknowledged, EntryMade
  <2>12. QED
    BY <2>4, <2>5, <2>6, <2>7, <2>8, <2>10, <2>11 DEF TypeOK, broker
<1>14. CASE OrderFails
  <2>1. queue' \in Seq(Bars) /\ pc' \in {"idle", "bars"} /\ (pc' = "bars" => queue' # <<>>)
    BY <1>14, BarDoneTyped DEF OrderFails
  <2>2. file' \in Seq(Rows) /\ redis' \in Seq(Rows) /\ CopiesCapped'
    BY <1>14, SaveTyped DEF OrderFails, TypeOK
  <2>3. QED BY <1>14, <2>1, <2>2 DEF OrderFails, TypeOK, broker, past
<1>15. CASE PositionCloses
  BY <1>15 DEF PositionCloses, Closed, TypeOK, CopiesCapped, engine, copies, past
<1>16. CASE Clock
  BY <1>0, <1>16 DEF Clock, TypeOK, CopiesCapped, engine, copies, broker, past
<1>17. CASE UNCHANGED vars
  BY <1>17 DEF vars, TypeOK, CopiesCapped, engine, copies, broker, past
<1>18. QED
  BY <1>1, <1>2, <1>3, <1>4, <1>5, <1>6, <1>7, <1>8, <1>9, <1>10, <1>11, <1>12,
     <1>13, <1>14, <1>15, <1>16, <1>17 DEF Next

(* The types of EntryGate: among them, that a bar is in hand wherever the  *)
(* handler waits, and that no copy ever exceeds MAX_TRADE_HISTORY, so that *)
(* a restart loads twice as many rows at most.                             *)
THEOREM GateTypes == Spec => [](TypeOK /\ CopiesCapped)
<1>1. TypeOK /\ CopiesCapped /\ [Next]_vars => (TypeOK /\ CopiesCapped)'
  BY TypesStep
<1>2. QED BY <1>1, TypesInit, PTL DEF Spec

-----------------------------------------------------------------------------
(***************************************************************************)
(* The cooldown and the session's limit, within one engine's life.         *)
(***************************************************************************)
Ordering == {"confirm", "sent", "filled"}

(* _last_entry_bar_time and _last_entry_direction are those of the life's  *)
(* last entry.                                                             *)
OwnLast ==
  IF Len(entries) = born THEN last = NoEntry
  ELSE last = [dir |-> entries[Len(entries)].dir, bar |-> entries[Len(entries)].bar]

(* What the gates found at the first look is still so when the order comes *)
(* back: between the two, neither the log nor the last entry changes.      *)
GatesHold == pc \in Ordering => ~Cooling(signal, Bar) /\ RangeAllows(signal, Bar)

(* A log that has dropped no row holds one for every entry of the life.    *)
RangeEntered(es, b, d) ==
  {j \in b + 1 .. Len(es) : es[j].regime = "RANGE" /\ Day(es[j].bar) = d}

RangeRows(h, d) == {i \in DOMAIN h : h[i].regime = "RANGE" /\ Day(h[i].bar) = d}

RangeCounted ==
  Len(log) < HistoryCap =>
    \A d : Cardinality(RangeEntered(entries, born, d)) <= Cardinality(RangeRows(log, d))

(* Only a new engine and an acknowledged order touch what is remembered of *)
(* the entries; whatever else is logged is an audit row.                   *)
LEMMA EntrySteps ==
  ASSUME [Next]_vars, ~EngineStarts, ~OrderAcknowledged
  PROVE  /\ UNCHANGED <<entries, born, last>>
         /\ log' = log \/ \E p \in positions : log' = Logged(AuditRow(p))
<1> USE DEF engine, past
<1>1. CASE Connected \/ EngineEnds \/ Crash \/ RedisExpires \/ SecondLook \/ OrderExecuted
  BY <1>1 DEF Connected, EngineEnds, Crash, RedisExpires, SecondLook, OrderExecuted
<1>2. CASE Poll \/ BarSkipped \/ FirstLook \/ OrderFails
  BY <1>2 DEF Poll, BarSkipped, FirstLook, OrderFails
<1>3. CASE TrailLogged
  BY <1>3 DEF TrailLogged
<1>4. CASE CloseAll
  BY <1>4 DEF CloseAll, Recognised
<1>5. CASE PositionCloses \/ Clock \/ UNCHANGED vars
  BY <1>5 DEF PositionCloses, Clock, vars
<1>6. QED BY <1>1, <1>2, <1>3, <1>4, <1>5 DEF Next

(* An order is under way after a first look, or was so before.             *)
LEMMA OrderingSteps ==
  ASSUME [Next]_vars, pc' \in Ordering, ~FirstLook
  PROVE  pc \in Ordering /\ UNCHANGED <<queue, signal, last, log>>
<1> USE DEF engine, Ordering
<1>1. CASE SecondLook \/ OrderExecuted \/ PositionCloses \/ UNCHANGED vars
  BY <1>1 DEF SecondLook, OrderExecuted, PositionCloses, vars
<1>2. CASE EngineStarts \/ Connected \/ EngineEnds \/ Crash \/ RedisExpires \/ Poll
  BY <1>2 DEF EngineStarts, Connected, EngineEnds, Crash, RedisExpires, Poll
<1>3. CASE TrailLogged \/ CloseAll \/ Clock
  BY <1>3 DEF TrailLogged, CloseAll, Clock
<1>4. CASE BarSkipped \/ OrderAcknowledged \/ OrderFails
  BY <1>4 DEF BarSkipped, OrderAcknowledged, OrderFails, BarDone
<1>5. QED BY <1>1, <1>2, <1>3, <1>4 DEF Next

LEMMA GatesStep ==
  ASSUME GatesHold, [Next]_vars
  PROVE  GatesHold'
<1> SUFFICES ASSUME pc' \in Ordering
             PROVE  (~Cooling(signal, Bar) /\ RangeAllows(signal, Bar))'
  BY DEF GatesHold
<1>1. CASE FirstLook
  BY <1>1 DEF FirstLook, Cooling, RangeAllows, RangeEntries, Bar
<1>2. CASE ~FirstLook
  BY <1>2, OrderingSteps DEF GatesHold, Cooling, RangeAllows, RangeEntries, Bar
<1>3. QED BY <1>1, <1>2

(* The entry an acknowledged order adds. *)
LEMMA EntryAdded ==
  ASSUME TypeOK, OrderAcknowledged
  PROVE  /\ Bar \in Bars /\ signal \in Signals /\ pc \in Ordering
         /\ born' = born /\ Len(entries') = Len(entries) + 1
         /\ \A i \in 1 .. Len(entries) : entries'[i] = entries[i]
         /\ entries'[Len(entries) + 1] = [tf |-> Bar.tf, bar |-> Bar.bar,
                                          dir |-> signal.dir, regime |-> signal.regime]
         /\ last' = [dir |-> signal.dir, bar |-> Bar.bar]
         /\ log' = Logged(EntryRow(tickets, signal, Bar.bar))
<1>1. Bar \in Bars /\ signal \in Signals /\ pc \in Ordering
  BY BarTyped DEF OrderAcknowledged, TypeOK, Ordering
<1> DEFINE e == [tf |-> Bar.tf, bar |-> Bar.bar, dir |-> signal.dir, regime |-> signal.regime]
<1>2. e \in Entry
  BY <1>1 DEF Bars, Signals, Entry
<1>3. entries' = Append(entries, e) /\ born' = born
  BY DEF OrderAcknowledged
<1>4. /\ last' = [dir |-> signal.dir, bar |-> Bar.bar]
      /\ log' = Logged(EntryRow(tickets, signal, Bar.bar))
  BY DEF OrderAcknowledged, EntryMade
<1> HIDE DEF e
<1>5. /\ Len(entries') = Len(entries) + 1 /\ entries'[Len(entries) + 1] = e
      /\ \A i \in 1 .. Len(entries) : entries'[i] = entries[i]
  BY <1>2, <1>3 DEF TypeOK
<1>6. QED BY <1>1, <1>3, <1>4, <1>5 DEF e

LEMMA CooldownStep ==
  ASSUME TypeOK, OwnLast, GatesHold, CooldownKept, [Next]_vars
  PROVE  OwnLast' /\ CooldownKept'
<1>0. Len(entries) \in Nat /\ born \in Nat /\ born <= Len(entries)
  BY DEF TypeOK
<1>1. CASE EngineStarts
  <2>1. entries' = entries /\ born' = Len(entries) /\ last' = NoEntry
    BY <1>1 DEF EngineStarts
  <2>2. QED BY <1>0, <2>1 DEF OwnLast, CooldownKept
<1>2. CASE OrderAcknowledged
  <2>1. OwnLast'
    BY <1>0, <1>2, EntryAdded DEF OwnLast
  <2>2. ASSUME NEW i \in born + 2 .. Len(entries) + 1,
               entries'[i].dir = entries'[i - 1].dir, entries'[i].regime \in Choppy
        PROVE  entries'[i].bar - entries'[i - 1].bar >= 2 * Timeframes[entries'[i].tf]
    <3>1. CASE i \in born + 2 .. Len(entries)
      <4>1. i \in 1 .. Len(entries) /\ i - 1 \in 1 .. Len(entries)
        BY <1>0, <3>1
      <4>2. entries'[i] = entries[i] /\ entries'[i - 1] = entries[i - 1]
        BY <1>2, <4>1, EntryAdded
      <4>3. QED BY <2>2, <3>1, <4>2 DEF CooldownKept
    <3>2. CASE i = Len(entries) + 1
      <4>1. i - 1 = Len(entries) /\ i - 1 \in 1 .. Len(entries) /\ Len(entries) # born
        BY <1>0, <3>2
      <4>2. last.dir = entries'[i - 1].dir /\ last.bar = entries'[i - 1].bar
        BY <1>2, <4>1, EntryAdded DEF OwnLast
      <4>3. /\ entries'[i].dir = signal.dir /\ entries'[i].regime = signal.regime
            /\ entries'[i].bar = Bar.bar /\ entries'[i].tf = Bar.tf
        BY <1>2, <3>2, EntryAdded
      <4>4. ~ (Bar.bar - last.bar < 2 * Timeframes[Bar.tf])
        BY <1>2, <2>2, <4>2, <4>3, EntryAdded DEF GatesHold, Cooling
      <4>5. Bar.bar \in Int /\ last.bar \in Int /\ Timeframes[Bar.tf] \in Nat
        <5>1. NoEntry.bar \in Int
          BY DEF NoEntry
        <5>2. last.bar \in Int
          BY <5>1 DEF TypeOK
        <5>3. Bar.bar \in Int /\ Bar.tf \in DOMAIN Timeframes
          BY <1>2, EntryAdded DEF Bars
        <5>4. QED BY <5>2, <5>3, TimeframesAssumption
      <4>6. QED BY <4>2, <4>3, <4>4, <4>5
    <3>3. QED BY <1>0, <3>1, <3>2
  <2>3. CooldownKept'
    BY <1>2, <2>2, EntryAdded DEF CooldownKept
  <2>4. QED BY <2>1, <2>3
<1>3. CASE ~EngineStarts /\ ~OrderAcknowledged
  BY <1>3, EntrySteps DEF OwnLast, CooldownKept
<1>4. QED BY <1>1, <1>2, <1>3

LEMMA RangeFinite ==
  ASSUME NEW h \in Seq(Rows), NEW es \in Seq(Entry), NEW b \in Nat, NEW d
  PROVE  IsFiniteSet(RangeRows(h, d)) /\ IsFiniteSet(RangeEntered(es, b, d))
<1>1. Len(h) \in Nat /\ DOMAIN h = 1 .. Len(h) /\ Len(es) \in Nat
  OBVIOUS
<1>2. IsFiniteSet(1 .. Len(h)) /\ IsFiniteSet(b + 1 .. Len(es))
  BY <1>1, FS_Interval
<1>3. RangeRows(h, d) \subseteq 1 .. Len(h) /\ RangeEntered(es, b, d) \subseteq b + 1 .. Len(es)
  BY <1>1 DEF RangeRows, RangeEntered
<1>4. QED BY <1>2, <1>3, FS_Subset

(* An appended row counts on its own day, if it is a RANGE entry.          *)
LEMMA RowsAfter ==
  ASSUME NEW h \in Seq(Rows), NEW row \in Rows, NEW d
  PROVE  RangeRows(Append(h, row), d) =
           IF row.regime = "RANGE" /\ Day(row.bar) = d
           THEN RangeRows(h, d) \cup {Len(h) + 1} ELSE RangeRows(h, d)
<1> DEFINE g == Append(h, row)
<1>1. /\ Len(h) \in Nat /\ DOMAIN h = 1 .. Len(h)
      /\ DOMAIN g = 1 .. Len(h) + 1
      /\ g[Len(h) + 1] = row /\ \A i \in 1 .. Len(h) : g[i] = h[i]
  OBVIOUS
<1>2. 1 .. Len(h) + 1 = 1 .. Len(h) \cup {Len(h) + 1} /\ Len(h) + 1 \notin 1 .. Len(h)
  BY <1>1
<1> HIDE DEF g
<1>3. RangeRows(g, d) = IF row.regime = "RANGE" /\ Day(row.bar) = d
                        THEN RangeRows(h, d) \cup {Len(h) + 1} ELSE RangeRows(h, d)
  BY <1>1, <1>2 DEF RangeRows
<1>4. QED BY <1>3 DEF g

(* The same of an added entry. *)
LEMMA EntriesAfter ==
  ASSUME NEW es \in Seq(Entry), NEW fs, NEW b \in Nat, b <= Len(es), NEW d,
         Len(fs) = Len(es) + 1, \A i \in 1 .. Len(es) : fs[i] = es[i]
  PROVE  RangeEntered(fs, b, d) =
           IF fs[Len(es) + 1].regime = "RANGE" /\ Day(fs[Len(es) + 1].bar) = d
           THEN RangeEntered(es, b, d) \cup {Len(es) + 1} ELSE RangeEntered(es, b, d)
<1>1. Len(es) \in Nat
  OBVIOUS
<1>2. b + 1 .. Len(fs) = b + 1 .. Len(es) \cup {Len(es) + 1} /\ Len(es) + 1 \notin b + 1 .. Len(es)
      /\ b + 1 .. Len(es) \subseteq 1 .. Len(es)
  BY <1>1
<1>3. QED BY <1>1, <1>2 DEF RangeEntered

LEMMA OneMore ==
  ASSUME NEW S, IsFiniteSet(S), NEW x, x \notin S
  PROVE  Cardinality(S) \in Nat /\ Cardinality(S \cup {x}) = Cardinality(S) + 1
BY FS_AddElement, FS_CardinalityType

LEMMA RangeStep ==
  ASSUME TypeOK, TypeOK', GatesHold, RangeCounted, RangeLimitInLife, [Next]_vars
  PROVE  RangeCounted' /\ RangeLimitInLife'
<1>0. /\ Len(entries) \in Nat /\ born \in Nat /\ born <= Len(entries)
      /\ Len(log) \in Nat /\ HistoryCap \in Nat /\ MaxRange \in Nat
      /\ log \in Seq(Rows) /\ log' \in Seq(Rows) /\ entries \in Seq(Entry) /\ positions \subseteq Nat
  BY GateAssumption DEF TypeOK
<1>1. CASE EngineStarts
  <2>1. entries' = entries /\ born' = Len(entries)
    BY <1>1 DEF EngineStarts
  <2>2. born' + 1 .. Len(entries') = {}
    BY <1>0, <2>1
  <2>3. ASSUME NEW d
        PROVE  Cardinality(RangeEntered(entries', born', d)) <= Cardinality(RangeRows(log', d))
    <3>1. RangeEntered(entries', born', d) = {}
      BY <2>2 DEF RangeEntered
    <3>2. IsFiniteSet(RangeRows(log', d))
      BY <1>0, RangeFinite
    <3>3. Cardinality({}) = 0 /\ Cardinality(RangeRows(log', d)) \in Nat
      BY <3>2, FS_EmptySet, FS_CardinalityType
    <3>4. QED BY <3>1, <3>3
  <2>4. RangeCounted'
    BY <2>3 DEF RangeCounted
  <2>5. QED BY <2>2, <2>4 DEF RangeLimitInLife
<1>2. CASE OrderAcknowledged
  <2> DEFINE row == EntryRow(tickets, signal, Bar.bar)
             n == Len(entries) + 1
             today == Day(Bar.bar)
  <2>1. Bar \in Bars /\ signal \in Signals /\ tickets \in Nat /\ row \in Rows
        /\ row.regime = signal.regime /\ row.bar = Bar.bar
    <3>1. Bar \in Bars /\ signal \in Signals /\ tickets \in Nat
      BY <1>2, EntryAdded DEF TypeOK
    <3>2. Bar.bar \in Int /\ signal.regime \in Regimes
      BY <3>1 DEF Bars, Signals
    <3>3. QED BY <3>1, <3>2 DEF EntryRow, Rows
  <2>2. /\ Len(entries') = n /\ \A i \in 1 .. Len(entries) : entries'[i] = entries[i]
        /\ entries'[n].regime = signal.regime /\ entries'[n].bar = Bar.bar
        /\ born' = born /\ log' = Logged(row)
    BY <1>2, EntryAdded
  <2> HIDE DEF row
  <2>3. SUFFICES ASSUME Len(log') < HistoryCap PROVE RangeCounted' /\ RangeLimitInLife'
    BY DEF RangeCounted, RangeLimitInLife
  <2>4. Len(log) < HistoryCap /\ log' = Append(log, row)
    BY <1>0, <2>1, <2>2, <2>3, LoggedTyped
  <2>5. \A d : /\ IsFiniteSet(RangeRows(log, d)) /\ IsFiniteSet(RangeEntered(entries, born, d))
               /\ Len(log) + 1 \notin RangeRows(log, d) /\ n \notin RangeEntered(entries, born, d)
    <3>1. \A d : Len(log) + 1 \notin RangeRows(log, d)
      BY <1>0 DEF RangeRows
    <3>2. \A d : n \notin RangeEntered(entries, born, d)
      BY <1>0 DEF RangeEntered
    <3>3. QED BY <1>0, <3>1, <3>2, RangeFinite
  <2>6. ASSUME NEW d
        PROVE  /\ Cardinality(RangeEntered(entries', born', d)) <= Cardinality(RangeRows(log', d))
               /\ IF signal.regime = "RANGE" /\ today = d
                  THEN Cardinality(RangeEntered(entries', born', d)) <= MaxRange
                  ELSE RangeEntered(entries', born', d) = RangeEntered(entries, born, d)
    <3>1. Cardinality(RangeEntered(entries, born, d)) <= Cardinality(RangeRows(log, d))
      BY <2>4 DEF RangeCounted
    <3>2. /\ RangeRows(log', d) = IF signal.regime = "RANGE" /\ today = d
                                  THEN RangeRows(log, d) \cup {Len(log) + 1} ELSE RangeRows(log, d)
          /\ RangeEntered(entries', born', d) =
               IF signal.regime = "RANGE" /\ today = d
               THEN RangeEntered(entries, born, d) \cup {n} ELSE RangeEntered(entries, born, d)
      <4>1. RangeRows(Append(log, row), d) =
              IF row.regime = "RANGE" /\ Day(row.bar) = d
              THEN RangeRows(log, d) \cup {Len(log) + 1} ELSE RangeRows(log, d)
        BY <1>0, <2>1, RowsAfter
      <4>2. RangeEntered(entries', born, d) =
              IF entries'[n].regime = "RANGE" /\ Day(entries'[n].bar) = d
              THEN RangeEntered(entries, born, d) \cup {n} ELSE RangeEntered(entries, born, d)
        <5> DEFINE fs == entries'
        <5>1. Len(fs) = Len(entries) + 1 /\ \A i \in 1 .. Len(entries) : fs[i] = entries[i]
          BY <2>2
        <5> HIDE DEF fs
        <5>2. RangeEntered(fs, born, d) =
                IF fs[Len(entries) + 1].regime = "RANGE" /\ Day(fs[Len(entries) + 1].bar) = d
                THEN RangeEntered(entries, born, d) \cup {Len(entries) + 1}
                ELSE RangeEntered(entries, born, d)
          BY <1>0, <5>1, EntriesAfter
        <5>3. QED BY <5>2 DEF fs
      <4>3. QED BY <2>1, <2>2, <2>4, <4>1, <4>2
    <3>3. CASE signal.regime = "RANGE" /\ today = d
      <4>1. RangeRows(log, d) = RangeEntries(log, Bar)
        BY <3>3 DEF RangeRows, RangeEntries
      <4>2. Cardinality(RangeRows(log, d)) < MaxRange
        BY <1>2, <3>3, <4>1, EntryAdded DEF GatesHold, RangeAllows
      <4>3. /\ Cardinality(RangeRows(log', d)) = Cardinality(RangeRows(log, d)) + 1
            /\ Cardinality(RangeEntered(entries', born', d)) = Cardinality(RangeEntered(entries, born, d)) + 1
            /\ Cardinality(RangeRows(log, d)) \in Nat
            /\ Cardinality(RangeEntered(entries, born, d)) \in Nat
        BY <2>5, <3>2, <3>3, OneMore
      <4>4. QED BY <1>0, <3>1, <3>3, <4>2, <4>3
    <3>4. CASE ~ (signal.regime = "RANGE" /\ today = d)
      BY <3>1, <3>2, <3>4
    <3>5. QED BY <3>3, <3>4
  <2>7. RangeCounted'
    BY <2>6 DEF RangeCounted
  <2>8. ASSUME NEW i \in born + 1 .. n
        PROVE  Cardinality(RangeEntered(entries', born', Day(entries'[i].bar))) <= MaxRange
    <3> DEFINE d == Day(entries'[i].bar)
    <3>1. CASE signal.regime = "RANGE" /\ today = d
      BY <2>6, <3>1
    <3>2. CASE ~ (signal.regime = "RANGE" /\ today = d)
      <4>1. RangeEntered(entries', born', d) = RangeEntered(entries, born, d)
        BY <2>6, <3>2
      <4>2. CASE RangeEntered(entries, born, d) = {}
        BY <1>0, <4>1, <4>2, FS_EmptySet
      <4>3. ASSUME NEW j \in RangeEntered(entries, born, d)
            PROVE  Cardinality(RangeEntered(entries, born, d)) <= MaxRange
        <5>1. j \in born + 1 .. Len(entries) /\ Day(entries[j].bar) = d
          BY DEF RangeEntered
        <5>2. Cardinality(RangeInDay(j, born + 1)) <= MaxRange
          BY <2>4, <5>1 DEF RangeLimitInLife
        <5>3. RangeInDay(j, born + 1) = RangeEntered(entries, born, d)
          BY <5>1 DEF RangeInDay, RangeEntered
        <5>4. QED BY <5>2, <5>3
      <4>4. QED BY <4>1, <4>2, <4>3
    <3>3. QED BY <3>1, <3>2
  <2>9. RangeLimitInLife'
    BY <2>2, <2>8 DEF RangeLimitInLife, RangeInDay, RangeEntered, Day
  <2>10. QED BY <2>7, <2>9
<1>3. CASE ~EngineStarts /\ ~OrderAcknowledged
  <2>1. UNCHANGED <<entries, born>>
    BY <1>3, EntrySteps
  <2>2. CASE log' = log
    BY <2>1, <2>2 DEF RangeCounted, RangeLimitInLife, RangeInDay, Day
  <2>3. CASE \E p \in positions : log' = Logged(AuditRow(p))
    <3>1. PICK p \in positions : log' = Logged(AuditRow(p))
      BY <2>3
    <3>2. AuditRow(p) \in Rows /\ AuditRow(p).regime # "RANGE"
      BY <1>0 DEF AuditRow, Rows
    <3>3. SUFFICES ASSUME Len(log') < HistoryCap PROVE RangeCounted' /\ RangeLimitInLife'
      BY DEF RangeCounted, RangeLimitInLife
    <3>4. Len(log) < HistoryCap /\ log' = Append(log, AuditRow(p))
      BY <1>0, <3>1, <3>2, <3>3, LoggedTyped
    <3>5. \A d : RangeRows(log', d) = RangeRows(log, d)
      BY <1>0, <3>2, <3>4, RowsAfter
    <3>6. RangeCounted'
      BY <2>1, <3>4, <3>5 DEF RangeCounted
    <3>7. RangeLimitInLife'
      BY <2>1, <3>4 DEF RangeLimitInLife, RangeInDay, Day
    <3>8. QED BY <3>6, <3>7
  <2>4. QED BY <1>3, <2>2, <2>3, EntrySteps
<1>4. QED BY <1>1, <1>2, <1>3

-----------------------------------------------------------------------------
GateInv ==
  /\ TypeOK /\ CopiesCapped
  /\ OwnLast /\ GatesHold /\ CooldownKept
  /\ RangeCounted /\ RangeLimitInLife

LEMMA GateInvariant == Spec => []GateInv
<1>1. Init => GateInv
  <2> SUFFICES ASSUME Init PROVE GateInv
    OBVIOUS
  <2>1. entries = <<>> /\ born = 0 /\ last = NoEntry /\ log = <<>> /\ pc = "down"
    BY DEF Init
  <2>2. OwnLast /\ GatesHold /\ CooldownKept /\ RangeLimitInLife
    BY <2>1 DEF OwnLast, GatesHold, Ordering, CooldownKept, RangeLimitInLife
  <2>3. ASSUME NEW d
        PROVE  Cardinality(RangeEntered(entries, born, d)) <= Cardinality(RangeRows(log, d))
    <3>1. RangeEntered(entries, born, d) = {} /\ RangeRows(log, d) = {}
      BY <2>1 DEF RangeEntered, RangeRows
    <3>2. QED BY <3>1, FS_EmptySet
  <2>4. QED BY <2>2, <2>3, TypesInit DEF GateInv, RangeCounted
<1>2. GateInv /\ [Next]_vars => GateInv'
  <2> SUFFICES ASSUME GateInv, [Next]_vars PROVE GateInv'
    OBVIOUS
  <2>1. TypeOK' /\ CopiesCapped'
    BY TypesStep DEF GateInv
  <2>2. QED BY <2>1, GatesStep, CooldownStep, RangeStep DEF GateInv
<1>3. QED BY <1>1, <1>2, PTL DEF Spec

(* live_loop.py, the cooldown after a stop: within an engine's life two    *)
(* entries of one direction in a choppy regime are at least two bars       *)
(* apart, on whatever timeframes, and whatever bars the bridge reports     *)
(* late, repeats or withholds.                                             *)
THEOREM CooldownAlwaysKept == Spec => []CooldownKept
<1>1. GateInv => CooldownKept
  BY DEF GateInv
<1>2. QED BY <1>1, GateInvariant, PTL

(* live_loop.py, MAX_RANGE_TRADES_PER_SESSION: within an engine's life and *)
(* while its log has dropped no row, no UTC day gets more RANGE entries    *)
(* than the limit, for every limit and any number of audit rows between.   *)
THEOREM RangeLimitAlwaysKept == Spec => []RangeLimitInLife
<1>1. GateInv => RangeLimitInLife
  BY DEF GateInv
<1>2. QED BY <1>1, GateInvariant, PTL
=============================================================================
