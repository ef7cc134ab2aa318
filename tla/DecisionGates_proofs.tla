------------------------- MODULE DecisionGates_proofs -------------------------
(***************************************************************************)
(* Theorems about DecisionGates and the MarketStructure it extends: for    *)
(* windows of any length and candles at any prices, any configuration, any *)
(* reading of the other engines and any H1 data.                           *)
(*                                                                         *)
(* An analysis is a recursive function from bars to readings.  What is     *)
(* shown of all of them is shown of the first that would not have it,      *)
(* which NatMin provides.  The sections, in order: that the function       *)
(* exists and is the one analysed; ReadingInv, which every bar keeps; what *)
(* an analysis returns; BarInv, the invariant of the specification, with   *)
(* the first four theorems; two windows, one a candle longer, read alike;  *)
(* the order blocks, every break's among them; and where the capital       *)
(* manager places stop and target, with the arithmetic of rounded          *)
(* quotients, of sums of true ranges and of levels behind the entry.       *)
(***************************************************************************)
EXTENDS DecisionGates, FiniteSetTheorems, SequenceTheorems, TLAPS

(* Every nonempty set of naturals has a least element. *)
LEMMA NatMin ==
  ASSUME NEW T, T \subseteq Nat, T # {}
  PROVE  \E x \in T : \A y \in T : x <= y
<1> DEFINE F == {0 .. k : k \in T}
<1>1. \A k \in Nat : 0 .. k \in FiniteSubsetsOf(Nat)
  BY FS_Interval DEF FiniteSubsetsOf
<1>2. F \subseteq FiniteSubsetsOf(Nat) /\ F # {}
  BY <1>1
<1>3. PICK s \in F : \A t \in F : ~ (<<t, s>> \in StrictSubsetOrdering(Nat))
  BY <1>2, FS_StrictSubsetOrderingWellFounded, WFMin, Zenon
<1>4. PICK x \in T : s = 0 .. x
  BY <1>3
<1>5. ASSUME NEW y \in T, y < x PROVE FALSE
  <2>1. 0 .. y \in F /\ 0 .. y \subseteq 0 .. x /\ x \notin 0 .. y /\ x \in 0 .. x
    BY <1>5
  <2>2. 0 .. y # s BY <2>1, <1>4
  <2>3. <<0 .. y, s>> \in StrictSubsetOrdering(Nat)
    <3>1. 0 .. y \in SUBSET Nat /\ s \in SUBSET Nat
      BY <1>4
    <3> HIDE DEF F
    <3> QED BY <2>1, <2>2, <1>4, <3>1 DEF StrictSubsetOrdering
  <2>4. QED BY <2>1, <2>3, <1>3
<1>6. QED
  BY <1>5

-----------------------------------------------------------------------------
(* The reading of every bar. *)

(* A reading in terms of the one before, as the body of Structure has it.  *)
Step(cs, sw, f, i) ==
  IF i = SwingLookback THEN NoBreaks
  ELSE LET r == f[i - 1] IN ReadBar(cs, sw, r, i)

ReadingOf(f, cs, sw) == f = [i \in SwingLookback .. Len(cs) |-> Step(cs, sw, f, i)]

(* There is such a function, for otherwise some bar would be the first to  *)
(* have none.                                                              *)
LEMMA ReadingExists ==
  ASSUME NEW cs, NEW sw, NEW n \in Nat
  PROVE  \E f : f = [i \in SwingLookback .. n |-> Step(cs, sw, f, i)]
<1> DEFINE P(m) == \E f : f = [i \in SwingLookback .. m |-> Step(cs, sw, f, i)]
           T == {m \in Nat : ~ P(m)}
<1>1. SUFFICES ASSUME T # {} PROVE FALSE
  OBVIOUS
<1>2. PICK m \in T : \A k \in T : m <= k
  <2>1. T \subseteq Nat OBVIOUS
  <2> HIDE DEF T
  <2>2. QED BY <1>1, <2>1, NatMin
<1>3. m \in Nat /\ ~ P(m) OBVIOUS
<1>4. CASE m < SwingLookback
  <2>1. SwingLookback .. m = {} BY <1>3, <1>4, StructureAssumption
  <2> DEFINE f == [i \in {} |-> 0]
  <2>2. f = [i \in SwingLookback .. m |-> Step(cs, sw, f, i)] BY <2>1
  <2> HIDE DEF f
  <2>3. QED BY <2>2, <1>3
<1>5. CASE m >= SwingLookback
  <2>1. m - 1 \in Nat
    BY <1>3, <1>5, StructureAssumption
  <2>2. m - 1 \notin T
    <3> HIDE DEF T
    <3> QED BY <1>2, <1>3, <2>1
  <2>3. P(m - 1)
    BY <2>1, <2>2
  <2>4. PICK f : f = [i \in SwingLookback .. (m - 1) |-> Step(cs, sw, f, i)]
    BY <2>3
  <2> DEFINE g == [i \in SwingLookback .. m |-> IF i = m THEN Step(cs, sw, f, i) ELSE f[i]]
  <2>5. ASSUME NEW i \in SwingLookback .. m PROVE g[i] = Step(cs, sw, g, i)
    <3>1. i = SwingLookback \/ (i - 1 \in SwingLookback .. m /\ i - 1 # m)
      BY <1>3, StructureAssumption
    <3>2. i # SwingLookback => g[i - 1] = f[i - 1]
      BY <3>1
    <3>3. Step(cs, sw, g, i) = Step(cs, sw, f, i)
      BY <3>2 DEF Step
    <3>4. CASE i = m BY <3>3, <3>4
    <3>5. CASE i # m
      <4>1. i \in SwingLookback .. (m - 1) BY <3>5, <1>3, StructureAssumption
      <4>2. f[i] = Step(cs, sw, f, i)
        BY <2>4, <4>1
      <4>3. QED BY <3>3, <3>5, <4>2
    <3>6. QED BY <3>4, <3>5
  <2>6. g = [i \in SwingLookback .. m |-> Step(cs, sw, g, i)]
    BY <2>5
  <2> HIDE DEF g
  <2>7. QED BY <2>6, <1>3
<1>6. QED BY <1>3, <1>4, <1>5, StructureAssumption

(* Structure is the reading of the last bar. *)
LEMMA StructureIsReading ==
  ASSUME NEW cs, NEW sw, Len(cs) \in Nat
  PROVE  \E f : ReadingOf(f, cs, sw) /\ Structure(cs, sw) = f[Len(cs)]
<1> DEFINE upto == CHOOSE f : f = [i \in SwingLookback .. Len(cs) |-> Step(cs, sw, f, i)]
<1>1. ReadingOf(upto, cs, sw)
  BY ReadingExists, Zenon DEF ReadingOf
<1>2. Structure(cs, sw) = upto[Len(cs)]
  BY DEF Structure, Step
<1>3. QED BY <1>1, <1>2

-----------------------------------------------------------------------------
(* What one bar may do to the reading. *)

Trends == {"NEUTRAL", "BULLISH", "BEARISH"}
Event == [kind : Kinds, type : Directions, bar : Nat, price : Int]
Reading ==
  [trend : Trends, run : Seq(Directions), used : [Directions -> SUBSET Int],
   lists : [Kinds -> Seq(Event)], events : Seq(Event)]

(* Events are in the order of their bars, one at most to a bar.            *)
InOrder(es, i) ==
  /\ \A n \in 1 .. Len(es) : es[n].bar <= i
  /\ \A m, n \in 1 .. Len(es) : m < n => es[m].bar < es[n].bar

(* The lists hold what happened, and the newest is the last of its list.   *)
Listed(r) ==
  /\ \A k \in Kinds : \A n \in 1 .. Len(r.lists[k]) :
       \E m \in 1 .. Len(r.events) : r.lists[k][n] = r.events[m]
  /\ Len(r.events) > 0 =>
       LET e == r.events[Len(r.events)] IN
       Len(r.lists[e.kind]) > 0 /\ r.lists[e.kind][Len(r.lists[e.kind])] = e

(* The last k events are breaks of structure in that direction.            *)
EndsIn(es, k, dir) ==
  Len(es) >= k /\ \A m \in (Len(es) - k + 1) .. Len(es) : es[m].kind = "BOS" /\ es[m].type = dir

(* The run ends in the latest break, and a trend needs two.                *)
RunKept(r) == Len(r.run) > 0 => EndsIn(r.events, 1, r.run[Len(r.run)])

TrendKept(r) ==
  \A dir \in Directions : r.trend = Trending(dir) => Len(r.run) > 0 /\ EndsIn(r.events, 2, dir)

(* ReversalEndsTrend, of a sequence of events.                             *)
TurnsAfterTwo(es) ==
  \A n \in 1 .. Len(es) :
    es[n].kind = "CHOCH" =>
      /\ n > 2
      /\ \A m \in {n - 1, n - 2} :
           es[m].kind = "BOS" /\ es[m].type = Opposite(es[n].type)

(* What holds of the reading after bar i.                                  *)
ReadingInv(r, i) ==
  /\ r \in Reading /\ InOrder(r.events, i) /\ Listed(r)
  /\ RunKept(r) /\ TrendKept(r) /\ TurnsAfterTwo(r.events)

(* The greatest of a set, and the swing that is broken is one of them.     *)
LEMMA GreatestIn ==
  ASSUME NEW n \in Nat, NEW T, T \subseteq 1 .. n, T # {}
  PROVE  Greatest(T) \in T /\ \A y \in T : y <= Greatest(T)
<1> DEFINE U == {n - x : x \in T}
<1>1. U \subseteq Nat /\ U # {}
  <2>1. \A x \in T : n - x \in Nat
    OBVIOUS
  <2>2. QED BY <2>1
<1>2. PICK u \in U : \A v \in U : u <= v
  <2> HIDE DEF U
  <2> QED BY <1>1, NatMin
<1>3. PICK x \in T : u = n - x
  BY <1>2
<1>4. \A y \in T : n - y \in U /\ y <= x
  BY <1>2, <1>3
<1>5. QED BY <1>3, <1>4 DEF Greatest

LEMMA TargetIn ==
  ASSUME NEW sw, NEW n \in Nat, \A d \in Directions : sw[d] \subseteq 1 .. n,
         NEW r, NEW dir \in Directions, NEW i \in Nat, Target(sw, r, dir, i) # 0
  PROVE  Target(sw, r, dir, i) \in 1 .. n
<1> DEFINE T == {k \in sw[dir] \ r.used[dir] : k < i}
<1>1. T \subseteq 1 .. n
  OBVIOUS
<1>2. T # {}
  BY DEF Target, Greatest
<1>3. Greatest(T) \in T
  <2> HIDE DEF T
  <2> QED BY <1>1, <1>2, GreatestIn
<1>4. QED BY <1>1, <1>3 DEF Target

(* Noting an event keeps types, order and lists.                           *)
LEMMA NotedReading ==
  ASSUME NEW r \in Reading, NEW cs \in Seq(Candle), NEW kind \in Kinds,
         NEW dir \in Directions, NEW t \in 1 .. Len(cs), NEW i \in Nat,
         InOrder(r.events, i - 1), Listed(r)
  PROVE  LET q == Noted(cs, r, kind, dir, t, i) IN
         \E e \in Event :
           /\ e.kind = kind /\ e.type = dir /\ e.bar = i
           /\ q \in Reading /\ InOrder(q.events, i) /\ Listed(q)
           /\ q.events = Append(r.events, e) /\ q.trend = r.trend /\ q.run = r.run
<1> DEFINE q == Noted(cs, r, kind, dir, t, i)
           e == [kind |-> kind, type |-> dir, bar |-> i, price |-> Level(cs, dir, t)]
<1>1. e \in Event
  <2>1. cs[t] \in Candle
    OBVIOUS
  <2>2. Level(cs, dir, t) \in Int
    BY <2>1 DEF Level, Candle
  <2>3. QED BY <2>2 DEF Event
<1>2. /\ q \in Reading
      /\ q.events = Append(r.events, e) /\ q.trend = r.trend /\ q.run = r.run
      /\ q.lists = [r.lists EXCEPT ![kind] = Append(@, e)]
  <2>1. q = [r EXCEPT !.used[dir] = @ \cup {t}, !.lists[kind] = Append(@, e),
                      !.events = Append(@, e)]
    BY DEF Noted
  <2> HIDE DEF e
  <2>2. /\ r.used \in [Directions -> SUBSET Int] /\ r.lists \in [Kinds -> Seq(Event)]
        /\ r.events \in Seq(Event)
    BY DEF Reading
  <2>3. [r.used EXCEPT ![dir] = @ \cup {t}] \in [Directions -> SUBSET Int]
    BY <2>2
  <2>4. Append(r.lists[kind], e) \in Seq(Event) /\ Append(r.events, e) \in Seq(Event)
    BY <2>2, <1>1
  <2>5. [r.lists EXCEPT ![kind] = Append(@, e)] \in [Kinds -> Seq(Event)]
    BY <2>2, <2>4
  <2>6. q = [trend |-> r.trend, run |-> r.run, used |-> [r.used EXCEPT ![dir] = @ \cup {t}],
             lists |-> [r.lists EXCEPT ![kind] = Append(@, e)], events |-> Append(r.events, e)]
    BY <2>1 DEF Reading
  <2>7. r.trend \in Trends /\ r.run \in Seq(Directions)
    BY DEF Reading
  <2>8. QED BY <2>3, <2>4, <2>5, <2>6, <2>7 DEF Reading
<1>3. e.kind = kind /\ e.type = dir /\ e.bar = i
  OBVIOUS
<1> HIDE DEF e, q
<1>4. InOrder(q.events, i)
  <2> DEFINE es == r.events
             n == Len(es)
  <2>1. es \in Seq(Event) /\ n \in Nat
    BY DEF Reading
  <2>2. \A m \in 1 .. n : es[m].bar \in Nat
    <3>1. \A m \in 1 .. n : es[m] \in Event
      BY <2>1
    <3>2. QED BY <3>1 DEF Event
  <2>3. Len(q.events) = n + 1 /\ q.events[n + 1] = e /\ \A m \in 1 .. n : q.events[m] = es[m]
    BY <1>1, <1>2, <2>1
  <2>4. \A m \in 1 .. n : es[m].bar <= i - 1
    BY DEF InOrder
  <2>5. \A m \in 1 .. n : es[m].bar < i
    BY <2>2, <2>4
  <2>6. \A k, m \in 1 .. n : k < m => es[k].bar < es[m].bar
    BY DEF InOrder
  <2> HIDE DEF es, n
  <2>7. ASSUME NEW m \in 1 .. (n + 1) PROVE m \in 1 .. n \/ m = n + 1
    BY <2>1
  <2>8. \A m \in 1 .. (n + 1) : q.events[m].bar <= i
    BY <2>3, <2>5, <2>2, <2>7, <1>3
  <2>9. ASSUME NEW k \in 1 .. (n + 1), NEW m \in 1 .. (n + 1), k < m
        PROVE  q.events[k].bar < q.events[m].bar
    <3>1. k \in 1 .. n
      BY <2>1, <2>9
    <3>2. CASE m \in 1 .. n
      BY <3>1, <3>2, <2>3, <2>6, <2>9
    <3>3. CASE m = n + 1
      BY <3>1, <3>3, <2>3, <2>5, <1>3
    <3>4. QED BY <2>7, <3>2, <3>3
  <2>10. QED BY <2>3, <2>8, <2>9 DEF InOrder
<1>5. Listed(q)
  <2>1. /\ r.events \in Seq(Event) /\ r.lists \in [Kinds -> Seq(Event)]
        /\ Len(q.events) = Len(r.events) + 1 /\ q.events[Len(q.events)] = e
        /\ \A m \in 1 .. Len(r.events) : q.events[m] = r.events[m]
    BY <1>1, <1>2 DEF Reading
  <2>2. /\ Len(q.lists[kind]) = Len(r.lists[kind]) + 1 /\ q.lists[kind][Len(q.lists[kind])] = e
        /\ \A m \in 1 .. Len(r.lists[kind]) : q.lists[kind][m] = r.lists[kind][m]
        /\ \A k \in Kinds \ {kind} : q.lists[k] = r.lists[k]
    BY <1>1, <1>2, <2>1
  <2>3. ASSUME NEW k \in Kinds, NEW n \in 1 .. Len(q.lists[k])
        PROVE  \E m \in 1 .. Len(q.events) : q.lists[k][n] = q.events[m]
    <3>1. CASE k = kind /\ n = Len(q.lists[k])
      BY <3>1, <2>1, <2>2
    <3>2. CASE ~ (k = kind /\ n = Len(q.lists[k]))
      <4>1. n \in 1 .. Len(r.lists[k]) /\ q.lists[k][n] = r.lists[k][n]
        <5>1. CASE k = kind
          <6>1. n # Len(q.lists[kind]) /\ n \in 1 .. Len(q.lists[kind])
            BY <5>1, <3>2
          <6>2. Len(r.lists[kind]) \in Nat
            BY <2>1
          <6>3. n \in 1 .. Len(r.lists[kind])
            BY <6>1, <6>2, <2>2
          <6>4. QED BY <5>1, <6>3, <2>2
        <5>2. CASE k # kind
          <6>1. q.lists[k] = r.lists[k]
            BY <5>2, <2>2
          <6>2. QED BY <6>1
        <5>3. QED BY <5>1, <5>2
      <4>2. PICK m \in 1 .. Len(r.events) : r.lists[k][n] = r.events[m]
        BY <4>1 DEF Listed
      <4>3. QED BY <4>1, <4>2, <2>1
    <3>3. QED BY <3>1, <3>2
  <2>4. Len(q.events) > 0 => q.events[Len(q.events)] = e /\ Len(q.lists[e.kind]) > 0
                               /\ q.lists[e.kind][Len(q.lists[e.kind])] = e
    BY <2>1, <2>2, <1>3
  <2>5. QED BY <2>3, <2>4 DEF Listed
<1>6. QED BY <1>1, <1>2, <1>3, <1>4, <1>5 DEF q

(* A break against the trend comes after two breaks with it. *)
LEMMA ReversalKeeps ==
  ASSUME NEW r, NEW cs \in Seq(Candle), NEW dir \in Directions, NEW t \in 1 .. Len(cs),
         NEW i \in Nat, ReadingInv(r, i - 1), r.trend = Trending(Opposite(dir))
  PROVE  ReadingInv(Noted(cs, Reversal(r), "CHOCH", dir, t, i), i)
<1> DEFINE p == Reversal(r)
           q == Noted(cs, p, "CHOCH", dir, t, i)
<1>1. /\ p \in Reading /\ p.events = r.events /\ p.lists = r.lists
      /\ p.trend = "NEUTRAL" /\ p.run = <<>>
  <2>1. r \in Reading
    BY DEF ReadingInv
  <2>2. <<>> \in Seq(Directions) /\ "NEUTRAL" \in Trends
    BY DEF Trends
  <2>3. QED BY <2>1, <2>2 DEF Reversal, Reading
<1> HIDE DEF p
<1>2. InOrder(p.events, i - 1) /\ Listed(p)
  <2>1. InOrder(r.events, i - 1) /\ Listed(r)
    BY DEF ReadingInv
  <2>2. QED BY <1>1, <2>1 DEF Listed
<1>3. q = Noted(cs, p, "CHOCH", dir, t, i) /\ "CHOCH" \in Kinds
  BY DEF Kinds
<1> HIDE DEF q
<1>4. PICK e \in Event :
        /\ e.kind = "CHOCH" /\ e.type = dir
        /\ q \in Reading /\ InOrder(q.events, i) /\ Listed(q)
        /\ q.events = Append(r.events, e) /\ q.trend = "NEUTRAL" /\ q.run = <<>>
  <2>1. p \in Reading
    BY <1>1
  <2>2. \E e \in Event :
          /\ e.kind = "CHOCH" /\ e.type = dir /\ e.bar = i
          /\ q \in Reading /\ InOrder(q.events, i) /\ Listed(q)
          /\ q.events = Append(p.events, e) /\ q.trend = p.trend /\ q.run = p.run
    BY <2>1, <1>2, <1>3, NotedReading, SMTT(60) DEF q
  <2>3. QED BY <2>2, <1>1
<1>5. RunKept(q)
  BY <1>4 DEF RunKept
<1>6. TrendKept(q)
  BY <1>4 DEF TrendKept, Trending
<1>7. EndsIn(r.events, 2, Opposite(dir))
  BY DEF ReadingInv, TrendKept, Opposite, Directions
<1>8. TurnsAfterTwo(q.events)
  <2> DEFINE es == r.events
             n == Len(es)
  <2>1. n \in Nat /\ es \in Seq(Event)
    BY <1>1 DEF Reading
  <2>2. Len(q.events) = n + 1 /\ q.events[n + 1] = e /\ \A m \in 1 .. n : q.events[m] = es[m]
    BY <1>4, <2>1
  <2>3. n >= 2 /\ \A m \in {n, n - 1} : es[m].kind = "BOS" /\ es[m].type = Opposite(dir)
    <3> HIDE DEF es
    <3>1. EndsIn(es, 2, Opposite(dir)) /\ Len(es) \in Nat
      BY <1>7, <2>1 DEF es
    <3>2. QED BY <3>1 DEF EndsIn
  <2>4. TurnsAfterTwo(es)
    BY DEF ReadingInv
  <2> HIDE DEF es, n
  <2>5. Len(es) = n
    BY DEF n
  <2>6. ASSUME NEW m \in 1 .. (n + 1), q.events[m].kind = "CHOCH"
        PROVE  /\ m > 2
               /\ \A k \in {m - 1, m - 2} :
                    q.events[k].kind = "BOS" /\ q.events[k].type = Opposite(q.events[m].type)
    <3>1. CASE m \in 1 .. n
      <4>1. /\ m > 2
            /\ \A k \in {m - 1, m - 2} :
                 es[k].kind = "BOS" /\ es[k].type = Opposite(es[m].type)
        BY <2>2, <2>4, <2>5, <2>6, <3>1 DEF TurnsAfterTwo
      <4>2. m - 1 \in 1 .. n /\ m - 2 \in 1 .. n
        BY <4>1, <3>1, <2>1
      <4>3. QED BY <4>1, <4>2, <3>1, <2>2
    <3>2. CASE m = n + 1
      <4>1. n \in 1 .. n /\ n - 1 \in 1 .. n /\ m - 1 = n /\ m - 2 = n - 1 /\ m > 2
        BY <2>1, <2>3, <3>2
      <4>2. QED BY <4>1, <3>2, <2>2, <2>3, <1>4
    <3>3. QED BY <2>1, <3>1, <3>2
  <2>7. QED BY <2>2, <2>6 DEF TurnsAfterTwo
<1>9. QED BY <1>4, <1>5, <1>6, <1>8 DEF ReadingInv, q, p

(* Any other break goes with the trend there is, if there is one. *)
LEMMA ContinuationKeeps ==
  ASSUME NEW r, NEW cs \in Seq(Candle), NEW dir \in Directions, NEW t \in 1 .. Len(cs),
         NEW i \in Nat, ReadingInv(r, i - 1), r.trend # Trending(Opposite(dir))
  PROVE  ReadingInv(Noted(cs, Continuation(r, dir), "BOS", dir, t, i), i)
<1> DEFINE p == Continuation(r, dir)
           q == Noted(cs, p, "BOS", dir, t, i)
           n == Len(r.run)
<1>1. r.run \in Seq(Directions) /\ n \in Nat /\ r.trend \in Trends
  BY DEF ReadingInv, Reading
<1>2. /\ Len(Append(r.run, dir)) = n + 1 /\ Append(r.run, dir)[n + 1] = dir
      /\ \A m \in 1 .. n : Append(r.run, dir)[m] = r.run[m]
      /\ Append(r.run, dir) \in Seq(Directions)
  BY <1>1
<1>3. /\ p \in Reading /\ p.events = r.events /\ p.lists = r.lists
      /\ p.run = Append(r.run, dir)
      /\ p.trend = IF n + 1 >= 2 /\ Append(r.run, dir)[n] = dir THEN Trending(dir) ELSE r.trend
  <2>1. r \in Reading
    BY DEF ReadingInv
  <2>2. p = [r EXCEPT !.run = Append(r.run, dir),
                      !.trend = IF n + 1 >= 2 /\ Append(r.run, dir)[n] = dir
                                THEN Trending(dir) ELSE @]
    <3> DEFINE run == Append(r.run, dir)
    <3>1. Len(run) = n + 1 /\ Len(run) - 1 = n
      BY <1>1, <1>2
    <3>2. p = [r EXCEPT !.run = run,
                        !.trend = IF Len(run) >= 2 /\ run[Len(run) - 1] = dir
                                  THEN Trending(dir) ELSE @]
      BY DEF Continuation
    <3> HIDE DEF run, n
    <3>3. QED BY <3>1, <3>2 DEF run
  <2>3. Trending(dir) \in Trends
    BY DEF Trending, Trends
  <2>4. QED BY <1>1, <1>2, <2>1, <2>2, <2>3 DEF Reading
<1> HIDE DEF p
<1>4. InOrder(p.events, i - 1) /\ Listed(p)
  <2>1. InOrder(r.events, i - 1) /\ Listed(r)
    BY DEF ReadingInv
  <2>2. QED BY <1>3, <2>1 DEF Listed
<1>5. q = Noted(cs, p, "BOS", dir, t, i) /\ "BOS" \in Kinds
  BY DEF Kinds
<1> HIDE DEF q
<1>6. PICK e \in Event :
        /\ e.kind = "BOS" /\ e.type = dir
        /\ q \in Reading /\ InOrder(q.events, i) /\ Listed(q)
        /\ q.events = Append(r.events, e) /\ q.trend = p.trend /\ q.run = p.run
  <2>1. p \in Reading
    BY <1>3
  <2>2. \E e \in Event :
          /\ e.kind = "BOS" /\ e.type = dir /\ e.bar = i
          /\ q \in Reading /\ InOrder(q.events, i) /\ Listed(q)
          /\ q.events = Append(p.events, e) /\ q.trend = p.trend /\ q.run = p.run
    BY <2>1, <1>4, <1>5, NotedReading, SMTT(60) DEF q
  <2>3. QED BY <2>2, <1>3
<1> DEFINE es == r.events
           l == Len(es)
<1>7. l \in Nat /\ es \in Seq(Event)
  BY DEF ReadingInv, Reading
<1>8. Len(q.events) = l + 1 /\ q.events[l + 1] = e /\ \A m \in 1 .. l : q.events[m] = es[m]
  BY <1>6, <1>7
<1>9. RunKept(q)
  <2> HIDE DEF q
  <2>1. q.run[Len(q.run)] = dir
    BY <1>2, <1>3, <1>6
  <2>2. EndsIn(q.events, 1, dir)
    BY <1>6, <1>7, <1>8 DEF EndsIn
  <2>3. QED BY <2>1, <2>2 DEF RunKept
<1>10. TrendKept(q)
  <2>1. ASSUME n > 0, r.run[n] = dir PROVE EndsIn(q.events, 2, dir)
    <3>1. EndsIn(es, 1, dir)
      BY <2>1 DEF ReadingInv, RunKept
    <3>2. l >= 1 /\ es[l].kind = "BOS" /\ es[l].type = dir
      BY <3>1, <1>7 DEF EndsIn
    <3> HIDE DEF q
    <3>3. QED BY <3>2, <1>6, <1>7, <1>8 DEF EndsIn
  <2>2. ASSUME NEW d \in Directions, q.trend = Trending(d)
        PROVE  n > 0 /\ r.run[n] = dir /\ d = dir
    <3>1. CASE n + 1 >= 2 /\ Append(r.run, dir)[n] = dir
      BY <3>1, <2>2, <1>1, <1>2, <1>3, <1>6 DEF Trending, Directions
    <3>2. CASE ~ (n + 1 >= 2 /\ Append(r.run, dir)[n] = dir)
      <4>1. r.trend = Trending(d)
        BY <3>2, <2>2, <1>3, <1>6
      <4>2. d = dir
        BY <4>1 DEF Trending, Directions, Opposite
      <4>3. n > 0 /\ EndsIn(es, 2, dir) /\ EndsIn(es, 1, r.run[n])
        BY <4>1, <4>2 DEF ReadingInv, TrendKept, RunKept
      <4>4. r.run[n] = dir
        <5>1. l \in Nat /\ l = Len(es)
          BY <1>7
        <5> HIDE DEF es, l, n
        <5>2. l >= 2 /\ l \in (l - 1) + 1 .. l /\ l \in (l - 2) + 1 .. l
          BY <5>1, <4>3 DEF EndsIn
        <5>3. es[l].type = dir
          BY <5>1, <5>2, <4>3, Zenon DEF EndsIn
        <5>4. es[l].type = r.run[n]
          <6>1. l \in (Len(es) - 1 + 1) .. Len(es)
            BY <5>1, <5>2
          <6>2. QED BY <6>1, <4>3, Zenon DEF EndsIn
        <5>5. QED BY <5>3, <5>4
      <4>5. QED BY <4>2, <4>3, <4>4
    <3>3. QED BY <3>1, <3>2
  <2>3. Len(q.run) > 0
    BY <1>1, <1>2, <1>3, <1>6
  <2> HIDE DEF q
  <2>4. QED BY <2>1, <2>2, <2>3 DEF TrendKept
<1>11. TurnsAfterTwo(q.events)
  <2>1. TurnsAfterTwo(es)
    BY DEF ReadingInv
  <2> HIDE DEF es, l, q
  <2>2. Len(es) = l
    BY DEF l
  <2>3. ASSUME NEW m \in 1 .. (l + 1), q.events[m].kind = "CHOCH"
        PROVE  /\ m > 2
               /\ \A k \in {m - 1, m - 2} :
                    q.events[k].kind = "BOS" /\ q.events[k].type = Opposite(q.events[m].type)
    <3>1. m \in 1 .. l
      BY <2>3, <1>6, <1>7, <1>8
    <3>2. /\ m > 2
          /\ \A k \in {m - 1, m - 2} :
               es[k].kind = "BOS" /\ es[k].type = Opposite(es[m].type)
      BY <1>8, <2>1, <2>2, <2>3, <3>1 DEF TurnsAfterTwo
    <3>3. m - 1 \in 1 .. l /\ m - 2 \in 1 .. l
      BY <3>1, <3>2, <1>7
    <3>4. QED BY <3>1, <3>2, <3>3, <1>8
  <2>4. QED BY <1>8, <2>3 DEF TurnsAfterTwo
<1>12. QED BY <1>6, <1>9, <1>10, <1>11 DEF ReadingInv, q, p

(* A bar keeps the invariant, the first one meets it, so all do.           *)
LEMMA BarKeeps ==
  ASSUME NEW r, NEW cs \in Seq(Candle), NEW sw, NEW i \in Nat,
         \A d \in Directions : sw[d] \subseteq 1 .. Len(cs),
         ReadingInv(r, i - 1)
  PROVE  ReadingInv(ReadBar(cs, sw, r, i), i)
<1>1. ASSUME NEW dir \in Directions, Breaks(cs, sw, r, dir, i)
      PROVE  ReadingInv(Broken(cs, sw, r, dir, i), i)
  <2> DEFINE t == Target(sw, r, dir, i)
  <2>1. t \in 1 .. Len(cs)
    <3>1. t # 0 /\ Len(cs) \in Nat
      BY <1>1 DEF Breaks
    <3>2. QED BY <3>1, TargetIn
  <2>2. CASE r.trend = Trending(Opposite(dir))
    <3>1. Broken(cs, sw, r, dir, i) = Noted(cs, Reversal(r), "CHOCH", dir, t, i)
      BY <2>2 DEF Broken
    <3> HIDE DEF t
    <3>2. QED BY <2>1, <2>2, <3>1, ReversalKeeps
  <2>3. CASE r.trend # Trending(Opposite(dir))
    <3>1. Broken(cs, sw, r, dir, i) = Noted(cs, Continuation(r, dir), "BOS", dir, t, i)
      BY <2>3 DEF Broken
    <3> HIDE DEF t
    <3>2. QED BY <2>1, <2>3, <3>1, ContinuationKeeps
  <2>4. QED BY <2>2, <2>3
<1>2. ReadingInv(r, i)
  <2>1. r \in Reading /\ InOrder(r.events, i - 1)
    BY DEF ReadingInv
  <2>2. \A n \in 1 .. Len(r.events) : r.events[n].bar \in Nat
    <3>1. \A n \in 1 .. Len(r.events) : r.events[n] \in Event
      BY <2>1 DEF Reading
    <3>2. QED BY <3>1 DEF Event
  <2>3. InOrder(r.events, i)
    BY <2>1, <2>2 DEF InOrder
  <2>4. QED BY <2>3 DEF ReadingInv
<1>3. QED BY <1>1, <1>2 DEF ReadBar, Directions

LEMMA NothingRead == ReadingInv(NoBreaks, SwingLookback)
<1>1. /\ NoBreaks.events = <<>> /\ NoBreaks.run = <<>> /\ NoBreaks.trend = "NEUTRAL"
      /\ NoBreaks.lists = [k \in Kinds |-> <<>>]
  BY DEF NoBreaks
<1>2. NoBreaks \in Reading
  <2>1. <<>> \in Seq(Directions) /\ <<>> \in Seq(Event) /\ {} \in SUBSET Int
    OBVIOUS
  <2>2. QED BY <2>1 DEF NoBreaks, Reading, Trends
<1>3. Listed(NoBreaks)
  BY <1>1 DEF Listed
<1>4. QED
  BY <1>1, <1>2, <1>3 DEF ReadingInv, InOrder, RunKept, TrendKept, TurnsAfterTwo, Trending

LEMMA EventsTyped ==
  ASSUME NEW cs \in Seq(Candle), NEW sw, NEW f,
         \A d \in Directions : sw[d] \subseteq 1 .. Len(cs),
         ReadingOf(f, cs, sw)
  PROVE  \A i \in SwingLookback .. Len(cs) : ReadingInv(f[i], i) /\ f[i].events \in Seq(Event)
<1> DEFINE T == {i \in SwingLookback .. Len(cs) : ~ ReadingInv(f[i], i)}
<1>1. Len(cs) \in Nat /\ SwingLookback \in Nat
  BY StructureAssumption
<1>2. ASSUME T # {} PROVE FALSE
  <2>1. PICK m \in T : \A k \in T : m <= k
    <3>1. T \subseteq SwingLookback .. Len(cs)
      OBVIOUS
    <3> HIDE DEF T
    <3>2. T \subseteq Nat
      BY <1>1, <3>1
    <3>3. QED BY <1>2, <3>2, NatMin
  <2>2. m \in SwingLookback .. Len(cs) /\ ~ ReadingInv(f[m], m) /\ f[m] = Step(cs, sw, f, m)
    BY DEF ReadingOf
  <2>3. m # SwingLookback
    BY <2>2, NothingRead DEF Step
  <2>4. m - 1 \in SwingLookback .. Len(cs) /\ m \in Nat
    BY <1>1, <2>2, <2>3
  <2>5. m - 1 \notin T
    <3> HIDE DEF T
    <3>1. QED BY <2>1, <2>4
  <2>6. ReadingInv(f[m - 1], m - 1)
    BY <2>4, <2>5
  <2>7. f[m] = ReadBar(cs, sw, f[m - 1], m)
    BY <2>2, <2>3 DEF Step
  <2>8. QED BY <2>2, <2>4, <2>6, <2>7, BarKeeps
<1>3. \A i \in SwingLookback .. Len(cs) : ReadingInv(f[i], i)
  BY <1>2
<1>4. QED BY <1>3 DEF ReadingInv, Reading

LEMMA StructureKept ==
  ASSUME NEW cs \in Seq(Candle), NEW sw, Len(cs) >= SwingLookback,
         \A d \in Directions : sw[d] \subseteq 1 .. Len(cs)
  PROVE  ReadingInv(Structure(cs, sw), Len(cs))
<1>1. Len(cs) \in Nat /\ Len(cs) \in SwingLookback .. Len(cs)
  BY StructureAssumption
<1>2. PICK f : ReadingOf(f, cs, sw) /\ Structure(cs, sw) = f[Len(cs)]
  BY <1>1, StructureIsReading
<1>3. QED BY <1>1, <1>2, EventsTyped

-----------------------------------------------------------------------------
(* What an analysis returns. *)

(* A list that is cut keeps its end.                                       *)
LEMMA LastOfIn ==
  ASSUME NEW S, NEW s \in Seq(S), NEW n \in Nat \ {0}
  PROVE  /\ LastOf(s, n) \in Seq(S)
         /\ \A k \in 1 .. Len(LastOf(s, n)) : \E m \in 1 .. Len(s) : LastOf(s, n)[k] = s[m]
         /\ Len(s) = 0 => Len(LastOf(s, n)) = 0
         /\ Len(s) > 0 => /\ Len(LastOf(s, n)) > 0
                         /\ LastOf(s, n)[Len(LastOf(s, n))] = s[Len(s)]
<1> DEFINE a == IF Len(s) > n THEN Len(s) - n + 1 ELSE 1
           u == SubSeq(s, a, Len(s))
<1>1. Len(s) \in Nat /\ a \in 1 .. (Len(s) + 1) /\ (Len(s) > 0 => a <= Len(s))
  OBVIOUS
<1> HIDE DEF a
<1>2. /\ u \in Seq(S) /\ Len(u) = Len(s) - a + 1
      /\ \A k \in 1 .. (Len(s) - a + 1) : u[k] = s[a + k - 1]
  BY <1>1
<1>3. LastOf(s, n) = u
  BY DEF LastOf, a
<1> HIDE DEF u
<1>4. \A k \in 1 .. Len(u) : a + k - 1 \in 1 .. Len(s) /\ u[k] = s[a + k - 1]
  BY <1>1, <1>2
<1>5. Len(s) = 0 => Len(u) = 0
  BY <1>1, <1>2
<1>6. Len(s) > 0 => Len(u) > 0 /\ u[Len(u)] = s[Len(s)]
  BY <1>1, <1>2
<1>7. QED BY <1>2, <1>3, <1>4, <1>5, <1>6

(* No window reports a sweep: the bars that are compared with a swing are  *)
(* those that stayed clear of it, or it would not be one.                  *)
LEMMA NoSweeps ==
  ASSUME NEW cs \in Seq(Candle), NEW sw,
         \A d \in Directions : sw[d] = Swings(cs, d)
  PROVE  Sweeps(cs, sw) = {}
<1>1. ASSUME NEW dir \in Directions, NEW i \in (SwingLookback + 1) .. Len(cs)
      PROVE  SweptAt(cs, sw, dir, i) = 0
  <2>1. ASSUME NEW k \in Sweepable(sw, dir, i), Pierces(cs, dir, k, i) PROVE FALSE
    <3>1. Opposite(dir) \in Directions
      BY DEF Opposite, Directions
    <3>2. k \in Swings(cs, Opposite(dir)) /\ i - SwingLookback <= k /\ k < i
      BY <2>1, <3>1 DEF Sweepable
    <3>3. Len(cs) \in Nat /\ SwingLookback \in Nat /\ k \in (SwingLookback + 1) .. (Len(cs) - SwingLookback)
      BY <3>2, StructureAssumption DEF Swings
    <3>4. i - k \in 1 .. SwingLookback /\ k + (i - k) = i
      BY <3>2, <3>3
    <3>5. Sign(Opposite(dir)) * (Level(cs, Opposite(dir), k) - Level(cs, Opposite(dir), i)) > 0
      BY <3>2, <3>4 DEF Swings
    <3>6. Sign(dir) * (Level(cs, Opposite(dir), k) - Level(cs, Opposite(dir), i)) >= SweepMin
      BY <2>1 DEF Pierces
    <3>7. k \in 1 .. Len(cs) /\ i \in 1 .. Len(cs)
      BY <3>3, StructureAssumption
    <3>8. cs[k] \in Candle /\ cs[i] \in Candle
      BY <3>7
    <3>9. Level(cs, Opposite(dir), k) \in Int /\ Level(cs, Opposite(dir), i) \in Int
      BY <3>8 DEF Level, Candle
    <3>10. SweepMin \in Nat
      BY StructureAssumption
    <3>11. QED BY <3>5, <3>6, <3>9, <3>10 DEF Sign, Opposite, Directions
  <2>2. {k \in Sweepable(sw, dir, i) : Pierces(cs, dir, k, i)} = {}
    BY <2>1
  <2>3. QED BY <2>2 DEF SweptAt, Greatest
<1>2. QED BY <1>1 DEF Sweeps

(* The two lists are cut, but what they end in is what the reading ends in. *)
LEMMA NewestIsLast ==
  ASSUME NEW r, NEW i, ReadingInv(r, i), NEW a,
         a.bos = LastOf(r.lists["BOS"], MaxBos),
         a.choch = LastOf(r.lists["CHOCH"], MaxChoch),
         HasBreak(a)
  PROVE  /\ Len(r.events) > 0
         /\ LatestBreak(a) = r.events[Len(r.events)]
         /\ LatestBreak(a).type \in Directions /\ LatestBreak(a).bar \in Nat
<1> DEFINE n == Len(r.events)
           e == r.events[n]
           all == {a.bos[m] : m \in 1 .. Len(a.bos)} \cup {a.choch[m] : m \in 1 .. Len(a.choch)}
<1>1. /\ r.events \in Seq(Event) /\ n \in Nat
      /\ r.lists["BOS"] \in Seq(Event) /\ r.lists["CHOCH"] \in Seq(Event)
  BY DEF ReadingInv, Reading, Kinds
<1>2. MaxBos \in Nat \ {0} /\ MaxChoch \in Nat \ {0}
  BY StructureAssumption
<1>3. Listed(r) /\ InOrder(r.events, i)
  BY DEF ReadingInv
<1>4. \A k \in 1 .. Len(a.bos) : \E m \in 1 .. n : a.bos[k] = r.events[m]
  <2>1. \A k \in 1 .. Len(a.bos) : \E m \in 1 .. Len(r.lists["BOS"]) : a.bos[k] = r.lists["BOS"][m]
    <3> DEFINE l == r.lists["BOS"]
               c == LastOf(l, MaxBos)
    <3>1. l \in Seq(Event) /\ c = a.bos
      BY <1>1
    <3>2. \A k \in 1 .. Len(c) : \E m \in 1 .. Len(l) : c[k] = l[m]
      <4> HIDE DEF l
      <4> QED BY <3>1, <1>2, LastOfIn
    <3> HIDE DEF c
    <3>3. QED BY <3>1, <3>2
  <2>2. QED BY <2>1, <1>3 DEF Listed, Kinds
<1>5. \A k \in 1 .. Len(a.choch) : \E m \in 1 .. n : a.choch[k] = r.events[m]
  <2>1. \A k \in 1 .. Len(a.choch) :
           \E m \in 1 .. Len(r.lists["CHOCH"]) : a.choch[k] = r.lists["CHOCH"][m]
    <3> DEFINE l == r.lists["CHOCH"]
               c == LastOf(l, MaxChoch)
    <3>1. l \in Seq(Event) /\ c = a.choch
      BY <1>1
    <3>2. \A k \in 1 .. Len(c) : \E m \in 1 .. Len(l) : c[k] = l[m]
      <4> HIDE DEF l
      <4> QED BY <3>1, <1>2, LastOfIn
    <3> HIDE DEF c
    <3>3. QED BY <3>1, <3>2
  <2>2. QED BY <2>1, <1>3 DEF Listed, Kinds
<1>6. a.bos \in Seq(Event) /\ a.choch \in Seq(Event)
  BY <1>1, <1>2, LastOfIn
<1>7. n > 0
  BY <1>1, <1>4, <1>5, <1>6 DEF HasBreak
<1>8. e \in all
  <2>1. e \in Event
    BY <1>1, <1>7
  <2>2. /\ e.kind \in Kinds /\ Len(r.lists[e.kind]) > 0
        /\ r.lists[e.kind][Len(r.lists[e.kind])] = e
    BY <1>3, <1>7, <2>1 DEF Listed, Event
  <2>3. CASE e.kind = "BOS"
    <3>1. Len(a.bos) > 0 /\ a.bos[Len(a.bos)] = e
      BY <1>1, <1>2, <2>2, <2>3, LastOfIn
    <3>2. Len(a.bos) \in 1 .. Len(a.bos)
      BY <3>1, <1>6
    <3>3. QED BY <3>1, <3>2
  <2>4. CASE e.kind = "CHOCH"
    <3>1. Len(a.choch) > 0 /\ a.choch[Len(a.choch)] = e
      BY <1>1, <1>2, <2>2, <2>4, LastOfIn
    <3>2. Len(a.choch) \in 1 .. Len(a.choch)
      BY <3>1, <1>6
    <3>3. QED BY <3>1, <3>2
  <2>5. QED BY <2>2, <2>3, <2>4 DEF Kinds
<1>9. \A f \in all : \E m \in 1 .. n : f = r.events[m]
  BY <1>4, <1>5
<1> HIDE DEF all
<1>10. ASSUME NEW m \in 1 .. n
       PROVE  r.events[m].bar \in Nat /\ (m # n => r.events[m].bar < e.bar)
  <2>1. r.events[m] \in Event
    BY <1>1
  <2>2. QED BY <2>1, <1>1, <1>3, <1>7 DEF InOrder, Event
<1>11. {x \in all : \A f \in all : f.bar <= x.bar} = {e}
  <2>1. \A f \in all : f = e \/ (f.bar \in Nat /\ f.bar < e.bar)
    BY <1>9, <1>10
  <2>2. e.bar \in Nat
    BY <1>7, <1>10, <1>1
  <2>3. \A f \in all : f.bar <= e.bar
    BY <2>1, <2>2
  <2>4. \A x \in all : (\A f \in all : f.bar <= x.bar) => x = e
    BY <2>1, <2>2, <1>8
  <2>5. QED BY <2>3, <2>4, <1>8
<1>12. LatestBreak(a) = e
  <2> DEFINE newest == {x \in all : \A f \in all : f.bar <= x.bar}
             reversals == {x \in newest : x.kind = "CHOCH"}
  <2>1. LatestBreak(a) = CHOOSE x \in newest : reversals # {} => x \in reversals
    BY DEF LatestBreak, all
  <2>2. newest = {e}
    BY <1>11
  <2>3. reversals # {} => e \in reversals
    BY <2>2
  <2> HIDE DEF newest, reversals
  <2>4. (CHOOSE x \in newest : reversals # {} => x \in reversals) = e
    BY <2>2, <2>3
  <2>5. QED BY <2>1, <2>4
<1>13. e.type \in Directions /\ e.bar \in Nat
  <2>1. e \in Event
    BY <1>1, <1>7
  <2>2. QED BY <2>1 DEF Event
<1>14. QED BY <1>7, <1>12, <1>13

(* What the gates rely on: the newest break of a window is its last event. *)
LEMMA Analysed ==
  ASSUME NEW cs \in Seq(Candle)
  PROVE  LET a == Analyze(cs) IN
         /\ TurnsAfterTwo(a.events)
         /\ a.sweeps = {}
         /\ HasBreak(a) => /\ Len(a.events) > 0
                           /\ LatestBreak(a) = a.events[Len(a.events)]
                           /\ LatestBreak(a).type \in Directions /\ LatestBreak(a).bar \in Nat
<1> DEFINE a == Analyze(cs)
<1>1. CASE Len(cs) < MinBars
  <2>1. a = NoStructure
    BY <1>1 DEF Analyze
  <2>2. a.events = <<>> /\ a.sweeps = {} /\ a.bos = <<>> /\ a.choch = <<>>
    BY <2>1 DEF NoStructure
  <2>3. QED BY <2>2 DEF TurnsAfterTwo, HasBreak
<1>2. CASE ~ (Len(cs) < MinBars)
  <2> DEFINE sw == [d \in Directions |-> Swings(cs, d)]
             r == Structure(cs, sw)
  <2>1. /\ a.bos = LastOf(r.lists["BOS"], MaxBos) /\ a.choch = LastOf(r.lists["CHOCH"], MaxChoch)
        /\ a.sweeps = Sweeps(cs, sw) /\ a.events = r.events
    BY <1>2 DEF Analyze
  <2>2. Len(cs) \in Nat /\ Len(cs) >= SwingLookback
    BY <1>2, StructureAssumption
  <2>3. \A d \in Directions : sw[d] = Swings(cs, d) /\ sw[d] \subseteq 1 .. Len(cs)
    <3>1. \A d \in Directions : Swings(cs, d) \subseteq 1 .. Len(cs)
      BY <2>2, StructureAssumption DEF Swings
    <3>2. QED BY <3>1
  <2> HIDE DEF a, sw
  <2>4. ReadingInv(r, Len(cs))
    BY <2>2, <2>3, StructureKept
  <2>5. a.sweeps = {}
    BY <2>1, <2>3, NoSweeps
  <2>6. TurnsAfterTwo(a.events)
    BY <2>1, <2>4 DEF ReadingInv
  <2> HIDE DEF r
  <2>7. HasBreak(a) => /\ Len(r.events) > 0
                       /\ LatestBreak(a) = r.events[Len(r.events)]
                       /\ LatestBreak(a).type \in Directions /\ LatestBreak(a).bar \in Nat
    BY <2>1, <2>4, NewestIsLast
  <2>8. QED BY <2>1, <2>5, <2>6, <2>7 DEF a
<1>3. QED BY <1>1, <1>2

-----------------------------------------------------------------------------
(* The bar in hand. *)

WindowInv == candles \in Seq(Candle) \ {<<>>} /\ smc = Analyze(candles)

(* A decision is what the gates make of the window at hand.                *)
DecisionInv ==
  decision # NoDecision => \E x \in Readings : decision = Decided(candles, smc, x, settings)

(* What goes on to the order was allowed, and by H1 where that is asked.   *)
ApprovalInv ==
  /\ hourly \in Hourly \cup {NoHourly}
  /\ approved # "NONE" =>
       /\ Allowed /\ hourly \in Hourly /\ approved = decision.direction
       /\ settings.mtf => MtfAllows(hourly, settings, decision)

BarInv == WindowInv /\ DecisionInv /\ ApprovalInv

(* A window keeps being one as candles come.                               *)
LEMMA NextIsCandle ==
  ASSUME NEW cs \in Seq(Candle), NEW m \in Moves, Len(cs) > 0
  PROVE  NextCandle(cs, m) \in Candle
<1>1. m \in [body : Int, up : Nat, down : Nat]
  BY WindowAssumption
<1>2. cs[Len(cs)] \in Candle
  OBVIOUS
<1>3. QED
  <2> DEFINE last == cs[Len(cs)].close
  <2>1. last \in Int
    BY <1>2 DEF Candle
  <2>2. m.body \in Int /\ m.up \in Int /\ m.down \in Int
    BY <1>1
  <2>3. NextCandle(cs, m) = [open |-> last, close |-> last + m.body,
                             high |-> Largest(last, last + m.body) + m.up,
                             low |-> Smallest(last, last + m.body) - m.down]
    BY DEF NextCandle
  <2> HIDE DEF last
  <2>4. /\ last + m.body \in Int /\ Largest(last, last + m.body) + m.up \in Int
        /\ Smallest(last, last + m.body) - m.down \in Int
    BY <2>1, <2>2 DEF Largest, Smallest
  <2>5. QED BY <2>1, <2>3, <2>4 DEF Candle

LEMMA FetchedCandles ==
  ASSUME NEW cs \in Seq(Candle), NEW m \in Moves, Len(cs) > 0
  PROVE  Fetched(cs, NextCandle(cs, m)) \in Seq(Candle) \ {<<>>}
<1> DEFINE all == Append(cs, NextCandle(cs, m))
<1>1. all \in Seq(Candle) /\ Len(all) > 0
  BY NextIsCandle
<1> HIDE DEF all
<1>2. LastOf(all, Window) \in Seq(Candle) /\ Len(LastOf(all, Window)) > 0
  BY <1>1, WindowAssumption, LastOfIn
<1>3. QED BY <1>2 DEF Fetched, all

(* The invariant of the specification.                                     *)
LEMMA BarInit == Init => BarInv
<1> SUFFICES ASSUME Init PROVE BarInv
  OBVIOUS
<1>1. WindowInv
  BY WindowAssumption DEF Init, WindowInv
<1>2. DecisionInv /\ ApprovalInv
  BY DEF Init, DecisionInv, ApprovalInv
<1>3. QED BY <1>1, <1>2 DEF BarInv

LEMMA BarStep == BarInv /\ [Next]_vars => BarInv'
<1> SUFFICES ASSUME BarInv, [Next]_vars PROVE BarInv'
  OBVIOUS
<1> USE DEF BarInv
<1>1. CASE NewBar
  <2>1. WindowInv'
    <3>1. Len(candles) > 0 /\ candles \in Seq(Candle)
      BY DEF WindowInv
    <3>2. QED BY <1>1, <3>1, FetchedCandles DEF NewBar, WindowInv
  <2>2. DecisionInv'
    BY <1>1 DEF NewBar, DecisionInv
  <2>3. ApprovalInv'
    BY <1>1 DEF NewBar, ApprovalInv, Allowed
  <2>4. QED BY <2>1, <2>2, <2>3
<1>2. CASE Decide
  <2>1. WindowInv'
    BY <1>2 DEF Decide, WindowInv
  <2>2. DecisionInv'
    BY <1>2 DEF Decide, DecisionInv
  <2>3. ApprovalInv'
    BY <1>2 DEF Decide, ApprovalInv, Allowed
  <2>4. QED BY <2>1, <2>2, <2>3
<1>3. CASE Confirm
  <2>1. WindowInv' /\ DecisionInv'
    BY <1>3 DEF Confirm, WindowInv, DecisionInv
  <2>2. ApprovalInv'
    BY <1>3 DEF Confirm, ApprovalInv, Allowed
  <2>3. QED BY <2>1, <2>2
<1>4. CASE Return
  <2>1. WindowInv' /\ DecisionInv'
    BY <1>4 DEF Return, WindowInv, DecisionInv
  <2>2. ApprovalInv'
    BY <1>4 DEF Return, ApprovalInv
  <2>3. QED BY <2>1, <2>2
<1>5. CASE UNCHANGED vars
  <2>1. WindowInv' /\ DecisionInv'
    BY <1>5 DEF vars, WindowInv, DecisionInv
  <2>2. ApprovalInv'
    BY <1>5 DEF vars, ApprovalInv, Allowed
  <2>3. QED BY <2>1, <2>2
<1>6. QED BY <1>1, <1>2, <1>3, <1>4, <1>5 DEF Next

LEMMA BarAlways == Spec => []BarInv
BY BarInit, BarStep, PTL DEF Spec

(* What an allowed setup has passed. *)
LEMMA AllowedPassed ==
  ASSUME BarInv, Allowed
  PROVE  \E x \in Readings :
           /\ HasBreak(smc)
           /\ decision.direction = LatestBreak(smc).type
           /\ Refusal(candles, smc, x, settings, decision.direction, decision.regime) = ""
<1>1. PICK x \in Readings : decision = Decided(candles, smc, x, settings)
  BY DEF BarInv, DecisionInv, Allowed
<1>2. HasBreak(smc)
  BY <1>1 DEF Decided, Refused, Allowed
<1> DEFINE dir == LatestBreak(smc).type
           regime == Regime(candles, x, settings)
           refusal == Refusal(candles, smc, x, settings, dir, regime)
           let == [reason |-> "", allowed |-> TRUE, direction |-> dir, regime |-> regime,
                   confidence |-> x.confidence,
                   trade |-> Trade(candles, smc, regime, settings, dir)]
<1>3. decision = IF refusal # "" THEN Refused(refusal) ELSE let
  BY <1>1, <1>2 DEF Decided
<1> HIDE DEF dir, regime, refusal
<1>4. refusal = "" /\ decision = let
  BY <1>3 DEF Allowed, Refused
<1>5. decision.direction = dir /\ decision.regime = regime
  BY <1>4
<1>6. QED BY <1>2, <1>4, <1>5 DEF dir, regime, refusal

LEMMA Unrefused ==
  ASSUME NEW x, NEW dir, NEW regime,
         Refusal(candles, smc, x, settings, dir, regime) = ""
  PROVE  /\ regime = "RANGE" => RangeEntryValid(candles, smc, x, settings, dir)
         /\ QualityAllows(candles, smc, x)
BY DEF Refusal

(* A change of character comes right after two breaks of structure the     *)
(* other way, in every window (_detect_bos_and_choch).                     *)
THEOREM ReversalsEndTrends == Spec => []ReversalEndsTrend
<1>1. BarInv => ReversalEndsTrend
  BY Analysed DEF BarInv, WindowInv, ReversalEndsTrend, TurnsAfterTwo
<1>2. QED BY <1>1, BarAlways, PTL

(* An allowed setup goes the way of the newest break of the window, and    *)
(* that one is fresh: the event found at the ends of the two lists is the  *)
(* newest of all (get_latest_structure_event, the age test of the quality  *)
(* filter).                                                                *)
THEOREM EntriesFollowStructure == Spec => []EntryFollowsStructure
<1>1. ASSUME BarInv, Allowed
      PROVE  LET newest == smc.events[Len(smc.events)] IN
             /\ smc.events # <<>>
             /\ decision.direction = newest.type
             /\ Len(candles) - newest.bar <= StructureMaxAge
  <2>1. PICK x \in Readings :
          /\ HasBreak(smc)
          /\ decision.direction = LatestBreak(smc).type
          /\ Refusal(candles, smc, x, settings, decision.direction, decision.regime) = ""
    BY <1>1, AllowedPassed
  <2>2. Len(smc.events) > 0 /\ LatestBreak(smc) = smc.events[Len(smc.events)]
    BY <1>1, <2>1, Analysed DEF BarInv, WindowInv
  <2>3. ~ Stale(candles, LatestBreak(smc).bar)
    BY <2>1, Unrefused DEF QualityAllows
  <2>4. LatestBreak(smc).bar \in Nat /\ Len(candles) \in Nat /\ StructureMaxAge \in Nat
    <3>1. candles \in Seq(Candle) /\ smc = Analyze(candles)
      BY <1>1 DEF BarInv, WindowInv
    <3>2. LatestBreak(smc).bar \in Nat
      BY <2>1, <3>1, Analysed
    <3>3. QED BY <3>1, <3>2, GatesAssumption
  <2>5. Len(candles) - LatestBreak(smc).bar <= StructureMaxAge
    BY <2>3, <2>4 DEF Stale
  <2>6. smc.events # <<>>
    BY <2>2
  <2>7. QED BY <2>1, <2>2, <2>5, <2>6
<1>2. BarInv => EntryFollowsStructure
  BY <1>1 DEF EntryFollowsStructure
<1>3. QED BY <1>2, BarAlways, PTL

(* With the strict range filters no setup of a ranging market is allowed,  *)
(* for no window of any candles reports a sweep (range_strategy.py, which  *)
(* asks for one; smc_engine.py's _detect_liquidity_sweeps).                *)
THEOREM StrictRangesRefused == Spec => []StrictRangeRefused
<1>1. ASSUME BarInv, Allowed, settings.strict, decision.regime = "RANGE" PROVE FALSE
  <2>1. PICK x \in Readings :
          Refusal(candles, smc, x, settings, decision.direction, decision.regime) = ""
    BY <1>1, AllowedPassed
  <2>2. FreshSweep(candles, smc, decision.direction)
    BY <1>1, <2>1, Unrefused DEF RangeEntryValid
  <2>3. smc.sweeps = {}
    BY <1>1, Analysed DEF BarInv, WindowInv
  <2>4. QED BY <2>2, <2>3 DEF FreshSweep
<1>2. BarInv => StrictRangeRefused
  BY <1>1 DEF StrictRangeRefused
<1>3. QED BY <1>2, BarAlways, PTL

(* Neighbours an hour apart or more put any two j - i hours apart.          *)
LEMMA Spaced ==
  ASSUME NEW s \in Seq(Int),
         \A i \in 1 .. (Len(s) - 1) : s[i + 1] - s[i] >= 60
  PROVE  \A i, j \in 1 .. Len(s) : i < j => s[j] - s[i] >= 60 * (j - i)
<1> DEFINE n == Len(s)
<1>1. SUFFICES ASSUME NEW i \in 1 .. n, \E j \in 1 .. n : i < j /\ ~ (s[j] - s[i] >= 60 * (j - i))
               PROVE  FALSE
  OBVIOUS
<1> DEFINE B == {j \in 1 .. n : i < j /\ ~ (s[j] - s[i] >= 60 * (j - i))}
<1>2. PICK j \in B : \A k \in B : j <= k
  <2>1. B \subseteq 1 .. n /\ B # {}
    BY <1>1
  <2> HIDE DEF B
  <2>2. B \subseteq Nat
    BY <2>1
  <2>3. QED BY <2>1, <2>2, NatMin
<1>3. j \in 1 .. n /\ i < j /\ n \in Nat
  OBVIOUS
<1>4. j - 1 \notin B /\ j - 1 \in 1 .. n
  BY <1>2, <1>3
<1>5. s[j - 1] \in Int /\ s[j] \in Int /\ s[i] \in Int
  BY <1>3, <1>4
<1>6. s[j] - s[j - 1] >= 60
  <2> DEFINE k == j - 1
  <2>1. k \in 1 .. (n - 1) /\ k + 1 = j
    BY <1>3, <1>4
  <2>2. s[k + 1] - s[k] >= 60
    BY <2>1
  <2>3. QED BY <2>1, <2>2
<1>7. QED BY <1>3, <1>4, <1>5, <1>6

(* What validate_h1_candles lets through.                                  *)
LEMMA ValidHours ==
  ASSUME NEW h \in Hourly, HourlyValid(h)
  PROVE  LET n == Len(h.stamps) IN
         /\ n >= MinHourly /\ h.sound
         /\ \A i, j \in 1 .. n : i < j => h.stamps[j] - h.stamps[i] >= 60 * (j - i)
         /\ \A i \in 1 .. n : h.stamps[i] % 60 = 0 /\ h.stamps[i] + 60 <= h.now
         /\ h.now - h.stamps[n] <= 60 * MaxAgeHours \/ h.weekend
<1> DEFINE n == Len(h.stamps)
<1>1. h.stamps \in Seq(Int) /\ h.now \in Int /\ n \in Nat
  BY HourlyAssumption
<1>2. \A i \in 1 .. (n - 1) : h.stamps[i + 1] - h.stamps[i] >= 60
  <2>1. ASSUME NEW i \in 1 .. (n - 1) PROVE h.stamps[i + 1] - h.stamps[i] >= 60
    <3>1. 60 <= h.stamps[i + 1] - h.stamps[i]
      BY DEF HourlyValid
    <3>2. h.stamps[i + 1] \in Int /\ h.stamps[i] \in Int
      BY <1>1
    <3>3. QED BY <3>1, <3>2
  <2>2. QED BY <2>1
<1>3. \A i, j \in 1 .. n : i < j => h.stamps[j] - h.stamps[i] >= 60 * (j - i)
  BY <1>1, <1>2, Spaced
<1>4. ASSUME NEW i \in 1 .. n PROVE h.stamps[i] + 60 <= h.now
  <2>1. h.stamps[i] \in Int /\ h.stamps[n] \in Int
    BY <1>1
  <2>2. h.stamps[n] + 60 <= h.now
    BY DEF HourlyValid
  <2>3. i < n => h.stamps[n] - h.stamps[i] >= 60 * (n - i)
    BY <1>1, <1>3
  <2>4. i = n \/ i < n
    BY <1>1
  <2> HIDE DEF n
  <2>5. QED BY <1>1, <2>1, <2>2, <2>3, <2>4 DEF n
<1>5. QED BY <1>3, <1>4 DEF HourlyValid

(* What goes on to the order has sound, whole, recent hours and a bias of  *)
(* H1 behind it, where the configuration asks for them (mtf_filter.py).    *)
THEOREM OrdersConfirmed == Spec => []OrderConfirmed
<1>1. ASSUME BarInv, approved # "NONE", settings.mtf, settings.h1
      PROVE  LET n == Len(hourly.stamps) IN
             /\ n >= MinHourly /\ ~hourly.failed /\ hourly.sound
             /\ \A i, j \in 1 .. n : i < j => hourly.stamps[j] - hourly.stamps[i] >= 60 * (j - i)
             /\ \A i \in 1 .. n : hourly.stamps[i] % 60 = 0 /\ hourly.stamps[i] + 60 <= hourly.now
             /\ hourly.now - hourly.stamps[n] <= 60 * MaxAgeHours \/ hourly.weekend
             /\ \/ /\ TrendVote(hourly.trend) = approved
                   /\ hourly.smc # Opposite(approved)
                   /\ hourly.regime # "RANGE"
                \/ decision.regime = "RANGE" /\ hourly.regime = "RANGE"
  <2>1. /\ Allowed /\ hourly \in Hourly /\ approved = decision.direction
        /\ MtfAllows(hourly, settings, decision)
    BY <1>1 DEF BarInv, ApprovalInv
  <2>2. HourlyValid(hourly) /\ ~hourly.failed
    BY <1>1, <2>1 DEF MtfAllows, BiasAvailable
  <2>3. approved \in Directions
    <3>1. HasBreak(smc) /\ decision.direction = LatestBreak(smc).type
      BY <1>1, <2>1, AllowedPassed
    <3>2. LatestBreak(smc).type \in Directions
      BY <1>1, <3>1, Analysed DEF BarInv, WindowInv
    <3>3. QED BY <2>1, <3>1, <3>2
  <2>4. \/ /\ TrendVote(hourly.trend) = approved
           /\ hourly.smc # Opposite(approved)
           /\ hourly.regime # "RANGE"
        \/ decision.regime = "RANGE" /\ hourly.regime = "RANGE"
    <3> DEFINE bias == Bias(hourly)
    <3>1. bias = [direction |-> IF hourly.smc \in {TrendVote(hourly.trend), "NEUTRAL"}
                                THEN TrendVote(hourly.trend) ELSE "NEUTRAL",
                  trend |-> hourly.trend, regime |-> hourly.regime]
      BY <2>2 DEF Bias
    <3>2. \/ decision.regime = "RANGE" /\ bias.regime = "RANGE"
          \/ bias.regime # "RANGE" /\ decision.direction = bias.direction
      BY <2>1 DEF MtfAllows
    <3>3. CASE decision.regime = "RANGE" /\ bias.regime = "RANGE"
      BY <3>1, <3>3
    <3>4. CASE bias.regime # "RANGE" /\ decision.direction = bias.direction
      <4>1. hourly.regime # "RANGE" /\ approved = bias.direction
        BY <3>1, <3>4, <2>1
      <4>2. approved # "NEUTRAL" /\ Opposite(approved) # approved /\ Opposite(approved) # "NEUTRAL"
        BY <2>3 DEF Directions, Opposite
      <4>3. hourly.smc \in {TrendVote(hourly.trend), "NEUTRAL"} /\ TrendVote(hourly.trend) = approved
        BY <3>1, <4>1, <4>2
      <4>4. QED BY <4>1, <4>2, <4>3
    <3>5. QED BY <3>2, <3>3, <3>4
  <2>5. QED BY <2>1, <2>2, <2>4, ValidHours
<1>2. BarInv => OrderConfirmed
  BY <1>1 DEF OrderConfirmed
<1>3. QED BY <1>2, BarAlways, PTL

-----------------------------------------------------------------------------
(* The window grows by a candle. *)

(* A further candle confirms further swings, none before the last few bars.*)
LEMMA SwingsGrow ==
  ASSUME NEW cs \in Seq(Candle), NEW c \in Candle, NEW dir \in Directions,
         NEW i \in Nat, i <= Len(cs) - SwingLookback + 1
  PROVE  {k \in Swings(Append(cs, c), dir) : k < i} = {k \in Swings(cs, dir) : k < i}
<1> DEFINE all == Append(cs, c)
           n == Len(cs)
<1>1. n \in Nat /\ SwingLookback \in Nat \ {0}
  BY StructureAssumption
<1>2. Len(all) = n + 1 /\ \A k \in 1 .. n : all[k] = cs[k]
  OBVIOUS
<1> HIDE DEF all
<1>3. \A k \in 1 .. n : Level(all, dir, k) = Level(cs, dir, k)
  BY <1>2 DEF Level
<1>4. ASSUME NEW k \in (SwingLookback + 1) .. (n - SwingLookback)
      PROVE  k \in Swings(all, dir) <=> k \in Swings(cs, dir)
  <2>1. \A j \in 1 .. SwingLookback : k \in 1 .. n /\ k - j \in 1 .. n /\ k + j \in 1 .. n
    BY <1>1
  <2>2. k \in (SwingLookback + 1) .. (Len(all) - SwingLookback)
    BY <1>1, <1>2
  <2>3. \A j \in 1 .. SwingLookback :
          /\ Level(all, dir, k) = Level(cs, dir, k)
          /\ Level(all, dir, k - j) = Level(cs, dir, k - j)
          /\ Level(all, dir, k + j) = Level(cs, dir, k + j)
    BY <1>3, <2>1
  <2>4. QED BY <2>2, <2>3 DEF Swings
<1>5. \A k \in Swings(all, dir) : k < i => k \in (SwingLookback + 1) .. (n - SwingLookback)
  <2>1. Swings(all, dir) \subseteq (SwingLookback + 1) .. (n + 1 - SwingLookback)
    <3>1. Len(all) - SwingLookback = n + 1 - SwingLookback
      BY <1>1, <1>2
    <3>2. QED BY <3>1 DEF Swings
  <2>2. QED BY <1>1, <2>1
<1>6. Swings(cs, dir) \subseteq (SwingLookback + 1) .. (n - SwingLookback)
  BY DEF Swings
<1>7. QED BY <1>4, <1>5, <1>6 DEF all

(* A bar that sees the same swings behind it is read alike.                *)
LEMMA BarReadAlike ==
  ASSUME NEW cs \in Seq(Candle), NEW c \in Candle, NEW i \in 1 .. Len(cs),
         NEW sw, NEW new, NEW r,
         \A d \in Directions : {k \in new[d] : k < i} = {k \in sw[d] : k < i},
         \A d \in Directions : sw[d] \subseteq 1 .. Len(cs)
  PROVE  ReadBar(Append(cs, c), new, r, i) = ReadBar(cs, sw, r, i)
<1> DEFINE all == Append(cs, c)
<1>1. i \in Nat /\ \A k \in 1 .. Len(cs) : all[k] = cs[k]
  OBVIOUS
<1> HIDE DEF all
<1>2. ASSUME NEW dir \in Directions
      PROVE  /\ Target(new, r, dir, i) = Target(sw, r, dir, i)
             /\ Target(sw, r, dir, i) # 0 =>
                  Level(all, dir, Target(sw, r, dir, i)) = Level(cs, dir, Target(sw, r, dir, i))
  <2>1. {k \in new[dir] \ r.used[dir] : k < i} = {k \in sw[dir] \ r.used[dir] : k < i}
    <3>1. {k \in new[dir] : k < i} = {k \in sw[dir] : k < i}
      OBVIOUS
    <3>2. QED BY <3>1
  <2>2. Target(new, r, dir, i) = Target(sw, r, dir, i)
    BY <2>1 DEF Target
  <2>3. Target(sw, r, dir, i) # 0 => Target(sw, r, dir, i) \in 1 .. Len(cs)
    BY <1>1, TargetIn
  <2>4. QED BY <1>1, <2>2, <2>3 DEF Level
<1>3. all[i] = cs[i]
  BY <1>1
<1>4. ASSUME NEW dir \in Directions
      PROVE  /\ Breaks(all, new, r, dir, i) <=> Breaks(cs, sw, r, dir, i)
             /\ Breaks(cs, sw, r, dir, i) => Broken(all, new, r, dir, i) = Broken(cs, sw, r, dir, i)
  <2> DEFINE t == Target(sw, r, dir, i)
  <2>1. /\ Target(new, r, dir, i) = t
        /\ t # 0 => Level(all, dir, t) = Level(cs, dir, t)
    BY <1>2
  <2> HIDE DEF t
  <2>2. Breaks(all, new, r, dir, i) <=> Breaks(cs, sw, r, dir, i)
    BY <1>3, <2>1 DEF Breaks, t
  <2>3. t # 0 => Broken(all, new, r, dir, i) = Broken(cs, sw, r, dir, i)
    BY <2>1 DEF Broken, Noted, t
  <2>4. Breaks(cs, sw, r, dir, i) => t # 0
    BY DEF Breaks, t
  <2>5. QED BY <2>2, <2>3, <2>4
<1>5. QED BY <1>4 DEF ReadBar, Directions, all

(* What a bar adds comes last and bears its number. *)
Added(es, new, i) ==
  \/ new = es
  \/ /\ Len(new) = Len(es) + 1
     /\ \A n \in 1 .. Len(es) : new[n] = es[n]
     /\ new[Len(es) + 1].bar = i

LEMMA BarAdds ==
  ASSUME NEW r, NEW cs \in Seq(Candle), NEW sw, NEW i \in Nat,
         \A d \in Directions : sw[d] \subseteq 1 .. Len(cs),
         r.events \in Seq(Event)
  PROVE  Added(r.events, ReadBar(cs, sw, r, i).events, i)
<1>1. ASSUME NEW dir \in Directions, Breaks(cs, sw, r, dir, i)
      PROVE  LET q == Broken(cs, sw, r, dir, i) IN
             \E e \in Event : e.bar = i /\ q.events = Append(r.events, e)
  <2> DEFINE t == Target(sw, r, dir, i)
             event(kind) == [kind |-> kind, type |-> dir, bar |-> i, price |-> Level(cs, dir, t)]
  <2>1. t \in 1 .. Len(cs)
    <3>1. t # 0 /\ Len(cs) \in Nat
      BY <1>1 DEF Breaks
    <3>2. QED BY <3>1, TargetIn
  <2> HIDE DEF t
  <2>2. Level(cs, dir, t) \in Int
    <3>1. cs[t] \in Candle
      BY <2>1
    <3>2. QED BY <3>1 DEF Level, Candle
  <2>3. \A kind \in Kinds : event(kind) \in Event /\ event(kind).bar = i
    BY <2>2 DEF Event
  <2>4. \/ Broken(cs, sw, r, dir, i) = Noted(cs, Reversal(r), "CHOCH", dir, t, i)
        \/ Broken(cs, sw, r, dir, i) = Noted(cs, Continuation(r, dir), "BOS", dir, t, i)
    BY DEF Broken, t
  <2>5. Noted(cs, Reversal(r), "CHOCH", dir, t, i).events = Append(r.events, event("CHOCH"))
    BY DEF Noted, Reversal
  <2>6. Noted(cs, Continuation(r, dir), "BOS", dir, t, i).events = Append(r.events, event("BOS"))
    BY DEF Noted, Continuation
  <2>7. QED BY <2>3, <2>4, <2>5, <2>6 DEF Kinds
<1>2. \A e \in Event : e.bar = i => Added(r.events, Append(r.events, e), i)
  BY DEF Added
<1>3. ASSUME NEW dir \in Directions, Breaks(cs, sw, r, dir, i)
      PROVE  Added(r.events, Broken(cs, sw, r, dir, i).events, i)
  BY <1>1, <1>2, <1>3
<1>4. Added(r.events, r.events, i)
  BY DEF Added
<1>5. QED BY <1>3, <1>4 DEF ReadBar, Directions

(* From one bar to a later one, events are only added, each with the       *)
(* number of a later bar.                                                  *)
LEMMA ReadingsGrow ==
  ASSUME NEW cs \in Seq(Candle), NEW sw, NEW f,
         \A d \in Directions : sw[d] \subseteq 1 .. Len(cs),
         ReadingOf(f, cs, sw),
         NEW low \in SwingLookback .. Len(cs),
         \A i \in SwingLookback .. Len(cs) : f[i].events \in Seq(Event)
  PROVE  \A i \in low .. Len(cs) :
           /\ Len(f[low].events) <= Len(f[i].events)
           /\ \A n \in 1 .. Len(f[low].events) : f[i].events[n] = f[low].events[n]
           /\ \A n \in 1 .. Len(f[i].events) :
                n > Len(f[low].events) => f[i].events[n].bar > low
<1> DEFINE es(i) == f[i].events
           grown(i) ==
             /\ Len(es(low)) <= Len(es(i))
             /\ \A n \in 1 .. Len(es(low)) : es(i)[n] = es(low)[n]
             /\ \A n \in 1 .. Len(es(i)) : n > Len(es(low)) => es(i)[n].bar > low
           T == {i \in low .. Len(cs) : ~ grown(i)}
<1>1. Len(cs) \in Nat /\ SwingLookback \in Nat /\ low \in Nat
  BY StructureAssumption
<1>2. SUFFICES ASSUME T # {} PROVE FALSE
  OBVIOUS
<1>3. PICK m \in T : \A k \in T : m <= k
  <2>1. T \subseteq low .. Len(cs)
    OBVIOUS
  <2> HIDE DEF T
  <2>2. T \subseteq Nat
    BY <1>1, <2>1
  <2>3. QED BY <1>2, <2>2, NatMin
<1>4. m \in low .. Len(cs) /\ ~ grown(m)
  OBVIOUS
<1>5. \A i \in low .. Len(cs) : Len(es(i)) \in Nat /\ es(i) \in Seq(Event)
  BY <1>1
<1>6. m # low
  <2>1. grown(low)
    BY <1>1, <1>5
  <2>2. QED BY <1>4, <2>1
<1>7. m - 1 \in low .. Len(cs) /\ m \in Nat /\ m # SwingLookback /\ m > low
  BY <1>1, <1>4, <1>6
<1>8. grown(m - 1)
  <2>1. m - 1 \notin T
    <3> HIDE DEF T
    <3>1. QED BY <1>3, <1>7
  <2>2. QED BY <1>7, <2>1
<1>9. f[m] = ReadBar(cs, sw, f[m - 1], m) /\ f[m - 1].events \in Seq(Event)
  <2>1. m \in SwingLookback .. Len(cs) /\ m - 1 \in SwingLookback .. Len(cs)
    BY <1>1, <1>4, <1>7
  <2>2. f[m] = Step(cs, sw, f, m)
    BY <2>1 DEF ReadingOf
  <2>3. QED BY <1>7, <2>1, <2>2 DEF Step
<1>10. \/ es(m) = es(m - 1)
       \/ /\ Len(es(m)) = Len(es(m - 1)) + 1
          /\ \A n \in 1 .. Len(es(m - 1)) : es(m)[n] = es(m - 1)[n]
          /\ es(m)[Len(es(m - 1)) + 1].bar = m
  <2> DEFINE r == f[m - 1]
  <2>3. r.events \in Seq(Event)
    BY <1>9
  <2> HIDE DEF r, es
  <2>1. Added(r.events, ReadBar(cs, sw, r, m).events, m)
    BY <1>7, <2>3, BarAdds
  <2>2. QED BY <1>9, <2>1 DEF r, es, Added
<1>11. CASE es(m) = es(m - 1)
  BY <1>4, <1>8, <1>11
<1>12. CASE /\ Len(es(m)) = Len(es(m - 1)) + 1
            /\ \A n \in 1 .. Len(es(m - 1)) : es(m)[n] = es(m - 1)[n]
            /\ es(m)[Len(es(m - 1)) + 1].bar = m
  <2> DEFINE l == Len(es(low))
             k == Len(es(m - 1))
  <2>1. l \in Nat /\ k \in Nat /\ l <= k /\ Len(es(m)) = k + 1
    BY <1>1, <1>5, <1>7, <1>8, <1>12
  <2>2. \A n \in 1 .. l : es(m)[n] = es(low)[n]
    <3>1. \A n \in 1 .. l : n \in 1 .. k
      BY <2>1
    <3>2. \A n \in 1 .. l : es(m - 1)[n] = es(low)[n]
      BY <1>8
    <3> HIDE DEF l, k, es
    <3>3. QED BY <1>12, <3>1, <3>2 DEF k
  <2>3. ASSUME NEW n \in 1 .. (k + 1), n > l PROVE es(m)[n].bar > low
    <3>1. CASE n = k + 1
      BY <1>7, <1>12, <3>1
    <3>2. CASE n # k + 1
      <4>1. n \in 1 .. k
        BY <2>1, <3>2
      <4>2. es(m)[n] = es(m - 1)[n] /\ es(m - 1)[n].bar > low
        BY <1>8, <1>12, <2>3, <4>1
      <4>3. QED BY <4>2
    <3>3. QED BY <3>1, <3>2
  <2>4. grown(m)
    <3> HIDE DEF es, k
    <3>1. QED BY <2>1, <2>2, <2>3
  <2>5. QED BY <1>4, <2>4
<1>13. QED BY <1>10, <1>11, <1>12

(* Up to the first bar that a new swing could come before, both windows    *)
(* are read alike.                                                         *)
LEMMA ReadAlike ==
  ASSUME NEW cs \in Seq(Candle), NEW c \in Candle, NEW sw, NEW new, NEW f, NEW g,
         \A d \in Directions : sw[d] = Swings(cs, d) /\ new[d] = Swings(Append(cs, c), d),
         ReadingOf(f, cs, sw), ReadingOf(g, Append(cs, c), new),
         NEW i \in SwingLookback .. (Len(cs) - SwingLookback + 1)
  PROVE  g[i] = f[i]
<1> DEFINE top == Len(cs) - SwingLookback + 1
           T == {k \in SwingLookback .. top : g[k] # f[k]}
<1>1. Len(cs) \in Nat /\ SwingLookback \in Nat \ {0}
  BY StructureAssumption
<1>2. SUFFICES ASSUME T # {} PROVE FALSE
  OBVIOUS
<1>3. PICK m \in T : \A k \in T : m <= k
  <2>1. T \subseteq SwingLookback .. top
    OBVIOUS
  <2> HIDE DEF T
  <2>2. T \subseteq Nat
    BY <1>1, <2>1
  <2>3. QED BY <1>2, <2>2, NatMin
<1>4. m \in SwingLookback .. top /\ g[m] # f[m]
  OBVIOUS
<1>5. m \in SwingLookback .. Len(cs) /\ m \in SwingLookback .. (Len(cs) + 1) /\ m \in 1 .. Len(cs)
      /\ m \in Nat
  BY <1>1, <1>4
<1>6. f[m] = Step(cs, sw, f, m) /\ g[m] = Step(Append(cs, c), new, g, m)
  <2>1. Len(Append(cs, c)) = Len(cs) + 1
    OBVIOUS
  <2>2. QED BY <1>5, <2>1 DEF ReadingOf
<1>7. m # SwingLookback
  BY <1>4, <1>6 DEF Step
<1>8. g[m - 1] = f[m - 1]
  <2>1. m - 1 \in SwingLookback .. top
    BY <1>1, <1>4, <1>7
  <2>2. m - 1 \notin T
    <3> HIDE DEF T
    <3>1. QED BY <1>3, <1>5
  <2>3. QED BY <2>1, <2>2
<1>9. f[m] = ReadBar(cs, sw, f[m - 1], m) /\ g[m] = ReadBar(Append(cs, c), new, f[m - 1], m)
  BY <1>6, <1>7, <1>8 DEF Step
<1>10. \A d \in Directions : {k \in new[d] : k < m} = {k \in sw[d] : k < m}
  BY <1>4, <1>5, SwingsGrow
<1>11. \A d \in Directions : sw[d] \subseteq 1 .. Len(cs)
  BY <1>1 DEF Swings
<1>12. ReadBar(Append(cs, c), new, f[m - 1], m) = ReadBar(cs, sw, f[m - 1], m)
  BY <1>5, <1>10, <1>11, BarReadAlike
<1>13. QED BY <1>4, <1>9, <1>12

(* Hence the settled events are those of the grown window.                 *)
LEMMA SettledStays ==
  ASSUME NEW cs \in Seq(Candle), NEW c \in Candle,
         NEW n \in 1 .. Len(Analyze(cs).events),
         Analyze(cs).events[n].bar <= Len(cs) - SwingLookback + 1
  PROVE  /\ n <= Len(Analyze(Append(cs, c)).events)
         /\ Analyze(Append(cs, c)).events[n] = Analyze(cs).events[n]
<1> DEFINE all == Append(cs, c)
           sw == [d \in Directions |-> Swings(cs, d)]
           new == [d \in Directions |-> Swings(all, d)]
           len == Len(cs)
           top == len - SwingLookback + 1
<1>1. /\ len \in Nat /\ SwingLookback \in Nat \ {0} /\ MinBars \in Nat /\ MinBars >= SwingLookback
      /\ all \in Seq(Candle) /\ Len(all) = len + 1
  BY StructureAssumption
<1>2. ~ (len < MinBars)
  <2>1. len < MinBars => Analyze(cs).events = <<>>
    BY DEF Analyze, NoStructure
  <2>2. QED BY <2>1
<1>3. /\ Analyze(cs).events = Structure(cs, sw).events
      /\ Analyze(all).events = Structure(all, new).events
  <2>1. ~ (Len(all) < MinBars)
    BY <1>1, <1>2
  <2>2. QED BY <1>2, <2>1 DEF Analyze
<1> HIDE DEF all, sw, new
<1>4. \A d \in Directions : sw[d] = Swings(cs, d) /\ new[d] = Swings(all, d)
  BY DEF sw, new
<1>5. \A d \in Directions : sw[d] \subseteq 1 .. len /\ new[d] \subseteq 1 .. (len + 1)
  BY <1>1, <1>4 DEF Swings
<1>6. PICK f : ReadingOf(f, cs, sw) /\ Structure(cs, sw) = f[len]
  BY <1>1, StructureIsReading
<1>7. PICK g : ReadingOf(g, all, new) /\ Structure(all, new) = g[len + 1]
  <2>1. \E g : ReadingOf(g, all, new) /\ Structure(all, new) = g[Len(all)]
    BY <1>1, StructureIsReading
  <2>2. QED BY <1>1, <2>1
<1>8. \A i \in SwingLookback .. len : f[i].events \in Seq(Event)
  BY <1>1, <1>5, <1>6, EventsTyped
<1>9. \A i \in SwingLookback .. (len + 1) : g[i].events \in Seq(Event)
  BY <1>1, <1>5, <1>7, EventsTyped
<1>10. ASSUME NEW low \in SwingLookback .. len
       PROVE  /\ Len(f[low].events) <= Len(f[len].events)
              /\ \A k \in 1 .. Len(f[low].events) : f[len].events[k] = f[low].events[k]
              /\ \A k \in 1 .. Len(f[len].events) :
                   k > Len(f[low].events) => f[len].events[k].bar > low
  <2>1. len \in low .. len
    BY <1>1
  <2>2. QED BY <1>5, <1>6, <1>8, <2>1, ReadingsGrow
<1>11. ASSUME NEW low \in SwingLookback .. (len + 1)
       PROVE  /\ Len(g[low].events) <= Len(g[len + 1].events)
              /\ \A k \in 1 .. Len(g[low].events) : g[len + 1].events[k] = g[low].events[k]
  <2>1. len + 1 \in low .. (len + 1) /\ low \in SwingLookback .. Len(all)
    BY <1>1
  <2>2. ReadingOf(g, all, new)
    BY <1>7
  <2>3. \A d \in Directions : new[d] \subseteq 1 .. Len(all)
    BY <1>1, <1>5
  <2>4. \A i \in SwingLookback .. Len(all) : g[i].events \in Seq(Event)
    BY <1>1, <1>9
  <2>5. \A i \in low .. Len(all) :
           /\ Len(g[low].events) <= Len(g[i].events)
           /\ \A k \in 1 .. Len(g[low].events) : g[i].events[k] = g[low].events[k]
    <3>1. all \in Seq(Candle) /\ low \in SwingLookback .. Len(all)
      BY <1>1, <2>1
    <3>2. QED BY <3>1, <2>2, <2>3, <2>4, ReadingsGrow
  <2>6. QED BY <1>1, <2>1, <2>5
<1>12. n \in 1 .. Len(f[len].events) /\ f[len].events[n].bar <= top /\ len \in SwingLookback .. len
  BY <1>1, <1>2, <1>3, <1>6
<1>13. f[len].events[n].bar \in Nat
  <2>1. f[len].events[n] \in Event
    BY <1>8, <1>12
  <2>2. QED BY <2>1 DEF Event
<1>14. top >= SwingLookback
  <2>1. f[SwingLookback].events = <<>>
    <3>1. SwingLookback \in SwingLookback .. len
      BY <1>1, <1>2
    <3>2. f[SwingLookback] = Step(cs, sw, f, SwingLookback)
      BY <1>6, <3>1 DEF ReadingOf
    <3>3. QED BY <3>2 DEF Step, NoBreaks
  <2>2. f[len].events[n].bar > SwingLookback
    <3>1. SwingLookback \in SwingLookback .. len
      BY <1>1, <1>2
    <3>2. Len(f[SwingLookback].events) = 0
      BY <2>1
    <3>3. QED BY <1>10, <1>12, <3>1, <3>2
  <2>3. QED BY <1>1, <1>12, <1>13, <2>2
<1>15. top \in SwingLookback .. len /\ top \in SwingLookback .. (len + 1) /\ top \in SwingLookback .. top
  BY <1>1, <1>14
<1>16. g[top] = f[top]
  <2>1. \A d \in Directions : sw[d] = Swings(cs, d) /\ new[d] = Swings(Append(cs, c), d)
    BY <1>4 DEF all
  <2>2. \A i \in SwingLookback .. (Len(cs) - SwingLookback + 1) : g[i] = f[i]
    <3>1. ReadingOf(f, cs, sw) /\ ReadingOf(g, Append(cs, c), new)
      BY <1>6, <1>7 DEF all
    <3>2. QED BY <2>1, <3>1, ReadAlike
  <2>3. QED BY <1>15, <2>2
<1>17. Len(f[top].events) \in Nat /\ Len(f[len].events) \in Nat /\ Len(g[len + 1].events) \in Nat
  <2>1. len + 1 \in SwingLookback .. (len + 1)
    BY <1>1, <1>2
  <2>2. /\ f[top].events \in Seq(Event) /\ f[len].events \in Seq(Event)
        /\ g[len + 1].events \in Seq(Event)
    BY <1>8, <1>9, <1>12, <1>15, <2>1
  <2>3. QED BY <2>2
<1>18. n \in 1 .. Len(f[top].events)
  <2>1. n > Len(f[top].events) => f[len].events[n].bar > top
    BY <1>10, <1>12, <1>15
  <2>2. QED BY <1>1, <1>12, <1>13, <1>17, <2>1
<1>19. /\ f[len].events[n] = f[top].events[n]
       /\ g[len + 1].events[n] = g[top].events[n]
       /\ n <= Len(g[len + 1].events)
  BY <1>10, <1>11, <1>15, <1>16, <1>17, <1>18
<1>20. QED BY <1>3, <1>6, <1>7, <1>16, <1>19 DEF all

(* What an analysis said up to a bar before which every swing is confirmed *)
(* is what the next analysis of the grown window says as well.             *)
THEOREM SettledStructureKept == Spec => SettledStructureStays
<1> DEFINE Settled ==
      Len(candles) < Window =>
        \A n \in 1 .. Len(smc.events) :
          smc.events[n].bar <= Len(candles) - SwingLookback + 1 =>
            n <= Len(smc'.events) /\ smc'.events[n] = smc.events[n]
<1>1. BarInv /\ [Next]_vars => [Settled]_<<candles, smc>>
  <2> SUFFICES ASSUME BarInv, Next, Len(candles) < Window, ~ UNCHANGED <<candles, smc>>,
                      NEW n \in 1 .. Len(smc.events),
                      smc.events[n].bar <= Len(candles) - SwingLookback + 1
               PROVE  n <= Len(smc'.events) /\ smc'.events[n] = smc.events[n]
    BY DEF vars
  <2>1. NewBar
    BY DEF Next, Decide, Confirm, Return
  <2>2. candles \in Seq(Candle) /\ Len(candles) > 0 /\ smc = Analyze(candles)
    BY DEF BarInv, WindowInv
  <2>3. PICK m \in Moves : candles' = Fetched(candles, NextCandle(candles, m))
    BY <2>1 DEF NewBar
  <2> DEFINE c == NextCandle(candles, m)
  <2>4. c \in Candle
    BY <2>2, NextIsCandle
  <2> HIDE DEF c
  <2>5. candles' = Append(candles, c)
    <3> DEFINE all == Append(candles, c)
    <3>1. all \in Seq(Candle) /\ Len(all) <= Window
      BY <2>2, <2>4, WindowAssumption
    <3> HIDE DEF all
    <3>2. SubSeq(all, 1, Len(all)) = all
      BY <3>1
    <3>3. LastOf(all, Window) = all
      BY <3>1, <3>2, WindowAssumption DEF LastOf
    <3>4. QED BY <2>3, <3>3 DEF Fetched, all, c
  <2>6. smc' = Analyze(Append(candles, c))
    BY <2>1, <2>5 DEF NewBar
  <2>7. QED BY <2>2, <2>4, <2>6, SettledStays
<1>2. QED BY <1>1, BarAlways, PTL DEF Spec, SettledStructureStays

-----------------------------------------------------------------------------
(* The blocks of a window: every break with an origin has one. *)

Block == [type : Directions, bar : Nat, high : Int, low : Int]

BlocksUpTo(f, n, cs, bos) ==
  f = [k \in 0 .. n |-> IF k = 0 THEN NoBlocks ELSE LET r == f[k - 1] IN WithBlock(r, cs, bos[k])]

LEMMA BlocksExist ==
  ASSUME NEW cs, NEW bos, NEW n \in Nat
  PROVE  \E f : BlocksUpTo(f, n, cs, bos)
<1> DEFINE T == {m \in Nat : ~ \E f : BlocksUpTo(f, m, cs, bos)}
<1>1. SUFFICES ASSUME T # {} PROVE FALSE
  OBVIOUS
<1>2. PICK m \in T : \A k \in T : m <= k
  <2>1. T \subseteq Nat
    OBVIOUS
  <2> HIDE DEF T
  <2>2. QED BY <1>1, <2>1, NatMin
<1>3. m \in Nat /\ ~ \E f : BlocksUpTo(f, m, cs, bos)
  OBVIOUS
<1>4. m # 0
  <2> DEFINE f == [k \in 0 .. 0 |-> NoBlocks]
  <2>1. BlocksUpTo(f, 0, cs, bos)
    BY DEF BlocksUpTo
  <2> HIDE DEF f
  <2>2. QED BY <2>1, <1>3
<1>5. m - 1 \in Nat /\ m - 1 \notin T
  <2>1. m - 1 \in Nat /\ ~ (m <= m - 1)
    BY <1>3, <1>4
  <2> HIDE DEF T
  <2>2. QED BY <2>1, <1>2
<1>6. PICK f : BlocksUpTo(f, m - 1, cs, bos)
  BY <1>5
<1> DEFINE g == [k \in 0 .. m |-> IF k = m THEN WithBlock(f[m - 1], cs, bos[m]) ELSE f[k]]
<1>7. ASSUME NEW k \in 0 .. m
      PROVE  g[k] = IF k = 0 THEN NoBlocks ELSE WithBlock(g[k - 1], cs, bos[k])
  <2>1. CASE k = m
    <3>1. g[m - 1] = f[m - 1]
      BY <1>3, <1>4
    <3>2. QED BY <2>1, <3>1, <1>4
  <2>2. CASE k # m
    <3>1. k \in 0 .. (m - 1) /\ g[k] = f[k] /\ (k # 0 => g[k - 1] = f[k - 1])
      BY <2>2, <1>3
    <3>2. f[k] = IF k = 0 THEN NoBlocks ELSE WithBlock(f[k - 1], cs, bos[k])
      BY <1>6, <3>1 DEF BlocksUpTo
    <3> HIDE DEF g
    <3>3. QED BY <3>1, <3>2
  <2>3. QED BY <2>1, <2>2
<1>8. BlocksUpTo(g, m, cs, bos)
  <2>1. g = [k \in 0 .. m |-> g[k]]
    OBVIOUS
  <2> HIDE DEF g
  <2>2. QED BY <2>1, <1>7 DEF BlocksUpTo
<1> HIDE DEF g
<1>9. QED BY <1>8, <1>3

LEMMA BlocksAreUpTo ==
  ASSUME NEW cs, NEW bos, Len(bos) \in Nat
  PROVE  \E f : BlocksUpTo(f, Len(bos), cs, bos) /\ Blocks(cs, bos) = f[Len(bos)]
<1> DEFINE upto == CHOOSE f : BlocksUpTo(f, Len(bos), cs, bos)
<1>1. BlocksUpTo(upto, Len(bos), cs, bos)
  BY BlocksExist, Zenon
<1>2. Blocks(cs, bos) = upto[Len(bos)]
  BY DEF Blocks, BlocksUpTo
<1>3. QED BY <1>1, <1>2

(* The bar of a block lies before the break and closed against it.         *)
LEMMA OriginIn ==
  ASSUME NEW cs \in Seq(Candle), NEW b \in Event, b.bar <= Len(cs), Origin(cs, b) # 0
  PROVE  /\ Origin(cs, b) \in 1 .. Len(cs)
         /\ Sign(b.type) * (cs[Origin(cs, b)].open - cs[Origin(cs, b)].close) > 0
<1> DEFINE T == {k \in (b.bar - Smallest(BlockReach, b.bar - 1)) .. (b.bar - 1) :
                   /\ Sign(b.type) * (cs[k].open - cs[k].close) > 0
                   /\ Body(cs[k]) >= MinBlock
                   /\ BodyAtLeast(cs[k], BlockBody)}
<1>1. Origin(cs, b) = Greatest(T)
  BY DEF Origin
<1>2. T # {}
  BY <1>1 DEF Greatest
<1>3. T \subseteq 1 .. Len(cs)
  <2>1. b.bar \in Nat /\ Len(cs) \in Nat /\ BlockReach \in Nat
    BY BlocksAssumption DEF Event
  <2>2. b.bar - Smallest(BlockReach, b.bar - 1) >= 1
    BY <2>1 DEF Smallest
  <2>3. b.bar - Smallest(BlockReach, b.bar - 1) \in Int
    BY <2>1 DEF Smallest
  <2>4. QED BY <2>1, <2>2, <2>3
<1>4. Greatest(T) \in T
  <2> HIDE DEF T
  <2>1. Len(cs) \in Nat
    OBVIOUS
  <2>2. QED BY <1>2, <1>3, <2>1, GreatestIn
<1>5. QED BY <1>1, <1>3, <1>4

(* So two breaks with one origin go the same way and leave the same block. *)
LEMMA OneOriginOneBlock ==
  ASSUME NEW cs \in Seq(Candle), NEW b \in Event, NEW c \in Event,
         b.bar <= Len(cs), c.bar <= Len(cs), Origin(cs, b) # 0, Origin(cs, b) = Origin(cs, c)
  PROVE  BlockOf(cs, b) = BlockOf(cs, c)
<1>1. /\ Origin(cs, b) \in 1 .. Len(cs)
      /\ Sign(b.type) * (cs[Origin(cs, b)].open - cs[Origin(cs, b)].close) > 0
      /\ Sign(c.type) * (cs[Origin(cs, b)].open - cs[Origin(cs, b)].close) > 0
  BY OriginIn
<1>2. cs[Origin(cs, b)] \in Candle
  BY <1>1
<1>3. cs[Origin(cs, b)].open \in Int /\ cs[Origin(cs, b)].close \in Int
  BY <1>2 DEF Candle
<1>4. b.type \in Directions /\ c.type \in Directions
  BY DEF Event
<1>5. b.type = c.type
  BY <1>1, <1>3, <1>4 DEF Sign, Directions
<1>6. QED BY <1>5 DEF BlockOf

LEMMA BlockTyped ==
  ASSUME NEW cs \in Seq(Candle), NEW b \in Event, b.bar <= Len(cs), Origin(cs, b) # 0
  PROVE  BlockOf(cs, b) \in Block
<1>1. Origin(cs, b) \in 1 .. Len(cs)
  BY OriginIn
<1>2. cs[Origin(cs, b)] \in Candle /\ Origin(cs, b) \in Nat
  BY <1>1
<1>3. cs[Origin(cs, b)].high \in Int /\ cs[Origin(cs, b)].low \in Int
  BY <1>2 DEF Candle
<1>4. b.type \in Directions
  BY DEF Event
<1>5. QED BY <1>2, <1>3, <1>4 DEF BlockOf, Block

InList(l, x) == \E k \in 1 .. Len(l) : l[k] = x

(* What holds of the blocks after n breaks.                                *)
BlocksTyped(r, n) ==
  /\ r.active \in Seq(Block) /\ Len(r.active) <= n
  /\ r.mitigated \in Seq(Block) /\ Len(r.mitigated) <= n

BlocksHave(r, cs, bos, n) ==
  \A k \in 1 .. n : Origin(cs, bos[k]) # 0 =>
     InList(r.active, BlockOf(cs, bos[k])) \/ InList(r.mitigated, BlockOf(cs, bos[k]))

UsedOrigins(r, cs, bos, n) ==
  \A o \in r.used : \E k \in 1 .. n : Origin(cs, bos[k]) = o /\ o # 0

BreaksOf(cs, bos) ==
  bos \in Seq(Event) /\ \A k \in 1 .. Len(bos) : bos[k].bar <= Len(cs)

LEMMA AppendInList ==
  ASSUME NEW S, NEW l \in Seq(S), NEW x \in S
  PROVE  /\ Append(l, x) \in Seq(S) /\ Len(Append(l, x)) = Len(l) + 1 /\ Len(l) \in Nat
         /\ InList(Append(l, x), x)
         /\ \A y : InList(l, y) => InList(Append(l, x), y)
<1>1. /\ Append(l, x) \in Seq(S) /\ Len(Append(l, x)) = Len(l) + 1 /\ Len(l) \in Nat
      /\ Append(l, x)[Len(l) + 1] = x /\ \A k \in 1 .. Len(l) : Append(l, x)[k] = l[k]
  OBVIOUS
<1> DEFINE m == Append(l, x)
<1> HIDE DEF m
<1>2. InList(m, x)
  <2>1. Len(l) + 1 \in 1 .. Len(m)
    BY <1>1 DEF m
  <2>2. QED BY <2>1, <1>1 DEF InList, m
<1>3. ASSUME NEW y, InList(l, y) PROVE InList(m, y)
  <2>1. PICK k \in 1 .. Len(l) : l[k] = y
    BY <1>3 DEF InList
  <2>2. k \in 1 .. Len(m) /\ m[k] = y
    BY <2>1, <1>1 DEF m
  <2>3. QED BY <2>2 DEF InList
<1>4. QED BY <1>1, <1>2, <1>3 DEF m

LEMMA BlockKeeps ==
  ASSUME NEW cs \in Seq(Candle), NEW bos, BreaksOf(cs, bos), NEW n \in Nat, n + 1 \in 1 .. Len(bos),
         NEW r, BlocksTyped(r, n), BlocksHave(r, cs, bos, n), UsedOrigins(r, cs, bos, n),
         NEW q, q = WithBlock(r, cs, bos[n + 1])
  PROVE  BlocksTyped(q, n + 1) /\ BlocksHave(q, cs, bos, n + 1) /\ UsedOrigins(q, cs, bos, n + 1)
<1> DEFINE b == bos[n + 1]
           o == Origin(cs, b)
<1>1. b \in Event /\ b.bar <= Len(cs)
  BY DEF BreaksOf
<1>2. \A k \in 1 .. n : k \in 1 .. (n + 1) /\ k \in 1 .. Len(bos) /\ bos[k] \in Event /\ bos[k].bar <= Len(cs)
  <2>1. \A k \in 1 .. n : k \in 1 .. (n + 1) /\ k \in 1 .. Len(bos)
    BY DEF BreaksOf
  <2>2. QED BY <2>1 DEF BreaksOf
<1>3. \A k \in 1 .. (n + 1) : k \in 1 .. n \/ k = n + 1
  OBVIOUS
<1>4. CASE o \in r.used \cup {0}
  <2>1. q = r
    BY <1>4 DEF WithBlock
  <2>2. BlocksTyped(q, n + 1)
    <3>1. Len(r.active) <= n + 1 /\ Len(r.mitigated) <= n + 1
      BY DEF BlocksTyped
    <3>2. QED BY <2>1, <3>1 DEF BlocksTyped
  <2>3. o # 0 => InList(r.active, BlockOf(cs, b)) \/ InList(r.mitigated, BlockOf(cs, b))
    <3> SUFFICES ASSUME o # 0 PROVE InList(r.active, BlockOf(cs, b)) \/ InList(r.mitigated, BlockOf(cs, b))
      OBVIOUS
    <3>1. PICK k \in 1 .. n : Origin(cs, bos[k]) = o
      BY <1>4 DEF UsedOrigins
    <3>2. BlockOf(cs, bos[k]) = BlockOf(cs, b)
      BY <1>1, <1>2, <3>1, OneOriginOneBlock
    <3>3. InList(r.active, BlockOf(cs, bos[k])) \/ InList(r.mitigated, BlockOf(cs, bos[k]))
      BY <3>1 DEF BlocksHave
    <3>4. QED BY <3>2, <3>3
  <2>4. BlocksHave(q, cs, bos, n + 1)
    BY <1>3, <2>1, <2>3 DEF BlocksHave
  <2>5. UsedOrigins(q, cs, bos, n + 1)
    BY <1>2, <2>1 DEF UsedOrigins
  <2>6. QED BY <2>2, <2>4, <2>5
<1>5. CASE o \notin r.used \cup {0}
  <2> DEFINE x == BlockOf(cs, b)
  <2>1. x \in Block
    BY <1>1, <1>5, BlockTyped
  <2>2. /\ q.used = r.used \cup {o}
        /\ \/ q.active = Append(r.active, x) /\ q.mitigated = r.mitigated
           \/ q.active = r.active /\ q.mitigated = Append(r.mitigated, x)
    BY <1>5 DEF WithBlock
  <2> HIDE DEF x
  <2>3. r.active \in Seq(Block) /\ r.mitigated \in Seq(Block)
    BY DEF BlocksTyped
  <2>4. /\ q.active \in Seq(Block) /\ q.mitigated \in Seq(Block)
        /\ InList(q.active, x) \/ InList(q.mitigated, x)
        /\ \A y : InList(r.active, y) => InList(q.active, y)
        /\ \A y : InList(r.mitigated, y) => InList(q.mitigated, y)
    <3>1. /\ Append(r.active, x) \in Seq(Block) /\ InList(Append(r.active, x), x)
          /\ \A y : InList(r.active, y) => InList(Append(r.active, x), y)
      BY <2>1, <2>3, AppendInList
    <3>2. /\ Append(r.mitigated, x) \in Seq(Block) /\ InList(Append(r.mitigated, x), x)
          /\ \A y : InList(r.mitigated, y) => InList(Append(r.mitigated, x), y)
      BY <2>1, <2>3, AppendInList
    <3>3. CASE q.active = Append(r.active, x) /\ q.mitigated = r.mitigated
      BY <2>3, <3>1, <3>3
    <3>4. CASE q.active = r.active /\ q.mitigated = Append(r.mitigated, x)
      BY <2>3, <3>2, <3>4
    <3>5. QED BY <2>2, <3>3, <3>4
  <2>5. Len(q.active) <= n + 1 /\ Len(q.mitigated) <= n + 1
    <3>1. Len(r.active) \in Nat /\ Len(r.mitigated) \in Nat
          /\ Len(r.active) <= n /\ Len(r.mitigated) <= n
      BY <2>3 DEF BlocksTyped
    <3>2. /\ Len(Append(r.active, x)) = Len(r.active) + 1
          /\ Len(Append(r.mitigated, x)) = Len(r.mitigated) + 1
      BY <2>1, <2>3, AppendInList
    <3>3. QED BY <2>2, <3>1, <3>2
  <2>6. BlocksTyped(q, n + 1)
    BY <2>4, <2>5 DEF BlocksTyped
  <2>7. BlocksHave(q, cs, bos, n + 1)
    <3> SUFFICES ASSUME NEW k \in 1 .. (n + 1), Origin(cs, bos[k]) # 0
                 PROVE  InList(q.active, BlockOf(cs, bos[k])) \/ InList(q.mitigated, BlockOf(cs, bos[k]))
      BY DEF BlocksHave
    <3>1. CASE k \in 1 .. n
      <4>1. InList(r.active, BlockOf(cs, bos[k])) \/ InList(r.mitigated, BlockOf(cs, bos[k]))
        BY <3>1 DEF BlocksHave
      <4>2. QED BY <4>1, <2>4
    <3>2. CASE k = n + 1
      BY <3>2, <2>4 DEF x
    <3>3. QED BY <1>3, <3>1, <3>2
  <2>8. UsedOrigins(q, cs, bos, n + 1)
    <3> SUFFICES ASSUME NEW p \in q.used
                 PROVE  \E k \in 1 .. (n + 1) : Origin(cs, bos[k]) = p /\ p # 0
      BY DEF UsedOrigins
    <3>1. CASE p \in r.used
      BY <3>1, <1>2 DEF UsedOrigins
    <3>2. CASE p = o
      BY <3>2, <1>5
    <3>3. QED BY <3>1, <3>2, <2>2
  <2>9. QED BY <2>6, <2>7, <2>8
<1>6. QED BY <1>4, <1>5

LEMMA BlocksKept ==
  ASSUME NEW cs \in Seq(Candle), NEW bos, BreaksOf(cs, bos)
  PROVE  BlocksTyped(Blocks(cs, bos), Len(bos)) /\ BlocksHave(Blocks(cs, bos), cs, bos, Len(bos))
<1> DEFINE n == Len(bos)
<1>1. n \in Nat
  BY DEF BreaksOf
<1>2. PICK f : BlocksUpTo(f, n, cs, bos) /\ Blocks(cs, bos) = f[n]
  BY <1>1, BlocksAreUpTo
<1> DEFINE Holds(k) == BlocksTyped(f[k], k) /\ BlocksHave(f[k], cs, bos, k) /\ UsedOrigins(f[k], cs, bos, k)
           T == {k \in 0 .. n : ~ Holds(k)}
<1>3. ASSUME T # {} PROVE FALSE
  <2>1. PICK m \in T : \A k \in T : m <= k
    <3>1. T \subseteq Nat
      BY <1>1
    <3> HIDE DEF T
    <3>2. QED BY <1>3, <3>1, NatMin
  <2>2. m \in 0 .. n /\ ~ Holds(m)
    OBVIOUS
  <2>3. f[m] = IF m = 0 THEN NoBlocks ELSE WithBlock(f[m - 1], cs, bos[m])
    BY <1>2, <2>2 DEF BlocksUpTo
  <2>4. m # 0
    <3> SUFFICES ASSUME m = 0 PROVE Holds(0)
      BY <2>2
    <3>1. f[0].active = <<>> /\ f[0].mitigated = <<>> /\ f[0].used = {}
      BY <2>3 DEF NoBlocks
    <3>2. QED BY <3>1 DEF BlocksTyped, BlocksHave, UsedOrigins
  <2>5. m - 1 \in Nat /\ m - 1 \in 0 .. n /\ (m - 1) + 1 = m /\ m \in 1 .. n /\ ~ (m <= m - 1)
    BY <1>1, <2>2, <2>4
  <2>6. Holds(m - 1)
    <3>1. m - 1 \notin T
      <4> HIDE DEF T
      <4>1. QED BY <2>1, <2>5
    <3>2. QED BY <3>1, <2>5
  <2>7. f[m] = WithBlock(f[m - 1], cs, bos[(m - 1) + 1])
    BY <2>3, <2>4, <2>5
  <2> DEFINE p == m - 1
  <2>8. p \in Nat /\ p + 1 = m /\ Holds(p) /\ f[m] = WithBlock(f[p], cs, bos[p + 1])
        /\ p + 1 \in 1 .. Len(bos)
    BY <2>5, <2>6, <2>7
  <2> HIDE DEF p
  <2>9. Holds(p + 1)
    BY <2>8, BlockKeeps
  <2>10. QED BY <2>2, <2>8, <2>9
<1>4. n \in 0 .. n
  BY <1>1
<1>5. QED BY <1>2, <1>3, <1>4

(* A list no longer than the cut is left whole.                            *)
LEMMA LastOfAll ==
  ASSUME NEW S, NEW s \in Seq(S), NEW n \in Nat, Len(s) <= n
  PROVE  LastOf(s, n) = s
<1>1. Len(s) \in Nat /\ ~ (Len(s) > n) /\ SubSeq(s, 1, Len(s)) = s
  OBVIOUS
<1>2. QED BY <1>1 DEF LastOf

LEMMA LastOfShort ==
  ASSUME NEW S, NEW s \in Seq(S), NEW n \in Nat \ {0}
  PROVE  Len(LastOf(s, n)) <= n
<1> DEFINE a == IF Len(s) > n THEN Len(s) - n + 1 ELSE 1
           u == SubSeq(s, a, Len(s))
<1>1. Len(s) \in Nat /\ a \in 1 .. (Len(s) + 1) /\ Len(s) - a + 1 <= n
  OBVIOUS
<1> HIDE DEF a
<1>2. Len(u) = Len(s) - a + 1
  BY <1>1
<1>3. LastOf(s, n) = u
  BY DEF LastOf, a
<1> HIDE DEF u
<1>4. QED BY <1>1, <1>2, <1>3

(* What the gates read of an analysis besides its newest break.            *)
StructureTyped(a, cs) ==
  /\ BreaksOf(cs, a.bos)
  /\ a.active \in Seq(Block) /\ a.mitigated \in Seq(Block)
  /\ a.equal \in [Directions -> Int]

EveryBlockSeen(a, cs) ==
  \A n \in 1 .. Len(a.bos) : Origin(cs, a.bos[n]) # 0 => BlockOf(cs, a.bos[n]) \in BlocksSeen(a)

LEMMA EqualTyped ==
  ASSUME NEW cs \in Seq(Candle), NEW swings, swings \subseteq 1 .. Len(cs), NEW dir
  PROVE  EqualLevel(cs, swings, dir) \in Int
<1> DEFINE firsts == {k \in swings :
             /\ Cardinality({j \in swings : Level(cs, dir, j) = Level(cs, dir, k)}) >= 2
             /\ \A j \in {j \in swings : Level(cs, dir, j) = Level(cs, dir, k)} : k <= j}
<1>1. EqualLevel(cs, swings, dir) = IF firsts = {} THEN 0 ELSE Level(cs, dir, Greatest(firsts))
  BY DEF EqualLevel
<1>2. firsts \subseteq swings
  BY Zenon
<1> HIDE DEF firsts
<1>3. firsts \subseteq 1 .. Len(cs) /\ Len(cs) \in Nat
  BY <1>2
<1>4. CASE firsts # {}
  <2>1. Greatest(firsts) \in 1 .. Len(cs)
    BY <1>3, <1>4, GreatestIn
  <2>2. cs[Greatest(firsts)] \in Candle
    BY <2>1
  <2>3. QED BY <1>1, <1>4, <2>2 DEF Level, Candle
<1>5. QED BY <1>1, <1>4

LEMMA StructureRead ==
  ASSUME NEW cs \in Seq(Candle)
  PROVE  StructureTyped(Analyze(cs), cs) /\ EveryBlockSeen(Analyze(cs), cs)
<1> DEFINE a == Analyze(cs)
<1>1. CASE Len(cs) < MinBars
  <2>1. a = NoStructure
    BY <1>1 DEF Analyze
  <2>2. /\ a.bos = <<>> /\ a.active = <<>> /\ a.mitigated = <<>>
        /\ a.equal = [d \in Directions |-> 0]
    BY <2>1 DEF NoStructure
  <2> HIDE DEF a
  <2>3. BreaksOf(cs, a.bos) /\ EveryBlockSeen(a, cs)
    BY <2>2 DEF BreaksOf, EveryBlockSeen
  <2>4. QED BY <2>2, <2>3 DEF StructureTyped, a
<1>2. CASE ~ (Len(cs) < MinBars)
  <2> DEFINE sw == [d \in Directions |-> Swings(cs, d)]
             r == Structure(cs, sw)
             l == r.lists["BOS"]
             bos == LastOf(l, MaxBos)
             blocks == Blocks(cs, bos)
  <2>1. /\ a.bos = bos
        /\ a.active = LastOf(blocks.active, MaxBlocks)
        /\ a.mitigated = LastOf(blocks.mitigated, MaxBlocks)
        /\ a.equal = [d \in Directions |-> EqualLevel(cs, sw[d], d)]
    BY <1>2 DEF Analyze
  <2>2. Len(cs) \in Nat /\ Len(cs) >= SwingLookback
    BY <1>2, StructureAssumption
  <2>3. \A d \in Directions : sw[d] \subseteq 1 .. Len(cs)
    <3>1. \A d \in Directions : Swings(cs, d) \subseteq 1 .. Len(cs)
      BY <2>2, StructureAssumption DEF Swings
    <3>2. QED BY <3>1
  <2> HIDE DEF a, sw
  <2>4. ReadingInv(r, Len(cs))
    BY <2>2, <2>3, StructureKept
  <2>5. a.equal \in [Directions -> Int]
    BY <2>1, <2>3, EqualTyped
  <2> HIDE DEF r
  <2>6. l \in Seq(Event) /\ \A n \in 1 .. Len(l) : l[n].bar <= Len(cs)
    <3>1. l \in Seq(Event) /\ Listed(r) /\ InOrder(r.events, Len(cs))
      BY <2>4 DEF ReadingInv, Reading, Kinds
    <3>2. \A n \in 1 .. Len(l) : \E m \in 1 .. Len(r.events) : l[n] = r.events[m]
      BY <3>1 DEF Listed, Kinds
    <3>3. QED BY <3>1, <3>2 DEF InOrder
  <2> HIDE DEF l
  <2>7. BreaksOf(cs, bos) /\ Len(bos) <= MaxBos /\ Len(bos) \in Nat
    <3>1. MaxBos \in Nat \ {0}
      BY StructureAssumption
    <3>2. /\ bos \in Seq(Event) /\ Len(bos) <= MaxBos
          /\ \A k \in 1 .. Len(bos) : \E m \in 1 .. Len(l) : bos[k] = l[m]
      BY <2>6, <3>1, LastOfIn, LastOfShort
    <3> HIDE DEF bos
    <3>3. QED BY <2>6, <3>2 DEF BreaksOf
  <2> HIDE DEF bos
  <2>8. BlocksTyped(blocks, Len(bos)) /\ BlocksHave(blocks, cs, bos, Len(bos))
    BY <2>7, BlocksKept
  <2> HIDE DEF blocks
  <2>9. a.active = blocks.active /\ a.mitigated = blocks.mitigated
    <3>1. MaxBos \in Nat /\ MaxBlocks \in Nat /\ MaxBos <= MaxBlocks
      BY StructureAssumption, BlocksAssumption
    <3>2. /\ blocks.active \in Seq(Block) /\ Len(blocks.active) <= Len(bos)
          /\ blocks.mitigated \in Seq(Block) /\ Len(blocks.mitigated) <= Len(bos)
      BY <2>8 DEF BlocksTyped
    <3>3. Len(blocks.active) <= MaxBlocks /\ Len(blocks.mitigated) <= MaxBlocks
      BY <2>7, <3>1, <3>2
    <3>4. LastOf(blocks.active, MaxBlocks) = blocks.active
      BY <3>1, <3>2, <3>3, LastOfAll
    <3>5. LastOf(blocks.mitigated, MaxBlocks) = blocks.mitigated
      BY <3>1, <3>2, <3>3, LastOfAll
    <3>6. QED BY <2>1, <3>4, <3>5
  <2>10. StructureTyped(a, cs)
    BY <2>1, <2>5, <2>7, <2>8, <2>9 DEF StructureTyped, BlocksTyped
  <2>11. EveryBlockSeen(a, cs)
    <3> SUFFICES ASSUME NEW n \in 1 .. Len(bos), Origin(cs, bos[n]) # 0
                 PROVE  BlockOf(cs, bos[n]) \in BlocksSeen(a)
      BY <2>1 DEF EveryBlockSeen
    <3>1. \/ InList(a.active, BlockOf(cs, bos[n]))
          \/ InList(a.mitigated, BlockOf(cs, bos[n]))
      BY <2>8, <2>9 DEF BlocksHave
    <3>2. QED BY <3>1 DEF InList, BlocksSeen
  <2>12. QED BY <2>10, <2>11 DEF a
<1>3. QED BY <1>1, <1>2

(* No entry after a break that failed: every break of the list that has a  *)
(* block has it in one of the two lists the fake breakout is looked for in *)
(* (detect_order_block_fake_breakout), for the lists of blocks are cut no  *)
(* shorter than the list of breaks (CFG_M5).                               *)
THEOREM FailedBreaksRefused == Spec => []FailedBreakRefused
<1>1. ASSUME BarInv, Allowed, NEW n \in 1 .. Len(smc.bos),
             smc.bos[n].type = decision.direction, Origin(candles, smc.bos[n]) # 0,
             NEW origin, origin = candles[Origin(candles, smc.bos[n])],
             origin.low <= Now(candles).close, Now(candles).close <= origin.high,
             NEW k \in Largest(1, Len(candles) - RetraceBars) .. (Len(candles) - 1),
             Ahead(decision.direction,
                   IF decision.direction = "BUY" THEN origin.high ELSE origin.low,
                   candles[k].close)
      PROVE  FALSE
  <2> DEFINE b == BlockOf(candles, smc.bos[n])
  <2>1. PICK x \in Readings :
          Refusal(candles, smc, x, settings, decision.direction, decision.regime) = ""
    BY <1>1, AllowedPassed
  <2>2. ~ FakeBreakout(candles, BlocksSeen(smc), decision.direction)
    BY <2>1 DEF Refusal
  <2>3. candles \in Seq(Candle) /\ smc = Analyze(candles) /\ Len(candles) \in Nat \ {0}
    BY <1>1 DEF BarInv, WindowInv
  <2>4. StructureTyped(smc, candles) /\ EveryBlockSeen(smc, candles)
    BY <2>3, StructureRead
  <2>5. b \in BlocksSeen(smc)
    BY <1>1, <2>4 DEF EveryBlockSeen
  <2>6. b.type = decision.direction /\ b.high = origin.high /\ b.low = origin.low
    BY <1>1 DEF BlockOf
  <2>7. smc.bos[n] \in Event /\ smc.bos[n].bar <= Len(candles)
    BY <2>4 DEF StructureTyped, BreaksOf
  <2>8. origin.high \in Int /\ origin.low \in Int /\ decision.direction \in Directions
    <3>1. Origin(candles, smc.bos[n]) \in 1 .. Len(candles)
      BY <1>1, <2>3, <2>7, OriginIn
    <3>2. origin \in Candle
      BY <1>1, <2>3, <3>1
    <3>3. smc.bos[n].type \in Directions
      BY <2>7 DEF Event
    <3>4. QED BY <1>1, <3>2, <3>3 DEF Candle
  <2>9. candles[k].close \in Int
    <3>1. candles[k] \in Candle
      <4>1. k \in 1 .. Len(candles)
        BY <2>3, BlocksAssumption DEF Largest
      <4>2. QED BY <2>3, <4>1
    <3>2. QED BY <3>1 DEF Candle
  <2>10. IF decision.direction = "BUY" THEN candles[k].close > b.high ELSE candles[k].close < b.low
    BY <1>1, <2>6, <2>8, <2>9 DEF Ahead, Sign, Directions
  <2> HIDE DEF b
  <2>11. FakeBreakout(candles, BlocksSeen(smc), decision.direction)
    BY <1>1, <2>5, <2>6, <2>10 DEF FakeBreakout, Now
  <2>12. QED BY <2>2, <2>11
<1>2. BarInv => FailedBreakRefused
  BY <1>1 DEF FailedBreakRefused
<1>3. QED BY <1>2, BarAlways, PTL

-----------------------------------------------------------------------------
(* Stop and target.  Products are kept in steps of their own: the rounded  *)
(* quotients, what they place, the sums of true ranges, the levels.        *)

(* A rounded quotient is within a half of the quotient.                    *)
LEMMA RoundDivBounds ==
  ASSUME NEW a \in Int, NEW b \in Nat \ {0}
  PROVE /\ RoundDiv(a, b) \in Int
        /\ 2 * b * RoundDiv(a, b) <= 2 * a + b
        /\ 2 * b * RoundDiv(a, b) > 2 * a - b
<1> DEFINE c == 2 * b
           n == 2 * a + b
<1>1. c \in Int /\ c > 0 /\ n \in Int
  OBVIOUS
<1>2. n \div c \in Int /\ c * (n \div c) <= n /\ n < c * (n \div c) + c
  <2> HIDE DEF c, n
  <2>1. QED BY <1>1
<1>3. QED BY <1>2 DEF RoundDiv

LEMMA Times ==
  ASSUME NEW u \in Nat, NEW x \in Int, NEW y \in Int
  PROVE  u * x \in Int /\ (x <= y => u * x <= u * y) /\ u * (x - y) = u * x - u * y /\ u * (0 - x) = 0 - u * x
         /\ u * (x + 1) = u * x + u
OBVIOUS

(* The side and the distance of the stop.                                  *)
LEMMA StopPlaced ==
  ASSUME NEW e \in Int, NEW d \in Nat, NEW u \in Nat \ {0}, NEW dir \in Directions,
         NEW stop, stop = RoundDiv(u * e - Sign(dir) * d, u)
  PROVE  LET k == Sign(dir) * (e - stop) IN
         /\ stop \in Int /\ k \in Nat
         /\ 2 * u * k >= 2 * d - u /\ 2 * u * k <= 2 * d + u
         /\ \A x \in Int : u * x <= d => x <= k
<1> DEFINE k == Sign(dir) * (e - stop)
           p == u * stop
           q == u * e
           h == u * k
<1>1. q \in Int /\ q - Sign(dir) * d \in Int
  BY Times DEF Sign, Directions
<1>2. stop \in Int /\ 2 * u * stop <= 2 * (q - Sign(dir) * d) + u
      /\ 2 * u * stop > 2 * (q - Sign(dir) * d) - u
  BY <1>1, RoundDivBounds
<1>3. 2 * u * stop = 2 * p /\ p \in Int
  BY <1>2
<1>4. k \in Int /\ h \in Int /\ 2 * u * k = 2 * h
  BY <1>2 DEF Sign, Directions
<1>5. h = Sign(dir) * (q - p)
  <2>1. CASE dir = "BUY"
    <3>1. k = e - stop
      BY <1>2, <2>1 DEF Sign
    <3>2. QED BY <1>1, <1>2, <1>3, <2>1, <3>1, Times DEF Sign
  <2>2. CASE dir = "SELL"
    <3>1. k = stop - e
      BY <1>2, <2>2 DEF Sign
    <3>2. h = p - q
      BY <1>2, <3>1, Times
    <3> HIDE DEF h, k, p, q
    <3>3. QED BY <1>1, <1>3, <1>4, <2>2, <3>2 DEF Sign
  <2>3. QED BY <2>1, <2>2 DEF Directions
<1>6. 2 * h >= 2 * d - u /\ 2 * h <= 2 * d + u
  <2> HIDE DEF h, k, p, q
  <2>1. QED BY <1>1, <1>2, <1>3, <1>4, <1>5 DEF Sign, Directions
<1>7. k >= 0
  <2> SUFFICES ASSUME k <= -1 PROVE FALSE
    BY <1>4
  <2>1. h <= u * (-1)
    <3> HIDE DEF k
    <3>1. QED BY <1>4, Times
  <2>2. u * (-1) = 0 - u
    OBVIOUS
  <2> HIDE DEF h, k, p, q
  <2>3. QED BY <1>4, <1>6, <2>1, <2>2
<1>8. ASSUME NEW x \in Int, u * x <= d PROVE x <= k
  <2> SUFFICES ASSUME k + 1 <= x PROVE FALSE
    BY <1>4
  <2>1. u * (k + 1) <= u * x /\ u * (k + 1) = h + u /\ u * x \in Int
    <3> HIDE DEF k
    <3>1. k + 1 \in Int
      BY <1>4
    <3>2. QED BY <1>4, <3>1, Times DEF k
  <2> HIDE DEF h, k, p, q
  <2>2. QED BY <1>4, <1>6, <1>8, <2>1
<1>9. QED BY <1>2, <1>4, <1>6, <1>7, <1>8

(* What a rounded target pays.                                             *)
TargetAt(e, dir, risk, rr) == RoundDiv(100 * e + Sign(dir) * risk * rr, 100)

LEMMA TargetPlaced ==
  ASSUME NEW e \in Int, NEW risk \in Nat, NEW rr \in Nat, NEW dir \in Directions,
         NEW target, target = TargetAt(e, dir, risk, rr)
  PROVE  Sign(dir) * (target - e) \in Int /\ 200 * (Sign(dir) * (target - e)) + 100 >= 2 * (risk * rr)
<1> DEFINE m == risk * rr
<1>1. m \in Nat /\ Sign(dir) * risk * rr = Sign(dir) * m
  BY DEF Sign, Directions
<1> HIDE DEF m
<1> DEFINE w == 100 * e + Sign(dir) * m
<1>2. w \in Int /\ target = RoundDiv(w, 100)
  BY <1>1 DEF TargetAt, Sign, Directions
<1>3. target \in Int /\ 2 * 100 * target <= 2 * w + 100 /\ 2 * 100 * target > 2 * w - 100
  <2> HIDE DEF w
  <2>1. 100 \in Nat \ {0}
    OBVIOUS
  <2>2. QED BY <1>2, <2>1, RoundDivBounds
<1>4. Sign(dir) * (target - e) \in Int /\ 200 * (Sign(dir) * (target - e)) + 100 >= 2 * m
  BY <1>1, <1>3 DEF Sign, Directions
<1>5. QED BY <1>4 DEF m

(* A reward that is rr percent of the risk when rounded.                   *)
LEMMA RewardAsked ==
  ASSUME NEW risk \in Nat \ {0}, NEW reward \in Nat, NEW rr \in Int, NEW asked \in Nat,
         rr = RoundDiv(100 * reward, risk), rr >= asked
  PROVE  200 * reward + risk >= 2 * (asked * risk)
<1>1. 2 * risk * rr <= 2 * (100 * reward) + risk
  BY RoundDivBounds
<1>2. 2 * risk * rr = 2 * (risk * rr) /\ risk * rr \in Int /\ risk * asked = asked * risk
  OBVIOUS
<1>3. risk * asked <= risk * rr /\ risk * asked \in Int
  BY Times
<1>4. QED BY <1>1, <1>2, <1>3

(* The sum over a set of bars, as the fold of the community modules has it *)
(* (MapThenFoldSet).                                                       *)
SumStep(cs, f, s) ==
  IF s = {} THEN 0 ELSE LET x == CHOOSE y \in s : TRUE IN TrueRange(cs, x) + f[s \ {x}]

Small(S, m) == {s \in SUBSET S : Cardinality(s) <= m}
SumsUpTo(f, cs, S, m) == f = [s \in Small(S, m) |-> SumStep(cs, f, s)]

LEMMA Smaller ==
  ASSUME NEW S, IsFiniteSet(S), NEW s, s \subseteq S, s # {}, NEW x, x = CHOOSE y \in s : TRUE
  PROVE  /\ x \in s /\ s \ {x} \subseteq S
         /\ Cardinality(s) \in Nat \ {0} /\ Cardinality(s \ {x}) = Cardinality(s) - 1
<1>1. x \in s
  OBVIOUS
<1>2. IsFiniteSet(s)
  BY FS_Subset
<1>3. Cardinality(s) \in Nat /\ Cardinality(s) # 0
  BY <1>2, FS_CardinalityType, FS_EmptySet
<1>4. Cardinality(s \ {x}) = Cardinality(s) - 1
  BY <1>1, <1>2, FS_RemoveElement
<1>5. QED BY <1>1, <1>3, <1>4

LEMMA SumsExist ==
  ASSUME NEW cs, NEW S, IsFiniteSet(S), NEW n \in Nat
  PROVE  \E f : SumsUpTo(f, cs, S, n)
<1> DEFINE T == {m \in Nat : ~ \E f : SumsUpTo(f, cs, S, m)}
<1>1. SUFFICES ASSUME T # {} PROVE FALSE
  OBVIOUS
<1>2. PICK m \in T : \A k \in T : m <= k
  <2>1. T \subseteq Nat
    OBVIOUS
  <2> HIDE DEF T
  <2>2. QED BY <1>1, <2>1, NatMin
<1>3. m \in Nat /\ ~ \E f : SumsUpTo(f, cs, S, m)
  OBVIOUS
<1>4. m # 0
  <2> DEFINE f == [s \in Small(S, 0) |-> 0]
  <2>1. ASSUME NEW s \in Small(S, 0) PROVE SumStep(cs, f, s) = 0
    <3>1. s \subseteq S /\ Cardinality(s) <= 0
      BY DEF Small
    <3>2. ASSUME s # {} PROVE FALSE
      <4> DEFINE x == CHOOSE y \in s : TRUE
      <4>1. x = CHOOSE y \in s : TRUE
        OBVIOUS
      <4> HIDE DEF x
      <4>2. Cardinality(s) \in Nat \ {0}
        BY <3>1, <3>2, <4>1, Smaller
      <4>3. QED BY <3>1, <4>2
    <3>3. QED BY <3>2 DEF SumStep
  <2>2. f = [s \in Small(S, 0) |-> SumStep(cs, f, s)]
    BY <2>1
  <2> HIDE DEF f
  <2>3. QED BY <2>2, <1>3 DEF SumsUpTo
<1>5. m - 1 \in Nat /\ m - 1 \notin T
  <2>1. m - 1 \in Nat /\ ~ (m <= m - 1)
    BY <1>3, <1>4
  <2> HIDE DEF T
  <2>2. QED BY <2>1, <1>2
<1>6. PICK f : SumsUpTo(f, cs, S, m - 1)
  BY <1>5
<1> DEFINE g == [s \in Small(S, m) |-> SumStep(cs, f, s)]
<1>7. ASSUME NEW s \in Small(S, m) PROVE SumStep(cs, g, s) = SumStep(cs, f, s)
  <2>1. CASE s = {}
    BY <2>1 DEF SumStep
  <2>2. CASE s # {}
    <3> DEFINE x == CHOOSE y \in s : TRUE
               t == s \ {x}
    <3>1. s \subseteq S /\ Cardinality(s) <= m
      BY DEF Small
    <3>2. t \subseteq S /\ Cardinality(s) \in Nat \ {0} /\ Cardinality(t) = Cardinality(s) - 1
      BY <2>2, <3>1, Smaller
    <3>3. t \in Small(S, m - 1) /\ t \in Small(S, m)
      <4> HIDE DEF t
      <4>1. Cardinality(t) <= m - 1 /\ Cardinality(t) <= m
        BY <1>3, <3>1, <3>2
      <4>2. QED BY <3>2, <4>1 DEF Small
    <3>4. g[t] = f[t]
      <4>1. g[t] = SumStep(cs, f, t)
        BY <3>3
      <4>2. f[t] = SumStep(cs, f, t)
        BY <1>6, <3>3 DEF SumsUpTo
      <4>3. QED BY <4>1, <4>2
    <3> HIDE DEF g
    <3>5. QED BY <2>2, <3>4 DEF SumStep
  <2>3. QED BY <2>1, <2>2
<1>8. SumsUpTo(g, cs, S, m)
  <2>1. \A s \in Small(S, m) : g[s] = SumStep(cs, g, s)
    BY <1>7
  <2>2. g = [s \in Small(S, m) |-> g[s]]
    OBVIOUS
  <2> HIDE DEF g
  <2>3. QED BY <2>1, <2>2 DEF SumsUpTo
<1> HIDE DEF g
<1>9. QED BY <1>8, <1>3

BarSum(cs, S) == MapThenSumSet(LAMBDA i : TrueRange(cs, i), S)

LEMMA SumIsNat ==
  ASSUME NEW cs, NEW S, IsFiniteSet(S), \A i \in S : TrueRange(cs, i) \in Nat
  PROVE  BarSum(cs, S) \in Nat
<1> DEFINE n == Cardinality(S)
<1>1. n \in Nat
  BY FS_CardinalityType
<1>2. \A s \in SUBSET S : Cardinality(s) \in Nat /\ Cardinality(s) <= n
  BY <1>1, FS_Subset, FS_CardinalityType
<1>3. Small(S, n) = SUBSET S
  BY <1>2 DEF Small
<1> HIDE DEF n
<1> DEFINE Sums(f) == f = [s \in SUBSET S |-> SumStep(cs, f, s)]
           f == CHOOSE f : Sums(f)
<1>4. BarSum(cs, S) = f[S]
  BY Zenon DEF BarSum, MapThenSumSet, MapThenFoldSet, SumStep
<1>5. Sums(f)
  <2>1. PICK h : SumsUpTo(h, cs, S, n)
    BY <1>1, SumsExist
  <2>2. Sums(h)
    BY <1>3, <2>1 DEF SumsUpTo
  <2> HIDE DEF Sums
  <2>3. QED BY <2>2, Zenon
<1>6. \A s \in SUBSET S : f[s] = SumStep(cs, f, s)
  <2> HIDE DEF f
  <2>1. QED BY <1>5
<1> HIDE DEF f
<1> DEFINE T == {Cardinality(s) : s \in {s \in SUBSET S : f[s] \notin Nat}}
<1>7. ASSUME f[S] \notin Nat PROVE FALSE
  <2>1. T \subseteq Nat /\ T # {}
    BY <1>2, <1>7
  <2>2. PICK m \in T : \A k \in T : m <= k
    <3> HIDE DEF T
    <3>1. QED BY <2>1, NatMin
  <2>3. PICK s \in SUBSET S : f[s] \notin Nat /\ m = Cardinality(s)
    OBVIOUS
  <2>4. s # {}
    <3>1. SumStep(cs, f, {}) = 0
      BY DEF SumStep
    <3>2. f[s] = SumStep(cs, f, s)
      BY <1>6
    <3>3. QED BY <2>3, <3>1, <3>2
  <2> DEFINE x == CHOOSE y \in s : TRUE
  <2>5. /\ x \in s /\ s \ {x} \subseteq S
        /\ Cardinality(s) \in Nat \ {0} /\ Cardinality(s \ {x}) = Cardinality(s) - 1
    BY <2>3, <2>4, Smaller
  <2>6. f[s] = TrueRange(cs, x) + f[s \ {x}]
    BY <1>6, <2>4 DEF SumStep
  <2> HIDE DEF x
  <2>7. f[s \ {x}] \in Nat
    <3> SUFFICES ASSUME f[s \ {x}] \notin Nat PROVE FALSE
      OBVIOUS
    <3>1. Cardinality(s \ {x}) \in T
      BY <2>5
    <3> HIDE DEF T
    <3>2. QED BY <2>2, <2>3, <2>5, <3>1
  <2>8. TrueRange(cs, x) \in Nat
    BY <2>5
  <2>9. QED BY <2>3, <2>6, <2>7, <2>8
<1>8. QED BY <1>4, <1>7

LEMMA RangeIsNat ==
  ASSUME NEW cs \in Seq(Candle), NEW i \in 2 .. Len(cs)
  PROVE  TrueRange(cs, i) \in Nat
<1>1. i \in 1 .. Len(cs) /\ i - 1 \in 1 .. Len(cs)
  OBVIOUS
<1>2. cs[i] \in Candle /\ cs[i - 1] \in Candle
  BY <1>1
<1>3. cs[i].high \in Int /\ cs[i].low \in Int /\ cs[i - 1].close \in Int
  BY <1>2 DEF Candle
<1>4. QED BY <1>3 DEF TrueRange, Largest, Smallest

LEMMA RangeSumIsNat ==
  ASSUME NEW cs \in Seq(Candle), Len(cs) > 0, NEW n \in Nat
  PROVE  RangeSum(cs, n) \in Nat
<1> DEFINE a == Len(cs) - Ranges(cs, n) + 1
           S == a .. Len(cs)
<1>1. Len(cs) \in Nat /\ a \in Int /\ a >= 2
  BY DEF Ranges, Smallest
<1> HIDE DEF a
<1>2. IsFiniteSet(S)
  BY <1>1, FS_Interval
<1>3. \A i \in S : i \in 2 .. Len(cs)
  BY <1>1
<1>4. \A i \in S : TrueRange(cs, i) \in Nat
  BY <1>3, RangeIsNat
<1> HIDE DEF S
<1>5. BarSum(cs, S) \in Nat
  BY <1>2, <1>4, SumIsNat
<1>6. RangeSum(cs, n) = BarSum(cs, S)
  BY Zenon DEF RangeSum, BarSum, S, a
<1>7. QED BY <1>5, <1>6

(* Finitely many integers have a least one.                                *)
LEMMA LeastOf ==
  ASSUME NEW n \in Nat \ {0}, NEW f, \A j \in 1 .. n : f[j] \in Int
  PROVE  \E i \in 1 .. n : \A j \in 1 .. n : f[i] <= f[j]
<1> DEFINE P(m) == \E i \in 1 .. m : \A j \in 1 .. m : f[i] <= f[j]
           T == {m \in 1 .. n : ~ P(m)}
<1>1. ASSUME T # {} PROVE FALSE
  <2>1. PICK m \in T : \A k \in T : m <= k
    <3>1. T \subseteq Nat
      OBVIOUS
    <3> HIDE DEF T
    <3>2. QED BY <1>1, <3>1, NatMin
  <2>2. m \in 1 .. n /\ ~ P(m)
    OBVIOUS
  <2>3. CASE m = 1
    <3>1. f[1] \in Int /\ \A j \in 1 .. 1 : j = 1
      OBVIOUS
    <3>2. P(1)
      BY <3>1
    <3>3. QED BY <2>2, <2>3, <3>2
  <2>4. CASE m # 1
    <3>1. m - 1 \in 1 .. n /\ ~ (m <= m - 1) /\ \A j \in 1 .. m : j \in 1 .. (m - 1) \/ j = m
      BY <2>2, <2>4
    <3>2. P(m - 1)
      <4>1. m - 1 \notin T
        <5> HIDE DEF T
        <5>1. QED BY <2>1, <3>1
      <4>2. QED BY <3>1, <4>1
    <3>3. PICK i \in 1 .. (m - 1) : \A j \in 1 .. (m - 1) : f[i] <= f[j]
      BY <3>2
    <3>4. i \in 1 .. m /\ m \in 1 .. m /\ \A j \in 1 .. m : f[j] \in Int
      BY <2>2, <3>1
    <3>5. CASE f[i] <= f[m]
      <4>1. \A j \in 1 .. m : f[i] <= f[j]
        BY <3>1, <3>3, <3>5
      <4>2. QED BY <2>2, <3>4, <4>1
    <3>6. CASE f[m] <= f[i]
      <4>1. \A j \in 1 .. m : f[m] <= f[j]
        BY <3>1, <3>3, <3>4, <3>6
      <4>2. QED BY <2>2, <3>4, <4>1
    <3>7. QED BY <3>4, <3>5, <3>6
  <2>5. QED BY <2>3, <2>4
<1>2. n \in 1 .. n
  OBVIOUS
<1>3. P(n)
  BY <1>1, <1>2
<1>4. QED BY <1>3

(* The edges of a range are prices.                                        *)
LEMMA EdgesTyped ==
  ASSUME NEW cs \in Seq(Candle), Len(cs) > RangeLookback
  PROVE  Support(cs) \in Int /\ Resistance(cs) \in Int
<1> DEFINE n == RangeLookback
           a == Len(cs) - n - 1
<1>1. n \in Nat \ {0} /\ Len(cs) \in Nat /\ a \in Nat
  BY EntryAssumption
<1>2. \A j \in 1 .. n : a + j \in EdgeBars(cs) /\ cs[a + j] \in Candle
  BY <1>1 DEF EdgeBars
<1>3. \A i \in EdgeBars(cs) : i - a \in 1 .. n /\ a + (i - a) = i
  BY <1>1 DEF EdgeBars
<1> HIDE DEF n, a
<1>4. Support(cs) \in Int
  <2> DEFINE f == [j \in 1 .. n |-> cs[a + j].low]
             S == {cs[i].low : i \in EdgeBars(cs)}
  <2>1. \A j \in 1 .. n : f[j] \in Int /\ f[j] \in S
    BY <1>2 DEF Candle
  <2>2. \A x \in S : \E j \in 1 .. n : x = f[j]
    <3> SUFFICES ASSUME NEW i \in EdgeBars(cs) PROVE \E j \in 1 .. n : cs[i].low = f[j]
      OBVIOUS
    <3>1. i - a \in 1 .. n /\ f[i - a] = cs[i].low
      BY <1>3
    <3>2. QED BY <3>1
  <2>3. Support(cs) = CHOOSE x \in S : \A y \in S : x <= y
    BY DEF Support, Min
  <2> HIDE DEF f, S
  <2>4. PICK j \in 1 .. n : \A k \in 1 .. n : f[j] <= f[k]
    BY <1>1, <2>1, LeastOf
  <2>5. f[j] \in S /\ \A y \in S : f[j] <= y
    BY <2>1, <2>2, <2>4
  <2>6. Support(cs) \in S
    BY <2>3, <2>5
  <2>7. QED BY <2>1, <2>2, <2>6
<1>5. Resistance(cs) \in Int
  <2> DEFINE f == [j \in 1 .. n |-> cs[a + j].high]
             g == [j \in 1 .. n |-> 0 - f[j]]
             S == {cs[i].high : i \in EdgeBars(cs)}
  <2>1. \A j \in 1 .. n : f[j] \in Int /\ f[j] \in S
    BY <1>2 DEF Candle
  <2>2. \A x \in S : \E j \in 1 .. n : x = f[j]
    <3> SUFFICES ASSUME NEW i \in EdgeBars(cs) PROVE \E j \in 1 .. n : cs[i].high = f[j]
      OBVIOUS
    <3>1. i - a \in 1 .. n /\ f[i - a] = cs[i].high
      BY <1>3
    <3>2. QED BY <3>1
  <2>3. Resistance(cs) = CHOOSE x \in S : \A y \in S : x >= y
    BY DEF Resistance, Max
  <2> HIDE DEF f, S
  <2>4. \A j \in 1 .. n : g[j] \in Int /\ g[j] = 0 - f[j]
    BY <2>1
  <2> HIDE DEF g
  <2>5. PICK j \in 1 .. n : \A k \in 1 .. n : g[j] <= g[k]
    BY <1>1, <2>4, LeastOf
  <2>6. f[j] \in S /\ \A y \in S : f[j] >= y
    BY <2>1, <2>2, <2>4, <2>5
  <2>7. Resistance(cs) \in S
    BY <2>3, <2>6
  <2>8. QED BY <2>1, <2>2, <2>7
<1>6. QED BY <1>4, <1>5

(* The levels a stop may hide behind are prices behind the entry.          *)
LEMMA LevelsBehind ==
  ASSUME NEW cs \in Seq(Candle), NEW a, StructureTyped(a, cs), NEW regime, NEW dir \in Directions,
         regime = "RANGE" => Len(cs) > RangeLookback, NEW entry \in Int
  PROVE  \A p \in StopLevels(cs, a, regime, dir, entry) : p \in Int /\ Sign(dir) * (entry - p) > 0
<1> SUFFICES ASSUME NEW p \in StopLevels(cs, a, regime, dir, entry)
             PROVE  p \in Int /\ Sign(dir) * (entry - p) > 0
  OBVIOUS
<1>1. Sign(dir) * (entry - p) > 0
  BY DEF StopLevels, Behind
<1>2. CASE p \in BlockLevels(a, dir)
  <2>1. PICK n \in 1 .. Len(a.active) : p = IF dir = "BUY" THEN a.active[n].low ELSE a.active[n].high
    BY <1>2 DEF BlockLevels, Last
  <2>2. a.active[n] \in Block
    BY DEF StructureTyped
  <2>3. QED BY <1>1, <2>1, <2>2 DEF Block
<1>3. CASE p \in SwingLevels(a, dir, entry)
  <2>1. PICK n \in 1 .. Len(a.bos) : p = a.bos[n].price
    BY <1>3 DEF SwingLevels, Last
  <2>2. a.bos[n] \in Event
    BY DEF StructureTyped, BreaksOf
  <2>3. QED BY <1>1, <2>1, <2>2 DEF Event
<1>4. CASE p \in BoundaryLevels(cs, a, regime, dir, entry)
  <2>1. \/ regime = "RANGE" /\ p = IF dir = "BUY" THEN Support(cs) ELSE Resistance(cs)
        \/ p = a.equal[Opposite(dir)]
    BY <1>4 DEF BoundaryLevels
  <2>2. regime = "RANGE" => Support(cs) \in Int /\ Resistance(cs) \in Int
    BY EdgesTyped
  <2>3. a.equal[Opposite(dir)] \in Int
    BY DEF StructureTyped, Opposite, Directions
  <2>4. QED BY <1>1, <2>1, <2>2, <2>3
<1>5. QED BY <1>2, <1>3, <1>4 DEF StopLevels

(* The nearest of some levels behind the entry.                            *)
LEMMA NearestLevel ==
  ASSUME NEW dir \in Directions, NEW entry \in Int, NEW levels, levels # {},
         \A p \in levels : p \in Int /\ Sign(dir) * (entry - p) > 0
  PROVE  \E q \in levels :
           /\ Min({Largest(entry - p, p - entry) : p \in levels}) = Sign(dir) * (entry - q)
           /\ Sign(dir) * (entry - q) \in Nat
           /\ \A p \in levels : Sign(dir) * (entry - q) <= Sign(dir) * (entry - p)
<1> DEFINE D == {Largest(entry - p, p - entry) : p \in levels}
<1>1. \A p \in levels : /\ Largest(entry - p, p - entry) = Sign(dir) * (entry - p)
                        /\ Sign(dir) * (entry - p) \in Nat
  BY DEF Largest, Sign, Directions
<1>2. D \subseteq Nat /\ D # {}
  BY <1>1
<1>3. \A p \in levels : Largest(entry - p, p - entry) \in D
  OBVIOUS
<1>4. \A x \in D : \E p \in levels : x = Largest(entry - p, p - entry)
  OBVIOUS
<1> HIDE DEF D
<1>5. Min(D) \in D /\ \A y \in D : Min(D) <= y
  BY <1>2, NatMin DEF Min
<1>6. PICK q \in levels : Min(D) = Largest(entry - q, q - entry)
  BY <1>4, <1>5
<1>7. \A p \in levels : Min(D) <= Sign(dir) * (entry - p)
  BY <1>1, <1>3, <1>5
<1>8. QED BY <1>1, <1>6, <1>7 DEF D

(* The distance is clamped; a level in reach is behind the stop.           *)
LEMMA DistanceKept ==
  ASSUME NEW cs \in Seq(Candle), Len(cs) > 0, NEW dir \in Directions, NEW entry \in Int, NEW levels,
         \A p \in levels : p \in Int /\ Sign(dir) * (entry - p) > 0
  PROVE  LET sum == RangeSum(cs, ShortBars)
             d == StopDistance(cs, levels, entry)
         IN /\ sum \in Nat /\ d \in Nat /\ 2 * sum <= d /\ d <= 12 * sum
            /\ \A p \in levels : Unit * (Sign(dir) * (entry - p)) + sum <= 12 * sum =>
                 \E q \in levels : /\ Sign(dir) * (entry - q) \in Nat
                                   /\ Unit * (Sign(dir) * (entry - q)) <= d
<1> DEFINE sum == RangeSum(cs, ShortBars)
           d == StopDistance(cs, levels, entry)
           nearest == Min({Largest(entry - p, p - entry) : p \in levels})
<1>1. sum \in Nat /\ Unit \in Nat
  BY GatesAssumption, RangeSumIsNat DEF Unit
<1>2. d = Clamped(IF levels = {} THEN 6 * sum ELSE Unit * nearest + sum, 2 * sum, 12 * sum)
  BY DEF StopDistance
<1> HIDE DEF sum, d, nearest
<1>3. CASE levels = {}
  <2>1. d \in Nat /\ 2 * sum <= d /\ d <= 12 * sum
    BY <1>1, <1>2, <1>3 DEF Clamped, Largest, Smallest
  <2>2. QED BY <1>1, <1>3, <2>1 DEF sum, d
<1>4. CASE levels # {}
  <2>1. PICK q \in levels :
          /\ nearest = Sign(dir) * (entry - q) /\ Sign(dir) * (entry - q) \in Nat
          /\ \A p \in levels : Sign(dir) * (entry - q) <= Sign(dir) * (entry - p)
    BY <1>4, NearestLevel DEF nearest
  <2> DEFINE x == Sign(dir) * (entry - q)
             u == Unit * x
  <2>2. x \in Nat /\ u \in Nat
    BY <1>1, <2>1
  <2>3. d = Clamped(u + sum, 2 * sum, 12 * sum)
    BY <1>2, <1>4, <2>1
  <2> HIDE DEF x, u
  <2>4. d \in Nat /\ 2 * sum <= d /\ d <= 12 * sum /\ (u + sum <= 12 * sum => u <= d)
    BY <1>1, <2>2, <2>3 DEF Clamped, Largest, Smallest
  <2>5. ASSUME NEW p \in levels, Unit * (Sign(dir) * (entry - p)) + sum <= 12 * sum
        PROVE  u <= d
    <3> DEFINE y == Sign(dir) * (entry - p)
    <3>1. y \in Int
      BY DEF Sign, Directions
    <3>2. x <= y
      BY <2>1 DEF x
    <3> HIDE DEF y
    <3>3. u <= Unit * y /\ Unit * y \in Int
      BY <1>1, <2>2, <3>1, <3>2, Times DEF u
    <3>4. u + sum <= 12 * sum
      BY <1>1, <2>2, <2>5, <3>3 DEF y
    <3>5. QED BY <2>4, <3>4
  <2>6. QED BY <1>1, <2>1, <2>4, <2>5 DEF sum, d, x, u
<1>5. QED BY <1>3, <1>4

(* The settings are one configuration, and a decision keeps its trade.     *)
SettingsInv == settings \in SettingsSet

LEMMA SettingsKept == Spec => []SettingsInv
<1>1. Init => SettingsInv
  BY DEF Init, SettingsInv
<1>2. SettingsInv /\ [Next]_vars => SettingsInv'
  BY DEF Next, NewBar, Decide, Confirm, Return, vars, SettingsInv
<1>3. QED BY <1>1, <1>2, PTL DEF Spec

LEMMA AllowedTrade ==
  ASSUME BarInv, Allowed
  PROVE  \E x \in Readings :
           /\ decision.direction \in Directions
           /\ decision.trade = Trade(candles, smc, decision.regime, settings, decision.direction)
           /\ Refusal(candles, smc, x, settings, decision.direction, decision.regime) = ""
<1>1. PICK x \in Readings : decision = Decided(candles, smc, x, settings)
  BY DEF BarInv, DecisionInv, Allowed
<1>2. HasBreak(smc)
  BY <1>1 DEF Decided, Refused, Allowed
<1> DEFINE dir == LatestBreak(smc).type
           regime == Regime(candles, x, settings)
           refusal == Refusal(candles, smc, x, settings, dir, regime)
           let == [reason |-> "", allowed |-> TRUE, direction |-> dir, regime |-> regime,
                   confidence |-> x.confidence,
                   trade |-> Trade(candles, smc, regime, settings, dir)]
<1>3. decision = IF refusal # "" THEN Refused(refusal) ELSE let
  BY <1>1, <1>2 DEF Decided
<1>4. dir \in Directions
  BY <1>2, Analysed DEF BarInv, WindowInv
<1> HIDE DEF dir, regime, refusal
<1>5. refusal = "" /\ decision = let
  BY <1>3 DEF Allowed, Refused
<1>6. decision.direction = dir /\ decision.regime = regime
      /\ decision.trade = Trade(candles, smc, regime, settings, dir)
  BY <1>5
<1>7. QED BY <1>4, <1>5, <1>6 DEF refusal

(* Of a trade the gates let through, in terms of its stop and its target.  *)
PlacedWell(t, dir, levels, sum, asked) ==
  LET risk == Sign(dir) * (t.entry - t.stop)
      reward == Sign(dir) * (t.target - t.entry)
  IN /\ sum \in Nat /\ t.entry \in Int /\ t.stop \in Int
     /\ risk > 0 /\ reward > 0
     /\ 2 * Unit * risk >= 4 * sum - Unit
     /\ 2 * Unit * risk <= 24 * sum + Unit
     /\ \A p \in levels : Unit * (Sign(dir) * (t.entry - p)) + sum <= 12 * sum
          => \E q \in levels : Sign(dir) * (q - t.stop) >= 0
     /\ 200 * reward + 100 >= 2 * (asked * risk) - risk

LEMMA TradePlaced ==
  ASSUME NEW cs \in Seq(Candle), Len(cs) > 0, NEW a, StructureTyped(a, cs),
         NEW regime, regime = "RANGE" => Len(cs) > RangeLookback,
         NEW s \in SettingsSet, NEW dir \in Directions,
         NEW t, t = Trade(cs, a, regime, s, dir), ~ RewardRefused(s, regime, t),
         NEW levels, levels = StopLevels(cs, a, regime, dir, t.entry),
         NEW sum, sum = RangeSum(cs, ShortBars)
  PROVE  PlacedWell(t, dir, levels, sum, IF regime = "RANGE" THEN s.rangeRR ELSE MinRR(regime))
<1> DEFINE e == Now(cs).close
           d == StopDistance(cs, levels, e)
           stop == RoundDiv(Unit * e - Sign(dir) * d, Unit)
           size == Largest(e - stop, stop - e)
           edge == IF dir = "BUY" THEN Resistance(cs) ELSE Support(cs)
           ranged == regime = "RANGE" /\ Ahead(dir, e, edge)
           rr == IF regime = "RANGE" THEN s.rangeRR ELSE FixedRR
           gap == Largest(edge - e, e - edge)
           k == Sign(dir) * (e - stop)
           asked == IF regime = "RANGE" THEN s.rangeRR ELSE MinRR(regime)
<1>1. e \in Int
  <2>1. Len(cs) \in 1 .. Len(cs)
    OBVIOUS
  <2>2. cs[Len(cs)] \in Candle
    BY <2>1
  <2>3. QED BY <2>2 DEF Now, Candle
<1>2. /\ t.entry = e /\ t.stop = stop
      /\ t.target = IF ranged THEN edge ELSE RoundDiv(100 * e + Sign(dir) * size * rr, 100)
      /\ t.rr = IF size = 0 THEN 0 ELSE IF ranged THEN RoundDiv(100 * gap, size) ELSE rr
  BY Zenon DEF Trade
<1>3. Unit \in Nat \ {0}
  BY GatesAssumption DEF Unit
<1>4. \A p \in levels : p \in Int /\ Sign(dir) * (e - p) > 0
  <2> HIDE DEF e
  <2>1. QED BY <1>1, <1>2, LevelsBehind
<1>5. /\ sum \in Nat /\ d \in Nat /\ 2 * sum <= d /\ d <= 12 * sum
      /\ \A p \in levels : Unit * (Sign(dir) * (e - p)) + sum <= 12 * sum =>
           \E q \in levels : Sign(dir) * (e - q) \in Nat /\ Unit * (Sign(dir) * (e - q)) <= d
  <2> HIDE DEF e
  <2>1. QED BY <1>1, <1>4, DistanceKept
<1>6. regime = "RANGE" => edge \in Int
  BY EdgesTyped
<1>7. asked \in Nat /\ asked >= 100 /\ (rr \in Nat)
  BY EntryAssumption DEF MinRR
<1>8. t.rr >= asked
  <2>1. ~ (t.rr < asked)
    BY DEF RewardRefused
  <2>2. t.rr \in Int
    <3>1. stop \in Int /\ size \in Nat
      <4> HIDE DEF e, d
      <4>1. Unit * e - Sign(dir) * d \in Int
        BY <1>1, <1>3, <1>5 DEF Sign, Directions
      <4>2. stop \in Int
        BY <1>3, <4>1, RoundDivBounds
      <4> HIDE DEF stop
      <4>3. QED BY <1>1, <4>2 DEF Largest
    <3> HIDE DEF size, edge, e
    <3>2. CASE size # 0 /\ ranged
      <4>1. gap \in Nat /\ 100 * gap \in Int
        BY <1>1, <1>6, <3>2 DEF Largest
      <4> HIDE DEF gap
      <4>2. RoundDiv(100 * gap, size) \in Int
        BY <3>1, <3>2, <4>1, RoundDivBounds
      <4>3. QED BY <1>2, <3>2, <4>2
    <3>3. QED BY <1>2, <1>7, <3>2
  <2> HIDE DEF asked
  <2>3. QED BY <1>7, <2>1, <2>2
<1> HIDE DEF e, d, edge, asked
<1>9. /\ stop \in Int /\ k \in Nat
      /\ 2 * Unit * k >= 2 * d - Unit /\ 2 * Unit * k <= 2 * d + Unit
      /\ \A x \in Int : Unit * x <= d => x <= k
  BY <1>1, <1>3, <1>5, StopPlaced
<1> HIDE DEF stop
<1>10. size = k
  BY <1>1, <1>9 DEF Largest, Sign, Directions
<1> HIDE DEF size, k
<1>11. k > 0
  <2> SUFFICES ASSUME k = 0 PROVE FALSE
    BY <1>9
  <2>1. t.rr = 0
    BY <1>2, <1>10
  <2>2. QED BY <1>7, <1>8, <2>1
<1> DEFINE reward == Sign(dir) * (t.target - e)
           m == asked * k
<1>12. m \in Nat /\ m >= 100
  <2>1. k * 100 <= k * asked
    BY <1>7, <1>9, Times
  <2>2. k * 100 >= 100
    BY <1>9, <1>11
  <2>3. m \in Nat /\ k * asked = m /\ k * 100 \in Nat
    BY <1>7, <1>9
  <2> HIDE DEF m
  <2>4. QED BY <2>1, <2>2, <2>3
<1>13. reward \in Int /\ reward > 0 /\ 200 * reward + 100 >= 2 * m - k
  <2>1. CASE ranged
    <3>1. gap \in Nat \ {0} /\ gap = Sign(dir) * (edge - e)
      BY <1>1, <1>6, <2>1 DEF Ahead, Largest, Sign, Directions
    <3>2. reward = gap
      BY <1>2, <2>1, <3>1
    <3> HIDE DEF gap, reward
    <3>3. t.rr = RoundDiv(100 * gap, k)
      BY <1>2, <1>10, <1>11, <2>1
    <3>4. t.rr \in Int
      <4>1. 100 * gap \in Int
        BY <3>1
      <4>2. QED BY <1>9, <1>11, <3>3, <4>1, RoundDivBounds
    <3>5. 200 * gap + k >= 2 * (asked * k)
      BY <1>7, <1>8, <1>9, <1>11, <3>1, <3>3, <3>4, RewardAsked
    <3> HIDE DEF m
    <3>6. 200 * gap + k >= 2 * m
      BY <3>5 DEF m
    <3>7. QED BY <1>9, <1>12, <3>1, <3>2, <3>6
  <2>2. CASE ~ ranged
    <3>1. t.target = RoundDiv(100 * e + Sign(dir) * k * rr, 100)
      BY <1>2, <1>10, <2>2
    <3>2. reward \in Int /\ 200 * reward + 100 >= 2 * (k * rr)
      <4> HIDE DEF rr
      <4>1. k \in Nat /\ rr \in Nat
        BY <1>7, <1>9
      <4> DEFINE g == t.target
      <4>2. g = TargetAt(e, dir, k, rr)
        BY <3>1 DEF TargetAt
      <4> HIDE DEF g
      <4>3. Sign(dir) * (g - e) \in Int /\ 200 * (Sign(dir) * (g - e)) + 100 >= 2 * (k * rr)
        BY <1>1, <4>1, <4>2, TargetPlaced
      <4>4. QED BY <4>3 DEF g
    <3>3. rr >= asked
      BY <1>2, <1>8, <1>10, <1>11, <2>2
    <3> HIDE DEF rr, reward
    <3>4. k * asked <= k * rr /\ k * asked = m /\ k * rr \in Int
      BY <1>7, <1>9, <3>3, Times
    <3> HIDE DEF m
    <3>5. QED BY <1>9, <1>12, <3>2, <3>4
  <2>3. QED BY <2>1, <2>2
<1>14. 2 * Unit * k >= 4 * sum - Unit /\ 2 * Unit * k <= 24 * sum + Unit
  <2> DEFINE h == 2 * Unit * k
  <2>1. h \in Int
    BY <1>3, <1>9
  <2> HIDE DEF h
  <2>2. h >= 2 * d - Unit /\ h <= 2 * d + Unit
    BY <1>9 DEF h
  <2>3. h >= 4 * sum - Unit /\ h <= 24 * sum + Unit
    BY <1>3, <1>5, <2>1, <2>2
  <2>4. QED BY <2>3 DEF h
<1>15. ASSUME NEW p \in levels, Unit * (Sign(dir) * (e - p)) + sum <= 12 * sum
       PROVE  \E q \in levels : Sign(dir) * (q - stop) >= 0
  <2>1. PICK q \in levels : Sign(dir) * (e - q) \in Nat /\ Unit * (Sign(dir) * (e - q)) <= d
    BY <1>5, <1>15
  <2>2. Sign(dir) * (e - q) <= k
    BY <1>9, <2>1
  <2>3. Sign(dir) * (q - stop) >= 0
    BY <1>1, <1>4, <1>9, <2>1, <2>2 DEF k, Sign, Directions
  <2>4. QED BY <2>3
<1>16. Sign(dir) * (t.entry - t.stop) = k /\ Sign(dir) * (t.target - t.entry) = reward
  BY <1>2 DEF k
<1> HIDE DEF reward, m
<1>17. \A p \in levels : Unit * (Sign(dir) * (t.entry - p)) + sum <= 12 * sum
         => \E q \in levels : Sign(dir) * (q - t.stop) >= 0
  BY <1>2, <1>15
<1>18. PlacedWell(t, dir, levels, sum, asked)
  BY <1>1, <1>2, <1>5, <1>9, <1>11, <1>13, <1>14, <1>16, <1>17 DEF PlacedWell, m
<1>19. QED BY <1>18 DEF asked

(* The trade of an allowed setup has its stop on the losing side, between  *)
(* half and three average true ranges away and behind the nearest level    *)
(* within reach, and a target that pays what the regime asks, whatever the *)
(* candles and the roundings (_calc_smart_sl, calc_trade_parameters, the   *)
(* R:R gate of run_decision_engine).                                       *)
THEOREM EntriesCanBeTraded == Spec => []EntryGeometry
<1>1. ASSUME BarInv, settings \in SettingsSet, Allowed
      PROVE  EntryGeometry
  <2> DEFINE t == decision.trade
             dir == decision.direction
             regime == decision.regime
             sum == RangeSum(candles, ShortBars)
             levels == StopLevels(candles, smc, regime, dir, t.entry)
             risk == Sign(dir) * (t.entry - t.stop)
             reward == Sign(dir) * (t.target - t.entry)
             asked == IF regime = "RANGE" THEN settings.rangeRR ELSE MinRR(regime)
  <2>1. PICK x \in Readings :
          /\ dir \in Directions
          /\ t = Trade(candles, smc, regime, settings, dir)
          /\ Refusal(candles, smc, x, settings, dir, regime) = ""
    BY <1>1, AllowedTrade
  <2>2. ~ RewardRefused(settings, regime, t)
    BY <2>1, Zenon DEF Refusal
  <2>3. regime = "RANGE" => Len(candles) > RangeLookback
    BY <2>1, Unrefused DEF RangeEntryValid, RangeMeasured
  <2>4. candles \in Seq(Candle) /\ Len(candles) > 0 /\ StructureTyped(smc, candles)
    BY <1>1, StructureRead DEF BarInv, WindowInv
  <2> HIDE DEF t, dir, regime
  <2>5. /\ sum \in Nat /\ t.entry \in Int /\ t.stop \in Int
        /\ risk > 0 /\ reward > 0
        /\ 2 * Unit * risk >= 4 * sum - Unit
        /\ 2 * Unit * risk <= 24 * sum + Unit
        /\ \A p \in levels : Unit * (Sign(dir) * (t.entry - p)) + sum <= 12 * sum
             => \E q \in levels : Sign(dir) * (q - t.stop) >= 0
        /\ 200 * reward + 100 >= 2 * (asked * risk) - risk
    <3> HIDE DEF levels, sum
    <3>1. levels = StopLevels(candles, smc, regime, dir, t.entry) /\ sum = RangeSum(candles, ShortBars)
      BY DEF levels, sum
    <3>2. PlacedWell(t, dir, levels, sum, asked)
      BY <1>1, <2>1, <2>2, <2>3, <2>4, <3>1, TradePlaced
    <3>3. QED BY <3>2 DEF PlacedWell
  <2>6. \A p \in levels : p \in Int
    BY <2>1, <2>3, <2>4, <2>5, LevelsBehind
  <2> HIDE DEF levels, sum
  <2>7. (\E p \in levels : Unit * Sign(dir) * (t.entry - p) + sum <= 12 * sum)
          => \E p \in levels : Sign(dir) * (p - t.stop) >= 0
    <3>1. ASSUME NEW p \in levels
          PROVE  Unit * Sign(dir) * (t.entry - p) = Unit * (Sign(dir) * (t.entry - p))
      <4>1. Unit \in Int /\ t.entry - p \in Int
        BY <2>5, <2>6, GatesAssumption DEF Unit
      <4> DEFINE y == t.entry - p
      <4> HIDE DEF y
      <4>2. CASE dir = "BUY"
        <5>1. Sign(dir) = 1
          BY <4>2 DEF Sign
        <5>2. Unit * 1 * y = Unit * (1 * y)
          BY <4>1 DEF y
        <5>3. QED BY <5>1, <5>2 DEF y
      <4>3. CASE dir = "SELL"
        <5>1. Sign(dir) = -1
          BY <4>3 DEF Sign
        <5>2. Unit * (-1) * y = Unit * ((-1) * y)
          BY <4>1 DEF y
        <5>3. QED BY <5>1, <5>2 DEF y
      <4>4. QED BY <2>1, <4>2, <4>3 DEF Directions
    <3>2. QED BY <2>5, <3>1
  <2>8. 2 * asked * risk = 2 * (asked * risk)
    <3>1. asked \in Int /\ risk \in Int
      <4>1. asked \in Int
        BY <1>1, EntryAssumption DEF MinRR
      <4>2. t.entry - t.stop \in Int
        BY <2>5
      <4>3. Sign(dir) \in Int
        BY DEF Sign
      <4>4. QED BY <4>1, <4>2, <4>3
    <3> HIDE DEF asked, risk
    <3>2. QED BY <3>1
  <2> HIDE DEF asked, risk, reward
  <2>9. 200 * reward + 100 >= 2 * asked * risk - risk
    BY <2>5, <2>8
  <2>10. QED
    BY <2>5, <2>7, <2>9, Zenon DEF EntryGeometry, t, dir, regime, sum, levels, risk, reward, asked
<1>2. BarInv /\ SettingsInv => EntryGeometry
  BY <1>1 DEF EntryGeometry, SettingsInv
<1>3. QED BY <1>2, BarAlways, SettingsKept, PTL
=============================================================================
