---------------------------- MODULE MarketStructure ----------------------------
(***************************************************************************)
(* The price structure the signal engine reads from its window of closed   *)
(* candles (signals/smc_engine.py): swing points, breaks of structure      *)
(* (BOS) and changes of character (CHoCH), order blocks with their         *)
(* mitigation, liquidity sweeps and equal levels.                          *)
(*                                                                         *)
(* Prices are integers of a grid whose unit is coarser than the tolerances *)
(* under which the code takes two levels for one (equal_level_tolerance    *)
(* and the 0.05 of the sweeps), so those are equality here.  Directions    *)
(* are "BUY" and "SELL": the swing highs are the levels a BUY breaks, the  *)
(* swing lows the levels a SELL breaks, and Sign mirrors one case into the *)
(* other.  Bars are numbered from 1, the code's from 0.                    *)
(***************************************************************************)
EXTENDS Integers, Sequences, FiniteSets

CONSTANTS
  Histories,     \* the windows of closed candles the engine may start from
  Moves,         \* what one bar may do: its body and its two wicks
  Prices,        \* the prices of the grid (bound)
  Window,        \* CANDLE_WINDOW: how many candles are fetched
  MaxBars,       \* how long a window is followed (bound)
  SwingLookback, MinBreak, BosBody, ChochBody, MaxBos, MaxChoch,
  BlockReach, MinBlock, BlockBody, MaxBlocks, RetraceBars,
  SweepMin, SweepMargin, MinBars

(* Candles as the connector delivers them. *)
Candle == [open: Int, high: Int, low: Int, close: Int]

ASSUME WindowAssumption ==
  /\ Histories \subseteq Seq(Candle) \ {<<>>}
  /\ Moves \subseteq [body : Int, up : Nat, down : Nat]
  /\ MaxBars \in Nat /\ Window \in Nat \ {0}

ASSUME StructureAssumption ==
  /\ SwingLookback \in Nat \ {0}
  /\ MinBars \in Nat /\ MinBars >= SwingLookback
  /\ MaxBos \in Nat \ {0} /\ MaxChoch \in Nat \ {0}
  /\ SweepMin \in Nat /\ SweepMargin \in Nat /\ MinBreak \in Nat

\* CFG_M5: max_order_blocks=6, max_bos=5.
ASSUME BlocksAssumption ==
  /\ BlockReach \in Nat /\ RetraceBars \in Nat
  /\ MaxBlocks \in Nat /\ MaxBlocks >= MaxBos

Directions == {"BUY", "SELL"}
Opposite(dir) == IF dir = "BUY" THEN "SELL" ELSE "BUY"
Sign(dir) == IF dir = "BUY" THEN 1 ELSE -1

LastOf(s, n) == SubSeq(s, IF Len(s) > n THEN Len(s) - n + 1 ELSE 1, Len(s))
Greatest(S) == IF S = {} THEN 0 ELSE CHOOSE x \in S : \A y \in S : y <= x
Largest(a, b) == IF a > b THEN a ELSE b
Smallest(a, b) == IF a < b THEN a ELSE b

-----------------------------------------------------------------------------
(* Candles and swing points. *)

Body(c) == Largest(c.close - c.open, c.open - c.close)

(* The body is at least pct percent of the candle's range. *)
BodyAtLeast(c, pct) == c.high > c.low /\ 100 * Body(c) >= pct * (c.high - c.low)

(* The price a break in this direction must get past at bar k. *)
Level(cs, dir, k) == IF dir = "BUY" THEN cs[k].high ELSE cs[k].low

(* A swing is confirmed by lookback bars on either side, all short of it. *)
Swings(cs, dir) ==
  {k \in (SwingLookback + 1) .. (Len(cs) - SwingLookback) :
     \A j \in 1 .. SwingLookback :
       /\ Sign(dir) * (Level(cs, dir, k) - Level(cs, dir, k - j)) > 0
       /\ Sign(dir) * (Level(cs, dir, k) - Level(cs, dir, k + j)) > 0}

-----------------------------------------------------------------------------
(* Breaks of structure, bar by bar. *)

Kinds == {"BOS", "CHOCH"}
Trending(dir) == IF dir = "BUY" THEN "BULLISH" ELSE "BEARISH"

NoBreaks ==
  [trend |-> "NEUTRAL", run |-> <<>>, used |-> [d \in Directions |-> {}],
   lists |-> [k \in Kinds |-> <<>>], events |-> <<>>]

(* Faulty variant: any unbroken swing of the window, also a later one. *)
TargetAnywhere(sw, r, dir, i) == Greatest(sw[dir] \ r.used[dir])

(* The most recent unbroken swing before bar i, 0 when there is none. *)
Target(sw, r, dir, i) == Greatest({k \in sw[dir] \ r.used[dir] : k < i})

(* A close past the target by enough, with enough of a body: a reversal    *)
(* asks for less of one.                                                   *)
Breaks(cs, sw, r, dir, i) ==
  LET t == Target(sw, r, dir, i) IN
  /\ t # 0
  /\ Sign(dir) * (cs[i].close - Level(cs, dir, t)) >= MinBreak
  /\ BodyAtLeast(cs[i], IF r.trend = Trending(Opposite(dir)) THEN ChochBody ELSE BosBody)

(* What a break through swing t does to the reading, whatever its kind. *)
Noted(cs, r, kind, dir, t, i) ==
  LET event == [kind |-> kind, type |-> dir, bar |-> i, price |-> Level(cs, dir, t)] IN
  [r EXCEPT !.used[dir] = @ \cup {t},
            !.lists[kind] = Append(@, event), !.events = Append(@, event)]

(* Faulty variant: the run of breaks before the reversal is not forgotten. *)
ReversalRemembers(r) == [r EXCEPT !.trend = "NEUTRAL"]

(* A break against the trend is a change of character: it ends the trend   *)
(* and the run of breaks that made it.                                     *)
Reversal(r) == [r EXCEPT !.trend = "NEUTRAL", !.run = <<>>]

(* Any other is a break of structure; two of a kind in a row are a trend.  *)
Continuation(r, dir) ==
  LET run == Append(r.run, dir) IN
  [r EXCEPT !.run = run,
            !.trend = IF Len(run) >= 2 /\ run[Len(run) - 1] = dir
                      THEN Trending(dir) ELSE @]

Broken(cs, sw, r, dir, i) ==
  LET t == Target(sw, r, dir, i) IN
  IF r.trend = Trending(Opposite(dir))
  THEN Noted(cs, Reversal(r), "CHOCH", dir, t, i)
  ELSE Noted(cs, Continuation(r, dir), "BOS", dir, t, i)

(* At most one break a bar, the bullish one looked for first. *)
ReadBar(cs, sw, r, i) ==
  IF Breaks(cs, sw, r, "BUY", i) THEN Broken(cs, sw, r, "BUY", i)
  ELSE IF Breaks(cs, sw, r, "SELL", i) THEN Broken(cs, sw, r, "SELL", i)
  ELSE r

(* _detect_bos_and_choch, before it cuts its two lists. *)
Structure(cs, sw) ==
  LET upto[i \in SwingLookback .. Len(cs)] ==
        IF i = SwingLookback THEN NoBreaks
        ELSE LET r == upto[i - 1] IN ReadBar(cs, sw, r, i)
  IN upto[Len(cs)]

-----------------------------------------------------------------------------
(* Order blocks: the last opposite candle before a break. *)

(* The bar of the block a break leaves behind, 0 when it leaves none. *)
Origin(cs, b) ==
  Greatest({k \in (b.bar - Smallest(BlockReach, b.bar - 1)) .. (b.bar - 1) :
              /\ Sign(b.type) * (cs[k].open - cs[k].close) > 0
              /\ Body(cs[k]) >= MinBlock
              /\ BodyAtLeast(cs[k], BlockBody)})

(* Price came back into the block after the break that made it. *)
Mitigated(cs, b) ==
  \E j \in (b.bar + 1) .. Len(cs) :
    cs[j].low <= cs[Origin(cs, b)].high /\ cs[j].high >= cs[Origin(cs, b)].low

BlockOf(cs, b) ==
  [type |-> b.type, bar |-> Origin(cs, b),
   high |-> cs[Origin(cs, b)].high, low |-> cs[Origin(cs, b)].low]

(* One turn of the loop over the breaks: one with an origin of its own     *)
(* adds its block to the list it belongs to.                               *)
WithBlock(r, cs, b) ==
  IF Origin(cs, b) \in r.used \cup {0} THEN r
  ELSE [used |-> r.used \cup {Origin(cs, b)},
        active |-> IF Mitigated(cs, b) THEN r.active ELSE Append(r.active, BlockOf(cs, b)),
        mitigated |-> IF Mitigated(cs, b) THEN Append(r.mitigated, BlockOf(cs, b))
                      ELSE r.mitigated]

NoBlocks == [used |-> {}, active |-> <<>>, mitigated |-> <<>>]

(* _detect_order_blocks, before it cuts its two lists. *)
Blocks(cs, bos) ==
  LET upto[n \in 0 .. Len(bos)] ==
        IF n = 0 THEN NoBlocks ELSE LET r == upto[n - 1] IN WithBlock(r, cs, bos[n])
  IN upto[Len(bos)]

(* A directional setup whose close fell back into a block of its own side  *)
(* that one of the last few bars had closed beyond.                        *)
FakeBreakout(cs, blocks, dir) ==
  LET n == Len(cs)
      recent == Largest(1, n - RetraceBars) .. (n - 1)
  IN \E b \in blocks :
       /\ b.type = dir
       /\ b.low <= cs[n].close /\ cs[n].close <= b.high
       /\ \E k \in recent :
            IF dir = "BUY" THEN cs[k].close > b.high ELSE cs[k].close < b.low

-----------------------------------------------------------------------------
(* Liquidity sweeps and equal levels. *)

(* Bar i wicks through swing k and closes back on the other side of it.    *)
(* A bullish sweep ("BUY") pierces a swing low, the level of a SELL.       *)
Pierces(cs, dir, k, i) ==
  LET level == Level(cs, Opposite(dir), k) IN
  /\ Sign(dir) * (level - Level(cs, Opposite(dir), i)) >= SweepMin
  /\ Sign(dir) * (cs[i].close - level) >= SweepMargin
  /\ Sign(dir) * (cs[i].close - cs[i].open) > 0

(* The swings a bar is compared with: those of the last lookback bars. *)
Sweepable(sw, dir, i) == {k \in sw[Opposite(dir)] : i - SwingLookback <= k /\ k < i}

(* The swing bar i sweeps: the most recent it pierces, 0 for none. *)
SweptAt(cs, sw, dir, i) ==
  Greatest({k \in Sweepable(sw, dir, i) : Pierces(cs, dir, k, i)})

(* A level is reported by the first bar that sweeps it.  The list is cut   *)
(* to its last five, which is more than the two newest bars can hold: no   *)
(* reader asks for older ones.                                             *)
Sweeps(cs, sw) ==
  {s \in [type : Directions, bar : (SwingLookback + 1) .. Len(cs)] :
     LET at(j) == SweptAt(cs, sw, s.type, j)
         price(j) == Level(cs, Opposite(s.type), at(j))
     IN /\ at(s.bar) # 0
        /\ \A j \in (SwingLookback + 1) .. (s.bar - 1) :
             at(j) # 0 => price(j) # price(s.bar)}

(* The price of the last group of two or more swings at one level: groups  *)
(* stand in the order of their first members.  0 when there is none.       *)
EqualLevel(cs, swings, dir) ==
  LET at(k) == {j \in swings : Level(cs, dir, j) = Level(cs, dir, k)}
      firsts == {k \in swings : Cardinality(at(k)) >= 2 /\ \A j \in at(k) : k <= j}
  IN IF firsts = {} THEN 0 ELSE Level(cs, dir, Greatest(firsts))

-----------------------------------------------------------------------------
(* analyze_smc_structure: what it returns, and in `events` the breaks of   *)
(* the whole window in their order, which the code holds in its two lists  *)
(* until they are cut.  Fair value gaps and the composite score, which     *)
(* decide nothing here, are left out.                                      *)

NoStructure ==
  [trend |-> "NEUTRAL", bos |-> <<>>, choch |-> <<>>, active |-> <<>>,
   mitigated |-> <<>>, sweeps |-> {}, equal |-> [d \in Directions |-> 0],
   events |-> <<>>]

Analyze(cs) ==
  IF Len(cs) < MinBars THEN NoStructure
  ELSE LET sw == [d \in Directions |-> Swings(cs, d)]
           r == Structure(cs, sw)
           bos == LastOf(r.lists["BOS"], MaxBos)
           blocks == Blocks(cs, bos)
       IN [trend |-> r.trend, bos |-> bos,
           choch |-> LastOf(r.lists["CHOCH"], MaxChoch),
           active |-> LastOf(blocks.active, MaxBlocks),
           mitigated |-> LastOf(blocks.mitigated, MaxBlocks),
           sweeps |-> Sweeps(cs, sw),
           equal |-> [d \in Directions |-> EqualLevel(cs, sw[d], d)],
           events |-> r.events]

(* Faulty variant: the last change of character goes before any break. *)
ReversalFirst(smc) ==
  IF smc.choch # <<>> THEN smc.choch[Len(smc.choch)] ELSE smc.bos[Len(smc.bos)]

(* The newest break of either list; a change of character wins a tie. *)
LatestBreak(smc) ==
  LET all == {smc.bos[n] : n \in 1 .. Len(smc.bos)}
             \cup {smc.choch[n] : n \in 1 .. Len(smc.choch)}
      newest == {e \in all : \A f \in all : f.bar <= e.bar}
      reversals == {e \in newest : e.kind = "CHOCH"}
  IN CHOOSE e \in newest : reversals # {} => e \in reversals

HasBreak(smc) == smc.bos # <<>> \/ smc.choch # <<>>

-----------------------------------------------------------------------------
(* The window as it grows. *)

(* The candle a move makes of the last close. *)
NextCandle(cs, m) ==
  LET last == cs[Len(cs)].close IN
  [open |-> last, close |-> last + m.body,
   high |-> Largest(last, last + m.body) + m.up,
   low |-> Smallest(last, last + m.body) - m.down]

(* fetch_candles: the last CANDLE_WINDOW closed candles. *)
Fetched(cs, c) == LastOf(Append(cs, c), Window)

=============================================================================
