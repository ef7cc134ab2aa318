----------------------------- MODULE DecisionGates -----------------------------
(***************************************************************************)
(* What becomes of a closed bar in the signal engine: the structure of     *)
(* MarketStructure and the readings of the other engines pass the gates of *)
(* run_decision_engine (signals/decision_engine.py) in the code's order,   *)
(* the capital manager places stop and target, and the higher timeframe    *)
(* (signals/mtf_filter.py, h1_validator.py) confirms or refuses.           *)
(*                                                                         *)
(* A reading is what the floating-point engines say of a window: the trend *)
(* of the moving averages, the votes of price action and Wyckoff, ADX, the *)
(* confidence score.  Any of Readings may come with any window.  Average   *)
(* true ranges are computed: comparisons and stop distances are scaled so  *)
(* that they stay integers.  Ratios are in percent.                        *)
(***************************************************************************)
EXTENDS MarketStructure, FiniteSetsExt

CONSTANTS
  Readings,      \* what the other engines may say of a window
  Hourly,        \* what the fetch and the analysis of H1 may give
  SettingsSet,   \* what the environment may configure
  ConfHardMin, NormalMinConfidence, RangeMinConfidence, OptionTwoMinConfidence,
  AdxMin, StructureMaxAge, MarginalRR, FixedRR,
  ShortBars, MeanBars, RangeAtrBars, SpanBars, MomentumBars, PullbackBars,
  RangeLookback, QualityBars, MinFetched, MinHourly, MaxGapHours, MaxAgeHours

ASSUME GatesAssumption ==
  /\ ShortBars \in Nat \ {0} /\ MeanBars \in Nat \ {0} /\ RangeAtrBars \in Nat \ {0}
  /\ MinBars > ShortBars /\ PullbackBars > 5 /\ StructureMaxAge \in Nat

\* config.py keeps RANGE_MIN_RR between 1.0 and 10.0, and a range is measured
\* on at least one candle.
ASSUME EntryAssumption ==
  /\ \A s \in SettingsSet : s.rangeRR \in Nat /\ s.rangeRR >= 100
  /\ FixedRR \in Nat /\ RangeLookback \in Nat \ {0}

\* Opening stamps in minutes, whatever a broken feed delivers.
ASSUME HourlyAssumption ==
  \A h \in Hourly : h.stamps \in Seq(Int) /\ h.now \in Int

VARIABLES
  candles,    \* the window of closed candles of the entry timeframe
  smc,        \* analyze_smc_structure of it
  settings,   \* config.py
  decision,   \* the DecisionResult of the bar in hand
  hourly,     \* the H1 data of the bar in hand
  approved    \* the direction the bar takes on to the order, or "NONE"

vars == <<candles, smc, settings, decision, hourly, approved>>

Now(cs) == cs[Len(cs)]
RoundDiv(a, b) == (2 * a + b) \div (2 * b)

-----------------------------------------------------------------------------
(* Volatility and regime. *)

TrueRange(cs, i) ==
  Largest(cs[i].high, cs[i - 1].close) - Smallest(cs[i].low, cs[i - 1].close)

Ranges(cs, n) == Smallest(n, Len(cs) - 1)
RangeSum(cs, n) ==
  MapThenSumSet(LAMBDA i : TrueRange(cs, i), (Len(cs) - Ranges(cs, n) + 1) .. Len(cs))

(* The recent average true range is above (below) pct percent of the mean. *)
RatioAbove(cs, pct) ==
  100 * RangeSum(cs, ShortBars) * Ranges(cs, MeanBars)
    > pct * RangeSum(cs, MeanBars) * Ranges(cs, ShortBars)
RatioBelow(cs, pct) ==
  100 * RangeSum(cs, ShortBars) * Ranges(cs, MeanBars)
    < pct * RangeSum(cs, MeanBars) * Ranges(cs, ShortBars)

(* Price went against the trend over the last bars. *)
Pullback(cs, trend) ==
  /\ Len(cs) >= PullbackBars
  /\ LET before == cs[Len(cs) - 5].close IN
     \/ trend = "BULLISH" /\ Now(cs).close < before
     \/ trend = "BEARISH" /\ Now(cs).close > before

(* The first regime of the ladder whose condition holds. *)
Regime(cs, x, s) ==
  IF s.highVolatility /\ RatioAbove(cs, 180) THEN "HIGH_VOLATILITY"
  ELSE IF RatioBelow(cs, 60) /\ x.adx < 20 THEN "LOW_VOLATILITY"
  ELSE IF x.adx >= 30 /\ x.strength = "STRONG" /\ x.trend = "BULLISH" THEN "STRONG_TREND_BULL"
  ELSE IF x.adx >= 30 /\ x.strength = "STRONG" /\ x.trend = "BEARISH" THEN "STRONG_TREND_BEAR"
  ELSE IF x.adx >= 20 /\ Pullback(cs, x.trend)
       THEN IF x.trend = "BULLISH" THEN "PULLBACK_BULL" ELSE "PULLBACK_BEAR"
  ELSE IF x.adx >= 20 /\ x.trend = "BULLISH" THEN "WEAK_TREND_BULL"
  ELSE IF x.adx >= 20 /\ x.trend = "BEARISH" THEN "WEAK_TREND_BEAR"
  ELSE IF x.phase # "NEUTRAL" THEN x.phase
  ELSE "RANGE"

Bullish == {"STRONG_TREND_BULL", "WEAK_TREND_BULL", "PULLBACK_BULL", "ACCUMULATION"}
Bearish == {"STRONG_TREND_BEAR", "WEAK_TREND_BEAR", "PULLBACK_BEAR", "DISTRIBUTION"}
TwoSided == {"RANGE", "HIGH_VOLATILITY", "LOW_VOLATILITY"}
Choppy == {"ACCUMULATION", "DISTRIBUTION", "HIGH_VOLATILITY"}

Allows(regime, dir) ==
  regime \in TwoSided \cup (IF dir = "BUY" THEN Bullish ELSE Bearish)

MinConfidence(regime) ==
  IF regime = "RANGE" THEN RangeMinConfidence ELSE NormalMinConfidence

MinRR(regime) ==
  IF regime \in {"RANGE", "HIGH_VOLATILITY"} THEN 200
  ELSE IF regime \in {"PULLBACK_BULL", "PULLBACK_BEAR", "ACCUMULATION", "DISTRIBUTION"} THEN 180
  ELSE 150

-----------------------------------------------------------------------------
(* Votes. *)

TrendVote(trend) ==
  CASE trend = "BULLISH" -> "BUY" [] trend = "BEARISH" -> "SELL" [] OTHER -> "NEUTRAL"

CounterTrend(x, dir) == TrendVote(x.trend) = Opposite(dir)

(* Structure always votes: it is where the direction came from. *)
Votes(x, dir) ==
  1 + Cardinality({e \in {"trend", "pa", "wyckoff"} :
                     dir = CASE e = "trend" -> TrendVote(x.trend)
                             [] e = "pa" -> x.pa
                             [] OTHER -> x.wyckoff})

EffectiveMin(s, regime, counter) ==
  IF regime = "RANGE"
  THEN LET floor == Largest(s.minConfirmations, s.rangeMinConfirmations) IN
       IF counter THEN Largest(floor, Smallest(s.minConfirmations + 1, 4)) ELSE floor
  ELSE IF counter \/ regime \in Choppy THEN Smallest(s.minConfirmations + 1, 4)
  ELSE s.minConfirmations

VotesAllow(x, s, regime, dir) ==
  IF s.requireThree THEN x.pa = dir /\ x.wyckoff = dir
  ELSE /\ Votes(x, dir) >= EffectiveMin(s, regime, CounterTrend(x, dir))
       /\ s.requirePriceAction => x.pa = dir

(* The range playbook counts for itself and wants price action or Wyckoff. *)
RangeVotesAllow(x, s, dir) ==
  /\ Votes(x, dir) >= s.rangeMinConfirmations
  /\ x.pa = dir \/ x.wyckoff = dir

-----------------------------------------------------------------------------
(* The range playbook (signals/range_strategy.py). *)

(* The edges of the range, measured before the signal candle. *)
EdgeBars(cs) == (Len(cs) - RangeLookback) .. (Len(cs) - 1)
Support(cs) == Min({cs[i].low : i \in EdgeBars(cs)})
Resistance(cs) == Max({cs[i].high : i \in EdgeBars(cs)})

RangeMeasured(cs) ==
  /\ Len(cs) > RangeLookback
  /\ RangeSum(cs, RangeAtrBars) > 0
  /\ Resistance(cs) > Support(cs)

(* Within edge percent of an average true range from either boundary. *)
NearSupport(cs, s) ==
  100 * Ranges(cs, RangeAtrBars) * (Now(cs).low - Support(cs))
    <= s.edge * RangeSum(cs, RangeAtrBars)
NearResistance(cs, s) ==
  100 * Ranges(cs, RangeAtrBars) * (Resistance(cs) - Now(cs).high)
    <= s.edge * RangeSum(cs, RangeAtrBars)
AtEdge(cs, s, dir) ==
  IF dir = "BUY" THEN NearSupport(cs, s) ELSE NearResistance(cs, s)

FreshSweep(cs, read, dir) ==
  \E w \in read.sweeps : w.type = dir /\ w.bar >= Len(cs) - 1

RangeEntryValid(cs, read, x, s, dir) ==
  /\ RangeMeasured(cs)
  /\ s.strict =>
       /\ AtEdge(cs, s, dir)
       /\ FreshSweep(cs, read, dir)
       /\ dir \in x.reversal
       /\ Votes(x, dir) >= s.rangeMinConfirmations

-----------------------------------------------------------------------------
(* The quality filter (signals/quality_filter.py). *)

(* Tiny last bar, narrow recent bars and no directional movement at all. *)
SevereRange(cs, adx) ==
  LET n == Len(cs)
      span == Largest(1, n - SpanBars + 1) .. n
      mean == MapThenSumSet(LAMBDA i : TrueRange(cs, i), (n - MeanBars) .. (n - 1))
  IN /\ adx < 14
     /\ n >= MeanBars + 2
     /\ 100 * TrueRange(cs, n) * MeanBars < 50 * mean
     /\ 10 * Ranges(cs, MeanBars) * (Max({cs[i].high : i \in span}) - Min({cs[i].low : i \in span}))
          < 25 * RangeSum(cs, MeanBars)

(* The last bars all go one way, each with no more body than the one before. *)
Exhausted(cs) ==
  LET n == Len(cs)
      bars == (n - MomentumBars + 1) .. n
  IN /\ n > MomentumBars
     /\ \/ \A i \in bars : cs[i].close > cs[i].open
        \/ \A i \in bars : cs[i].close < cs[i].open
     /\ \A i \in bars \ {n - MomentumBars + 1} : Body(cs[i]) <= Body(cs[i - 1])

Stale(cs, bar) == Len(cs) - bar > StructureMaxAge

QualityAllows(cs, read, x) ==
  /\ Len(cs) >= QualityBars
  /\ x.session # "BLOCKED"
  /\ ~SevereRange(cs, x.adx)
  /\ ~x.extended /\ ~Exhausted(cs) /\ ~Stale(cs, LatestBreak(read).bar)
  /\ x.adx >= AdxMin
  /\ x.confidence >= ConfHardMin

-----------------------------------------------------------------------------
(* Stop and target (risk/capital_manager.py).  Distances are in units of   *)
(* one price over 4 * ShortBars, in which a quarter of the average true    *)
(* range is the plain sum of the ShortBars true ranges.                    *)

Behind(dir, entry, p) == Sign(dir) * (entry - p) > 0
Ahead(dir, entry, p) == Sign(dir) * (p - entry) > 0

Last(positions) == {n \in positions : \A m \in positions : m <= n}

(* The outer price of the newest unmitigated block of this side. *)
BlockLevels(read, dir) ==
  {IF dir = "BUY" THEN read.active[n].low ELSE read.active[n].high :
     n \in Last({n \in 1 .. Len(read.active) : read.active[n].type = dir})}

(* The newest opposite break whose price lies behind the entry. *)
SwingLevels(read, dir, entry) ==
  {read.bos[n].price :
     n \in Last({n \in 1 .. Len(read.bos) : /\ read.bos[n].type = Opposite(dir)
                                           /\ Behind(dir, entry, read.bos[n].price)})}

(* The boundary of the range when it lies behind, else the equal levels. *)
BoundaryLevels(cs, read, regime, dir, entry) ==
  LET edge == IF dir = "BUY" THEN Support(cs) ELSE Resistance(cs)
      equal == read.equal[Opposite(dir)]
  IN IF regime = "RANGE" /\ Behind(dir, entry, edge) THEN {edge}
     ELSE IF equal # 0 /\ Behind(dir, entry, equal) THEN {equal}
     ELSE {}

StopLevels(cs, read, regime, dir, entry) ==
  {p \in BlockLevels(read, dir) \cup SwingLevels(read, dir, entry)
           \cup BoundaryLevels(cs, read, regime, dir, entry) : Behind(dir, entry, p)}

Unit == 4 * ShortBars
Clamped(d, lo, hi) == Largest(lo, Smallest(hi, d))

(* Faulty variant: no bound on how near the stop may be. *)
StopUnbounded(cs, levels, entry) ==
  LET sum == RangeSum(cs, ShortBars)
      nearest == Min({Largest(entry - p, p - entry) : p \in levels})
  IN IF levels = {} THEN 6 * sum ELSE Unit * nearest + sum

(* Behind the nearest level by a quarter of the average true range, never  *)
(* nearer than half of it nor farther than three.                          *)
StopDistance(cs, levels, entry) ==
  LET sum == RangeSum(cs, ShortBars)
      nearest == Min({Largest(entry - p, p - entry) : p \in levels})
  IN Clamped(IF levels = {} THEN 6 * sum ELSE Unit * nearest + sum, 2 * sum, 12 * sum)

Trade(cs, read, regime, s, dir) ==
  LET entry == Now(cs).close
      levels == StopLevels(cs, read, regime, dir, entry)
      stop == RoundDiv(Unit * entry - Sign(dir) * StopDistance(cs, levels, entry), Unit)
      risk == Largest(entry - stop, stop - entry)
      edge == IF dir = "BUY" THEN Resistance(cs) ELSE Support(cs)
      ranged == regime = "RANGE" /\ Ahead(dir, entry, edge)
      rr == IF regime = "RANGE" THEN s.rangeRR ELSE FixedRR
      reward == Largest(edge - entry, entry - edge)
  IN [entry |-> entry, stop |-> stop,
      target |-> IF ranged THEN edge ELSE RoundDiv(100 * entry + Sign(dir) * risk * rr, 100),
      rr |-> IF risk = 0 THEN 0 ELSE IF ranged THEN RoundDiv(100 * reward, risk) ELSE rr]

-----------------------------------------------------------------------------
(* run_decision_engine. *)

(* Faulty variant: a mitigated block is over. *)
BlocksActive(read) == {read.active[n] : n \in 1 .. Len(read.active)}

(* The blocks a fake breakout is looked for in: a return into a block is   *)
(* what makes it a mitigated one, so both lists count.                     *)
BlocksSeen(read) ==
  {read.active[n] : n \in 1 .. Len(read.active)}
    \cup {read.mitigated[n] : n \in 1 .. Len(read.mitigated)}

NoDecision == [reason |-> "NONE"]
Refused(reason) == [reason |-> reason, allowed |-> FALSE]

(* Short of the regime's confidence, only for so much reward. *)
MarginalRefused(x, regime, trade) ==
  x.confidence < MinConfidence(regime) /\ trade.rr < MarginalRR

RewardRefused(s, regime, trade) ==
  trade.rr < IF regime = "RANGE" THEN s.rangeRR ELSE MinRR(regime)

(* The first gate that refuses, "" when all let the setup through. *)
Refusal(cs, read, x, s, dir, regime) ==
  LET trade == Trade(cs, read, regime, s, dir) IN
  IF regime = "RANGE" /\ s.strict /\ ~RangeVotesAllow(x, s, dir) THEN "RANGE_VOTES"
  ELSE IF regime # "RANGE" /\ ~VotesAllow(x, s, regime, dir) THEN "VOTES"
  ELSE IF regime = "RANGE" /\ ~s.rangeEnabled THEN "RANGE_DISABLED"
  ELSE IF regime = "RANGE" /\ ~RangeEntryValid(cs, read, x, s, dir) THEN "RANGE_CONTEXT"
  ELSE IF ~Allows(regime, dir) THEN "REGIME"
  ELSE IF x.confidence < ConfHardMin THEN "CONFIDENCE"
  ELSE IF ~QualityAllows(cs, read, x) THEN "QUALITY"
  ELSE IF FakeBreakout(cs, BlocksSeen(read), dir) THEN "FAKE_BREAKOUT"
  ELSE IF MarginalRefused(x, regime, trade) THEN "MARGINAL"
  ELSE IF RewardRefused(s, regime, trade) THEN "RR"
  ELSE ""

Decided(cs, read, x, s) ==
  IF ~HasBreak(read) THEN Refused("NO_SIGNAL")
  ELSE LET dir == LatestBreak(read).type
           regime == Regime(cs, x, s)
           refusal == Refusal(cs, read, x, s, dir, regime)
       IN IF refusal # "" THEN Refused(refusal)
          ELSE [reason |-> "", allowed |-> TRUE, direction |-> dir, regime |-> regime,
                confidence |-> x.confidence, trade |-> Trade(cs, read, regime, s, dir)]

Allowed == decision # NoDecision /\ decision.allowed

-----------------------------------------------------------------------------
(* The higher timeframe.  Stamps are the opening minutes of its bars. *)

(* validate_h1_candles: whole hours in order with no gap but a closed      *)
(* market's, the last one over and not old, prices and averages sound.     *)
HourlyValid(h) ==
  LET n == Len(h.stamps)
      last == h.stamps[n]
  IN /\ n >= MinHourly
     /\ \A i \in 1 .. (n - 1) :
          LET gap == h.stamps[i + 1] - h.stamps[i] IN
          60 <= gap /\ gap <= 60 * MaxGapHours /\ gap % 60 = 0
     /\ \A i \in 1 .. n : h.stamps[i] % 60 = 0
     /\ last + 60 <= h.now
     /\ h.now - last <= 60 * MaxAgeHours \/ h.weekend
     /\ h.sound

(* Faulty variant: a structure that opposes the averages does not count. *)
BiasOfTrend(h) ==
  IF h.failed THEN [direction |-> "NEUTRAL", trend |-> "NEUTRAL", regime |-> "RANGE"]
  ELSE [direction |-> TrendVote(h.trend), trend |-> h.trend, regime |-> h.regime]

(* compute_mtf_bias: the averages decide unless the structure opposes; an  *)
(* analysis that raises comes back as a neutral range with no averages.    *)
Bias(h) ==
  IF h.failed THEN [direction |-> "NEUTRAL", trend |-> "NEUTRAL", regime |-> "RANGE"]
  ELSE [direction |-> IF h.smc \in {TrendVote(h.trend), "NEUTRAL"}
                      THEN TrendVote(h.trend) ELSE "NEUTRAL",
        trend |-> h.trend, regime |-> h.regime]

(* A bias counts when enough bars came and, on H1, they are valid and the  *)
(* analysis saw the averages that were validated.                          *)
BiasAvailable(h, s) ==
  /\ Len(h.stamps) >= MinFetched
  /\ s.h1 => HourlyValid(h) /\ ~h.failed

(* mtf_allows_trade, as the engine calls it. *)
MtfAllows(h, s, d) ==
  LET bias == Bias(h)
      ranging == d.regime = "RANGE" /\ bias.regime = "RANGE"
  IN /\ BiasAvailable(h, s)
     /\ \/ ranging
        \/ /\ bias.trend # "NEUTRAL" /\ bias.regime # "RANGE"
           /\ d.direction = bias.direction
     /\ d.confidence >= IF d.regime = "RANGE" THEN ConfHardMin ELSE OptionTwoMinConfidence
     /\ s.minTimeframes <= 2

-----------------------------------------------------------------------------
(* The steps of a bar. *)

NoHourly == [failed |-> TRUE, stamps |-> <<>>]

Init ==
  /\ candles \in Histories
  /\ smc = Analyze(candles)
  /\ settings \in SettingsSet
  /\ decision = NoDecision /\ hourly = NoHourly /\ approved = "NONE"

(* A bar closes and the window is fetched anew. *)
NewBar ==
  /\ decision = NoDecision
  /\ Len(candles) < MaxBars
  /\ \E m \in Moves :
       LET c == NextCandle(candles, m) IN
       /\ {c.high, c.low} \subseteq Prices
       /\ candles' = Fetched(candles, c)
  /\ smc' = Analyze(candles')
  /\ UNCHANGED <<settings, decision, hourly, approved>>

(* A window that came too short is skipped. *)
Decide ==
  /\ decision = NoDecision
  /\ Len(candles) >= MinFetched
  /\ \E x \in Readings : decision' = Decided(candles, smc, x, settings)
  /\ UNCHANGED <<candles, smc, settings, hourly, approved>>

(* Gate 8b of _on_new_bar, with the H1 data fetched at its beginning. *)
Confirm ==
  /\ Allowed /\ hourly = NoHourly
  /\ \E h \in Hourly :
       /\ hourly' = h
       /\ approved' = IF settings.mtf => MtfAllows(h, settings, decision)
                      THEN decision.direction ELSE "NONE"
  /\ UNCHANGED <<candles, smc, settings, decision>>

(* The handler of the bar returns. *)
Return ==
  /\ decision # NoDecision
  /\ Allowed => hourly # NoHourly
  /\ decision' = NoDecision /\ hourly' = NoHourly /\ approved' = "NONE"
  /\ UNCHANGED <<candles, smc, settings>>

Next == NewBar \/ Decide \/ Confirm \/ Return

Spec == Init /\ [][Next]_vars

-----------------------------------------------------------------------------
(* Properties. *)

(* A change of character ends a trend: it comes right after two breaks of  *)
(* structure the other way and after nothing less                          *)
(* (_detect_bos_and_choch, local_trend and recent_bos_dir).                *)
ReversalEndsTrend ==
  \A n \in 1 .. Len(smc.events) :
    smc.events[n].kind = "CHOCH" =>
      /\ n > 2
      /\ \A m \in {n - 1, n - 2} :
           /\ smc.events[m].kind = "BOS"
           /\ smc.events[m].type = Opposite(smc.events[n].type)

(* Every analysis reads its window from scratch, and a swing is known only *)
(* lookback bars late.  Once the swings before a bar are all known, what   *)
(* the analysis says up to that bar is what every later analysis of the    *)
(* window says, as long as the window has not begun to slide.              *)
SettledStructureStays ==
  [][Len(candles) < Window =>
       \A n \in 1 .. Len(smc.events) :
         smc.events[n].bar <= Len(candles) - SwingLookback + 1 =>
           n <= Len(smc'.events) /\ smc'.events[n] = smc.events[n]]_<<candles, smc>>

(* An allowed setup goes the way of the newest break of the whole window,  *)
(* of either kind, and that break is not older than the limit.  The two    *)
(* lists it is found in are cut and kept apart (get_latest_structure_event *)
(* and the age test of the quality filter).                                *)
EntryFollowsStructure ==
  Allowed =>
    LET newest == smc.events[Len(smc.events)] IN
    /\ smc.events # <<>>
    /\ decision.direction = newest.type
    /\ Len(candles) - newest.bar <= StructureMaxAge

(* No entry in the direction of a break whose block the close has fallen   *)
(* back into after one of the last bars had closed beyond it, whether or   *)
(* not the return has made the block a mitigated one                       *)
(* (detect_order_block_fake_breakout).                                     *)
FailedBreakRefused ==
  Allowed =>
    \A n \in 1 .. Len(smc.bos) :
      LET b == smc.bos[n]
          origin == candles[Origin(candles, b)]
      IN b.type = decision.direction /\ Origin(candles, b) # 0 =>
           ~ /\ origin.low <= Now(candles).close /\ Now(candles).close <= origin.high
             /\ \E k \in Largest(1, Len(candles) - RetraceBars) .. (Len(candles) - 1) :
                  Ahead(decision.direction,
                        IF decision.direction = "BUY" THEN origin.high ELSE origin.low,
                        candles[k].close)

(* What reaches the executor can be traded: the stop lies on the losing    *)
(* side, between half and three average true ranges away, behind the       *)
(* nearest level within reach; the target lies on the winning side and     *)
(* pays at least what the regime asks (calc_trade_parameters and the R:R   *)
(* gate).  Roundings to the price grid are allowed for.                    *)
EntryGeometry ==
  Allowed =>
    LET t == decision.trade
        dir == decision.direction
        sum == RangeSum(candles, ShortBars)
        risk == Sign(dir) * (t.entry - t.stop)
        reward == Sign(dir) * (t.target - t.entry)
        levels == StopLevels(candles, smc, decision.regime, dir, t.entry)
        asked == IF decision.regime = "RANGE" THEN settings.rangeRR ELSE MinRR(decision.regime)
    IN /\ risk > 0 /\ reward > 0
       /\ 2 * Unit * risk >= 4 * sum - Unit
       /\ 2 * Unit * risk <= 24 * sum + Unit
       /\ (\E p \in levels : Unit * Sign(dir) * (t.entry - p) + sum <= 12 * sum)
            => \E p \in levels : Sign(dir) * (p - t.stop) >= 0
       /\ 200 * reward + 100 >= 2 * asked * risk - risk

(* What goes on to the order has the higher timeframe behind it: on H1 the *)
(* bars were whole hours, in order, closed and recent, the analysis went   *)
(* through, and its averages point the way of the entry with a structure   *)
(* that does not oppose, or both timeframes range (validate_h1_candles,    *)
(* compute_mtf_bias and mtf_allows_trade together).                        *)
OrderConfirmed ==
  approved # "NONE" /\ settings.mtf /\ settings.h1 =>
    LET n == Len(hourly.stamps) IN
    /\ n >= MinHourly /\ ~hourly.failed /\ hourly.sound
    /\ \A i, j \in 1 .. n : i < j => hourly.stamps[j] - hourly.stamps[i] >= 60 * (j - i)
    /\ \A i \in 1 .. n : hourly.stamps[i] % 60 = 0 /\ hourly.stamps[i] + 60 <= hourly.now
    /\ hourly.now - hourly.stamps[n] <= 60 * MaxAgeHours \/ hourly.weekend
    /\ \/ /\ TrendVote(hourly.trend) = approved
          /\ hourly.smc # Opposite(approved)
          /\ hourly.regime # "RANGE"
       \/ decision.regime = "RANGE" /\ hourly.regime = "RANGE"

(* "in RANGE, when enabled, the edge/sweep/reversal gate is mandatory"      *)
(* (config.py): with these strict filters, the default, no setup of a      *)
(* ranging market is ever allowed, for no window holds a sweep that the    *)
(* analysis would report.                                                  *)
StrictRangeRefused == Allowed /\ settings.strict => decision.regime # "RANGE"

(* "Bullish sweep: wick below swing low, close above level"                *)
(* (smc_engine.py): a window in which some bar does this to a confirmed    *)
(* swing reports a sweep.  It never does: a bar is compared only with      *)
(* swings of the last lookback bars, and those are swings because that bar *)
(* stayed clear of them.                                                   *)
SweepsAreSeen ==
  (/\ Len(candles) >= MinBars
   /\ \E dir \in Directions :
        \E k \in Swings(candles, Opposite(dir)), i \in 1 .. Len(candles) :
          k < i /\ Pierces(candles, dir, k, i))
  => smc.sweeps # {}

=============================================================================
