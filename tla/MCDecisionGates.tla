---------------------------- MODULE MCDecisionGates ----------------------------
(* Small windows for DecisionGates: eight histories with a trend up, a     *)
(* trend down and none, and every continuation by a few bars.              *)
EXTENDS DecisionGates

MCPrices == 1 .. 50

Move(b, u, d) == [body |-> b, up |-> u, down |-> d]

FewMoves ==
  {Move(b, 0, 0) : b \in {-8, -1, 1, 8}}
    \cup {Move(1, 1, 0), Move(-1, 0, 1), Move(1, 0, 2), Move(-1, 2, 0)}

(* The window a sequence of moves makes from a starting price. *)
Played(price, moves) ==
  LET upto[n \in 0 .. Len(moves)] ==
        IF n = 0 THEN <<[open |-> price, close |-> price, high |-> price + 1, low |-> price - 1]>>
        ELSE Append(upto[n - 1], NextCandle(upto[n - 1], moves[n]))
  IN upto[Len(moves)]

Mirror(moves) ==
  [n \in 1 .. Len(moves) |->
     Move(-moves[n].body, moves[n].down, moves[n].up)]

U(n) == Move(n, 0, 0)
D(n) == Move(-n, 0, 0)
Top(n) == Move(n, 1, 0)
Bottom(n) == Move(-n, 0, 1)

(* Two breaks of structure one way, with a pullback before each; what may  *)
(* come before a climb, and after it; up and down between two levels.      *)
Climb == <<U(1), Top(1), D(1), Bottom(1), U(2), Top(2), D(1), Bottom(1), U(2), U(2)>>
Lead == <<D(1), D(1), Bottom(1), U(1), D(1)>>
Turn == <<Top(1), D(2), D(3), Bottom(2), U(1)>>
Idle == <<Top(1), D(1), Bottom(1), U(1)>>

Wide(moves) == [n \in 1 .. Len(moves) |-> [moves[n] EXCEPT !.body = 3 * @]]

MCHistories ==
  LET paths == {Lead \o Climb, Climb \o Turn, Wide(Climb) \o Idle \o <<Top(1)>>,
                <<U(1), D(1), Bottom(1)>> \o Idle \o Idle \o Idle}
  IN {Played(16, p) : p \in paths} \cup {Played(34, Mirror(p)) : p \in paths}

(* Readings: a calm one for each side, and each field once out of line. *)
Calm(dir) ==
  [trend |-> IF dir = "BUY" THEN "BULLISH" ELSE "BEARISH", strength |-> "STRONG",
   pa |-> dir, wyckoff |-> dir, reversal |-> {dir}, phase |-> "NEUTRAL",
   adx |-> 25, confidence |-> 70, session |-> "PRIME", extended |-> FALSE]

ReadingsFor(dir) ==
  {Calm(dir),
   [Calm(dir) EXCEPT !.adx = 35],
   [Calm(dir) EXCEPT !.adx = 35, !.strength = "MODERATE", !.pa = "NEUTRAL"],
   [Calm(dir) EXCEPT !.trend = "NEUTRAL", !.adx = 17],
   [Calm(dir) EXCEPT !.trend = "NEUTRAL", !.adx = 17, !.confidence = 50],
   [Calm(dir) EXCEPT !.trend = "NEUTRAL", !.adx = 17, !.pa = "NEUTRAL", !.wyckoff = "NEUTRAL"],
   [Calm(dir) EXCEPT !.trend = "NEUTRAL", !.adx = 10],
   [Calm(dir) EXCEPT !.adx = 17, !.reversal = {}],
   [Calm(dir) EXCEPT !.adx = 17, !.phase = "ACCUMULATION"],
   [Calm(dir) EXCEPT !.adx = 17, !.phase = "DISTRIBUTION"],
   [Calm(dir) EXCEPT !.confidence = 40],
   [Calm(dir) EXCEPT !.confidence = 50],
   [Calm(dir) EXCEPT !.session = "BLOCKED"],
   [Calm(dir) EXCEPT !.extended = TRUE]}

MCReadings == ReadingsFor("BUY") \cup ReadingsFor("SELL")

Good == [stamps |-> <<0, 60, 120>>, now |-> 200, weekend |-> FALSE, sound |-> TRUE,
         failed |-> FALSE, trend |-> "BULLISH", smc |-> "BUY", regime |-> "WEAK_TREND_BULL"]

MCHourly ==
  {[Good EXCEPT !.trend = t, !.smc = v, !.regime = r] :
     t \in {"BULLISH", "BEARISH", "NEUTRAL"}, v \in {"BUY", "SELL", "NEUTRAL"},
     r \in {"WEAK_TREND_BULL", "RANGE"}}
  \cup {[Good EXCEPT !.stamps = q] :
          q \in {<<>>, <<0, 60>>, <<0, 120, 60>>, <<0, 60, 60>>, <<0, 30, 90>>, <<30, 90, 150>>,
                 <<0, 60, 6000>>, <<60, 120, 180>>, <<-120, -60, 0>>}}
  \cup {[Good EXCEPT !.now = 500, !.weekend = w] : w \in BOOLEAN}
  \cup {[Good EXCEPT !.sound = FALSE], [Good EXCEPT !.failed = TRUE]}

Default ==
  [minConfirmations |-> 2, rangeMinConfirmations |-> 2, requirePriceAction |-> FALSE,
   requireThree |-> FALSE, rangeEnabled |-> TRUE, strict |-> TRUE, highVolatility |-> FALSE,
   rangeRR |-> 150, edge |-> 25, mtf |-> TRUE, h1 |-> TRUE, minTimeframes |-> 2]

MCSettings ==
  {Default,
   [Default EXCEPT !.strict = FALSE, !.highVolatility = TRUE],
   [Default EXCEPT !.minConfirmations = 3, !.requirePriceAction = TRUE, !.rangeEnabled = FALSE,
                   !.mtf = FALSE],
   [Default EXCEPT !.requireThree = TRUE, !.strict = FALSE, !.h1 = FALSE]}
=============================================================================
