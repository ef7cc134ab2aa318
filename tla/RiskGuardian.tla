---------------------------- MODULE RiskGuardian ----------------------------
(***************************************************************************)
(* The circuit breaker of live_trading/risk/guardian.py as operators on    *)
(* one record, the in-memory state of a RiskGuardian object.  Percentages  *)
(* are compared after multiplying out, so money stays an integer; the two  *)
(* limits are whole percents.  _halted and _halt_reason, always written    *)
(* together, are the one field halt; of the session's opening balance only *)
(* the sign is ever read (restore_state), so the field keeps the sign; the *)
(* time stamp and the log counter of a halt are display only and left out. *)
(***************************************************************************)
EXTENDS Integers

CONSTANTS
  Accounts,   \* broker accounts: the (login, server) pairs
  NoId        \* the empty identity of a guardian that was not told its account

NoDay == -1             \* _last_day is None
LimitKeys == {"daily", "drawdown"}
HaltReasons == {"none", "daily", "drawdown"}

(* A RiskGuardian just constructed with the configured limits.             *)
Fresh(limits) ==
  [init |-> FALSE, halt |-> "none", peak |-> 0, sessionOpen |-> FALSE,
   dayOpen |-> 0, lastDay |-> NoDay, limits |-> limits, id |-> NoId]

Guardians(Money, Limits) ==
  [init : BOOLEAN, halt : HaltReasons, peak : Money, sessionOpen : BOOLEAN,
   dayOpen : Money, lastDay : Int, limits : Limits, id : Accounts \cup {NoId}]

Halted(g) == g.halt # "none"

(* initialize() takes a new baseline; it does not clear a halt.            *)
Initialize(g, bal, eq, today) ==
  [g EXCEPT !.init = TRUE, !.peak = eq, !.sessionOpen = bal > 0,
            !.dayOpen = bal, !.lastDay = today]

(* _maybe_day_reset(): on the first check of a UTC day the daily baseline  *)
(* moves to the balance and a daily-loss halt, and only that, is cleared.  *)
\* Faulty variant: midnight lifts a drawdown halt too.
DayResetClearsAny(g, bal, today) ==
  IF today > g.lastDay
  THEN [g EXCEPT !.dayOpen = bal, !.lastDay = today, !.halt = "none"]
  ELSE g

DayReset(g, bal, today) ==
  IF today > g.lastDay
  THEN [g EXCEPT !.dayOpen = bal, !.lastDay = today,
                 !.halt = IF @ = "daily" THEN "none" ELSE @]
  ELSE g

RaisePeak(g, eq) == IF eq > g.peak THEN [g EXCEPT !.peak = eq] ELSE g

(* A percentage over a non-positive baseline counts as 0.                  *)
DailyLossHit(g, bal) ==
  IF g.dayOpen > 0
  THEN (g.dayOpen - bal) * 100 >= g.limits["daily"] * g.dayOpen
  ELSE g.limits["daily"] <= 0

DrawdownHit(g, eq) ==
  IF g.peak > 0
  THEN (g.peak - eq) * 100 >= g.limits["drawdown"] * g.peak
  ELSE g.limits["drawdown"] <= 0

\* Faulty variant: the drawdown breaker is not evaluated.
TripNeverDrawdown(g, bal, eq) ==
  IF ~Halted(g) /\ DailyLossHit(g, bal) THEN [g EXCEPT !.halt = "daily"] ELSE g

(* The breakers are evaluated only while no halt stands, the loss limit    *)
(* first.                                                                  *)
Trip(g, bal, eq) ==
  CASE Halted(g)            -> g
    [] ~Halted(g) /\ DailyLossHit(g, bal) -> [g EXCEPT !.halt = "daily"]
    [] ~Halted(g) /\ ~DailyLossHit(g, bal) /\ DrawdownHit(g, eq) ->
         [g EXCEPT !.halt = "drawdown"]
    [] OTHER                -> g

(* check() on an initialized guardian.                                     *)
Check(g, bal, eq, today) == Trip(RaisePeak(DayReset(g, bal, today), eq), bal, eq)

(* reset_halt(): the daily form needs a positive balance and moves the     *)
(* daily baseline; both keep the equity peak.                              *)
ResetRefused(rebase, bal) == rebase /\ bal <= 0

ResetHalt(g, rebase, bal, today) ==
  IF rebase
  THEN [g EXCEPT !.halt = "none", !.dayOpen = bal, !.lastDay = today]
  ELSE [g EXCEPT !.halt = "none"]

(* restore_state(): a saved state of another account, or one whose         *)
(* baselines are not positive, is rejected; an identity missing on either  *)
(* side accepts.  A limit set in the environment wins over the saved one.  *)
\* Faulty variant: the account of the saved state is not compared.
RestoreAcceptsAnyone(g, saved) ==
  saved.peak > 0 /\ saved.dayOpen > 0 /\ saved.sessionOpen

RestoreAccepts(g, saved) ==
  /\ g.id = NoId \/ saved.id = NoId \/ saved.id = g.id
  /\ saved.peak > 0 /\ saved.dayOpen > 0 /\ saved.sessionOpen

\* Faulty variant: the baselines come back, the halt does not.
RestoreDropsHalt(g, saved, EnvPins) ==
  [g EXCEPT !.init = TRUE, !.peak = saved.peak, !.sessionOpen = saved.sessionOpen,
            !.dayOpen = saved.dayOpen, !.lastDay = saved.lastDay]

Restore(g, saved, EnvPins) ==
  [g EXCEPT !.init = TRUE, !.halt = saved.halt, !.peak = saved.peak,
            !.sessionOpen = saved.sessionOpen, !.dayOpen = saved.dayOpen,
            !.lastDay = saved.lastDay,
            !.limits = [k \in LimitKeys |->
                          IF k \in EnvPins THEN g.limits[k] ELSE saved.limits[k]]]
=============================================================================
