----------------------------- MODULE TrailingStop -----------------------------
(***************************************************************************)
(* The staircase trailing stop: _manage_trailing_stop of the engine's      *)
(* tick, the pure functions of trailing_stop.py it calls, the baselines it *)
(* measures from and how they are recovered, and modify_position at the    *)
(* broker, while the price moves and positions close.                      *)
(*                                                                         *)
(* pc is where the engine's coroutine waits:                               *)
(*   down    no engine               trail   between the rows of a tick    *)
(*   idle    elsewhere in the tick   modify  a modification is under way   *)
(*   looked  positions read, waiting for the quote                         *)
(*                                                                         *)
(* Prices are whole numbers of the smallest price step; the configuration  *)
(* in R is counted in parts of R, Unit of which make 1 R.  Of the trade    *)
(* log only the entry rows matter here: logged are the tickets that still  *)
(* have theirs.  EntryGate shows how the log is trimmed, saved and lost.   *)
(***************************************************************************)
EXTENDS Integers, FiniteSets

CONSTANTS
  Tickets, Plan,       \* Plan[t]: direction, entry and risk the engine decided on
  Prices, Spread,      \* bids; the ask is Spread higher
  Slippage,            \* how far from the planned entry an order may be filled
  Unit, Activation, Step, Buffer, \* TRAIL_ACTIVATION_R, _STEP_R, _LOCK_BUFFER_R
  MinStep,             \* TRAIL_MIN_STEP_PRICE
  Gaps                 \* values of _last_atr * TRAIL_ATR_GAP_MULT after a bar

ASSUME PlanAssumption ==
  /\ IsFiniteSet(Tickets) /\ Tickets \subseteq Nat
  /\ Plan \in [Tickets -> [dir : {"BUY", "SELL"}, entry : Int, risk : Nat \ {0}]]
  /\ Prices \subseteq Int /\ Spread \in Nat /\ Slippage \in Nat

\* 1 R of profit is the least that activates by default; config.py allows 0.1.
ASSUME StairAssumption ==
  /\ Unit \in Nat \ {0} /\ Step \in Nat \ {0} /\ Buffer \in Nat
  /\ Activation \in Nat /\ Activation >= Unit
  /\ 2 * (Activation - Buffer) > Unit
  /\ MinStep \in Nat /\ Gaps \subseteq Nat

VARIABLES
  pc,
  on,       \* Auto Trail is on and the engine is not paused
  base,     \* _trail_baselines
  gap,      \* _last_atr times the multiplier; 0 before an engine's first bar
  rows,     \* raw_positions still to be handled in this tick
  quote,    \* the bid of this tick's quote
  order,    \* the modification under way
  logged,
  deals,    \* the positions at the broker
  price     \* the bid

engine == <<pc, on, base, gap, rows, quote, order, logged>>
market == <<deals, price>>
vars   == <<engine, market>>

NoBaseline == [dir |-> "none", entry |-> 0, risk |-> 0]
NoRow      == [dir |-> "none", open |-> 0, sl |-> 0]
NoDeal     == [st |-> "none", open |-> 0, sl |-> 0]
ClosedDeal == [st |-> "closed", open |-> 0, sl |-> 0]
NoOrder    == [ticket |-> -1, sl |-> 0]
NoBid      == 0
NoRows     == [t \in Tickets |-> NoRow]
NoBases    == [t \in Tickets |-> NoBaseline]

\* _position_direction: UNKNOWN when the row's type cannot be read.
Dirs      == {"BUY", "SELL", "UNKNOWN"}
Baselines == [dir : Dirs, entry : Int, risk : Nat \ {0}]
RowType   == [dir : Dirs, open : Int, sl : Int]

Open == {t \in Tickets : deals[t].st = "open"}
Todo == {t \in Tickets : rows[t] # NoRow}

TypeOK ==
  /\ pc \in {"down", "idle", "looked", "trail", "modify"}
  /\ on \in BOOLEAN
  /\ base \in [Tickets -> Baselines \cup {NoBaseline}]
  /\ gap \in Gaps \cup {0}
  /\ rows \in [Tickets -> RowType \cup {NoRow}]
  /\ quote \in Prices \cup {NoBid}
  /\ order \in [ticket : Tickets, sl : Int] \cup {NoOrder}
  /\ pc = "modify" <=> order # NoOrder
  /\ logged \subseteq Tickets
  /\ deals \in [Tickets -> [st : {"open"}, open : Int, sl : Int] \cup {NoDeal, ClosedDeal}]
  /\ price \in Prices

Init ==
  /\ pc = "down" /\ on = FALSE /\ base = NoBases /\ gap = 0
  /\ rows = NoRows /\ order = NoOrder /\ logged = {}
  /\ deals = [t \in Tickets |-> NoDeal]
  /\ price \in Prices /\ quote = NoBid

-----------------------------------------------------------------------------
(***************************************************************************)
(* trailing_stop.py.  Whatever is not BUY is treated as SELL.              *)
(***************************************************************************)
Gain(dir, from, to) == IF dir = "BUY" THEN to - from ELSE from - to
Ahead(dir, from, by) == IF dir = "BUY" THEN from + by ELSE from - by

\* The side a position closes at: a BUY at the bid, a SELL at the ask.
CloseSide(dir, bid) == IF dir = "BUY" THEN bid ELSE bid + Spread

Profit(b, bid) == Gain(b.dir, b.entry, CloseSide(b.dir, bid))

Triggered(b, bid) ==
  /\ b.risk > 0 /\ Profit(b, bid) > 0
  /\ Profit(b, bid) * Unit >= Activation * b.risk

(* Faulty variant: one stair too many. *)
StairsOneMore(b, bid) ==
  (Profit(b, bid) * Unit - Activation * b.risk) \div (Step * b.risk) + 1

Stairs(b, bid) ==
  (Profit(b, bid) * Unit - Activation * b.risk) \div (Step * b.risk)

Rounded(parts) == (2 * parts + Unit) \div (2 * Unit)

Locked(b, bid) == Rounded((Stairs(b, bid) * Step + Buffer) * b.risk)

(* compute_staircase_sl of a triggered stop, the ATR floor included: how   *)
(* far ahead of the entry the stop is to be.                               *)
Secured(b, bid, g) ==
  IF g > 0 /\ Profit(b, bid) - g < Locked(b, bid)
  THEN Profit(b, bid) - g ELSE Locked(b, bid)

Candidate(b, bid, g) == Ahead(b.dir, b.entry, Secured(b, bid, g))

(* Faulty variant: any other stop is an improvement. *)
ShouldApplyAny(dir, sl, candidate) == candidate # sl

ShouldApply(dir, sl, candidate) == Gain(dir, sl, candidate) >= MinStep

-----------------------------------------------------------------------------
(***************************************************************************)
(* The baseline a position is measured from.                               *)
(***************************************************************************)
Distance(x, y) == IF x < y THEN y - x ELSE x - y

Approximated(row) ==
  [dir |-> row.dir, entry |-> row.open, risk |-> Distance(row.open, row.sl)]

(* _restore_trail_baseline: the entry row, or the position as reported.    *)
Restored(t) == IF t \in logged THEN Plan[t] ELSE Approximated(rows[t])

(* Faulty variant: a baseline is only what memory holds. *)
BaselineInMemory(t) == base[t]

Baseline(t) == IF base[t] # NoBaseline THEN base[t] ELSE Restored(t)

Anchored(t, b) == IF b.risk > 0 THEN [base EXCEPT ![t] = b] ELSE base

\* log_trade: a new row may push the oldest entry row out of the log.
Trimmed(L) == {L} \cup {L \ {t} : t \in {u \in L : \A v \in L : u <= v}}

-----------------------------------------------------------------------------
(***************************************************************************)
(* A tick's trailing.                                                      *)
(***************************************************************************)
(* OpenedOrders may miss a position or leave its direction unreadable.     *)
Reported(S, unread) ==
  [t \in Tickets |->
     IF t \in S
     THEN [dir  |-> IF t \in unread THEN "UNKNOWN" ELSE Plan[t].dir,
           open |-> deals[t].open, sl |-> deals[t].sl]
     ELSE NoRow]

(* No rows: all baselines are dropped; otherwise those of absent tickets.  *)
(* An error instead of the rows changes nothing.                           *)
Look(S, unread) ==
  /\ pc = "idle" /\ on
  /\ S \subseteq Open /\ unread \subseteq S
  /\ pc' = IF S = {} THEN "idle" ELSE "looked"
  /\ base' = [t \in Tickets |-> IF t \in S THEN base[t] ELSE NoBaseline]
  /\ rows' = Reported(S, unread)
  /\ UNCHANGED <<on, gap, quote, order, logged, market>>

Quoted ==
  /\ pc = "looked" /\ pc' = "trail" /\ quote' = price
  /\ UNCHANGED <<on, base, gap, rows, order, logged, market>>

NoQuote ==
  /\ pc = "looked" /\ pc' = "idle" /\ rows' = NoRows
  /\ UNCHANGED <<on, base, gap, quote, order, logged, market>>

Improves(t, b) ==
  /\ Triggered(b, quote)
  /\ ShouldApply(b.dir, rows[t].sl, Candidate(b, quote, gap))

Continue(left) ==
  /\ pc' = IF left = {} THEN "idle" ELSE "trail"
  /\ quote' = IF left = {} THEN NoBid ELSE quote

(* One row: the baseline, the candidate, and the modification if it        *)
(* improves on the stop that was reported.                                 *)
Consider(t) ==
  /\ pc = "trail" /\ t \in Todo
  /\ rows' = [rows EXCEPT ![t] = NoRow]
  /\ LET b == Baseline(t)
     IN  /\ base' = Anchored(t, b)
         /\ IF Improves(t, b)
            THEN /\ pc' = "modify"
                 /\ order' = [ticket |-> t, sl |-> Candidate(b, quote, gap)]
                 /\ UNCHANGED quote
            ELSE Continue(Todo \ {t}) /\ UNCHANGED order
  /\ UNCHANGED <<on, gap, logged, market>>

Answered ==
  /\ pc = "modify" /\ Continue(Todo) /\ order' = NoOrder
  /\ UNCHANGED <<on, base, gap, rows, price>>

(* The broker keeps a position open while the market has not reached its   *)
(* stop, and takes no stop the market has reached.                         *)
Alive(t, sl, bid) == Gain(Plan[t].dir, sl, CloseSide(Plan[t].dir, bid)) > 0

Executed ==
  /\ order.ticket \in Open /\ Alive(order.ticket, order.sl, price)
  /\ deals' = [deals EXCEPT ![order.ticket].sl = order.sl]

Modified(t) ==
  /\ Answered /\ order.ticket = t
  /\ Executed /\ logged' \in Trimmed(logged)

\* modify_position answers an error: the order was executed all the same, or not.
ModifyFails ==
  /\ Answered
  /\ Executed \/ UNCHANGED deals
  /\ UNCHANGED logged

-----------------------------------------------------------------------------
(***************************************************************************)
(* What else happens in a tick.                                            *)
(***************************************************************************)
(* A bar was handled: its ATR is cached.                                   *)
Bar ==
  /\ pc = "idle" /\ gap' \in Gaps
  /\ UNCHANGED <<pc, on, base, rows, quote, order, logged, market>>

\* update_risk, or a pause or resume.
Switch ==
  /\ pc = "idle" /\ on' = ~on
  /\ UNCHANGED <<pc, base, gap, rows, quote, order, logged, market>>

Fill(t) == IF Plan[t].dir = "BUY" THEN price + Spread ELSE price

InitialStop(t) == Ahead(Plan[t].dir, Plan[t].entry, -Plan[t].risk)

(* The entry at the end of a bar (EntryGate).  An order executed with an   *)
(* error for an answer is neither logged nor anchored, and so is a         *)
(* position somebody else opened.                                          *)
Enter(t) ==
  /\ pc = "idle" /\ deals[t] = NoDeal
  /\ \A u \in Tickets : u < t => deals[u] # NoDeal
  /\ Distance(Fill(t), Plan[t].entry) <= Slippage /\ Alive(t, InitialStop(t), price)
  /\ deals' = [deals EXCEPT ![t] = [st |-> "open", open |-> Fill(t), sl |-> InitialStop(t)]]
  /\ \/ /\ base' = [base EXCEPT ![t] = Plan[t]]
        /\ \E L \in Trimmed(logged) : logged' = L \cup {t}
     \/ UNCHANGED <<base, logged>>
  /\ UNCHANGED <<pc, on, gap, rows, quote, order, price>>

(* The engine ends or its process dies.                                    *)
Stop ==
  /\ pc # "down" /\ pc' = "down"
  /\ base' = NoBases /\ rows' = NoRows /\ order' = NoOrder
  /\ quote' = NoBid
  /\ UNCHANGED <<on, gap, logged, market>>

(* A new engine: what can be read back of the log is often nothing.        *)
Start ==
  /\ pc = "down" /\ pc' = "idle"
  /\ on' \in BOOLEAN /\ gap' = 0 /\ logged' \in SUBSET logged
  /\ UNCHANGED <<base, rows, quote, order, market>>

(* The market moves; a stop it reaches closes the position there and then. *)
PriceMoves ==
  /\ price' \in Prices \ {price}
  /\ deals' = [t \in Tickets |->
                 IF t \in Open /\ ~Alive(t, deals[t].sl, price') THEN ClosedDeal
                 ELSE deals[t]]
  /\ UNCHANGED engine

\* Take profit, by hand, or CLOSE_ALL.
Close(t) ==
  /\ t \in Open /\ deals' = [deals EXCEPT ![t] = ClosedDeal]
  /\ UNCHANGED <<engine, price>>

Next ==
  \/ \E S \in SUBSET Tickets : \E unread \in SUBSET S : Look(S, unread)
  \/ Quoted \/ NoQuote
  \/ \E t \in Tickets : Consider(t) \/ Modified(t) \/ Enter(t) \/ Close(t)
  \/ ModifyFails \/ Bar \/ Switch \/ Stop \/ Start \/ PriceMoves

Spec == Init /\ [][Next]_vars

(* Engines are started again and again and calls end (they have timeouts). *)
(* What may fail does not fail every time: the bridge now and then lists a *)
(* position, quotes and answers within one tick that no crash cuts short.  *)
FairSpec ==
  /\ Spec
  /\ WF_vars(Start) /\ WF_vars(NoQuote) /\ WF_vars(ModifyFails)
  /\ \A t \in Tickets :
       /\ SF_vars(\E S \in SUBSET Tickets : t \in S /\ Look(S, {}))
       /\ SF_vars(Quoted /\ t \in Todo)
       /\ SF_vars(Consider(t))
       /\ SF_vars(Modified(t))

-----------------------------------------------------------------------------
(***************************************************************************)
(* Properties.                                                             *)
(***************************************************************************)
(* No step moves the stop of an open position back, whatever direction the *)
(* bridge reports, whichever baseline is used and whatever moved or closed *)
(* while the engine waited (should_apply: "the stop only ever moves in the *)
(* trade's favour").                                                       *)
StopAdvances ==
  [][\A t \in Tickets :
       deals[t].st = "open" /\ deals'[t].st = "open" =>
         Gain(Plan[t].dir, deals[t].sl, deals'[t].sl) >= 0]_vars

(* A stop is never sent to where the market already was when the tick was  *)
(* quoted: the broker would refuse it or close the position                *)
(* (compute_staircase_sl, for true and approximated baselines alike).      *)
MarketSide ==
  pc = "modify" /\ order.ticket \in Open => Alive(order.ticket, order.sl, quote)

(* How far ahead of the original entry the original staircase would be.    *)
OwnStair(t) == IF Triggered(Plan[t], quote) THEN Locked(Plan[t], quote) ELSE -Plan[t].risk

StopMoved(t) ==
  deals[t].st = "open" /\ deals'[t].st = "open" /\ deals'[t].sl # deals[t].sl

Secures(t, sl) == Gain(Plan[t].dir, Plan[t].entry, sl)

(* A position whose entry row is in the log is trailed on the stairs of    *)
(* its original entry and risk, also after restarts, after reports that    *)
(* missed it and after trailing (_restore_trail_baseline, _on_new_bar).    *)
OwnStairs ==
  [][\A t \in Tickets :
       StopMoved(t) /\ t \in logged => Secures(t, deals'[t].sl) <= OwnStair(t)]_vars

Far(t) == Triggered(Plan[t], price)

LargestGap == IF Gaps = {} THEN 0 ELSE CHOOSE g \in Gaps : \A h \in Gaps : h <= g

(* What the first stair secures, less what the ATR floor may take back.    *)
FirstStair(t) ==
  LET locked == Rounded(Buffer * Plan[t].risk)
      floored == Rounded(Activation * Plan[t].risk) - LargestGap
  IN  (IF floored < locked THEN floored ELSE locked) - MinStep

(* A position whose entry row is in the log, in a market that settles at a *)
(* profit of at least the activation while trailing is on, gets at least   *)
(* the first stair, however often the engine restarts, forgets its         *)
(* baselines or fails to modify (_manage_trailing_stop,                    *)
(* _restore_trail_baseline).                                               *)
Protected ==
  <>[][UNCHANGED price]_vars =>
    \A t \in Tickets :
      <>[](t \in Open /\ t \in logged /\ on /\ Far(t)) =>
        <>(t \in Open /\ Secures(t, deals[t].sl) >= FirstStair(t))
=============================================================================
