------------------------------ MODULE Trades_proofs ------------------------------
(***************************************************************************)
(* Theorems about an open position and what becomes of it: TrailingStop,   *)
(* for all tickets, plans, prices and configurations that activate at 1 R  *)
(* or more, and TradeLedger, for any caps of the log, any number of trades *)
(* and any copies that may miss a write.                                   *)
(***************************************************************************)
EXTENDS TrailingStop, TradeLedger, FiniteSetTheorems, SequenceTheorems, TLAPS

(***************************************************************************)
(* TrailingStop.                                                           *)
(***************************************************************************)
(* Types of the pure functions.                                            *)
BaselineType == [dir : Dirs, entry : Int, risk : Nat]

LEMMA DivisionFloors ==
  ASSUME NEW n \in Nat, NEW d \in Nat \ {0}
  PROVE  n \div d \in Nat /\ (n \div d) * d <= n
  BY Z3

LEMMA ProfitType ==
  ASSUME NEW b \in BaselineType, NEW bid \in Int
  PROVE  Profit(b, bid) \in Int
  BY PlanAssumption DEF Profit, Gain, CloseSide, BaselineType

LEMMA StairsFloor ==
  ASSUME NEW b \in BaselineType, NEW bid \in Int, Triggered(b, bid)
  PROVE  /\ Stairs(b, bid) \in Nat
         /\ Stairs(b, bid) * (Step * b.risk) <= Profit(b, bid) * Unit - Activation * b.risk
<1> DEFINE n == Profit(b, bid) * Unit - Activation * b.risk
           d == Step * b.risk
<1>1. Profit(b, bid) \in Int /\ b.risk \in Nat \ {0}
      BY ProfitType DEF Triggered, BaselineType
<1>2. n \in Int BY <1>1, StairAssumption
<1>3. n >= 0 BY <1>1, <1>2, StairAssumption DEF Triggered
<1>4. d \in Nat \ {0} BY <1>1, StairAssumption
<1>5. n \div d \in Nat /\ (n \div d) * d <= n
      BY <1>2, <1>3, <1>4, DivisionFloors
<1> QED BY <1>5 DEF Stairs

(* What a triggered staircase locks stays below the profit there is.       *)
LEMMA LockedBelowProfit ==
  ASSUME NEW b \in BaselineType, NEW bid \in Int, Triggered(b, bid)
  PROVE  Locked(b, bid) \in Nat /\ Locked(b, bid) < Profit(b, bid)
<1> DEFINE k == Stairs(b, bid)
           p == Profit(b, bid)
           r == b.risk
           parts == (k * Step + Buffer) * r
<1>1. /\ k \in Nat /\ p \in Int /\ r \in Nat \ {0}
      /\ k * (Step * r) <= p * Unit - Activation * r
      BY StairsFloor, ProfitType DEF Triggered, BaselineType
<1>2. /\ Unit \in Nat \ {0} /\ Step \in Nat /\ Buffer \in Nat /\ Activation \in Nat
      /\ 2 * (Activation - Buffer) > Unit
      BY StairAssumption
<1> HIDE DEF k, p, r
<1>3. parts \in Nat BY <1>1, <1>2
<1>4. parts = k * (Step * r) + Buffer * r BY <1>1, <1>2
<1>5. parts <= p * Unit - (Activation - Buffer) * r BY <1>1, <1>2, <1>4
<1>6. 2 * ((Activation - Buffer) * r) >= Unit + 1
  <2>1. (2 * (Activation - Buffer) - (Unit + 1)) * r >= 0 BY <1>1, <1>2
  <2>2. (Unit + 1) * r >= Unit + 1 BY <1>1, <1>2
  <2> QED BY <2>1, <2>2, <1>1, <1>2
<1> HIDE DEF parts
<1>7. 2 * parts + Unit < 2 * (p * Unit)
  <2>1. /\ (Activation - Buffer) * r \in Int /\ p * Unit \in Int BY <1>1, <1>2
  <2> QED BY <2>1, <1>2, <1>3, <1>5, <1>6
<1>8. /\ 2 * parts + Unit \in Nat /\ 2 * Unit \in Nat \ {0} BY <1>2, <1>3
<1> DEFINE l == (2 * parts + Unit) \div (2 * Unit)
<1>9. l \in Nat /\ l * (2 * Unit) <= 2 * parts + Unit BY <1>8, DivisionFloors
<1>10. l * (2 * Unit) < p * (2 * Unit)
  <2>1. p * (2 * Unit) = 2 * (p * Unit) BY <1>1, <1>2
  <2>2. l * (2 * Unit) \in Int /\ p * (2 * Unit) \in Int BY <1>9, <1>1, <1>2
  <2> HIDE DEF l
  <2> QED BY <2>1, <2>2, <1>7, <1>9, <1>3, <1>2, <1>1
<1> HIDE DEF l
<1>11. l < p BY <1>8, <1>9, <1>10, <1>1
<1>12. Locked(b, bid) = l BY DEF Locked, Rounded, l, parts, k, r
<1> QED BY <1>9, <1>11, <1>12 DEF p

LEMMA SecuredBelowProfit ==
  ASSUME NEW b \in BaselineType, NEW bid \in Int, NEW g \in Nat, Triggered(b, bid)
  PROVE  Secured(b, bid, g) \in Int /\ Secured(b, bid, g) < Profit(b, bid)
  BY LockedBelowProfit, ProfitType DEF Secured

LEMMA CandidateType ==
  ASSUME NEW b \in BaselineType, NEW bid \in Int, NEW g \in Nat, Triggered(b, bid)
  PROVE  Candidate(b, bid, g) \in Int
  BY SecuredBelowProfit DEF Candidate, Ahead, BaselineType

-----------------------------------------------------------------------------
(***************************************************************************)
(* Types.                                                                  *)
(***************************************************************************)
LEMMA BaselineTyped ==
  ASSUME TypeOK, NEW t \in Tickets, rows[t] # NoRow
  PROVE  Baseline(t) \in BaselineType
<1>1. CASE base[t] # NoBaseline
  BY <1>1 DEF TypeOK, Baseline, Baselines, BaselineType
<1>2. CASE base[t] = NoBaseline /\ t \in logged
  BY <1>2, PlanAssumption DEF Baseline, Restored, BaselineType, Dirs
<1>3. CASE base[t] = NoBaseline /\ t \notin logged
  BY <1>3 DEF TypeOK, Baseline, Restored, Approximated, Distance, RowType, BaselineType
<1> QED BY <1>1, <1>2, <1>3

LEMMA TypesInit == Init => TypeOK
  BY PlanAssumption DEF Init, TypeOK, NoBases, NoRows, NoOrder, NoDeal, NoBid

LEMMA ConsiderTypes ==
  ASSUME TypeOK, NEW t \in Tickets, Consider(t)
  PROVE  TypeOK'
<1> DEFINE b == Baseline(t)
<1>1. pc = "trail" /\ rows[t] # NoRow /\ order = NoOrder
  BY DEF Consider, Todo, TypeOK
<1>2. b \in BaselineType BY <1>1, BaselineTyped
<1>3. base' \in [Tickets -> Baselines \cup {NoBaseline}]
  BY <1>2 DEF Consider, Anchored, TypeOK, Baselines, BaselineType
<1>4. rows' \in [Tickets -> RowType \cup {NoRow}]
  BY DEF Consider, TypeOK
<1>5. CASE Improves(t, b)
  <2>1. quote \in Int \/ quote = NoBid BY PlanAssumption DEF TypeOK
  <2>2. quote \in Int /\ gap \in Nat /\ Triggered(b, quote)
    BY <1>5, <2>1, StairAssumption DEF Improves, NoBid, TypeOK
  <2>3. Candidate(b, quote, gap) \in Int BY <1>2, <2>2, CandidateType
  <2>4. order' = [ticket |-> t, sl |-> Candidate(b, quote, gap)] /\ pc' = "modify"
        /\ quote' = quote
    BY <1>5 DEF Consider
  <2>5. order' # NoOrder BY <2>4, PlanAssumption DEF NoOrder
  <2> QED BY <1>3, <1>4, <2>3, <2>4, <2>5 DEF TypeOK, Consider, market
<1>6. CASE ~Improves(t, b)
  BY <1>1, <1>3, <1>4, <1>6 DEF TypeOK, Consider, Continue, market
<1> QED BY <1>5, <1>6

LEMMA ExecutedTypes ==
  ASSUME TypeOK, pc = "modify", Executed \/ UNCHANGED deals
  PROVE  deals' \in [Tickets -> [st : {"open"}, open : Int, sl : Int] \cup {NoDeal, ClosedDeal}]
<1>1. order \in [ticket : Tickets, sl : Int] BY DEF TypeOK
<1>2. CASE UNCHANGED deals BY <1>2 DEF TypeOK
<1>3. CASE Executed
  <2>1. deals[order.ticket] \in [st : {"open"}, open : Int, sl : Int]
    BY <1>1, <1>3 DEF Executed, Open, TypeOK, NoDeal, ClosedDeal
  <2> QED BY <1>1, <1>3, <2>1 DEF Executed, TypeOK
<1> QED BY <1>2, <1>3

LEMMA LookTypes ==
  ASSUME TypeOK, NEW S \in SUBSET Tickets, NEW unread \in SUBSET S, Look(S, unread)
  PROVE  TypeOK'
<1>1. \A t \in S : deals[t] \in [st : {"open"}, open : Int, sl : Int]
  BY DEF Look, Open, TypeOK, NoDeal, ClosedDeal
<1>2. rows' \in [Tickets -> RowType \cup {NoRow}]
  <2>1. \A t \in S : [dir  |-> IF t \in unread THEN "UNKNOWN" ELSE Plan[t].dir,
                     open |-> deals[t].open, sl |-> deals[t].sl] \in RowType
    BY <1>1, PlanAssumption DEF RowType, Dirs
  <2> QED BY <2>1 DEF Look, Reported
<1>3. base' \in [Tickets -> Baselines \cup {NoBaseline}]
  BY DEF Look, TypeOK
<1> QED BY <1>2, <1>3 DEF Look, TypeOK, market

LEMMA EnterTypes ==
  ASSUME TypeOK, NEW t \in Tickets, Enter(t)
  PROVE  TypeOK'
<1>0. price \in Int /\ Plan[t] \in [dir : {"BUY", "SELL"}, entry : Int, risk : Nat \ {0}]
  BY PlanAssumption DEF TypeOK
<1>1. Fill(t) \in Int /\ InitialStop(t) \in Int
  BY <1>0, PlanAssumption DEF Fill, InitialStop, Ahead
<1>2. deals' \in [Tickets -> [st : {"open"}, open : Int, sl : Int] \cup {NoDeal, ClosedDeal}]
  BY <1>1 DEF Enter, TypeOK
<1>3. base' \in [Tickets -> Baselines \cup {NoBaseline}]
  BY <1>0 DEF Enter, TypeOK, Baselines, Dirs
<1>4. logged' \subseteq Tickets
  BY DEF Enter, TypeOK, Trimmed
<1> QED BY <1>2, <1>3, <1>4 DEF Enter, TypeOK

LEMMA TypesKept == TypeOK /\ [Next]_vars => TypeOK'
<1> SUFFICES ASSUME TypeOK, [Next]_vars PROVE TypeOK'
  OBVIOUS
<1>1. ASSUME NEW S \in SUBSET Tickets, NEW unread \in SUBSET S, Look(S, unread)
      PROVE  TypeOK'
  BY <1>1, LookTypes
<1>2. CASE Quoted BY <1>2 DEF Quoted, TypeOK, market
<1>3. CASE NoQuote BY <1>3 DEF NoQuote, TypeOK, NoRows, market
<1>4. ASSUME NEW t \in Tickets, Consider(t) PROVE TypeOK'
  BY <1>4, ConsiderTypes
<1>5. ASSUME NEW t \in Tickets, Modified(t) PROVE TypeOK'
  <2>1. pc = "modify" /\ (Executed \/ UNCHANGED deals) BY <1>5 DEF Modified, Answered
  <2>2. logged' \subseteq Tickets BY <1>5 DEF Modified, Trimmed, TypeOK
  <2> QED BY <1>5, <2>1, <2>2, ExecutedTypes DEF Modified, Answered, Continue, TypeOK
<1>6. ASSUME NEW t \in Tickets, Enter(t) PROVE TypeOK'
  BY <1>6, EnterTypes
<1>7. ASSUME NEW t \in Tickets, Close(t) PROVE TypeOK'
  BY <1>7 DEF Close, TypeOK, engine
<1>8. CASE ModifyFails
  <2>1. pc = "modify" /\ (Executed \/ UNCHANGED deals) BY <1>8 DEF ModifyFails, Answered
  <2> QED BY <1>8, <2>1, ExecutedTypes DEF ModifyFails, Answered, Continue, TypeOK
<1>9. CASE Bar BY <1>9 DEF Bar, TypeOK, market
<1>10. CASE Switch BY <1>10 DEF Switch, TypeOK, market
<1>11. CASE Stop BY <1>11 DEF Stop, TypeOK, NoBases, NoRows, market
<1>12. CASE Start BY <1>12 DEF Start, TypeOK, market
<1>13. CASE PriceMoves BY <1>13 DEF PriceMoves, TypeOK, engine
<1>14. CASE UNCHANGED vars BY <1>14 DEF vars, engine, market, TypeOK
<1> QED
  BY <1>1, <1>2, <1>3, <1>4, <1>5, <1>6, <1>7, <1>8, <1>9, <1>10, <1>11, <1>12,
     <1>13, <1>14 DEF Next

(* The state has its types in every reachable state; in particular a       *)
(* baseline in memory always has a risk to measure by                      *)
(* (_restore_trail_baseline).                                              *)
THEOREM TrailingTypes == Spec => []TypeOK
  BY TypesInit, TypesKept, PTL DEF Spec

-----------------------------------------------------------------------------
(***************************************************************************)
(* The stop.  A baseline may have been taken from a row whose direction    *)
(* was not readable; then a BUY is measured as a SELL.  What saves it is   *)
(* that the broker closes a position at its stop: such a baseline          *)
(* activates only where the position no longer is open.                    *)
(***************************************************************************)
SameSide(b, t) == b.dir = "BUY" <=> Plan[t].dir = "BUY"

(* An open position has not reached its stop.                              *)
Standing == \A t \in Open : Alive(t, deals[t].sl, price)

RowsTrue ==
  /\ pc \in {"down", "idle"} => rows = NoRows
  /\ pc = "modify" => order.ticket \notin Todo
  /\ \A t \in Todo :
       /\ deals[t] # NoDeal
       /\ rows[t].dir \in {Plan[t].dir, "UNKNOWN"}
       /\ t \in Open => rows[t].open = deals[t].open /\ rows[t].sl = deals[t].sl

(* Those still to be handled and still open had not reached their stop     *)
(* when the market was quoted.                                             *)
QuoteTrue ==
  pc \in {"trail", "modify"} =>
    /\ quote \in Prices
    /\ \A t \in Todo \cap Open : Alive(t, deals[t].sl, quote)

BaseTrue(b, t) ==
  /\ b.dir = "BUY" => Plan[t].dir = "BUY"
  /\ ~SameSide(b, t) /\ t \in Open =>
       b.entry = deals[t].open /\ b.risk = Distance(deals[t].open, deals[t].sl)

BasesTrue ==
  \A t \in Tickets : base[t] # NoBaseline => deals[t] # NoDeal /\ BaseTrue(base[t], t)

OrderTrue ==
  pc = "modify" /\ order.ticket \in Open =>
    LET t == order.ticket
    IN  /\ base[t] # NoBaseline /\ SameSide(base[t], t)
        /\ Gain(Plan[t].dir, deals[t].sl, order.sl) >= MinStep
        /\ Alive(t, order.sl, quote)

StopInv ==
  TypeOK /\ Standing /\ RowsTrue /\ QuoteTrue /\ BasesTrue /\ OrderTrue

(* A wrong side never triggers while the stop stands.                      *)
LEMMA WrongSideIdle ==
  ASSUME NEW t \in Tickets, NEW b \in BaselineType, NEW entry \in Int, NEW sl \in Int,
         NEW bid \in Int, b.dir # "BUY", Plan[t].dir = "BUY",
         b.entry = entry, b.risk = Distance(entry, sl),
         Alive(t, sl, bid)
  PROVE  ~Triggered(b, bid)
<1> SUFFICES ASSUME Triggered(b, bid) PROVE FALSE
  OBVIOUS
<1>1. Profit(b, bid) = entry - (bid + Spread) /\ Spread \in Nat
  BY PlanAssumption DEF Profit, Gain, CloseSide
<1>2. bid > sl BY DEF Alive, Gain, CloseSide
<1> DEFINE p == entry - (bid + Spread)
           r == Distance(entry, sl)
<1>3. p * Unit >= Activation * r /\ p > 0 BY <1>1 DEF Triggered
<1>4. r \in Nat /\ r >= entry - sl /\ p \in Int BY <1>1 DEF Distance
<1> HIDE DEF p, r
<1>5. p >= r
  <2>1. (Activation - Unit) * r >= 0 BY <1>4, StairAssumption
  <2>2. Activation * r = (Activation - Unit) * r + Unit * r BY <1>4, StairAssumption
  <2>3. p * Unit >= Unit * r
    BY <2>1, <2>2, <1>3, <1>4, StairAssumption
  <2>4. (p - r) * Unit >= 0 BY <2>3, <1>4, StairAssumption
  <2> QED BY <2>4, <1>4, StairAssumption
<1> QED BY <1>1, <1>2, <1>4, <1>5 DEF p

LEMMA StopInit == Init => StopInv
  BY TypesInit DEF Init, StopInv, Standing, RowsTrue, QuoteTrue, BasesTrue, OrderTrue,
     Open, Todo, NoDeal, NoBases, NoRows

(* A row is handled: the only step that decides on a stop.                 *)
LEMMA ConsiderKeeps ==
  ASSUME StopInv, NEW t \in Tickets, Consider(t)
  PROVE  StopInv'
<1> DEFINE b == Baseline(t)
<1>1. /\ pc = "trail" /\ rows[t] # NoRow /\ t \in Todo
      /\ UNCHANGED <<deals, price>> /\ UNCHANGED gap
      /\ TypeOK /\ TypeOK'
  BY ConsiderTypes DEF StopInv, Consider, Todo, market
<1>2. b \in BaselineType BY <1>1, BaselineTyped
<1>3. /\ deals[t] # NoDeal /\ BaseTrue(b, t)
  <2>1. CASE base[t] # NoBaseline
    BY <2>1 DEF StopInv, BasesTrue, Baseline
  <2>2. CASE base[t] = NoBaseline /\ t \in logged
    BY <2>2, <1>1 DEF StopInv, RowsTrue, Baseline, Restored, BaseTrue, SameSide
  <2>3. CASE base[t] = NoBaseline /\ t \notin logged
    <3>1. b = Approximated(rows[t]) BY <2>3 DEF Baseline, Restored
    <3>2. /\ b.dir = rows[t].dir /\ b.entry = rows[t].open
          /\ b.risk = Distance(rows[t].open, rows[t].sl)
      BY <3>1 DEF Approximated
    <3>3. /\ deals[t] # NoDeal
          /\ rows[t].dir \in {Plan[t].dir, "UNKNOWN"}
          /\ t \in Open => rows[t].open = deals[t].open /\ rows[t].sl = deals[t].sl
      BY <1>1 DEF StopInv, RowsTrue
    <3> QED BY <3>2, <3>3 DEF BaseTrue
  <2> QED BY <2>1, <2>2, <2>3
<1>4. Open' = Open BY <1>1 DEF Open
<1>5. Todo' = Todo \ {t}
  <2>1. rows' = [rows EXCEPT ![t] = NoRow] BY DEF Consider
  <2> QED BY <2>1, <1>1 DEF Todo, TypeOK
<1>6. Standing' BY <1>1, <1>4 DEF StopInv, Standing, Alive
<1>7. \A u \in Todo' : rows'[u] = rows[u] BY <1>1, <1>5 DEF Consider, TypeOK
<1>8. RowsTrue'
  <2>1. pc' \in {"down", "idle"} => rows' = NoRows
    <3>1. pc' \in {"down", "idle"} => Todo = {t}
      BY DEF Consider, Continue
    <3> QED BY <3>1, <1>1, <1>5 DEF Consider, TypeOK, Todo, NoRows
  <2>2. pc' = "modify" => order'.ticket = t BY <1>1 DEF Consider, Continue
  <2> QED BY <2>1, <2>2, <1>1, <1>4, <1>5, <1>7 DEF StopInv, RowsTrue
<1>9. QuoteTrue'
  <2>1. pc' \in {"trail", "modify"} => quote' = quote
    BY <1>1 DEF Consider, Continue
  <2> QED BY <2>1, <1>1, <1>4, <1>5 DEF StopInv, QuoteTrue, Alive
<1>10. BasesTrue'
  <2>1. \A u \in Tickets : base'[u] = base[u] \/ (u = t /\ base'[u] = b)
    BY <1>1 DEF Consider, Anchored, TypeOK
  <2>2. \A u \in Tickets : BaseTrue(base[u], u) /\ base'[u] = base[u] => BaseTrue(base[u], u)'
    BY <1>1, <1>4 DEF BaseTrue, SameSide
  <2>3. BaseTrue(b, t) /\ base'[t] = b => BaseTrue(base[t], t)'
    BY <1>1, <1>4 DEF BaseTrue, SameSide
  <2> QED BY <2>1, <2>2, <2>3, <1>1, <1>3 DEF StopInv, BasesTrue
<1>11. OrderTrue'
  <2> SUFFICES ASSUME pc' = "modify", t \in Open
               PROVE  OrderTrue'
    <3>1. pc' = "modify" => order'.ticket = t BY <1>1 DEF Consider, Continue
    <3> QED BY <3>1, <1>4 DEF OrderTrue
  <2>1. /\ Improves(t, b) /\ quote' = quote
        /\ order' = [ticket |-> t, sl |-> Candidate(b, quote, gap)]
    BY DEF Consider, Continue
  <2>2. /\ quote \in Int /\ Alive(t, deals[t].sl, quote)
        /\ gap \in Nat
    BY <1>1, PlanAssumption, StairAssumption DEF StopInv, QuoteTrue, TypeOK
  <2>3. Triggered(b, quote) /\ Gain(b.dir, rows[t].sl, Candidate(b, quote, gap)) >= MinStep
    BY <2>1 DEF Improves, ShouldApply
  <2>4. deals[t] \in [st : {"open"}, open : Int, sl : Int]
    BY <1>1 DEF TypeOK, Open, NoDeal, ClosedDeal
  <2>5. SameSide(b, t)
    <3> SUFFICES ASSUME ~SameSide(b, t) PROVE FALSE
      OBVIOUS
    <3>1. /\ b.dir # "BUY" /\ Plan[t].dir = "BUY"
          /\ b.entry = deals[t].open /\ b.risk = Distance(deals[t].open, deals[t].sl)
      BY <1>3 DEF BaseTrue, SameSide
    <3> QED BY <3>1, <2>2, <2>3, <2>4, <1>2, WrongSideIdle
  <2>6. base'[t] = b /\ b # NoBaseline
    BY <2>3, <1>1 DEF Consider, Anchored, TypeOK, Triggered, NoBaseline
  <2>7. rows[t].sl = deals[t].sl BY <1>1 DEF StopInv, RowsTrue
  <2>8. Gain(Plan[t].dir, deals[t].sl, order'.sl) >= MinStep
    BY <2>1, <2>3, <2>5, <2>7 DEF SameSide, Gain
  <2>9. Alive(t, order'.sl, quote)
    <3>1. Secured(b, quote, gap) \in Int /\ Secured(b, quote, gap) < Profit(b, quote)
      BY <1>2, <2>2, <2>3, SecuredBelowProfit
    <3>2. order'.sl = Ahead(b.dir, b.entry, Secured(b, quote, gap))
      BY <2>1 DEF Candidate
    <3>3. b.entry \in Int /\ CloseSide(b.dir, quote) \in Int
      BY <1>2, <2>2, PlanAssumption DEF BaselineType, CloseSide
    <3>4. Gain(b.dir, order'.sl, CloseSide(b.dir, quote)) > 0
      BY <3>1, <3>2, <3>3 DEF Gain, Ahead, Profit
    <3> QED BY <3>4, <2>5 DEF Alive, Gain, CloseSide, SameSide
  <2> QED
    BY <2>1, <2>5, <2>6, <2>8, <2>9, <1>1 DEF OrderTrue, SameSide, Alive
<1> QED BY <1>1, <1>6, <1>8, <1>9, <1>10, <1>11 DEF StopInv

(* The modification ends: executed, or not.                                *)
LEMMA AnswerKeeps ==
  ASSUME StopInv, Answered, Executed \/ UNCHANGED deals, TypeOK'
  PROVE  StopInv' /\ \A t \in Tickets : deals[t].st = "open" =>
           Gain(Plan[t].dir, deals[t].sl, deals'[t].sl) >= 0
<1> DEFINE o == order.ticket
<1>1. /\ pc = "modify" /\ pc' \in {"idle", "trail"}
      /\ UNCHANGED <<base, rows, price>> /\ TypeOK
      /\ o \in Tickets /\ order.sl \in Int
  BY DEF Answered, Continue, StopInv, TypeOK
<1>2. /\ pc' = "idle" => Todo = {}
      /\ pc' = "trail" => quote' = quote
  BY DEF Answered, Continue
<1>3. Todo' = Todo /\ o \notin Todo BY <1>1 DEF Todo, StopInv, RowsTrue
<1>4. \A t \in Tickets : t # o => deals'[t] = deals[t]
  BY <1>1 DEF Executed, TypeOK
<1>5. Open' = Open /\ \A t \in Tickets : deals'[t] = NoDeal <=> deals[t] = NoDeal
  <2>1. CASE UNCHANGED deals BY <2>1 DEF Open
  <2>2. CASE Executed
    <3>1. deals' = [deals EXCEPT ![o].sl = order.sl] /\ deals[o].st = "open"
      BY <2>2 DEF Executed, Open
    <3>2. deals[o] \in [st : {"open"}, open : Int, sl : Int]
      BY <3>1, <1>1 DEF TypeOK, NoDeal, ClosedDeal
    <3>3. deals'[o].st = "open" BY <3>1, <3>2, <1>1 DEF TypeOK
    <3>4. deals[o] # NoDeal /\ deals'[o] # NoDeal BY <3>1, <3>3 DEF NoDeal
    <3> QED BY <3>1, <3>3, <3>4, <1>4 DEF Open
  <2> QED BY <2>1, <2>2
<1>6. Standing'
  <2>1. CASE UNCHANGED deals BY <2>1, <1>1, <1>5 DEF StopInv, Standing, Alive
  <2>2. CASE Executed
    <3>1. deals'[o].sl = order.sl /\ Alive(o, order.sl, price)
      BY <2>2, <1>1 DEF Executed, Open, TypeOK, NoDeal, ClosedDeal
    <3> QED BY <3>1, <1>1, <1>4, <1>5 DEF StopInv, Standing, Alive, Open
  <2> QED BY <2>1, <2>2
<1>7. RowsTrue'
  <2>1. pc' = "idle" => rows' = NoRows
    BY <1>1, <1>2 DEF Todo, NoRows, TypeOK
  <2>2. \A t \in Todo : t # o /\ t \in Tickets BY <1>3 DEF Todo
  <2> QED BY <2>1, <2>2, <1>1, <1>3, <1>4, <1>5 DEF StopInv, RowsTrue
<1>8. QuoteTrue'
  BY <1>1, <1>2, <1>3, <1>4, <1>5 DEF StopInv, QuoteTrue, Alive, Todo
<1>9. BasesTrue'
  <2>1. \A t \in Tickets : t # o /\ BaseTrue(base[t], t) => BaseTrue(base[t], t)'
    BY <1>1, <1>4, <1>5 DEF BaseTrue, SameSide
  <2>2. ASSUME NEW t \in Tickets, t = o, BaseTrue(base[t], t)
        PROVE  BaseTrue(base[t], t)'
    <3>1. CASE UNCHANGED deals
      BY <2>2, <3>1, <1>1, <1>5 DEF BaseTrue, SameSide
    <3>2. CASE Executed
      <4>1. SameSide(base[t], t) BY <2>2, <3>2, <1>1 DEF Executed, StopInv, OrderTrue
      <4> QED BY <2>2, <4>1, <1>1 DEF BaseTrue, SameSide
    <3> QED BY <3>1, <3>2
  <2> QED BY <2>1, <2>2, <1>1, <1>5 DEF StopInv, BasesTrue
<1>10. OrderTrue' BY <1>1 DEF OrderTrue
<1>11. ASSUME NEW t \in Tickets, deals[t].st = "open"
       PROVE  Gain(Plan[t].dir, deals[t].sl, deals'[t].sl) >= 0
  <2>1. deals[t].sl \in Int BY <1>1, <1>11 DEF TypeOK, NoDeal, ClosedDeal
  <2>2. CASE deals'[t] = deals[t] BY <2>1, <2>2 DEF Gain
  <2>3. CASE deals'[t] # deals[t]
    <3>1. t = o /\ Executed BY <2>3, <1>4
    <3>2. deals'[t].sl = order.sl BY <3>1, <1>1, <1>11 DEF Executed, TypeOK, NoDeal, ClosedDeal
    <3>3. Gain(Plan[t].dir, deals[t].sl, order.sl) >= MinStep
      BY <3>1, <1>1 DEF Executed, StopInv, OrderTrue
    <3> QED BY <2>1, <3>2, <3>3, <1>1, StairAssumption DEF Gain
  <2> QED BY <2>2, <2>3
<1> QED BY <1>1, <1>6, <1>7, <1>8, <1>9, <1>10, <1>11 DEF StopInv

LEMMA LookKeeps ==
  ASSUME StopInv, NEW S \in SUBSET Tickets, NEW unread \in SUBSET S, Look(S, unread)
  PROVE  StopInv'
<1>1. /\ pc = "idle" /\ pc' \in {"idle", "looked"} /\ S \subseteq Open
      /\ UNCHANGED <<deals, price>> /\ TypeOK /\ TypeOK'
      /\ pc' = "idle" => S = {}
  BY LookTypes DEF Look, StopInv, market
<1>2. Open' = Open /\ \A t \in Open : deals[t] # NoDeal
  BY <1>1 DEF Open, NoDeal
<1>3. \A t \in Tickets : rows'[t] =
        IF t \in S THEN [dir  |-> IF t \in unread THEN "UNKNOWN" ELSE Plan[t].dir,
                         open |-> deals[t].open, sl |-> deals[t].sl]
        ELSE NoRow
  BY DEF Look, Reported
<1>4. Todo' \subseteq S BY <1>3 DEF Todo
<1>5. RowsTrue'
  <2>1. S = {} => rows' = NoRows BY DEF Look, Reported, NoRows
  <2>2. \A t \in S : /\ rows'[t].dir \in {Plan[t].dir, "UNKNOWN"}
                     /\ rows'[t].open = deals[t].open /\ rows'[t].sl = deals[t].sl
    <3> TAKE t \in S
    <3>1. t \in Tickets OBVIOUS
    <3>2. rows'[t] = [dir  |-> IF t \in unread THEN "UNKNOWN" ELSE Plan[t].dir,
                      open |-> deals[t].open, sl |-> deals[t].sl]
      BY <3>1, <1>3
    <3> QED BY <3>2
  <2> QED BY <2>1, <2>2, <1>1, <1>2, <1>4 DEF RowsTrue
<1>6. BasesTrue'
  <2>1. \A t \in Tickets : base'[t] \in {base[t], NoBaseline} BY DEF Look
  <2>2. \A t \in Tickets : BaseTrue(base[t], t) /\ base'[t] = base[t] => BaseTrue(base[t], t)'
    BY <1>1, <1>2 DEF BaseTrue, SameSide
  <2> QED BY <2>1, <2>2, <1>1 DEF StopInv, BasesTrue
<1>7. Standing' BY <1>1, <1>2 DEF StopInv, Standing, Alive
<1> QED BY <1>1, <1>5, <1>6, <1>7 DEF StopInv, QuoteTrue, OrderTrue

LEMMA EnterKeeps ==
  ASSUME StopInv, NEW t \in Tickets, Enter(t)
  PROVE  StopInv'
<1>1. /\ pc = "idle" /\ pc' = "idle" /\ deals[t] = NoDeal
      /\ UNCHANGED <<price, rows>> /\ TypeOK /\ TypeOK'
      /\ deals' = [deals EXCEPT ![t] = [st |-> "open", open |-> Fill(t), sl |-> InitialStop(t)]]
      /\ Alive(t, InitialStop(t), price)
  BY EnterTypes DEF Enter, StopInv
<1>2. /\ deals'[t] = [st |-> "open", open |-> Fill(t), sl |-> InitialStop(t)]
      /\ deals'[t] # NoDeal
      /\ \A u \in Tickets : u # t => deals'[u] = deals[u]
  BY <1>1 DEF TypeOK, NoDeal
<1>3. Standing' BY <1>1, <1>2 DEF StopInv, Standing, Alive, Open
<1>4. RowsTrue'
  <2>1. rows' = NoRows BY <1>1 DEF StopInv, RowsTrue
  <2> QED BY <2>1, <1>1 DEF RowsTrue, Todo, NoRows
<1>5. BasesTrue'
  <2>1. base[t] = NoBaseline BY <1>1 DEF StopInv, BasesTrue
  <2>2. base'[t] \in {NoBaseline, Plan[t]} /\ \A u \in Tickets : u # t => base'[u] = base[u]
    BY <2>1, <1>1 DEF Enter, TypeOK
  <2>3. \A u \in Tickets : u # t /\ BaseTrue(base[u], u) => BaseTrue(base[u], u)'
    BY <1>2, <2>2 DEF BaseTrue, SameSide, Open
  <2>4. base'[t] = Plan[t] => BaseTrue(base[t], t)'
    BY DEF BaseTrue, SameSide
  <2> QED BY <2>2, <2>3, <2>4, <1>2 DEF StopInv, BasesTrue
<1> QED BY <1>1, <1>3, <1>4, <1>5 DEF StopInv, QuoteTrue, OrderTrue

(* The market closes positions and opens none.                             *)
LEMMA ClosingKeeps ==
  ASSUME StopInv, TypeOK', UNCHANGED engine, Standing',
         \A t \in Tickets : deals'[t] \in {deals[t], ClosedDeal},
         \A t \in Tickets : deals[t] = NoDeal => deals'[t] = NoDeal
  PROVE  StopInv'
<1>1. UNCHANGED <<pc, base, rows, quote, order>> BY DEF engine
<1>2. \A t \in Open' : t \in Open /\ deals'[t] = deals[t]
  BY DEF Open, ClosedDeal
<1>3. \A t \in Tickets : deals[t] # NoDeal => deals'[t] # NoDeal
  BY DEF ClosedDeal, NoDeal
<1>4. Todo' = Todo /\ Todo \subseteq Tickets BY <1>1 DEF Todo
<1>5. RowsTrue' BY <1>1, <1>2, <1>3, <1>4 DEF StopInv, RowsTrue
<1>6. QuoteTrue' BY <1>1, <1>2, <1>4 DEF StopInv, QuoteTrue, Alive
<1>7. BasesTrue'
  <2>1. \A t \in Tickets : BaseTrue(base[t], t) => BaseTrue(base[t], t)'
    BY <1>1, <1>2 DEF BaseTrue, SameSide
  <2> QED BY <2>1, <1>1, <1>3 DEF StopInv, BasesTrue
<1>8. OrderTrue'
  <2> SUFFICES ASSUME pc = "modify", order.ticket \in Open' PROVE OrderTrue'
    BY <1>1 DEF OrderTrue
  <2>1. order.ticket \in Open /\ deals'[order.ticket] = deals[order.ticket] BY <1>2
  <2> QED BY <2>1, <1>1 DEF StopInv, OrderTrue, Alive, SameSide
<1> QED BY <1>5, <1>6, <1>7, <1>8 DEF StopInv

LEMMA PriceMovesKeeps == StopInv /\ PriceMoves => StopInv'
<1> SUFFICES ASSUME StopInv, PriceMoves PROVE StopInv'
  OBVIOUS
<1>1. TypeOK' BY TypesKept DEF StopInv, Next
<1>2. UNCHANGED engine BY DEF PriceMoves
<1>3. \A t \in Tickets : deals'[t] = IF t \in Open /\ ~Alive(t, deals[t].sl, price')
                                     THEN ClosedDeal ELSE deals[t]
  BY DEF PriceMoves
<1>4. \A t \in Open' : deals'[t] = deals[t] /\ Alive(t, deals[t].sl, price')
  BY <1>3 DEF Open, ClosedDeal
<1>5. Standing' BY <1>4 DEF Standing, Alive
<1>6. \A t \in Tickets : deals[t] = NoDeal => deals'[t] = NoDeal
  BY <1>3 DEF Open, NoDeal
<1> QED BY <1>1, <1>2, <1>3, <1>5, <1>6, ClosingKeeps

LEMMA CloseKeeps ==
  ASSUME StopInv, NEW t \in Tickets, Close(t)
  PROVE  StopInv'
<1>1. TypeOK' BY TypesKept DEF StopInv, Next
<1>2. UNCHANGED engine /\ UNCHANGED price BY DEF Close
<1>3. deals' = [deals EXCEPT ![t] = ClosedDeal] /\ deals[t].st = "open"
  BY DEF Close, Open
<1>4. \A u \in Tickets : deals'[u] \in {deals[u], ClosedDeal}
  BY <1>3 DEF StopInv, TypeOK
<1>5. \A u \in Tickets : deals[u] = NoDeal => deals'[u] = NoDeal
  BY <1>3 DEF StopInv, TypeOK, NoDeal
<1>6. Standing' BY <1>2, <1>4 DEF StopInv, Standing, Open, Alive, ClosedDeal
<1> QED BY <1>1, <1>2, <1>4, <1>5, <1>6, ClosingKeeps

(* Steps that touch neither the deals nor what has been read of them.      *)
LEMMA QuietKeeps ==
  ASSUME StopInv, TypeOK', UNCHANGED <<market, rows, base>>,
         pc' \in {"idle", "down", "looked"},
         pc' # "looked" => rows = NoRows
  PROVE  StopInv'
  BY DEF StopInv, Standing, RowsTrue, QuoteTrue, BasesTrue, OrderTrue, Open, Todo,
     Alive, BaseTrue, SameSide, market

LEMMA DroppedKeeps ==
  ASSUME StopInv, TypeOK', UNCHANGED market, rows' = NoRows,
         base' = base \/ base' = NoBases, pc' \in {"idle", "down"}
  PROVE  StopInv'
<1>1. Todo' = {} BY DEF Todo, NoRows
<1>2. UNCHANGED <<deals, price>> /\ Open' = Open BY DEF market, Open
<1>3. BasesTrue'
  BY <1>2 DEF StopInv, BasesTrue, BaseTrue, SameSide, NoBases
<1> QED BY <1>1, <1>2, <1>3 DEF StopInv, Standing, RowsTrue, QuoteTrue, OrderTrue, Alive

LEMMA QuotedKeeps == StopInv /\ Quoted => StopInv'
<1> SUFFICES ASSUME StopInv, Quoted PROVE StopInv'
  OBVIOUS
<1>1. TypeOK' BY TypesKept DEF StopInv, Next
<1>2. /\ UNCHANGED <<deals, price, rows, base, order>>
      /\ pc' = "trail" /\ quote' = price /\ price \in Prices
  BY DEF Quoted, market, StopInv, TypeOK
<1>3. Open' = Open /\ Todo' = Todo BY <1>2 DEF Open, Todo
<1>4. QuoteTrue' BY <1>2, <1>3 DEF StopInv, Standing, QuoteTrue, Alive
<1>5. Standing' /\ RowsTrue' BY <1>2, <1>3 DEF StopInv, Standing, RowsTrue, Alive
<1>6. BasesTrue' BY <1>2, <1>3 DEF StopInv, BasesTrue, BaseTrue, SameSide
<1> QED BY <1>1, <1>2, <1>4, <1>5, <1>6 DEF StopInv, OrderTrue

LEMMA StopKept == StopInv /\ [Next]_vars => StopInv'
<1> SUFFICES ASSUME StopInv, [Next]_vars PROVE StopInv'
  OBVIOUS
<1>0. TypeOK' BY TypesKept DEF StopInv
<1>1. ASSUME NEW S \in SUBSET Tickets, NEW unread \in SUBSET S, Look(S, unread)
      PROVE  StopInv'
  BY <1>1, LookKeeps
<1>2. CASE Quoted BY <1>2, QuotedKeeps
<1>3. CASE NoQuote BY <1>0, <1>3, DroppedKeeps DEF NoQuote
<1>4. ASSUME NEW t \in Tickets, Consider(t) PROVE StopInv'
  BY <1>4, ConsiderKeeps
<1>5. ASSUME NEW t \in Tickets, Modified(t) PROVE StopInv'
  BY <1>0, <1>5, AnswerKeeps DEF Modified
<1>6. ASSUME NEW t \in Tickets, Enter(t) PROVE StopInv'
  BY <1>6, EnterKeeps
<1>7. ASSUME NEW t \in Tickets, Close(t) PROVE StopInv'
  BY <1>7, CloseKeeps
<1>8. CASE ModifyFails BY <1>0, <1>8, AnswerKeeps DEF ModifyFails
<1>9. CASE Bar BY <1>0, <1>9, QuietKeeps DEF Bar, StopInv, RowsTrue
<1>10. CASE Switch BY <1>0, <1>10, QuietKeeps DEF Switch, StopInv, RowsTrue
<1>11. CASE Stop BY <1>0, <1>11, DroppedKeeps DEF Stop
<1>12. CASE Start BY <1>0, <1>12, QuietKeeps DEF Start, StopInv, RowsTrue
<1>13. CASE PriceMoves BY <1>13, PriceMovesKeeps
<1>14. CASE UNCHANGED vars
  BY <1>0, <1>14 DEF vars, engine, market, StopInv, Standing, RowsTrue, QuoteTrue,
     BasesTrue, OrderTrue, Open, Todo, Alive, BaseTrue, SameSide
<1> QED
  BY <1>1, <1>2, <1>3, <1>4, <1>5, <1>6, <1>7, <1>8, <1>9, <1>10, <1>11, <1>12,
     <1>13, <1>14 DEF Next

LEMMA StopInvariant == Spec => []StopInv
  BY StopInit, StopKept, PTL DEF Spec

(* A stop is never sent to where the market already was: compute_staircase *)
(* and its rounding stay below the profit, for every configuration that    *)
(* keeps more than half an R between activation and buffer.                *)
THEOREM SentToMarketSide == Spec => []MarketSide
<1>1. StopInv => MarketSide BY DEF StopInv, OrderTrue, MarketSide
<1> QED BY <1>1, StopInvariant, PTL

LEMMA StopStep ==
  StopInv /\ [Next]_vars =>
    \A t \in Tickets : deals[t].st = "open" /\ deals'[t].st = "open" =>
      Gain(Plan[t].dir, deals[t].sl, deals'[t].sl) >= 0
<1> SUFFICES ASSUME StopInv, [Next]_vars, NEW t \in Tickets,
                    deals[t].st = "open", deals'[t].st = "open"
             PROVE  Gain(Plan[t].dir, deals[t].sl, deals'[t].sl) >= 0
  OBVIOUS
<1>0. TypeOK' BY TypesKept DEF StopInv
<1>1. deals[t].sl \in Int BY DEF StopInv, TypeOK, NoDeal, ClosedDeal
<1>2. CASE Answered /\ (Executed \/ UNCHANGED deals) BY <1>0, <1>2, AnswerKeeps
<1>3. CASE deals'[t] = deals[t] BY <1>1, <1>3 DEF Gain
<1>4. ASSUME NEW u \in Tickets, Enter(u) PROVE deals'[t] = deals[t]
  BY <1>4 DEF Enter, NoDeal, StopInv, TypeOK
<1>5. ASSUME NEW u \in Tickets, Close(u) PROVE deals'[t] = deals[t]
  BY <1>5 DEF Close, ClosedDeal, StopInv, TypeOK
<1>6. CASE PriceMoves
  BY <1>3, <1>6 DEF PriceMoves, ClosedDeal
<1> QED
  BY <1>2, <1>3, <1>4, <1>5, <1>6
  DEF Next, Look, Quoted, NoQuote, Consider, Modified, ModifyFails, Bar, Switch, Stop,
      Start, vars, market

(* No step moves an open position's stop back, whatever the bridge         *)
(* reports or the engine forgets (should_apply).                           *)
THEOREM StopNeverBack == Spec => StopAdvances
<1>1. StopInv /\ [Next]_vars =>
        [\A t \in Tickets : deals[t].st = "open" /\ deals'[t].st = "open" =>
           Gain(Plan[t].dir, deals[t].sl, deals'[t].sl) >= 0]_vars
  BY StopStep
<1> QED BY <1>1, StopInvariant, PTL DEF Spec, StopAdvances

-----------------------------------------------------------------------------
(***************************************************************************)
(* The stairs of a position whose entry row is in the log.                 *)
(***************************************************************************)
OwnBases == \A t \in logged : base[t] \in {Plan[t], NoBaseline}

OwnOrder ==
  pc = "modify" /\ order.ticket \in logged =>
    LET t == order.ticket
    IN  Triggered(Plan[t], quote) /\ order.sl = Candidate(Plan[t], quote, gap)

OwnInv == TypeOK /\ OwnBases /\ OwnOrder

LEMMA OwnInit == Init => OwnInv
  BY TypesInit DEF Init, OwnInv, OwnBases, OwnOrder

LEMMA OwnConsider ==
  ASSUME OwnInv, NEW t \in Tickets, Consider(t)
  PROVE  OwnBases' /\ OwnOrder'
<1> DEFINE b == Baseline(t)
<1>1. /\ logged' = logged /\ gap' = gap /\ logged \subseteq Tickets
      /\ base' = Anchored(t, b) /\ base \in [Tickets -> Baselines \cup {NoBaseline}]
  BY DEF Consider, OwnInv, TypeOK
<1>2. t \in logged => b = Plan[t]
  BY DEF OwnInv, OwnBases, Baseline, Restored
<1>3. OwnBases'
  <2>1. \A u \in Tickets : base'[u] = base[u] \/ (u = t /\ base'[u] = b)
    BY <1>1 DEF Anchored
  <2> QED BY <2>1, <1>1, <1>2 DEF OwnInv, OwnBases
<1>4. OwnOrder'
  <2> SUFFICES ASSUME pc' = "modify", order'.ticket \in logged' PROVE OwnOrder'
    BY DEF OwnOrder
  <2>1. /\ Improves(t, b) /\ quote' = quote
        /\ order' = [ticket |-> t, sl |-> Candidate(b, quote, gap)]
    BY DEF Consider, Continue
  <2>2. order'.ticket = t /\ order'.sl = Candidate(b, quote, gap) /\ b = Plan[t]
    BY <2>1, <1>1, <1>2
  <2> QED BY <2>1, <2>2, <1>1 DEF Improves, OwnOrder
<1> QED BY <1>3, <1>4

LEMMA OwnEnter ==
  ASSUME OwnInv, NEW t \in Tickets, Enter(t)
  PROVE  OwnBases' /\ OwnOrder'
<1>1. pc' = "idle" BY DEF Enter
<1>2. UNCHANGED <<base, logged>> => OwnBases' BY DEF OwnInv, OwnBases
<1>3. base' = [base EXCEPT ![t] = Plan[t]] /\ logged' \subseteq logged \cup {t} => OwnBases'
  BY DEF OwnInv, OwnBases, TypeOK
<1>4. logged' \subseteq logged \cup {t} \/ UNCHANGED <<base, logged>>
  BY DEF Enter, Trimmed
<1>5. OwnBases' BY <1>2, <1>3, <1>4 DEF Enter
<1> QED BY <1>1, <1>5 DEF OwnOrder

(* Baselines are dropped and rows of the log trimmed or lost.              *)
LEMMA OwnShrinks ==
  ASSUME OwnInv, pc' # "modify", logged' \subseteq logged,
         \A t \in Tickets : base'[t] \in {base[t], NoBaseline}
  PROVE  OwnBases' /\ OwnOrder'
  BY DEF OwnInv, OwnBases, OwnOrder, TypeOK

LEMMA OwnKept == OwnInv /\ [Next]_vars => OwnInv'
<1> SUFFICES ASSUME OwnInv, [Next]_vars PROVE OwnInv'
  OBVIOUS
<1>0. TypeOK' BY TypesKept DEF OwnInv
<1> SUFFICES OwnBases' /\ OwnOrder'
  BY <1>0 DEF OwnInv
<1>1. ASSUME NEW S \in SUBSET Tickets, NEW unread \in SUBSET S, Look(S, unread)
      PROVE  OwnBases' /\ OwnOrder'
  <2>1. pc' # "modify" /\ logged' = logged BY <1>1 DEF Look
  <2> QED BY <1>1, <2>1, OwnShrinks DEF Look
<1>2. CASE Quoted BY <1>2, OwnShrinks DEF Quoted
<1>3. CASE NoQuote BY <1>3, OwnShrinks DEF NoQuote
<1>4. ASSUME NEW t \in Tickets, Consider(t) PROVE OwnBases' /\ OwnOrder'
  BY <1>4, OwnConsider
<1>5. ASSUME NEW t \in Tickets, Modified(t) PROVE OwnBases' /\ OwnOrder'
  BY <1>5, OwnShrinks DEF Modified, Answered, Continue, Trimmed
<1>6. ASSUME NEW t \in Tickets, Enter(t) PROVE OwnBases' /\ OwnOrder'
  BY <1>6, OwnEnter
<1>7. ASSUME UNCHANGED engine PROVE OwnBases' /\ OwnOrder'
  BY <1>7 DEF engine, OwnInv, OwnBases, OwnOrder
<1>8. CASE ModifyFails BY <1>8, OwnShrinks DEF ModifyFails, Answered, Continue
<1>9. CASE Bar BY <1>9, OwnShrinks DEF Bar
<1>10. CASE Switch BY <1>10, OwnShrinks DEF Switch
<1>11. CASE Stop
  <2>1. \A t \in Tickets : base'[t] = NoBaseline BY <1>11 DEF Stop, NoBases
  <2>2. pc' # "modify" /\ logged' = logged BY <1>11 DEF Stop
  <2> QED BY <2>1, <2>2, OwnShrinks
<1>12. CASE Start BY <1>12, OwnShrinks DEF Start
<1> QED
  BY <1>1, <1>2, <1>3, <1>4, <1>5, <1>6, <1>7, <1>8, <1>9, <1>10, <1>11, <1>12
  DEF Next, Close, PriceMoves, vars

LEMMA OwnAnswer ==
  ASSUME OwnInv, Answered, Executed, NEW t \in Tickets, StopMoved(t), t \in logged
  PROVE  Secures(t, deals'[t].sl) <= OwnStair(t)
<1>1. /\ pc = "modify" /\ order.ticket \in Tickets
      /\ deals' = [deals EXCEPT ![order.ticket].sl = order.sl]
      /\ deals[t] \in [st : {"open"}, open : Int, sl : Int]
  BY DEF Answered, Executed, StopMoved, OwnInv, TypeOK, NoDeal, ClosedDeal
<1>2. t = order.ticket
  <2>1. t # order.ticket => deals'[t] = deals[t] BY <1>1 DEF OwnInv, TypeOK
  <2> QED BY <2>1 DEF StopMoved
<1>3. deals'[t].sl = order.sl BY <1>1, <1>2 DEF OwnInv, TypeOK
<1>4. /\ Triggered(Plan[t], quote)
      /\ order.sl = Candidate(Plan[t], quote, gap)
  BY <1>1, <1>2 DEF OwnInv, OwnOrder
<1>5. quote \in Int /\ gap \in Nat
  BY PlanAssumption, StairAssumption DEF OwnInv, TypeOK, NoBid
<1>6. Plan[t] \in BaselineType BY PlanAssumption DEF BaselineType, Dirs
<1>7. /\ Secured(Plan[t], quote, gap) \in Int
      /\ Locked(Plan[t], quote) \in Int /\ Profit(Plan[t], quote) \in Int
  BY <1>4, <1>5, <1>6, SecuredBelowProfit, LockedBelowProfit, ProfitType
<1>8. Secured(Plan[t], quote, gap) <= Locked(Plan[t], quote)
  BY <1>5, <1>7 DEF Secured
<1>9. Secures(t, order.sl) = Secured(Plan[t], quote, gap)
  BY <1>4, <1>6, <1>7 DEF Secures, Candidate, Ahead, Gain, BaselineType
<1> QED BY <1>3, <1>4, <1>8, <1>9 DEF OwnStair

LEMMA OwnStep ==
  OwnInv /\ [Next]_vars =>
    \A t \in Tickets : StopMoved(t) /\ t \in logged =>
      Secures(t, deals'[t].sl) <= OwnStair(t)
<1> SUFFICES ASSUME OwnInv, [Next]_vars, NEW t \in Tickets, StopMoved(t), t \in logged
             PROVE  Secures(t, deals'[t].sl) <= OwnStair(t)
  OBVIOUS
<1>1. deals'[t] # deals[t] BY DEF StopMoved
<1>2. CASE Answered /\ (Executed \/ UNCHANGED deals) BY <1>1, <1>2, OwnAnswer
<1>3. ASSUME NEW u \in Tickets, Enter(u) PROVE FALSE
  BY <1>1, <1>3 DEF StopMoved, Enter, NoDeal, OwnInv, TypeOK
<1>4. ASSUME NEW u \in Tickets, Close(u) PROVE FALSE
  BY <1>1, <1>4 DEF StopMoved, Close, ClosedDeal, OwnInv, TypeOK
<1>5. CASE PriceMoves
  BY <1>1, <1>5 DEF StopMoved, PriceMoves, ClosedDeal
<1> QED
  BY <1>1, <1>2, <1>3, <1>4, <1>5
  DEF Next, Look, Quoted, NoQuote, Consider, Modified, ModifyFails, Bar, Switch, Stop,
      Start, vars, market

(* A position whose entry row is in the log is trailed on the stairs of    *)
(* its original risk, through restarts, missed reports and trailing        *)
(* (_restore_trail_baseline, _on_new_bar).                                 *)
THEOREM OwnStairsKept == Spec => OwnStairs
<1>1. OwnInv /\ [Next]_vars =>
        [\A t \in Tickets : StopMoved(t) /\ t \in logged =>
           Secures(t, deals'[t].sl) <= OwnStair(t)]_vars
  BY OwnStep
<1> QED BY <1>1, OwnInit, OwnKept, PTL DEF Spec, OwnStairs

-----------------------------------------------------------------------------
(***************************************************************************)
(* TradeLedger.  The log is a sequence that is cut, merged and changed in  *)
(* place; what the proofs say of it they say of its rows, one by one.      *)
(***************************************************************************)
(* Every nonempty set of naturals has a least element. *)
LEMMA NatMin ==
  ASSUME NEW T, T \subseteq Nat, T # {}
  PROVE  \E x \in T : \A y \in T : x <= y
<1> DEFINE F == {0 .. k : k \in T}
<1>1. \A k \in Nat : 0 .. k \in FiniteSubsetsOf(Nat)
  BY FS_Interval DEF FiniteSubsetsOf
<1>2. F \subseteq FiniteSubsetsOf(Nat) /\ F # {}
  BY <1>1
<1>3. PICK s \in F : \A t \in F : ~ (<<t, s>> \in StrictSubsetOrdering(Nat))
  BY <1>2, FS_StrictSubsetOrderingWellFounded, WFMin, Zenon
<1>4. PICK x \in T : s = 0 .. x
  BY <1>3
<1>5. ASSUME NEW y \in T, y < x PROVE FALSE
  <2>1. 0 .. y \in F /\ 0 .. y \subseteq 0 .. x /\ x \notin 0 .. y /\ x \in 0 .. x
    BY <1>5
  <2>2. 0 .. y # s BY <2>1, <1>4
  <2>3. <<0 .. y, s>> \in StrictSubsetOrdering(Nat)
    <3>1. 0 .. y \in SUBSET Nat /\ s \in SUBSET Nat
      BY <1>4
    <3> HIDE DEF F
    <3> QED BY <2>1, <2>2, <1>4, <3>1 DEF StrictSubsetOrdering
  <2>4. QED BY <2>1, <2>3, <1>3
<1>6. QED
  BY <1>5


(* The turns of Merged's loop.                                             *)
RowsUpTo(g, n, f, r) ==
  g = [i \in 0 .. n |-> IF i = 0 THEN f ELSE WithMissing(g[i - 1], r[i])]

LEMMA RowsUpToExists ==
  ASSUME NEW f, NEW r, NEW n \in Nat
  PROVE  \E g : RowsUpTo(g, n, f, r)
<1> DEFINE T == {m \in Nat : ~ \E g : RowsUpTo(g, m, f, r)}
<1>1. SUFFICES ASSUME T # {} PROVE FALSE
  OBVIOUS
<1>2. PICK m \in T : \A k \in T : m <= k
  <2>1. T \subseteq Nat
    OBVIOUS
  <2> HIDE DEF T
  <2>2. QED BY <1>1, <2>1, NatMin
<1>3. m \in Nat /\ ~ \E g : RowsUpTo(g, m, f, r)
  OBVIOUS
<1>4. m # 0
  <2> DEFINE g == [i \in 0 .. 0 |-> f]
  <2>1. RowsUpTo(g, 0, f, r)
    BY DEF RowsUpTo
  <2> HIDE DEF g
  <2>2. QED BY <2>1, <1>3
<1>5. m - 1 \in Nat /\ m - 1 \notin T
  <2>1. m - 1 \in Nat /\ ~ (m <= m - 1)
    BY <1>3, <1>4
  <2> HIDE DEF T
  <2>2. QED BY <2>1, <1>2
<1>6. PICK h : RowsUpTo(h, m - 1, f, r)
  BY <1>5
<1> DEFINE g == [i \in 0 .. m |-> IF i = m THEN WithMissing(h[m - 1], r[m]) ELSE h[i]]
<1>7. ASSUME NEW i \in 0 .. m
      PROVE  g[i] = IF i = 0 THEN f ELSE WithMissing(g[i - 1], r[i])
  <2>1. CASE i = m
    <3>1. g[m - 1] = h[m - 1]
      BY <1>3, <1>4
    <3>2. QED BY <2>1, <3>1, <1>4
  <2>2. CASE i # m
    <3>1. i \in 0 .. (m - 1) /\ g[i] = h[i] /\ (i # 0 => g[i - 1] = h[i - 1])
      BY <2>2, <1>3
    <3>2. h[i] = IF i = 0 THEN f ELSE WithMissing(h[i - 1], r[i])
      BY <1>6, <3>1 DEF RowsUpTo
    <3> HIDE DEF g
    <3>3. QED BY <3>1, <3>2
  <2>3. QED BY <2>1, <2>2
<1>8. RowsUpTo(g, m, f, r)
  BY <1>7 DEF RowsUpTo
<1> HIDE DEF g
<1>9. QED BY <1>8, <1>3


(***************************************************************************)
(* What is true of a row while n orders have been executed, and those of   *)
(* o are open: it is of one of these trades, and a result is the record of *)
(* that trade, which is closed.                                            *)
(***************************************************************************)
RowTrue(row, n, o) ==
  /\ row.ticket <= n
  /\ IsClosed(row) => row.result = row.ticket /\ row.ticket \notin o

AllTrue(h, n, o) == \A i \in DOMAIN h : RowTrue(h[i], n, o)

(* The closes among the rows the panel is to see are among trades.         *)
ShowsIn(h, trades) ==
  \A i \in DOMAIN h :
    i > Len(h) - PanelCap /\ IsClosed(h[i]) =>
      \E j \in DOMAIN trades : trades[j] = h[i]

LEMMA Caps ==
  /\ HistoryCap \in Nat /\ PanelCap \in Nat /\ PanelCap > 0 /\ PanelCap <= HistoryCap
  /\ MaxTickets \in Nat
BY LedgerAssumption

LEMMA RowFields ==
  \A row \in Rows : /\ row.ticket \in Int /\ row.ticket \in Ticket /\ row.result \in Int
                    /\ row.kind \in {"entry", "trailed", "close_all"}
BY Caps DEF Rows, Ticket

LEMMA LastOfRows ==
  ASSUME NEW h \in Seq(Rows), NEW n \in Nat
  PROVE  /\ LastOf(h, n) \in Seq(Rows)
         /\ Len(LastOf(h, n)) = IF Len(h) > n THEN n ELSE Len(h)
         /\ \A j \in DOMAIN LastOf(h, n) :
              LastOf(h, n)[j] = h[Len(h) - Len(LastOf(h, n)) + j]
<1>1. CASE Len(h) > n
  <2> DEFINE m == Len(h) - n + 1
  <2>1. m \in Int /\ Len(h) \in Int /\ m \in 1 .. Len(h) + 1 /\ Len(h) - m + 1 = n
    BY <1>1
  <2>2. \A i \in m .. Len(h) : h[i] \in Rows
    BY <2>1
  <2>3. /\ SubSeq(h, m, Len(h)) \in Seq(Rows)
        /\ Len(SubSeq(h, m, Len(h))) = IF m <= Len(h) THEN Len(h) - m + 1 ELSE 0
        /\ \A i \in 1 .. Len(h) - m + 1 : SubSeq(h, m, Len(h))[i] = h[m + i - 1]
    <3> HIDE DEF m
    <3> QED BY <2>1, <2>2, SubSeqProperties
  <2>4. LastOf(h, n) = SubSeq(h, m, Len(h))
    BY <1>1 DEF LastOf
  <2>5. Len(LastOf(h, n)) = n
    BY <2>1, <2>3, <2>4
  <2>6. ASSUME NEW j \in DOMAIN LastOf(h, n)
        PROVE  LastOf(h, n)[j] = h[Len(h) - n + j]
    <3>1. j \in 1 .. n
      BY <2>3, <2>4, <2>5
    <3>2. m + j - 1 = Len(h) - n + j
      BY <3>1
    <3>3. SubSeq(h, m, Len(h))[j] = h[m + j - 1]
      BY <3>1, <2>1, <2>3
    <3> HIDE DEF m
    <3> QED BY <2>4, <3>2, <3>3
  <2> QED BY <1>1, <2>3, <2>4, <2>5, <2>6
<1>2. CASE ~ (Len(h) > n)
  BY <1>2 DEF LastOf
<1> QED BY <1>1, <1>2

LEMMA LastOfTrue ==
  ASSUME NEW h \in Seq(Rows), NEW k \in Nat, NEW n, NEW o, AllTrue(h, n, o)
  PROVE  AllTrue(LastOf(h, k), n, o)
<1> SUFFICES ASSUME NEW j \in DOMAIN LastOf(h, k) PROVE RowTrue(LastOf(h, k)[j], n, o)
  BY DEF AllTrue
<1> DEFINE g == LastOf(h, k)
<1>1. g \in Seq(Rows) /\ Len(g) <= Len(h) /\ g[j] = h[Len(h) - Len(g) + j]
  BY LastOfRows
<1> HIDE DEF g
<1>2. j \in 1 .. Len(g)
  BY <1>1 DEF g
<1>3. Len(h) - Len(g) + j \in DOMAIN h
  BY <1>1, <1>2
<1> QED BY <1>1, <1>3 DEF AllTrue, g

LEMMA PanelRows ==
  ASSUME NEW h \in Seq(Rows)
  PROVE  ShowsIn(h, LastOf(h, PanelCap))
<1> SUFFICES ASSUME NEW i \in DOMAIN h, i > Len(h) - PanelCap
             PROVE  \E j \in DOMAIN LastOf(h, PanelCap) : LastOf(h, PanelCap)[j] = h[i]
  BY DEF ShowsIn
<1> DEFINE g == LastOf(h, PanelCap)
           j == i - (Len(h) - Len(g))
<1>1. /\ g \in Seq(Rows) /\ Len(g) = IF Len(h) > PanelCap THEN PanelCap ELSE Len(h)
      /\ \A k \in DOMAIN g : g[k] = h[Len(h) - Len(g) + k]
  BY LastOfRows, Caps
<1> HIDE DEF g
<1>2. j \in 1 .. Len(g) /\ Len(h) - Len(g) + j = i
  BY <1>1, Caps
<1>3. j \in DOMAIN g
  BY <1>1, <1>2
<1> HIDE DEF j
<1> QED BY <1>1, <1>2, <1>3 DEF g

(* A row that is added.                                                    *)
LEMMA LoggedRows ==
  ASSUME log \in Seq(Rows), NEW row \in Rows, ~ IsClosed(row), row.ticket <= tickets'
  PROVE  /\ Logged(row) \in Seq(Rows) /\ Len(Logged(row)) <= HistoryCap
         /\ \A o : AllTrue(log, tickets', o) => AllTrue(Logged(row), tickets', o)
         /\ \A trades : ShowsIn(log, trades) => ShowsIn(Logged(row), trades)
<1> DEFINE h == Append(log, row)
           g == LastOf(h, HistoryCap)
<1>1. /\ h \in Seq(Rows) /\ Len(h) = Len(log) + 1 /\ h[Len(log) + 1] = row
      /\ \A i \in 1 .. Len(log) : h[i] = log[i]
  OBVIOUS
<1> HIDE DEF h
<1>2. /\ g \in Seq(Rows) /\ Len(g) <= HistoryCap /\ Len(g) <= Len(h)
      /\ Len(g) = IF Len(h) > HistoryCap THEN HistoryCap ELSE Len(h)
      /\ \A j \in DOMAIN g : g[j] = h[Len(h) - Len(g) + j]
  BY <1>1, LastOfRows, Caps
<1>3. Logged(row) = g
  BY DEF Logged, h
<1>4. ASSUME NEW o, AllTrue(log, tickets', o)
      PROVE  AllTrue(g, tickets', o)
  <2>1. RowTrue(row, tickets', o)
    BY DEF RowTrue
  <2>2. ASSUME NEW i \in DOMAIN h PROVE RowTrue(h[i], tickets', o)
    <3>1. i \in 1 .. Len(log) \/ i = Len(log) + 1
      BY <1>1
    <3> QED BY <3>1, <2>1, <1>1, <1>4 DEF AllTrue
  <2>3. AllTrue(h, tickets', o)
    BY <2>2 DEF AllTrue
  <2> QED BY <1>1, <2>3, LastOfTrue, Caps
<1>5. ASSUME NEW trades, ShowsIn(log, trades), NEW i \in DOMAIN g,
             i > Len(g) - PanelCap, IsClosed(g[i])
      PROVE  \E j \in DOMAIN trades : trades[j] = g[i]
  <2> HIDE DEF g
  <2> DEFINE k == Len(h) - Len(g) + i
  <2>0. i \in 1 .. Len(g) /\ Len(g) \in Nat /\ Len(h) \in Nat
    BY <1>1, <1>2
  <2>1. k \in 1 .. Len(h) /\ k > Len(h) - PanelCap
    BY <2>0, <1>2, <1>5, Caps
  <2>2. g[i] = h[k]
    BY <1>2
  <2> HIDE DEF k
  <2>3. k # Len(log) + 1
    BY <1>1, <1>5, <2>2
  <2>4. k \in 1 .. Len(log) /\ k > Len(log) - PanelCap
    BY <1>1, <2>1, <2>3, Caps
  <2> QED BY <1>1, <1>5, <2>2, <2>4 DEF ShowsIn
<1> HIDE DEF g
<1>6. \A trades : ShowsIn(log, trades) => ShowsIn(g, trades)
  BY <1>5 DEF ShowsIn
<1> QED BY <1>2, <1>3, <1>4, <1>6

(* A merged log has the rows of both copies.                               *)
LEMMA MergedRows ==
  ASSUME NEW f \in Seq(Rows), NEW r \in Seq(Rows), NEW n, NEW o,
         AllTrue(f, n, o), AllTrue(r, n, o)
  PROVE  /\ Merged(f, r) \in Seq(Rows) /\ Len(Merged(f, r)) <= Len(f) + Len(r)
         /\ AllTrue(Merged(f, r), n, o)
<1> DEFINE N == Len(r)
           g == CHOOSE h : RowsUpTo(h, N, f, r)
<1>1. N \in Nat /\ Len(f) \in Nat
  OBVIOUS
<1>2. RowsUpTo(g, N, f, r)
  BY <1>1, RowsUpToExists, Zenon
<1>3. Merged(f, r) = g[N]
  BY DEF Merged, RowsUpTo
<1> HIDE DEF g
<1> DEFINE Good(i) == g[i] \in Seq(Rows) /\ Len(g[i]) <= Len(f) + i /\ AllTrue(g[i], n, o)
           T == {i \in 0 .. N : ~ Good(i)}
<1>4. ASSUME T # {} PROVE FALSE
  <2>1. PICK m \in T : \A k \in T : m <= k
    <3>1. T \subseteq Nat
      BY <1>1
    <3> HIDE DEF T
    <3>2. QED BY <3>1, <1>4, NatMin
  <2>2. m \in 0 .. N /\ ~ Good(m)
    OBVIOUS
  <2>3. g[m] = IF m = 0 THEN f ELSE WithMissing(g[m - 1], r[m])
    BY <1>2, <2>2 DEF RowsUpTo
  <2>4. m # 0
    BY <2>2, <2>3, <1>1
  <2>5. m - 1 \in 0 .. N /\ ~ (m <= m - 1) /\ m \in 1 .. N
    BY <2>2, <2>4, <1>1
  <2>6. Good(m - 1)
    BY <2>1, <2>5
  <2>7. r[m] \in Rows /\ RowTrue(r[m], n, o)
    BY <2>5 DEF AllTrue
  <2>8. g[m] = g[m - 1] \/ g[m] = Append(g[m - 1], r[m])
    BY <2>3, <2>4 DEF WithMissing
  <2> DEFINE a == g[m - 1]
  <2>9. a \in Seq(Rows) /\ Len(a) <= Len(f) + (m - 1) /\ AllTrue(a, n, o)
    BY <2>6
  <2>10. g[m] = a \/ g[m] = Append(a, r[m])
    BY <2>8
  <2> HIDE DEF a
  <2>11. AllTrue(Append(a, r[m]), n, o)
    BY <2>7, <2>9 DEF AllTrue
  <2>12. /\ Append(a, r[m]) \in Seq(Rows) /\ Len(Append(a, r[m])) = Len(a) + 1
         /\ Len(a) \in Nat
    BY <2>7, <2>9
  <2>13. g[m] \in Seq(Rows) /\ AllTrue(g[m], n, o)
    BY <2>9, <2>10, <2>11, <2>12
  <2>14. Len(g[m]) <= Len(f) + m
    BY <2>9, <2>10, <2>12, <2>5, <1>1
  <2> QED BY <2>2, <2>13, <2>14
<1>5. QED BY <1>1, <1>3, <1>4

-----------------------------------------------------------------------------
(***************************************************************************)
(* The invariant.  Rows are true in the log and in both copies, one of     *)
(* which the next engine reads; a trade that is to be asked about has an   *)
(* entry without a close; and the snapshot is complete except where the    *)
(* engine has still to write: before it serves, and while the histories of *)
(* a tick are read.                                                        *)
(***************************************************************************)
LogTrue ==
  AllTrue(log, tickets, open) /\ AllTrue(file, tickets, open) /\ AllTrue(state, tickets, open)

Capped == Len(file) <= HistoryCap /\ Len(state) <= HistoryCap

Asked == engineAt = "histories" => work \subseteq Unclosed

FreshShown ==
  /\ engineAt = "entering" => fresh = {}
  /\ reached => fresh \subseteq ViaRedis.positions

Written(where, learned) == where \notin {"down", "boot"} /\ ~ (where = "histories" /\ learned)

TradesShown ==
  reached /\ Written(engineAt, changed) => ShowsIn(log, ViaRedis.trades)

LedgerInv ==
  LedgerTypeOK /\ LogTrue /\ Capped /\ Asked /\ FreshShown /\ TradesShown

SnapType == Snapshots \cup {Nothing}

LEMMA SnapFields ==
  ASSUME NEW s \in SnapType
  PROVE  /\ SnapOrEmpty(s) \in Snapshots
         /\ \A ps \in SUBSET Ticket :
              /\ WithPositions(s, ps) \in Snapshots
              /\ SnapOrEmpty(WithPositions(s, ps)).positions = ps
         /\ \A h \in Seq(Rows) :
              /\ WithTrades(s, h) \in Snapshots
              /\ SnapOrEmpty(WithTrades(s, h)).positions = SnapOrEmpty(s).positions
              /\ SnapOrEmpty(WithTrades(s, h)).trades = LastOf(h, PanelCap)
<1>1. SnapOrEmpty(s) \in Snapshots
  BY DEF SnapOrEmpty, SnapType, Empty, Snapshots
<1>2. \A z \in Snapshots : SnapOrEmpty(z) = z
  BY NothingAssumption DEF SnapOrEmpty
<1> DEFINE e == SnapOrEmpty(s)
<1> HIDE DEF e
<1>3. e \in Snapshots
  BY <1>1 DEF e
<1>4. ASSUME NEW ps \in SUBSET Ticket
      PROVE  [e EXCEPT !.positions = ps] \in Snapshots
             /\ [e EXCEPT !.positions = ps].positions = ps
  BY <1>3 DEF Snapshots
<1>5. ASSUME NEW h \in Seq(Rows)
      PROVE  /\ [e EXCEPT !.trades = LastOf(h, PanelCap)] \in Snapshots
             /\ [e EXCEPT !.trades = LastOf(h, PanelCap)].positions = e.positions
             /\ [e EXCEPT !.trades = LastOf(h, PanelCap)].trades = LastOf(h, PanelCap)
  <2>1. LastOf(h, PanelCap) \in Seq(Rows)
    BY LastOfRows, Caps
  <2> QED BY <1>3, <2>1 DEF Snapshots
<1>6. /\ \A ps : WithPositions(s, ps) = [e EXCEPT !.positions = ps]
      /\ \A h : WithTrades(s, h) = [e EXCEPT !.trades = LastOf(h, PanelCap)]
  BY DEF WithPositions, WithTrades, e
<1>7. ASSUME NEW ps \in SUBSET Ticket
      PROVE  /\ WithPositions(s, ps) \in Snapshots
             /\ SnapOrEmpty(WithPositions(s, ps)).positions = ps
  BY <1>2, <1>4, <1>6
<1>8. ASSUME NEW h \in Seq(Rows)
      PROVE  /\ WithTrades(s, h) \in Snapshots
             /\ SnapOrEmpty(WithTrades(s, h)).positions = SnapOrEmpty(s).positions
             /\ SnapOrEmpty(WithTrades(s, h)).trades = LastOf(h, PanelCap)
  BY <1>2, <1>5, <1>6 DEF e
<1> QED BY <1>1, <1>7, <1>8

(* What a publication leaves of the log h.                                 *)
LEMMA PublishedRows ==
  ASSUME LedgerTypeOK, Capped, NEW h \in Seq(Rows), NEW s \in SnapType, NEW ok \in BOOLEAN,
         Published(h, s, ok)
  PROVE  /\ file' \in Seq(Rows) /\ state' \in Seq(Rows) /\ Capped'
         /\ snap' \in SnapType /\ reached' \in BOOLEAN
         /\ reached' => ok /\ ShowsIn(h, SnapOrEmpty(snap').trades)
         /\ SnapOrEmpty(snap').positions = SnapOrEmpty(s).positions
         /\ \A n, o : AllTrue(h, n, o) /\ AllTrue(file, n, o) /\ AllTrue(state, n, o)
                        => AllTrue(file', n, o) /\ AllTrue(state', n, o)
<1> DEFINE g == LastOf(h, HistoryCap)
<1>1. /\ g \in Seq(Rows) /\ Len(g) <= HistoryCap
      /\ \A n, o : AllTrue(h, n, o) => AllTrue(g, n, o)
  BY LastOfRows, LastOfTrue, Caps
<1>2. PICK f \in BOOLEAN, r \in BOOLEAN, u \in BOOLEAN :
        /\ file' = (IF f THEN file ELSE g)
        /\ state' = (IF r THEN state ELSE g)
        /\ snap' = (IF h = <<>> \/ u THEN s ELSE WithTrades(s, h))
        /\ reached' = (ok /\ ~ r /\ (h = <<>> \/ ~ u))
  BY DEF Published, Missed
<1> HIDE DEF g
<1>3. file' \in {file, g} /\ state' \in {state, g}
  BY <1>2
<1>4. file' \in Seq(Rows) /\ state' \in Seq(Rows) /\ Capped'
  BY <1>1, <1>3 DEF LedgerTypeOK, Capped
<1>5. snap' \in SnapType /\ SnapOrEmpty(snap').positions = SnapOrEmpty(s).positions
  BY <1>2, SnapFields DEF SnapType
<1>6. ASSUME reached' PROVE ok /\ ShowsIn(h, SnapOrEmpty(snap').trades)
  <2>1. ok /\ (h = <<>> \/ snap' = WithTrades(s, h))
    BY <1>2, <1>6
  <2>2. CASE h = <<>>
    BY <2>1, <2>2 DEF ShowsIn
  <2>3. CASE snap' = WithTrades(s, h)
    BY <2>1, <2>3, SnapFields, PanelRows
  <2> QED BY <2>1, <2>2, <2>3
<1>7. reached' \in BOOLEAN
  BY <1>2
<1> QED BY <1>1, <1>3, <1>4, <1>5, <1>6, <1>7

(* The broker's part of a step: new trades are numbered on, and none that  *)
(* was closed opens again.                                                 *)
BrokerMoves ==
  /\ tickets' \in 0 .. MaxTickets /\ tickets <= tickets'
  /\ open' \subseteq 1 .. tickets' /\ open' \cap 1 .. tickets \subseteq open
  /\ archived' \subseteq (1 .. tickets') \ open'

LEMMA RowsStayTrue ==
  ASSUME LedgerTypeOK, BrokerMoves, NEW h \in Seq(Rows), AllTrue(h, tickets, open)
  PROVE  AllTrue(h, tickets', open')
<1> SUFFICES ASSUME NEW i \in DOMAIN h PROVE RowTrue(h[i], tickets', open')
  BY DEF AllTrue
<1>1. h[i] \in Rows /\ RowTrue(h[i], tickets, open)
  BY DEF AllTrue
<1>2. h[i].ticket \in 1 .. tickets
  BY <1>1, RowFields, Caps DEF RowTrue, Ticket, LedgerTypeOK
<1> QED BY <1>1, <1>2, RowFields, Caps DEF RowTrue, BrokerMoves, LedgerTypeOK, Ticket

(* A step that ends with the log being published.                          *)
LocalTyped ==
  /\ engineAt' \in {"down", "boot", "idle", "served", "bars", "entering", "closing"}
  /\ paused' \in BOOLEAN /\ changed' \in BOOLEAN
  /\ rested' \subseteq Ticket /\ work' \subseteq 1 .. tickets'
  /\ engineAt' = "closing" => work' # {}

LEMMA PublishedKeeps ==
  ASSUME LedgerInv, BrokerMoves, LocalTyped,
         NEW s \in SnapType, NEW ok \in BOOLEAN, Published(log', s, ok),
         log' \in Seq(Rows), Len(log') <= 2 * HistoryCap, AllTrue(log', tickets', open'),
         fresh' \subseteq 1 .. tickets', engineAt' = "entering" => fresh' = {},
         ok => fresh' \subseteq SnapOrEmpty(s).positions
  PROVE  LedgerInv'
<1>1. /\ file' \in Seq(Rows) /\ state' \in Seq(Rows) /\ Capped'
      /\ snap' \in SnapType /\ reached' \in BOOLEAN
      /\ reached' => ok /\ ShowsIn(log', SnapOrEmpty(snap').trades)
      /\ SnapOrEmpty(snap').positions = SnapOrEmpty(s).positions
      /\ AllTrue(log', tickets', open') /\ AllTrue(file, tickets', open')
           /\ AllTrue(state, tickets', open')
           => AllTrue(file', tickets', open') /\ AllTrue(state', tickets', open')
  BY PublishedRows DEF LedgerInv
<1>2. AllTrue(file, tickets', open') /\ AllTrue(state, tickets', open')
  BY RowsStayTrue DEF LedgerInv, LogTrue, LedgerTypeOK
<1>3. LedgerTypeOK'
  BY <1>1 DEF LedgerTypeOK, LocalTyped, BrokerMoves, SnapType
<1>4. LogTrue'
  BY <1>1, <1>2 DEF LogTrue
<1>5. FreshShown' /\ TradesShown' /\ Asked'
  BY <1>1 DEF FreshShown, TradesShown, Asked, LocalTyped, ViaRedis
<1> QED BY <1>1, <1>3, <1>4, <1>5 DEF LedgerInv

(* One that leaves the state's copies and the snapshot alone, or the       *)
(* file's erased.                                                          *)
LEMMA UnpublishedKeeps ==
  ASSUME LedgerInv, BrokerMoves, LedgerTypeOK',
         file' \in {file, <<>>}, state' \in {state, <<>>},
         AllTrue(log', tickets', open'), Asked', FreshShown', TradesShown'
  PROVE  LedgerInv'
<1>1. AllTrue(file', tickets', open') /\ AllTrue(state', tickets', open')
  <2>1. AllTrue(<<>>, tickets', open')
    BY DEF AllTrue
  <2>2. AllTrue(file, tickets', open') /\ AllTrue(state, tickets', open')
    BY RowsStayTrue DEF LedgerInv, LogTrue, LedgerTypeOK
  <2> QED BY <2>1, <2>2
<1>2. Capped'
  BY Caps DEF LedgerInv, Capped
<1> QED BY <1>1, <1>2 DEF LedgerInv, LogTrue

-----------------------------------------------------------------------------
(***************************************************************************)
(* Every action keeps it.                                                  *)
(***************************************************************************)
LEMMA BrokerStays ==
  ASSUME LedgerInv, UNCHANGED broker
  PROVE  BrokerMoves
BY DEF BrokerMoves, broker, LedgerInv, LedgerTypeOK

LEMMA SnapNow ==
  ASSUME LedgerInv
  PROVE  /\ snap \in SnapType /\ log \in Seq(Rows) /\ Len(log) <= 2 * HistoryCap
         /\ reached \in BOOLEAN /\ fresh \subseteq 1 .. tickets
         /\ reached => fresh \subseteq SnapOrEmpty(snap).positions
BY DEF LedgerInv, LedgerTypeOK, SnapType, FreshShown, ViaRedis

(* _write_state() of a log that stays, or has just been changed.           *)
LEMMA SaveKeeps ==
  ASSUME LedgerInv, BrokerMoves, LocalTyped, Save(log'), log' = log, UNCHANGED fresh,
         engineAt' # "entering"
  PROVE  LedgerInv'
<1>1. Published(log', snap, reached)
  BY DEF Save
<1>2. AllTrue(log', tickets', open')
  BY RowsStayTrue, SnapNow DEF LedgerInv, LogTrue
<1>3. fresh' \subseteq 1 .. tickets'
  BY SnapNow DEF BrokerMoves, LedgerInv, LedgerTypeOK
<1> QED BY <1>1, <1>2, <1>3, SnapNow, PublishedKeeps

LEMMA LedgerStarts == LedgerInit => LedgerInv
<1> SUFFICES ASSUME LedgerInit PROVE LedgerInv
  OBVIOUS
<1>1. <<>> \in Seq(Rows) /\ Len(<<>>) = 0 /\ DOMAIN <<>> = {}
  OBVIOUS
<1>2. /\ log \in Seq(Rows) /\ file \in Seq(Rows) /\ state \in Seq(Rows)
      /\ Len(log) <= 2 * HistoryCap /\ Capped
  BY <1>1, Caps DEF LedgerInit, Capped
<1>4. LedgerTypeOK
  <2>1. /\ tickets = 0 /\ tickets \in 0 .. MaxTickets /\ open = {} /\ archived = {}
        /\ work = {} /\ rested = {} /\ fresh = {} /\ engineAt = "down"
    BY Caps DEF LedgerInit
  <2>2. paused \in BOOLEAN /\ changed \in BOOLEAN /\ reached \in BOOLEAN
    BY DEF LedgerInit
  <2>3. snap \in Snapshots \cup {Nothing}
    BY DEF LedgerInit
  <2> QED BY <1>2, <2>1, <2>2, <2>3 DEF LedgerTypeOK
<1>3. LogTrue /\ Asked /\ FreshShown /\ TradesShown
  BY <1>1 DEF LedgerInit, LogTrue, AllTrue, Asked, FreshShown, TradesShown, Written
<1> QED BY <1>2, <1>3, <1>4 DEF LedgerInv

LEMMA StartsKeeps == LedgerInv /\ EngineStarts => LedgerInv'
<1> SUFFICES ASSUME LedgerInv, EngineStarts PROVE LedgerInv'
  OBVIOUS
<1>1. BrokerMoves
  BY BrokerStays DEF EngineStarts
<1>2. <<>> \in Seq(Rows) /\ AllTrue(<<>>, tickets, open)
  BY DEF AllTrue
<1>3. Published(<<>>, snap, TRUE)
  BY DEF EngineStarts
<1>4. /\ file' \in Seq(Rows) /\ state' \in Seq(Rows) /\ Capped'
      /\ snap' \in SnapType /\ reached' \in BOOLEAN
      /\ AllTrue(file', tickets, open) /\ AllTrue(state', tickets, open)
  BY <1>2, <1>3, PublishedRows, SnapNow DEF LedgerInv, LogTrue
<1>5. log' = file' \/ log' = Merged(file', state')
  BY DEF EngineStarts
<1>6. /\ Merged(file', state') \in Seq(Rows)
      /\ Len(Merged(file', state')) <= Len(file') + Len(state')
      /\ AllTrue(Merged(file', state'), tickets, open)
  BY <1>4, MergedRows
<1>7. log' \in Seq(Rows) /\ Len(log') <= 2 * HistoryCap /\ AllTrue(log', tickets, open)
  BY <1>4, <1>5, <1>6, Caps DEF Capped
<1>8. UNCHANGED <<tickets, open, archived>>
  BY DEF EngineStarts, broker
<1>9. LedgerTypeOK'
  BY <1>4, <1>7, <1>8 DEF EngineStarts, LedgerTypeOK, LedgerInv, SnapType
<1>10. LogTrue'
  BY <1>4, <1>7, <1>8 DEF LogTrue
<1>11. Asked' /\ FreshShown' /\ TradesShown'
  BY DEF EngineStarts, Asked, FreshShown, TradesShown, Written
<1> QED BY <1>4, <1>9, <1>10, <1>11 DEF LedgerInv

(* The steps that write the log as it is.                                  *)
LEMMA WritesKeep ==
  LedgerInv /\ (EngineBoots \/ EngineEnds \/ PausedTick \/ Pause \/ Resume) => LedgerInv'
<1> SUFFICES ASSUME LedgerInv, EngineBoots \/ EngineEnds \/ PausedTick \/ Pause \/ Resume
             PROVE  LedgerInv'
  OBVIOUS
<1> USE DEF local, broker
<1>1. UNCHANGED broker /\ log' = log /\ Save(log) /\ UNCHANGED fresh
  BY DEF EngineBoots, EngineEnds, PausedTick, Pause, Resume
<1>2. BrokerMoves
  BY <1>1, BrokerStays
<1>3. LocalTyped /\ engineAt' # "entering"
  BY <1>1 DEF LocalTyped, EngineBoots, EngineEnds, PausedTick, Pause, Resume, LedgerInv, LedgerTypeOK
<1> QED BY <1>1, <1>2, <1>3, SaveKeeps

LEMMA ExpiryKeeps ==
  LedgerInv /\ (Crash \/ StateExpires \/ SnapshotExpires) => LedgerInv'
<1> SUFFICES ASSUME LedgerInv, Crash \/ StateExpires \/ SnapshotExpires PROVE LedgerInv'
  OBVIOUS
<1> USE DEF local, broker, ghosts
<1>0. <<>> \in Seq(Rows) /\ Nothing \in SnapType
  BY DEF SnapType
<1>1. /\ UNCHANGED <<paused, log, rested, work, changed, open, tickets, archived, fresh>>
      /\ engineAt' \in {engineAt, "down"}
      /\ file' \in {file, <<>>} /\ state' \in {state, <<>>}
      /\ UNCHANGED <<snap, reached>> \/ (snap' = Nothing /\ reached' = FALSE /\ engineAt' = engineAt)
  BY DEF Crash, StateExpires, SnapshotExpires
<1>2. BrokerMoves
  BY <1>1, BrokerStays
<1>3. LedgerTypeOK'
  BY <1>0, <1>1 DEF LedgerInv, LedgerTypeOK
<1>4. Asked' /\ FreshShown' /\ TradesShown'
  BY <1>1 DEF LedgerInv, Asked, FreshShown, TradesShown, Written, Unclosed, ViaRedis
<1>5. AllTrue(log', tickets', open')
  BY <1>1 DEF LedgerInv, LogTrue
<1> QED BY <1>1, <1>2, <1>3, <1>4, <1>5, UnpublishedKeeps

LEMMA ListedOpen == \A r \in Reports : Listed(r) \subseteq open
BY DEF Listed

LEMMA UnclosedTickets ==
  ASSUME LedgerInv
  PROVE  Unclosed \subseteq 1 .. tickets
<1> SUFFICES ASSUME NEW i \in DOMAIN log PROVE log[i].ticket \in 1 .. tickets
  BY DEF Unclosed
<1>1. log[i] \in Rows /\ RowTrue(log[i], tickets, open)
  BY DEF LedgerInv, LedgerTypeOK, LogTrue, AllTrue
<1> QED BY <1>1, RowFields, Caps DEF RowTrue, Ticket, LedgerInv, LedgerTypeOK

(* Steps in the engine that publish nothing and leave the log alone.       *)
LEMMA LedgerQuiet ==
  ASSUME LedgerInv, BrokerMoves, UNCHANGED <<published, log, reached, fresh>>,
         LedgerTypeOK', Asked',
         engineAt' # "entering",
         Written(engineAt', changed') => Written(engineAt, changed)
  PROVE  LedgerInv'
<1> USE DEF published
<1>1. AllTrue(log', tickets', open')
  BY RowsStayTrue, SnapNow DEF LedgerInv, LogTrue
<1>2. FreshShown' /\ TradesShown'
  BY DEF LedgerInv, FreshShown, TradesShown, ViaRedis
<1> QED BY <1>1, <1>2, UnpublishedKeeps

LEMMA ReconcileKeeps == LedgerInv /\ ReconcileStarts => LedgerInv'
<1> SUFFICES ASSUME LedgerInv, ReconcileStarts PROVE LedgerInv'
  OBVIOUS
<1> USE DEF published, broker, ghosts
<1>1. PICK r \in Reports :
        /\ work' = Candidates(r)
        /\ engineAt' = IF Candidates(r) = {} THEN "bars" ELSE "histories"
  BY DEF ReconcileStarts
<1>2. BrokerMoves
  BY BrokerStays DEF ReconcileStarts
<1>3. work' \subseteq Unclosed /\ Unclosed' = Unclosed /\ work' \subseteq 1 .. tickets
  BY <1>1, UnclosedTickets DEF ReconcileStarts, Candidates, Unclosed
<1>4. LedgerTypeOK'
  BY <1>1, <1>3 DEF ReconcileStarts, LedgerInv, LedgerTypeOK
<1>5. Asked'
  BY <1>3 DEF Asked
<1> QED BY <1>1, <1>2, <1>4, <1>5, LedgerQuiet DEF ReconcileStarts, Written

LEMMA MinuteKeeps ==
  ASSUME LedgerInv, NEW t \in Ticket, MinutePasses(t)
  PROVE  LedgerInv'
<1> USE DEF published, broker, ghosts
<1>1. BrokerMoves
  BY BrokerStays DEF MinutePasses
<1>2. LedgerTypeOK' /\ Asked'
  BY DEF MinutePasses, LedgerInv, LedgerTypeOK, Asked, Unclosed
<1> QED BY <1>1, <1>2, UnpublishedKeeps
        DEF MinutePasses, LedgerInv, LogTrue, FreshShown, TradesShown, ViaRedis

LEMMA BrokerKeeps == LedgerInv /\ (PositionCloses \/ Archive) => LedgerInv'
<1> SUFFICES ASSUME LedgerInv, PositionCloses \/ Archive PROVE LedgerInv'
  OBVIOUS
<1> USE DEF local, published, ghosts
<1>0. /\ tickets \in 0 .. MaxTickets /\ open \subseteq 1 .. tickets
      /\ archived \subseteq (1 .. tickets) \ open
  BY DEF LedgerInv, LedgerTypeOK
<1>1. BrokerMoves
  <2>1. tickets' = tickets /\ open' \subseteq open
    BY DEF PositionCloses, Archive
  <2>2. archived' \in {archived, (1 .. tickets) \ open'}
    BY DEF PositionCloses, Archive
  <2> QED BY <1>0, <2>1, <2>2, Caps DEF BrokerMoves
<1>2. /\ UNCHANGED <<engineAt, local, published, ghosts>>
      /\ tickets' = tickets /\ open' \subseteq open
  BY DEF PositionCloses, Archive
<1>3. LedgerTypeOK' /\ Asked'
  BY <1>1, <1>2 DEF BrokerMoves, LedgerInv, LedgerTypeOK, Asked, Unclosed
<1>4. AllTrue(log', tickets', open')
  BY <1>1, <1>2, RowsStayTrue, SnapNow DEF LedgerInv, LogTrue
<1> QED BY <1>1, <1>2, <1>3, <1>4, UnpublishedKeeps
        DEF LedgerInv, FreshShown, TradesShown, ViaRedis

-----------------------------------------------------------------------------
(***************************************************************************)
(* A history that is read closes the first entry of its trade.             *)
(***************************************************************************)
LEMMA TurnType ==
  ASSUME LedgerInv, engineAt \in {"histories", "closing"}
  PROVE  Turn \in work /\ Turn \in 1 .. tickets /\ Turn \in Ticket
<1>1. work \subseteq 1 .. tickets /\ work # {} /\ tickets \in 0 .. MaxTickets
  BY DEF LedgerInv, LedgerTypeOK
<1>2. \E x \in work : \A y \in work : x <= y
  <2>1. work \subseteq Nat
    BY <1>1
  <2> QED BY <1>1, <2>1, NatMin
<1>3. Turn \in work
  BY <1>2, Zenon DEF Turn, Min
<1> QED BY <1>1, <1>3, Caps DEF Ticket

UnclosedEntry(i, t) == log[i].ticket = t /\ log[i].kind = "entry" /\ ~ IsClosed(log[i])

LEMMA EntryFound ==
  ASSUME LedgerInv, NEW t \in Unclosed
  PROVE  EntryOf(t) \in DOMAIN log /\ UnclosedEntry(EntryOf(t), t)
<1> DEFINE T == {i \in DOMAIN log : UnclosedEntry(i, t)}
<1>1. T \subseteq Nat /\ T # {}
  BY DEF Unclosed, UnclosedEntry, LedgerInv, LedgerTypeOK
<1>2. PICK x \in T : \A y \in T : x <= y
  <2> HIDE DEF T
  <2> QED BY <1>1, NatMin
<1>3. x \in DOMAIN log /\ UnclosedEntry(x, t)
  OBVIOUS
<1>4. \A j \in 1 .. x - 1 : ~ UnclosedEntry(j, t)
  <2> SUFFICES ASSUME NEW j \in 1 .. x - 1, UnclosedEntry(j, t) PROVE FALSE
    OBVIOUS
  <2>1. j \in DOMAIN log
    BY <1>3 DEF LedgerInv, LedgerTypeOK
  <2>2. x <= j
    BY <1>2, <2>1
  <2>3. x \in Nat /\ j \in Nat /\ j <= x - 1
    BY <1>1
  <2> QED BY <2>2, <2>3
<1> HIDE DEF T
<1> DEFINE First(i) == /\ log[i].ticket = t /\ log[i].kind = "entry" /\ ~ IsClosed(log[i])
                       /\ \A j \in 1 .. i - 1 :
                            ~ (log[j].ticket = t /\ log[j].kind = "entry" /\ ~ IsClosed(log[j]))
<1>5. x \in DOMAIN log /\ First(x)
  BY <1>3, <1>4 DEF UnclosedEntry
<1>6. EntryOf(t) = CHOOSE i \in DOMAIN log : First(i)
  BY DEF EntryOf
<1>7. EntryOf(t) \in DOMAIN log /\ First(EntryOf(t))
  <2> HIDE DEF First
  <2> QED BY <1>5, <1>6
<1> QED BY <1>7 DEF UnclosedEntry

LEMMA CloseTrue ==
  ASSUME LedgerInv, engineAt = "histories", NEW a \in Answers, Closes(Turn, a)
  PROVE  /\ WithClose(Turn, a) \in Seq(Rows)
         /\ Len(WithClose(Turn, a)) = Len(log)
         /\ AllTrue(WithClose(Turn, a), tickets, open)
         /\ \A i \in DOMAIN log : log[i].ticket # Turn => WithClose(Turn, a)[i] = log[i]
         /\ DOMAIN WithClose(Turn, a) = DOMAIN log
<1> DEFINE e == EntryOf(Turn)
           h == WithClose(Turn, a)
<1>1. Turn \in Unclosed /\ Turn \in Ticket /\ Turn \in 1 .. tickets
  BY TurnType DEF LedgerInv, Asked
<1>2. e \in DOMAIN log /\ UnclosedEntry(e, Turn)
  BY <1>1, EntryFound
<1>3. Record(Turn, a) = Turn /\ Turn \in archived
  BY DEF Closes, Record, Answers
<1>4. Turn \notin open
  BY <1>3 DEF LedgerInv, LedgerTypeOK
<1>5. h = [log EXCEPT ![e].result = Turn]
  BY <1>3 DEF WithClose
<1> HIDE DEF e, h
<1>6. log \in Seq(Rows) /\ log[e] \in Rows /\ log[e].ticket = Turn
  BY <1>2 DEF LedgerInv, LedgerTypeOK, UnclosedEntry
<1> DEFINE row == [log[e] EXCEPT !.result = Turn]
<1>7. row \in Rows /\ row.ticket = Turn /\ row.result = Turn
  BY <1>1, <1>6 DEF Rows
<1> HIDE DEF row
<1>8. h = [log EXCEPT ![e] = row]
  BY <1>5 DEF row
<1>9. /\ h \in Seq(Rows) /\ Len(h) = Len(log) /\ DOMAIN h = DOMAIN log
      /\ \A i \in DOMAIN log : h[i] = IF i = e THEN row ELSE log[i]
  BY <1>2, <1>6, <1>7, <1>8
<1>10. RowTrue(row, tickets, open)
  BY <1>1, <1>4, <1>7 DEF RowTrue
<1>11. AllTrue(h, tickets, open)
  BY <1>9, <1>10 DEF AllTrue, LedgerInv, LogTrue
<1> QED BY <1>6, <1>9, <1>11 DEF h

LEMMA HistoryKeeps == LedgerInv /\ HistoryRead => LedgerInv'
<1> SUFFICES ASSUME LedgerInv, HistoryRead PROVE LedgerInv'
  OBVIOUS
<1>1. engineAt = "histories" /\ UNCHANGED <<paused, open, tickets, archived, fresh>>
  BY DEF HistoryRead, broker
<1>2. BrokerMoves
  BY <1>1, BrokerStays DEF broker
<1>3. Turn \in work /\ Turn \in Ticket /\ work \subseteq 1 .. tickets
  BY <1>1, TurnType DEF LedgerInv, LedgerTypeOK
<1>4. PICK a \in Answers :
        IF Closes(Turn, a)
        THEN log' = WithClose(Turn, a) /\ changed' = TRUE
        ELSE UNCHANGED <<log, changed>>
  BY DEF HistoryRead
<1>5. /\ log' \in Seq(Rows) /\ Len(log') <= 2 * HistoryCap /\ AllTrue(log', tickets, open)
      /\ \A i \in DOMAIN log : i \in DOMAIN log' /\ (log[i].ticket # Turn => log'[i] = log[i])
      /\ changed' \in BOOLEAN /\ (~ changed' => UNCHANGED <<log, changed>>)
  <2>1. CASE Closes(Turn, a)
    BY <1>1, <1>4, <2>1, CloseTrue, SnapNow
  <2>2. CASE ~ Closes(Turn, a)
    BY <1>4, <2>2, SnapNow DEF LedgerInv, LogTrue, LedgerTypeOK
  <2> QED BY <2>1, <2>2
<1>6. work' = work \ {Turn} /\ rested' = rested \cup {Turn}
  BY DEF HistoryRead, WorkLeft
<1>7. rested' \subseteq Ticket
  BY <1>3, <1>6 DEF LedgerInv, LedgerTypeOK
<1>8. CASE work' = {} /\ changed'
  <2>1. engineAt' = "bars" /\ Published(log', snap, reached)
    BY <1>8, <1>6 DEF HistoryRead, WorkLeft, PublishCloses, Save
  <2>2. LocalTyped
    BY <1>1, <1>3, <1>5, <1>6, <1>7, <2>1 DEF LocalTyped, LedgerInv, LedgerTypeOK
  <2> QED BY <1>1, <1>2, <1>5, <2>1, <2>2, SnapNow, PublishedKeeps
<1>9. CASE ~ (work' = {} /\ changed')
  <2>1. /\ UNCHANGED <<published, reached>>
        /\ engineAt' = IF work' = {} THEN "bars" ELSE "histories"
    BY <1>1, <1>9, <1>6 DEF HistoryRead, WorkLeft
  <2>2. LedgerTypeOK'
    BY <1>1, <1>3, <1>5, <1>6, <1>7, <2>1 DEF LedgerInv, LedgerTypeOK, published
  <2>3. ASSUME NEW t \in work' PROVE t \in Unclosed'
    <3>1. t \in Unclosed /\ t # Turn
      BY <1>1, <1>6 DEF LedgerInv, Asked
    <3>2. PICK i \in DOMAIN log : UnclosedEntry(i, t)
      BY <3>1 DEF Unclosed, UnclosedEntry
    <3>3. i \in DOMAIN log' /\ log'[i] = log[i]
      BY <3>1, <3>2, <1>5 DEF UnclosedEntry
    <3> QED BY <3>2, <3>3 DEF Unclosed, UnclosedEntry
  <2>4. Asked'
    BY <2>3 DEF Asked
  <2>5. FreshShown'
    BY <1>1, <2>1 DEF LedgerInv, FreshShown, ViaRedis, published
  <2>6. TradesShown'
    BY <1>1, <1>5, <1>9, <2>1 DEF LedgerInv, TradesShown, Written, ViaRedis, published
  <2> QED BY <1>1, <1>2, <1>5, <2>1, <2>2, <2>4, <2>5, <2>6, UnpublishedKeeps DEF published
<1> QED BY <1>8, <1>9

-----------------------------------------------------------------------------
(***************************************************************************)
(* Bars, entries and CLOSE_ALL.                                            *)
(***************************************************************************)
LEMMA NewSnapshot ==
  ASSUME LedgerInv, NEW r \in Reports
  PROVE  /\ BarSnapshot(r) \in SnapType
         /\ SnapOrEmpty(BarSnapshot(r)).trades = LastOf(log, PanelCap)
<1>1. Listed(r) \in SUBSET Ticket
  <2>1. Listed(r) \subseteq open
    BY ListedOpen
  <2>2. open \subseteq 1 .. tickets /\ tickets \in 0 .. MaxTickets
    BY DEF LedgerInv, LedgerTypeOK
  <2>3. 1 .. tickets \subseteq Ticket
    BY <2>2, Caps DEF Ticket
  <2> QED BY <2>1, <2>2, <2>3, Zenon
<1>2. LastOf(log, PanelCap) \in Seq(Rows)
  BY LastOfRows, SnapNow, Caps
<1>3. BarSnapshot(r) \in Snapshots
  BY <1>1, <1>2 DEF BarSnapshot, Snapshots
<1>4. SnapOrEmpty(BarSnapshot(r)) = BarSnapshot(r)
  BY <1>3, NothingAssumption DEF SnapOrEmpty
<1> QED BY <1>3, <1>4 DEF SnapType, BarSnapshot

LEMMA NewRow ==
  ASSUME NEW t \in Ticket, NEW kind \in {"entry", "trailed", "close_all"}
  PROVE  Row(t, kind) \in Rows /\ Row(t, kind).ticket = t /\ ~ IsClosed(Row(t, kind))
BY DEF Row, Rows, IsClosed

LEMMA NoBarKeeps == LedgerInv /\ NoBar => LedgerInv'
<1> SUFFICES ASSUME LedgerInv, NoBar PROVE LedgerInv'
  OBVIOUS
<1> USE DEF published, broker
<1>1. BrokerMoves
  BY BrokerStays DEF NoBar
<1>2. LocalTyped
  BY DEF NoBar, TickEnds, LocalTyped, LedgerInv, LedgerTypeOK
<1>3. CASE Save(log)
  BY <1>1, <1>2, <1>3, SaveKeeps DEF NoBar, TickEnds
<1>4. CASE UNCHANGED <<published, reached>>
  <2>1. LedgerTypeOK' /\ Asked'
    BY <1>4 DEF NoBar, TickEnds, LedgerInv, LedgerTypeOK, Asked
  <2> QED BY <1>1, <1>4, <2>1, LedgerQuiet DEF NoBar, TickEnds, Written
<1> QED BY <1>3, <1>4 DEF NoBar

LEMMA RefusedKeeps == LedgerInv /\ BarRefused => LedgerInv'
<1> SUFFICES ASSUME LedgerInv, BarRefused PROVE LedgerInv'
  OBVIOUS
<1>1. PICK r \in Reports, m \in BOOLEAN :
        Published(log, IF m THEN snap ELSE BarSnapshot(r), ~ m)
  BY DEF BarRefused, Missed
<1> DEFINE s == IF m THEN snap ELSE BarSnapshot(r)
<1>2. s \in SnapType
  BY NewSnapshot, SnapNow
<1>3. BrokerMoves
  BY BrokerStays DEF BarRefused
<1>4. LocalTyped /\ log' = log /\ fresh' = {}
  BY DEF BarRefused, TickEnds, LocalTyped, LedgerInv, LedgerTypeOK
<1>5. Published(log', s, ~ m) /\ (~ m) \in BOOLEAN
  BY <1>1, <1>4
<1> HIDE DEF s
<1>6. AllTrue(log', tickets', open')
  BY <1>3, <1>4, RowsStayTrue, SnapNow DEF LedgerInv, LogTrue
<1>7. log' \in Seq(Rows) /\ Len(log') <= 2 * HistoryCap /\ fresh' \subseteq 1 .. tickets'
  BY <1>4, SnapNow
<1> QED BY <1>2, <1>3, <1>4, <1>5, <1>6, <1>7, PublishedKeeps

LEMMA EntersKeeps == LedgerInv /\ BarEnters => LedgerInv'
<1> SUFFICES ASSUME LedgerInv, BarEnters PROVE LedgerInv'
  OBVIOUS
<1> USE DEF local, broker
<1>1. PICK r \in Reports, m \in BOOLEAN :
        /\ snap' = IF m THEN snap ELSE BarSnapshot(r)
        /\ reached' = ~ m /\ fresh' = {}
  BY DEF BarEnters, Missed
<1>2. BrokerMoves
  BY BrokerStays DEF BarEnters
<1>3. snap' \in SnapType /\ reached' \in BOOLEAN
  BY <1>1, NewSnapshot, SnapNow
<1>4. LedgerTypeOK'
  BY <1>1, <1>3 DEF BarEnters, LedgerInv, LedgerTypeOK, SnapType
<1>5. Asked' /\ FreshShown'
  BY <1>1 DEF BarEnters, Asked, FreshShown
<1>6. ASSUME reached' PROVE ShowsIn(log', ViaRedis'.trades)
  <2>1. SnapOrEmpty(snap').trades = LastOf(log, PanelCap) /\ log' = log
    BY <1>1, <1>6, NewSnapshot DEF BarEnters
  <2> QED BY <2>1, PanelRows, SnapNow DEF ViaRedis
<1>7. AllTrue(log', tickets', open')
  BY DEF BarEnters, LedgerInv, LogTrue
<1> QED BY <1>2, <1>4, <1>5, <1>6, <1>7, UnpublishedKeeps DEF BarEnters, TradesShown

LEMMA EntryKeeps == LedgerInv /\ EntryMade => LedgerInv'
<1> SUFFICES ASSUME LedgerInv, EntryMade PROVE LedgerInv'
  OBVIOUS
<1>0. /\ tickets \in 0 .. MaxTickets /\ open \subseteq 1 .. tickets
      /\ archived \subseteq (1 .. tickets) \ open
  BY DEF LedgerInv, LedgerTypeOK
<1>1. tickets' = tickets + 1 /\ tickets' \in Ticket /\ tickets' \in 0 .. MaxTickets
  BY <1>0, Caps DEF EntryMade, Ticket
<1>2. BrokerMoves
  <2>1. open' = open \cup {tickets + 1} /\ archived' = archived
    BY <1>1 DEF EntryMade
  <2> QED BY <1>0, <1>1, <2>1 DEF BrokerMoves
<1>3. LocalTyped
  BY DEF EntryMade, TickEnds, LocalTyped, LedgerInv, LedgerTypeOK
<1>4. /\ log' = Logged(Row(tickets', "entry")) /\ fresh = {}
      /\ fresh' = {tickets'} /\ engineAt' # "entering"
  BY DEF EntryMade, TickEnds, LedgerInv, FreshShown
<1>5. /\ Row(tickets', "entry") \in Rows /\ Row(tickets', "entry").ticket = tickets'
      /\ ~ IsClosed(Row(tickets', "entry"))
  BY <1>1, NewRow
<1>6. AllTrue(log, tickets', open')
  BY <1>2, RowsStayTrue, SnapNow DEF LedgerInv, LogTrue
<1>7. log' \in Seq(Rows) /\ Len(log') <= 2 * HistoryCap /\ AllTrue(log', tickets', open')
  <2>1. Row(tickets', "entry").ticket <= tickets'
    BY <1>0, <1>1, <1>5
  <2>2. /\ log' \in Seq(Rows) /\ Len(log') <= HistoryCap
        /\ AllTrue(log', tickets', open')
    BY <1>4, <1>5, <1>6, <2>1, LoggedRows, SnapNow
  <2> QED BY <2>2, Caps
<1>8. PICK m \in BOOLEAN :
        Published(log', IF m THEN snap ELSE EntrySnapshot(tickets'), reached /\ ~ m)
  BY DEF EntryMade, Missed
<1> DEFINE s == IF m THEN snap ELSE EntrySnapshot(tickets')
           ok == reached /\ ~ m
<1>9. /\ EntrySnapshot(tickets') \in Snapshots
      /\ SnapOrEmpty(EntrySnapshot(tickets')).positions = {tickets'}
  BY <1>1, SnapFields, SnapNow DEF EntrySnapshot
<1>10. s \in SnapType /\ ok \in BOOLEAN /\ (ok => fresh' \subseteq SnapOrEmpty(s).positions)
  BY <1>4, <1>9, SnapNow DEF SnapType
<1>11. Published(log', s, ok)
  BY <1>8
<1> HIDE DEF s, ok
<1>12. fresh' \subseteq 1 .. tickets'
  BY <1>0, <1>1, <1>4
<1> QED BY <1>2, <1>3, <1>4, <1>7, <1>10, <1>11, <1>12, PublishedKeeps

LEMMA FailsKeeps == LedgerInv /\ EntryFails => LedgerInv'
<1> SUFFICES ASSUME LedgerInv, EntryFails PROVE LedgerInv'
  OBVIOUS
<1>0. /\ tickets \in 0 .. MaxTickets /\ open \subseteq 1 .. tickets
      /\ archived \subseteq (1 .. tickets) \ open
  BY DEF LedgerInv, LedgerTypeOK
<1>1. BrokerMoves
  <2>1. CASE UNCHANGED <<tickets, open>>
    BY <1>0, <2>1, Caps DEF EntryFails, BrokerMoves
  <2>2. CASE tickets < MaxTickets /\ tickets' = tickets + 1 /\ open' = open \cup {tickets'}
    BY <1>0, <2>2, Caps DEF EntryFails, BrokerMoves
  <2> QED BY <2>1, <2>2 DEF EntryFails
<1>2. LocalTyped
  BY DEF EntryFails, TickEnds, LocalTyped, LedgerInv, LedgerTypeOK
<1>3. log' = log /\ Save(log) /\ UNCHANGED fresh /\ engineAt' # "entering"
  BY DEF EntryFails, TickEnds
<1> QED BY <1>1, <1>2, <1>3, SaveKeeps

LEMMA TrailKeeps == LedgerInv /\ TrailLogged => LedgerInv'
<1> SUFFICES ASSUME LedgerInv, TrailLogged PROVE LedgerInv'
  OBVIOUS
<1> USE DEF published, broker, ghosts
<1>1. PICK p \in open : log' = Logged(Row(p, "trailed"))
  BY DEF TrailLogged
<1>2. BrokerMoves /\ tickets' = tickets /\ open' = open
  BY BrokerStays DEF TrailLogged
<1>3. p \in Ticket /\ p <= tickets
  BY Caps DEF LedgerInv, LedgerTypeOK, Ticket
<1>4. /\ Row(p, "trailed") \in Rows /\ Row(p, "trailed").ticket <= tickets'
      /\ ~ IsClosed(Row(p, "trailed"))
  BY <1>2, <1>3, NewRow
<1>5. /\ log' \in Seq(Rows) /\ Len(log') <= HistoryCap
      /\ \A o : AllTrue(log, tickets', o) => AllTrue(log', tickets', o)
      /\ \A trades : ShowsIn(log, trades) => ShowsIn(log', trades)
  BY <1>1, <1>4, LoggedRows, SnapNow
<1>6. AllTrue(log', tickets', open')
  BY <1>2, <1>5 DEF LedgerInv, LogTrue
<1>7. LedgerTypeOK'
  BY <1>5, Caps DEF TrailLogged, LedgerInv, LedgerTypeOK
<1>8. Asked' /\ FreshShown' /\ TradesShown'
  BY <1>5 DEF TrailLogged, Asked, FreshShown, TradesShown, Written, LedgerInv, ViaRedis
<1> QED BY <1>2, <1>6, <1>7, <1>8, UnpublishedKeeps DEF TrailLogged

LEMMA CloseAllKeeps == LedgerInv /\ CloseAllStarts => LedgerInv'
<1> SUFFICES ASSUME LedgerInv, CloseAllStarts PROVE LedgerInv'
  OBVIOUS
<1> USE DEF published, broker, ghosts
<1>1. PICK r \in Reports : Listed(r) # {} /\ work' = Listed(r)
  BY DEF CloseAllStarts
<1>2. BrokerMoves
  BY BrokerStays DEF CloseAllStarts
<1>3. work' # {} /\ work' \subseteq 1 .. tickets
  BY <1>1, ListedOpen DEF LedgerInv, LedgerTypeOK
<1>4. LedgerTypeOK' /\ Asked'
  BY <1>3 DEF CloseAllStarts, LedgerInv, LedgerTypeOK, Asked
<1> QED BY <1>2, <1>4, LedgerQuiet DEF CloseAllStarts, Written

LEMMA ClosedKeeps == LedgerInv /\ (CloseAcknowledged \/ CloseFails) => LedgerInv'
<1> SUFFICES ASSUME LedgerInv, CloseAcknowledged \/ CloseFails PROVE LedgerInv'
  OBVIOUS
<1> USE DEF published, broker, ghosts
<1>0. /\ tickets \in 0 .. MaxTickets /\ open \subseteq 1 .. tickets
      /\ archived \subseteq (1 .. tickets) \ open
  BY DEF LedgerInv, LedgerTypeOK
<1>1. Turn \in work /\ Turn \in Ticket /\ Turn <= tickets /\ engineAt = "closing"
  BY <1>0, TurnType DEF CloseAcknowledged, CloseFails
<1>2. BrokerMoves
  <2>1. tickets' = tickets /\ archived' = archived /\ open' \subseteq open
    BY DEF CloseAcknowledged, CloseFails
  <2> QED BY <1>0, <2>1 DEF BrokerMoves
<1>3. LocalTyped /\ engineAt' \in {"served", "closing"} /\ tickets' = tickets
  BY DEF CloseAcknowledged, CloseFails, NextClose, WorkLeft, LocalTyped, LedgerInv, LedgerTypeOK
<1>4. CASE CloseAcknowledged
  <2>1. log' = Logged(Row(Turn, "close_all")) /\ Published(log', snap, reached) /\ UNCHANGED fresh
    BY <1>4 DEF CloseAcknowledged, Save
  <2>2. /\ Row(Turn, "close_all") \in Rows /\ Row(Turn, "close_all").ticket <= tickets'
        /\ ~ IsClosed(Row(Turn, "close_all"))
    BY <1>1, <1>3, NewRow
  <2>3. AllTrue(log, tickets', open')
    BY <1>2, RowsStayTrue, SnapNow DEF LedgerInv, LogTrue
  <2>4. log' \in Seq(Rows) /\ Len(log') <= HistoryCap /\ AllTrue(log', tickets', open')
    BY <2>1, <2>2, <2>3, LoggedRows, SnapNow
  <2>5. Len(log') <= 2 * HistoryCap
    BY <2>4, Caps
  <2> QED BY <1>2, <1>3, <2>1, <2>4, <2>5, SnapNow, PublishedKeeps
<1>5. CASE CloseFails
  <2>1. LedgerTypeOK' /\ Asked'
    BY <1>2, <1>3, <1>5 DEF CloseFails, LocalTyped, BrokerMoves, LedgerInv, LedgerTypeOK, Asked
  <2> QED BY <1>1, <1>2, <1>3, <1>5, <2>1, LedgerQuiet DEF CloseFails, Written
<1> QED BY <1>4, <1>5

LEMMA LedgerStep == LedgerInv /\ [LedgerNext]_ledgerVars => LedgerInv'
<1> SUFFICES ASSUME LedgerInv, [LedgerNext]_ledgerVars PROVE LedgerInv'
  OBVIOUS
<1>1. CASE UNCHANGED ledgerVars
  BY <1>1 DEF ledgerVars, local, published, broker, ghosts, LedgerInv, LedgerTypeOK, LogTrue,
              Capped, Asked, Unclosed, FreshShown, TradesShown, ViaRedis
<1>2. CASE LedgerNext
  BY <1>2, StartsKeeps, WritesKeep, ExpiryKeeps, ReconcileKeeps, MinuteKeeps, BrokerKeeps,
     HistoryKeeps, NoBarKeeps, RefusedKeeps, EntersKeeps, EntryKeeps, FailsKeeps, TrailKeeps,
     CloseAllKeeps, ClosedKeeps
     DEF LedgerNext
<1> QED BY <1>1, <1>2

LEMMA LedgerAlways == LedgerSpec => []LedgerInv
BY LedgerStarts, LedgerStep, PTL DEF LedgerSpec

-----------------------------------------------------------------------------
(* Types, with the log and its copies within their caps.                   *)
THEOREM LedgerTypes == LedgerSpec => []LedgerTypeOK
<1>1. LedgerInv => LedgerTypeOK
  BY DEF LedgerInv
<1> QED BY <1>1, LedgerAlways, PTL

(* A close is recorded only with the broker's own record of that trade,    *)
(* through misread reports, crashes, and logs that are trimmed, lost,      *)
(* merged and read back (live_loop.py, _reconcile_closed_trades).          *)
THEOREM ClosesAreEvidenced == LedgerSpec => []ClosedWithEvidence
<1>1. LedgerInv => ClosedWithEvidence
  BY DEF LedgerInv, LogTrue, AllTrue, RowTrue, ClosedWithEvidence
<1> QED BY <1>1, LedgerAlways, PTL

(* While Redis takes the writes, the panel is shown a position as soon as  *)
(* the tick that opened it is over (redis_update_snapshot_positions).      *)
THEOREM NewPositionsShown == LedgerSpec => []NewPositionShown
<1>1. LedgerInv => NewPositionShown
  BY DEF LedgerInv, FreshShown, NewPositionShown
<1> QED BY <1>1, LedgerAlways, PTL

(* While Redis takes the writes, it is shown a close as soon as the tick   *)
(* that learned of it is over (redis_update_snapshot_trades).              *)
THEOREM ClosesAlwaysShown == LedgerSpec => []ClosesShown
<1>1. LedgerInv => ClosesShown
  BY DEF LedgerInv, TradesShown, Written, ShowsIn, ClosesShown
<1> QED BY <1>1, LedgerAlways, PTL
=============================================================================
