------------------------------ MODULE EntryGate ------------------------------
(***************************************************************************)
(* How the engine opens a position: the tick of _run_loop that polls the   *)
(* timeframes for completed bars, the handler _on_new_bar with its gates   *)
(* and its two looks at the open positions, the order, and the trade log   *)
(* the gates read, with its copies in STATE_FILE and Redis.                *)
(*                                                                         *)
(* pc is where the engine's coroutine waits:                               *)
(*   down     no engine             confirm  second look at the positions  *)
(*   connect  bridge connection     sent     order under way, not executed *)
(*   idle     between ticks         filled   order executed, answer under  *)
(*   bars     first look of a bar            way                           *)
(* From one such point to the next nothing else touches this state, so     *)
(* each step is one action.  What stops a bar before its first look        *)
(* (candles, account, guardian: see RobotHalt) is BarSkipped.              *)
(*                                                                         *)
(* Time is counted in units of the shortest timeframe; a bar is named by   *)
(* the time it opened.                                                     *)
(***************************************************************************)
EXTENDS Integers, Sequences, FiniteSets

CONSTANTS
  Timeframes,          \* lengths of TRADE_TIMEFRAMES, highest first
  Directions, Regimes, \* what a signal may say
  DayLength, StaleAfter,
  MaxOpen, MaxRange,   \* MAX_OPEN_TRADES, MAX_RANGE_TRADES_PER_SESSION
  HistoryCap,          \* MAX_TRADE_HISTORY
  Bridges,             \* the sets of faults a bridge may have
  MayMiss,             \* the copies a save may miss
  MaxTime, MaxTickets, MaxRows \* bounds: clock, orders executed, audit rows

ASSUME TimeframesAssumption ==
  /\ Timeframes \in Seq(Nat \ {0})
  /\ \A i, j \in DOMAIN Timeframes : i <= j => Timeframes[i] >= Timeframes[j]
  /\ DayLength \in Nat \ {0}
  /\ StaleAfter \in Nat
  /\ \A i \in DOMAIN Timeframes : StaleAfter >= 2 * Timeframes[i]

ASSUME GateAssumption ==
  /\ MaxOpen \in Nat \ {0} /\ MaxRange \in Nat \ {0} /\ HistoryCap \in Nat \ {0}
  /\ MayMiss \subseteq {"file", "redis"}
  /\ MaxTime \in Nat /\ MaxTickets \in Nat /\ MaxRows \in Nat

(* lag: a position opened in this tick may be missing from a report.       *)
(* lost: an order may be executed and its answer still be an error.        *)
ASSUME BridgesAssumption == Bridges \subseteq SUBSET {"lag", "lost"}

VARIABLES
  pc,
  queue,     \* the bars of this tick still to be handled
  seen,      \* _last_bar_times, by timeframe
  opened,    \* _trade_opened_this_tick
  last,      \* _last_entry_bar_time and _last_entry_direction
  signal,    \* the decision of the bar in hand
  log,       \* trade_history
  file, redis, \* recent_trades of STATE_FILE and of the Redis state key
  positions, \* the tickets open at the broker
  fresh,     \* those opened since the tick began
  tickets,   \* how many orders the broker has executed
  bridge,    \* its faults
  now,
  entries,   \* history: the entries the engine knows it made
  born       \* history: how many of them earlier engines made

engine == <<queue, seen, opened, last, signal, log>>
copies == <<file, redis>>
broker == <<positions, fresh, tickets, bridge>>
past   == <<entries, born>>
vars   == <<pc, engine, copies, broker, now, past>>

Choppy   == {"RANGE", "ACCUMULATION", "DISTRIBUTION", "HIGH_VOLATILITY"}
Signals  == [dir : Directions, regime : Regimes]
Bars     == [tf : DOMAIN Timeframes, bar : Int]
NoEntry  == [dir |-> "none", bar |-> 0]
NoSignal == [dir |-> "none", regime |-> "none"]

(* A row of the log: an entry, or an audit row of a trailed or closed      *)
(* position, which carries no regime and no lot.                           *)
EntryRow(t, s, b) == [ticket |-> t, regime |-> s.regime, bar |-> b]
AuditRow(t)       == [ticket |-> t, regime |-> "audit", bar |-> 0]
Rows == [ticket : Nat, regime : Regimes \cup {"audit"}, bar : Int]

Day(b)   == b \div DayLength
Entry    == [tf : DOMAIN Timeframes, bar : Int, dir : Directions, regime : Regimes]

TypeOK ==
  /\ pc \in {"down", "connect", "idle", "bars", "confirm", "sent", "filled"}
  /\ queue \in Seq(Bars)
  /\ pc \in {"bars", "confirm", "sent", "filled"} => queue # <<>>
  /\ seen \in [DOMAIN Timeframes -> Int]
  /\ opened \in BOOLEAN
  /\ last \in [dir : Directions, bar : Int] \cup {NoEntry}
  /\ pc \in {"confirm", "sent", "filled"} => signal \in Signals
  /\ log \in Seq(Rows) /\ Len(log) <= 2 * HistoryCap
  /\ file \in Seq(Rows) /\ redis \in Seq(Rows)
  /\ fresh \subseteq positions /\ positions \subseteq 1..tickets
  /\ tickets \in 0..MaxTickets
  /\ bridge \in Bridges
  /\ now \in 0..MaxTime
  /\ entries \in Seq(Entry) /\ born \in 0..Len(entries)

(* Bars older than any report: a cached bar that the staleness guard       *)
(* always refuses, and "none seen yet".                                    *)
CachedBar == -StaleAfter - 1
NoneSeen  == CachedBar - 1

Init ==
  /\ pc = "down"
  /\ queue = <<>> /\ seen = [i \in DOMAIN Timeframes |-> NoneSeen]
  /\ opened = FALSE /\ last = NoEntry /\ signal = NoSignal /\ log = <<>>
  /\ file = <<>> /\ redis = <<>>
  /\ positions = {} /\ fresh = {} /\ tickets = 0 /\ bridge \in Bridges
  /\ now = 0 /\ entries = <<>> /\ born = 0

-----------------------------------------------------------------------------
(***************************************************************************)
(* The trade log and its copies.                                           *)
(***************************************************************************)
LastRows(h) ==
  IF Len(h) > HistoryCap THEN SubSeq(h, Len(h) - HistoryCap + 1, Len(h)) ELSE h

Logged(row) == LastRows(Append(log, row))

(* _write_state: recent_trades replaces what either copy held.             *)
Save(h) ==
  /\ file'  \in {LastRows(h)} \cup (IF "file" \in MayMiss THEN {file} ELSE {})
  /\ redis' \in {LastRows(h)} \cup (IF "redis" \in MayMiss THEN {redis} ELSE {})

(* _load_trade_history: the file's rows, then the first row of every       *)
(* ticket only Redis has.                                                  *)
WithMissing(h, row) ==
  IF \E j \in DOMAIN h : h[j].ticket = row.ticket THEN h ELSE Append(h, row)

Merged(f, r) ==
  LET upTo[n \in 0 .. Len(r)] == IF n = 0 THEN f ELSE WithMissing(upTo[n - 1], r[n])
  IN  upTo[Len(r)]

-----------------------------------------------------------------------------
(***************************************************************************)
(* The engine's life.                                                      *)
(***************************************************************************)
(* A new engine writes STARTING with its empty log before it reads the log *)
(* back, with no await between the two.  A Redis that missed the write is  *)
(* read back only if the client's cooldown ends just then.                 *)
EngineStarts ==
  /\ pc = "down" /\ pc' = "connect"
  /\ Save(<<>>)
  /\ log' \in {file'} \cup (IF "redis" \in MayMiss THEN {Merged(file', redis')} ELSE {})
  /\ queue' = <<>> /\ seen' = [i \in DOMAIN Timeframes |-> NoneSeen]
  /\ opened' = FALSE /\ last' = NoEntry /\ signal' = NoSignal
  /\ fresh' = {} /\ born' = Len(entries)
  /\ UNCHANGED <<positions, tickets, bridge, now, entries>>

Connected ==
  /\ pc = "connect" /\ pc' = "idle"
  /\ UNCHANGED <<engine, copies, broker, now, past>>

(* A failed connection, a stop or an exception: the state is written.      *)
EngineEnds ==
  /\ pc # "down" /\ pc' = "down"
  /\ Save(log)
  /\ UNCHANGED <<engine, broker, now, past>>

(* The process dies, and with a new container its /tmp.                    *)
Crash ==
  /\ pc # "down" /\ pc' = "down"
  /\ file' \in {file, <<>>}
  /\ UNCHANGED <<engine, redis, broker, now, past>>

(* The state key lives five minutes beyond the last write.                 *)
RedisExpires ==
  /\ pc = "down" /\ redis # <<>> /\ redis' = <<>>
  /\ UNCHANGED <<pc, engine, file, broker, now, past>>

-----------------------------------------------------------------------------
(***************************************************************************)
(* A tick.                                                                 *)
(***************************************************************************)
LastBar(i) == (now \div Timeframes[i]) * Timeframes[i] - Timeframes[i]

Stale(b) == b < now - StaleAfter

(* What the bridge says of a timeframe's last completed bar: nothing, the  *)
(* bar, or one it had cached.                                              *)
BarReports ==
  LET bars == {NoneSeen, CachedBar} \cup {LastBar(i) : i \in DOMAIN Timeframes}
  IN  {r \in [DOMAIN Timeframes -> bars] :
         \A i \in DOMAIN Timeframes : r[i] \in {NoneSeen, CachedBar, LastBar(i)}}

IsNew(i, r) == r[i] # NoneSeen /\ ~Stale(r[i]) /\ r[i] > seen[i]

(* _check_new_bars: a stale bar is noted too, whatever was seen before it. *)
Seen(r) ==
  [i \in DOMAIN Timeframes |->
     IF r[i] # NoneSeen /\ (Stale(r[i]) \/ r[i] > seen[i]) THEN r[i] ELSE seen[i]]

(* The bars of one tick, highest timeframe first.                          *)
WithNew(bars, i, r) ==
  IF IsNew(i, r) THEN Append(bars, [tf |-> i, bar |-> r[i]]) ELSE bars

NewBars(r) ==
  LET upTo[n \in 0 .. Len(Timeframes)] == IF n = 0 THEN <<>> ELSE WithNew(upTo[n - 1], n, r)
  IN  upTo[Len(Timeframes)]

(* By the next tick the bridge has registered what the last one opened.    *)
Poll ==
  /\ pc = "idle"
  /\ opened' = FALSE /\ fresh' = {}
  /\ \E r \in BarReports :
       /\ seen' = Seen(r) /\ queue' = NewBars(r)
       /\ IF NewBars(r) = <<>>
          THEN pc' = "idle" /\ Save(log)
          ELSE pc' = "bars" /\ UNCHANGED copies
  /\ UNCHANGED <<last, signal, log, positions, tickets, bridge, now, past>>

(* The trailing stop of a position moved: a row in the log, saved with the *)
(* next write.                                                             *)
TrailLogged ==
  /\ pc = "idle"
  /\ Cardinality({i \in DOMAIN log : log[i].regime = "audit"}) < MaxRows
  /\ \E p \in positions : log' = Logged(AuditRow(p))
  /\ UNCHANGED <<pc, queue, seen, opened, last, signal, copies, broker, now, past>>

(* What OpenedOrders may list: a row may come corrupted at any time, and   *)
(* one that lags may be missing while its position is new.                 *)
PositionReports ==
  {r \in [positions -> {"good", "corrupt", "missing"}] :
     \A p \in positions : r[p] = "missing" => p \in fresh /\ "lag" \in bridge}

(* _known_open_tickets, by which _dedupe_positions repairs corrupted rows. *)
Known == {log[i].ticket : i \in {j \in DOMAIN log : log[j].regime # "audit"}}

Recognised(r)   == {p \in positions : r[p] = "good" \/ (r[p] = "corrupt" /\ p \in Known)}
Unidentified(r) == {p \in positions : r[p] = "corrupt" /\ p \notin Known}

-----------------------------------------------------------------------------
(***************************************************************************)
(* A bar.  Every early return of the handler ends the bar.                 *)
(***************************************************************************)
Bar == Head(queue)

BarDone ==
  /\ queue' = Tail(queue)
  /\ pc' = IF Tail(queue) = <<>> THEN "idle" ELSE "bars"
  /\ signal' = NoSignal

(* Too few candles, no account data, a halted guardian, an error instead   *)
(* of the positions, a refused signal, a gate: the bar ends with a write,  *)
(* except after too few candles.                                           *)
BarSkipped ==
  /\ pc \in {"bars", "confirm"}
  /\ BarDone
  /\ Save(log) \/ (pc = "bars" /\ UNCHANGED copies)
  /\ UNCHANGED <<seen, opened, last, log, broker, now, past>>

(* Faulty variant: rows nobody can identify count as a flat account. *)
PositionsAllowBlind(r) == Cardinality(Recognised(r)) < MaxOpen

(* Corrupted rows nobody can identify are no proof of a flat account.      *)
PositionsAllow(r) ==
  /\ Recognised(r) = {} => Unidentified(r) = {}
  /\ Cardinality(Recognised(r)) < MaxOpen

RangeEntries(h, b) ==
  {i \in DOMAIN h : h[i].regime = "RANGE" /\ Day(h[i].bar) = Day(b.bar)}

(* Faulty variant: one entry too many. *)
RangeAllowsOneMore(s, b) ==
  s.regime = "RANGE" => Cardinality(RangeEntries(log, b)) <= MaxRange

RangeAllows(s, b) ==
  s.regime = "RANGE" => Cardinality(RangeEntries(log, b)) < MaxRange

(* Faulty variant: a cooldown of one bar. *)
CoolingOneBar(s, b) ==
  /\ last.dir = s.dir /\ s.regime \in Choppy
  /\ b.bar - last.bar < Timeframes[b.tf]

Cooling(s, b) ==
  /\ last.dir = s.dir /\ s.regime \in Choppy
  /\ b.bar - last.bar < 2 * Timeframes[b.tf]

(* The first look and, with no await, the signal and the other gates.      *)
FirstLook ==
  /\ pc = "bars" /\ pc' = "confirm"
  /\ \E r \in PositionReports : PositionsAllow(r)
  /\ ~opened
  /\ signal' \in {s \in Signals : RangeAllows(s, Bar) /\ ~Cooling(s, Bar)}
  /\ UNCHANGED <<queue, seen, opened, last, log, copies, broker, now, past>>

(* The re-check asks for no diagnostics: unidentified rows do not count.   *)
SecondLookAllows(r) == Recognised(r) = {}

SecondLook ==
  /\ pc = "confirm" /\ pc' = "sent"
  /\ \E r \in PositionReports : SecondLookAllows(r)
  /\ UNCHANGED <<engine, copies, broker, now, past>>

-----------------------------------------------------------------------------
(***************************************************************************)
(* The order.  It is executed or rejected before a new engine connects.    *)
(***************************************************************************)
OrderExecuted ==
  /\ pc = "sent" /\ pc' = "filled"
  /\ tickets < MaxTickets
  /\ tickets' = tickets + 1
  /\ positions' = positions \cup {tickets + 1} /\ fresh' = fresh \cup {tickets + 1}
  /\ UNCHANGED <<bridge, engine, copies, now, past>>

EntryMade(b) ==
  /\ opened' = TRUE
  /\ last' = [dir |-> signal.dir, bar |-> b.bar]
  /\ log' = Logged(EntryRow(tickets, signal, b.bar))
  /\ Save(log')

OrderAcknowledged ==
  /\ pc = "filled"
  /\ EntryMade(Bar)
  /\ entries' = Append(entries, [tf |-> Bar.tf, bar |-> Bar.bar,
                                dir |-> signal.dir, regime |-> signal.regime])
  /\ BarDone
  /\ UNCHANGED <<seen, broker, now, born>>

(* A rejected order, or an executed one whose answer is an error: the      *)
(* handler treats them alike.                                              *)
OrderFails ==
  /\ pc = "sent" \/ (pc = "filled" /\ "lost" \in bridge)
  /\ BarDone
  /\ Save(log)
  /\ UNCHANGED <<seen, opened, last, log, broker, now, past>>

-----------------------------------------------------------------------------
(***************************************************************************)
(* Positions close by SL, TP, by hand, or by CLOSE_ALL, which logs a row   *)
(* for each position it closes and writes.                                 *)
(***************************************************************************)
Closed(p) == positions' = positions \ {p} /\ fresh' = fresh \ {p}

PositionCloses ==
  /\ \E p \in positions : Closed(p)
  /\ UNCHANGED <<pc, engine, copies, tickets, bridge, now, past>>

CloseAll ==
  /\ pc = "idle"
  /\ \E r \in PositionReports : \E p \in Recognised(r) :
       Closed(p) /\ log' = Logged(AuditRow(p))
  /\ Save(log')
  /\ UNCHANGED <<pc, queue, seen, opened, last, signal, tickets, bridge, now, past>>

(* Nothing reads the clock between two ticks, so it moves only there.      *)
Clock ==
  /\ pc \in {"down", "idle"} /\ now < MaxTime /\ now' = now + 1
  /\ UNCHANGED <<pc, engine, copies, broker, past>>

Next ==
  \/ EngineStarts \/ Connected \/ EngineEnds \/ Crash \/ RedisExpires
  \/ Poll \/ TrailLogged \/ CloseAll
  \/ BarSkipped \/ FirstLook \/ SecondLook
  \/ OrderExecuted \/ OrderAcknowledged \/ OrderFails
  \/ PositionCloses \/ Clock

Spec == Init /\ [][Next]_vars

-----------------------------------------------------------------------------
(***************************************************************************)
(* Properties.                                                             *)
(***************************************************************************)
(* The robot never has two positions open, whatever is corrupted, late,    *)
(* lost or restarted, as long as one bridge does not both lose answers and *)
(* lag: the purpose of both looks at the positions, of the flag of the     *)
(* tick, and of the refusal of rows that cannot be identified.             *)
OnePosition == \A p, q \in positions : p = q

RangeInDay(i, from) ==
  {j \in from..Len(entries) :
     entries[j].regime = "RANGE" /\ Day(entries[j].bar) = Day(entries[i].bar)}

(* Within one engine's life, and while its log has dropped no row, no UTC  *)
(* day gets more than MAX_RANGE_TRADES_PER_SESSION entries of regime RANGE *)
(* (_on_new_bar counts them in the log it trims, trails into and reloads). *)
RangeLimitInLife ==
  Len(log) < HistoryCap =>
    \A i \in born + 1 .. Len(entries) :
      Cardinality(RangeInDay(i, born + 1)) <= MaxRange

(* README.md: MAX_RANGE_TRADES_PER_SESSION is the number of "successful    *)
(* RANGE entries allowed per UTC session"; live_loop.py: "including        *)
(* entries restored from the persisted trade history, so a Render restart  *)
(* cannot reset the limit".                                                *)
RangeSessionLimit ==
  \A i \in DOMAIN entries : Cardinality(RangeInDay(i, 1)) <= MaxRange

(* In one engine's life, an entry of a choppy regime opens at least two of *)
(* its own bars after the entry before it when both go the same way, also  *)
(* when the two come from different timeframes (post-SL cooldown).         *)
CooldownKept ==
  \A i \in born + 2 .. Len(entries) :
    LET this == entries[i]
        before == entries[i - 1]
    IN  this.dir = before.dir /\ this.regime \in Choppy =>
          this.bar - before.bar >= 2 * Timeframes[this.tf]
=============================================================================
