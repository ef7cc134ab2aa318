------------------------------ MODULE TradeLedger ------------------------------
(***************************************************************************)
(* What becomes of a trade once it is open: the engine's log of it, how    *)
(* the exit is learned from the broker's history, and how both reach the   *)
(* panel.  The engine reconciles its log with OpenedOrders in every tick,  *)
(* asks HistoryPositions for each trade no longer listed, and publishes    *)
(* the log and the positions under two Redis keys the panel reads.         *)
(*                                                                         *)
(* engineAt is where the engine's coroutine waits:                         *)
(*   down       no engine           bars       the positions of a bar      *)
(*   boot       bridge connection   entering   the answer to an order      *)
(*   idle       between ticks       closing    a close of CLOSE_ALL        *)
(*   histories  a closed trade's    served     the trailing stop, after    *)
(*              history                        the commands of a tick      *)
(* Which bars may open a trade is EntryGate's subject and what the panel   *)
(* announces is PanelAlerts'; here any bar without positions may.          *)
(***************************************************************************)
EXTENDS Integers, Sequences, FiniteSetsExt

CONSTANTS
  HistoryCap,         \* MAX_TRADE_HISTORY
  PanelCap,           \* rows of the log in the snapshot
  MayMiss,            \* the copies a write may miss
  MaxTickets, MaxRows, \* bounds: orders executed, audit rows in the log
  Nothing             \* no such key, no such file

ASSUME LedgerAssumption ==
  /\ PanelCap \in Nat \ {0} /\ HistoryCap \in Nat /\ PanelCap <= HistoryCap
  /\ MayMiss \subseteq {"file", "redis"}
  /\ MaxTickets \in Nat /\ MaxRows \in Nat

VARIABLES
  engineAt, paused,
  log,        \* trade_history
  rested,     \* trades whose history was asked for within the last minute
  work,       \* trades still to be asked about, or positions still to be closed
  changed,    \* a close has been recorded in this tick
  file, state, \* recent_trades of STATE_FILE and of the Redis state key
  snap,       \* the Redis snapshot key
  open, tickets, archived, \* broker: open, ever opened, listed in the history
  fresh,      \* history: positions the engine opened since its last snapshot
  reached     \* history: every write of this engine's reached Redis

local      == <<paused, log, rested, work, changed>>
published  == <<file, state, snap>>
broker     == <<open, tickets, archived>>
ghosts     == <<fresh, reached>>
ledgerVars == <<engineAt, local, published, broker, ghosts>>

Ticket == 1..MaxTickets

(* A row of the log.  An entry is closed once it carries a result: the     *)
(* ticket whose history record it was filled from.  Audit rows have        *)
(* neither an entry price nor a lot.                                       *)
Row(t, kind) == [ticket |-> t, kind |-> kind, result |-> 0]
Rows == [ticket : Ticket, kind : {"entry", "trailed", "close_all"}, result : {0} \cup Ticket]

IsClosed(row) == row.result # 0

LastOf(h, n) == IF Len(h) > n THEN SubSeq(h, Len(h) - n + 1, Len(h)) ELSE h

(* log_trade *)
Logged(row) == LastOf(Append(log, row), HistoryCap)

(* A snapshot key made by an update alone has no account_info.             *)
Snapshots   == [full : BOOLEAN, positions : SUBSET Ticket, trades : Seq(Rows)]

ASSUME NothingAssumption == Nothing \notin Snapshots

LedgerTypeOK ==
  /\ engineAt \in {"down", "boot", "idle", "served", "histories", "bars", "entering", "closing"}
  /\ paused \in BOOLEAN /\ changed \in BOOLEAN /\ reached \in BOOLEAN
  /\ log \in Seq(Rows) /\ Len(log) <= 2 * HistoryCap
  /\ rested \subseteq Ticket /\ work \subseteq 1..tickets
  /\ engineAt \in {"histories", "closing"} => work # {}
  /\ file \in Seq(Rows) /\ state \in Seq(Rows)
  /\ snap \in Snapshots \cup {Nothing}
  /\ tickets \in 0..MaxTickets
  /\ open \subseteq 1..tickets /\ archived \subseteq (1..tickets) \ open
  /\ fresh \subseteq 1..tickets

LedgerInit ==
  /\ engineAt = "down" /\ paused = FALSE
  /\ log = <<>> /\ rested = {} /\ work = {} /\ changed = FALSE
  /\ file = <<>> /\ state = <<>> /\ snap = Nothing
  /\ open = {} /\ tickets = 0 /\ archived = {}
  /\ fresh = {} /\ reached = TRUE

-----------------------------------------------------------------------------
(***************************************************************************)
(* Publication.  Every write may miss its copy; one that misses Redis is   *)
(* noted in reached.                                                       *)
(***************************************************************************)
Missed(copy) == IF copy \in MayMiss THEN BOOLEAN ELSE {FALSE}

Empty == [full |-> FALSE, positions |-> {}, trades |-> <<>>]
SnapOrEmpty(s) == IF s = Nothing THEN Empty ELSE s

(* redis_update_snapshot_positions, redis_update_snapshot_trades: read,    *)
(* change one field, write; a missing key is made.                         *)
WithPositions(s, ps) == [SnapOrEmpty(s) EXCEPT !.positions = ps]
WithTrades(s, h)     == [SnapOrEmpty(s) EXCEPT !.trades = LastOf(h, PanelCap)]

(* write_robot_state: the state file, its mirror, and the trades of the    *)
(* snapshot unless the log is empty.  s is the snapshot as the engine      *)
(* leaves it before this write.                                            *)
Published(h, s, ok) ==
  \E f \in Missed("file"), r \in Missed("redis"), u \in Missed("redis") :
    /\ file'  = IF f THEN file ELSE LastOf(h, HistoryCap)
    /\ state' = IF r THEN state ELSE LastOf(h, HistoryCap)
    /\ snap'  = IF h = <<>> \/ u THEN s ELSE WithTrades(s, h)
    /\ reached' = (ok /\ ~r /\ (h = <<>> \/ ~u))

(* _write_state *)
Save(h) == Published(h, snap, reached)

(* _load_trade_history: the file's rows, then the first row of every       *)
(* ticket only Redis has.                                                  *)
WithMissing(h, row) ==
  IF \E j \in DOMAIN h : h[j].ticket = row.ticket THEN h ELSE Append(h, row)

Merged(f, r) ==
  LET upTo[n \in 0..Len(r)] == IF n = 0 THEN f ELSE WithMissing(upTo[n - 1], r[n])
  IN  upTo[Len(r)]

-----------------------------------------------------------------------------
(***************************************************************************)
(* The engine's life.                                                      *)
(***************************************************************************)
(* A new engine writes STARTING with its empty log before it loads the log *)
(* from the copies it has just replaced.                                   *)
EngineStarts ==
  /\ engineAt = "down" /\ engineAt' = "boot"
  /\ Published(<<>>, snap, TRUE)
  /\ log' \in {file'} \cup (IF "redis" \in MayMiss THEN {Merged(file', state')} ELSE {})
  /\ paused' = FALSE /\ rested' = {} /\ work' = {} /\ changed' = FALSE
  /\ fresh' = {}
  /\ UNCHANGED broker

EngineBoots ==
  /\ engineAt = "boot" /\ engineAt' = "idle"
  /\ Save(log)
  /\ UNCHANGED <<local, broker, fresh>>

(* A failed connection, a stop or an exception: the state is written.      *)
EngineEnds ==
  /\ engineAt # "down" /\ engineAt' = "down"
  /\ Save(log)
  /\ UNCHANGED <<local, broker, fresh>>

(* The process dies, and with a new container its /tmp.                    *)
Crash ==
  /\ engineAt # "down" /\ engineAt' = "down"
  /\ file' \in {file, <<>>}
  /\ UNCHANGED <<local, state, snap, broker, ghosts>>

(* Each key lives five minutes beyond its last write.  Every tick writes   *)
(* the state; it renews the snapshot too, unless the log is empty.         *)
StateExpires ==
  /\ engineAt = "down" \/ "redis" \in MayMiss
  /\ state # <<>> /\ state' = <<>>
  /\ UNCHANGED <<engineAt, local, file, snap, broker, ghosts>>

SnapshotExpires ==
  /\ engineAt = "down" \/ "redis" \in MayMiss \/ log = <<>>
  /\ snap # Nothing /\ snap' = Nothing /\ reached' = FALSE
  /\ UNCHANGED <<engineAt, local, file, state, broker, fresh>>

(* Commands at the start of a tick.  A paused tick ends with writing PAUSED. *)
PausedTick ==
  /\ engineAt \in {"idle", "served"} /\ paused /\ engineAt' = "idle"
  /\ Save(log)
  /\ UNCHANGED <<local, broker, fresh>>

Pause ==
  /\ engineAt = "idle" /\ ~paused /\ paused' = TRUE
  /\ Save(log)
  /\ UNCHANGED <<engineAt, log, rested, work, changed, broker, fresh>>

Resume ==
  /\ engineAt = "idle" /\ paused /\ paused' = FALSE
  /\ Save(log)
  /\ UNCHANGED <<engineAt, log, rested, work, changed, broker, fresh>>

-----------------------------------------------------------------------------
(***************************************************************************)
(* OpenedOrders.  A row may come without a usable lot size, a position may *)
(* be missing while the bridge synchronises, and a row of a ticket that    *)
(* was never opened may be listed.                                         *)
(***************************************************************************)
Reports == [row : [open -> {"good", "corrupt", "missing"}], phantom : BOOLEAN]

(* _known_open_tickets *)
Known == {log[i].ticket : i \in {j \in DOMAIN log : log[j].kind = "entry"}}

(* _dedupe_positions: a lone corrupted row is repaired if the ticket is    *)
(* known, dropped otherwise.                                               *)
Listed(r) == {p \in open : r.row[p] = "good" \/ (r.row[p] = "corrupt" /\ p \in Known)}

DroppedUnknown(r) ==
  r.phantom \/ \E p \in open : r.row[p] = "corrupt" /\ p \notin Known

-----------------------------------------------------------------------------
(***************************************************************************)
(* Reconciliation.                                                         *)
(***************************************************************************)
(* The trades whose entry has no close and that the bridge does not list,  *)
(* without those asked about a moment ago; they are asked about in turn,   *)
(* in the order they were opened in.                                       *)
Unclosed == {log[i].ticket : i \in {j \in DOMAIN log : log[j].kind = "entry" /\ ~IsClosed(log[j])}}

(* Faulty variant: a trade is asked about once only, whether or not it was *)
(* answered.                                                               *)
RetryDueNever(t) == FALSE

RetryDue(t) == t \in rested

Candidates(r) == Unclosed \ (Listed(r) \cup rested)

Turn     == Min(work)
WorkLeft == work \ {Turn}

ReconcileStarts ==
  /\ engineAt \in {"idle", "served"} /\ ~paused
  /\ \E r \in Reports :
       /\ work' = Candidates(r)
       /\ engineAt' = IF Candidates(r) = {} THEN "bars" ELSE "histories"
  /\ changed' = FALSE
  /\ UNCHANGED <<paused, log, rested, published, broker, ghosts>>

(* A minute has passed since a trade's history was asked for.              *)
MinutePasses(t) ==
  /\ engineAt # "down"
  /\ RetryDue(t) /\ rested' = rested \ {t}
  /\ UNCHANGED <<engineAt, paused, log, work, changed, published, broker, ghosts>>

(* get_closed_position_history: an error, or the first record of the       *)
(* ticket among those the bridge returns, if there is one.  A record may   *)
(* lack its closing price or time.                                         *)
Answers == [error : BOOLEAN, records : SUBSET archived, complete : BOOLEAN]

(* Faulty variant: the record of whichever trade comes first. *)
RecordFirst(t, a) ==
  IF a.error \/ a.records = {} THEN 0 ELSE CHOOSE p \in a.records : \A q \in a.records : p <= q

Record(t, a) == IF ~a.error /\ t \in a.records THEN t ELSE 0

(* Missing history is not evidence of a close.                             *)
Closes(t, a) == Record(t, a) # 0 /\ a.complete

(* _apply_close_history fills in the first unclosed entry of the ticket.   *)
EntryOf(t) ==
  CHOOSE i \in DOMAIN log :
    /\ log[i].ticket = t /\ log[i].kind = "entry" /\ ~IsClosed(log[i])
    /\ \A j \in 1 .. i - 1 :
         ~(log[j].ticket = t /\ log[j].kind = "entry" /\ ~IsClosed(log[j]))

WithClose(t, a) == [log EXCEPT ![EntryOf(t)].result = Record(t, a)]

(* Faulty variant: what was learned waits for another write. *)
PublishedLater(h) == UNCHANGED <<published, reached>>

PublishCloses(h) == Save(h)

(* The last answer of a tick is followed by the write, with no await.      *)
HistoryRead ==
  /\ engineAt = "histories"
  /\ rested' = rested \cup {Turn}
  /\ \E a \in Answers :
       IF Closes(Turn, a)
       THEN log' = WithClose(Turn, a) /\ changed' = TRUE
       ELSE UNCHANGED <<log, changed>>
  /\ work' = WorkLeft
  /\ IF WorkLeft = {}
     THEN /\ engineAt' = "bars"
          /\ IF changed' THEN PublishCloses(log') ELSE UNCHANGED <<published, reached>>
     ELSE UNCHANGED <<engineAt, published, reached>>
  /\ UNCHANGED <<paused, broker, fresh>>

-----------------------------------------------------------------------------
(***************************************************************************)
(* Bars and entries.                                                       *)
(***************************************************************************)
TickEnds == engineAt' = "idle" /\ work' = {} /\ changed' = FALSE

(* No bar, or one that ends before its snapshot is written.  A bar with    *)
(* too few candles ends without a write.                                   *)
NoBar ==
  /\ engineAt = "bars" /\ TickEnds
  /\ Save(log) \/ UNCHANGED <<published, reached>>
  /\ UNCHANGED <<paused, log, rested, broker, fresh>>

(* Faulty variant: an empty list of positions leaves the old one. *)
BarSnapshotKept(r) ==
  [full |-> TRUE, trades |-> LastOf(log, PanelCap),
   positions |-> IF Listed(r) = {} THEN SnapOrEmpty(snap).positions ELSE Listed(r)]

(* write_mt5_snapshot *)
BarSnapshot(r) ==
  [full |-> TRUE, positions |-> Listed(r), trades |-> LastOf(log, PanelCap)]

(* A bar whose positions could be read: the snapshot, then a gate that     *)
(* refuses and the write of its early return.                              *)
BarRefused ==
  /\ engineAt = "bars" /\ TickEnds
  /\ \E r \in Reports, m \in Missed("redis") :
       /\ Listed(r) = {} => ~DroppedUnknown(r)
       /\ Published(log, IF m THEN snap ELSE BarSnapshot(r), ~m)
       /\ fresh' = {}
  /\ UNCHANGED <<paused, log, rested, broker>>

(* The same, but the gates pass: the order is sent.                        *)
BarEnters ==
  /\ engineAt = "bars" /\ engineAt' = "entering"
  /\ \E r \in Reports, m \in Missed("redis") :
       /\ Listed(r) = {} /\ ~DroppedUnknown(r)
       /\ snap' = IF m THEN snap ELSE BarSnapshot(r)
       /\ reached' = ~m
       /\ fresh' = {}
  /\ UNCHANGED <<local, file, state, broker>>

(* Faulty variant: the panel is left to learn of the position at the next bar. *)
EntrySnapshotNextBar(t) == snap

EntrySnapshot(t) == WithPositions(snap, {t})

EntryMade ==
  /\ engineAt = "entering" /\ TickEnds
  /\ tickets < MaxTickets
  /\ tickets' = tickets + 1 /\ open' = open \cup {tickets'}
  /\ log' = Logged(Row(tickets', "entry"))
  /\ \E m \in Missed("redis") :
       Published(log', IF m THEN snap ELSE EntrySnapshot(tickets'), reached /\ ~m)
  /\ fresh' = fresh \cup {tickets'}
  /\ UNCHANGED <<paused, rested, archived>>

(* Rejected, or executed while its answer was lost.                        *)
EntryFails ==
  /\ engineAt = "entering" /\ TickEnds
  /\ \/ UNCHANGED <<tickets, open>>
     \/ tickets < MaxTickets /\ tickets' = tickets + 1 /\ open' = open \cup {tickets'}
  /\ Save(log)
  /\ UNCHANGED <<paused, log, rested, archived, fresh>>

(* A stop was moved: a row that the next write publishes.                  *)
TrailLogged ==
  /\ engineAt \in {"idle", "served"} /\ ~paused
  /\ Cardinality({i \in DOMAIN log : log[i].kind # "entry"}) < MaxRows
  /\ \E p \in open : log' = Logged(Row(p, "trailed"))
  /\ UNCHANGED <<engineAt, paused, rested, work, changed, published, broker, ghosts>>

-----------------------------------------------------------------------------
(***************************************************************************)
(* CLOSE_ALL, also while paused: every position listed at its start is     *)
(* closed in turn, each success logged and published.                      *)
(***************************************************************************)
CloseAllStarts ==
  /\ engineAt = "idle"
  /\ Cardinality({i \in DOMAIN log : log[i].kind # "entry"}) < MaxRows
  /\ \E r \in Reports :
       /\ Listed(r) # {}
       /\ work' = Listed(r)
  /\ engineAt' = "closing"
  /\ UNCHANGED <<paused, log, rested, changed, published, broker, ghosts>>

NextClose ==
  /\ work' = WorkLeft
  /\ engineAt' = IF WorkLeft = {} THEN "served" ELSE "closing"

CloseAcknowledged ==
  /\ engineAt = "closing" /\ NextClose
  /\ Turn \in open /\ open' = open \ {Turn}
  /\ log' = Logged(Row(Turn, "close_all"))
  /\ Save(log')
  /\ UNCHANGED <<paused, rested, changed, tickets, archived, fresh>>

(* Refused, closed by something else meanwhile, or closed unheard.         *)
CloseFails ==
  /\ engineAt = "closing" /\ NextClose
  /\ open' \in {open, open \ {Turn}}
  /\ UNCHANGED <<paused, log, rested, changed, published, tickets, archived, ghosts>>

-----------------------------------------------------------------------------
(***************************************************************************)
(* The broker.                                                             *)
(***************************************************************************)
PositionCloses ==
  /\ \E p \in open : open' = open \ {p}
  /\ UNCHANGED <<engineAt, local, published, tickets, archived, ghosts>>

Archive ==
  /\ archived' = (1..tickets) \ open /\ archived' # archived
  /\ UNCHANGED <<engineAt, local, published, open, tickets, ghosts>>

LedgerNext ==
  \/ EngineStarts \/ EngineBoots \/ EngineEnds \/ Crash
  \/ StateExpires \/ SnapshotExpires \/ Pause \/ Resume \/ PausedTick
  \/ ReconcileStarts \/ HistoryRead \/ (\E t \in Ticket : MinutePasses(t))
  \/ NoBar \/ BarRefused \/ BarEnters \/ EntryMade \/ EntryFails \/ TrailLogged
  \/ CloseAllStarts \/ CloseAcknowledged \/ CloseFails
  \/ PositionCloses \/ Archive

LedgerSpec == LedgerInit /\ [][LedgerNext]_ledgerVars

(* The engine's awaits have timeouts, so its coroutine goes on; minutes    *)
(* pass; the broker's history and the keys' expiry are matters of time.    *)
(* A bridge that answers now and then answers well now and then: a bar     *)
(* whose report is right, and the history of a trade it has archived.      *)
GoesOn ==
  \/ EngineBoots \/ PausedTick \/ ReconcileStarts \/ HistoryRead
  \/ NoBar \/ BarRefused \/ BarEnters \/ EntryMade \/ EntryFails
  \/ CloseAcknowledged \/ CloseFails

HistoryTold(t) == HistoryRead /\ Turn = t /\ t \in archived /\ IsClosed(log'[EntryOf(t)])

LedgerFairSpec ==
  /\ LedgerSpec
  /\ WF_ledgerVars(GoesOn)
  /\ WF_ledgerVars(Archive) /\ WF_ledgerVars(SnapshotExpires)
  /\ SF_ledgerVars(BarRefused)
  /\ \A t \in Ticket : WF_ledgerVars(MinutePasses(t)) /\ SF_ledgerVars(HistoryTold(t))

-----------------------------------------------------------------------------
(***************************************************************************)
(* What the panel shows: MT5Service._read_snapshot.                        *)
(***************************************************************************)
(* By Redis: a snapshot without account figures gets them from the state    *)
(* key, which adds neither positions nor trades.                           *)
ViaRedis == SnapOrEmpty(snap)

-----------------------------------------------------------------------------
(***************************************************************************)
(* Properties.                                                             *)
(***************************************************************************)
(* A trade is recorded as closed only with the broker's own record of that *)
(* trade, never because a bridge failed to list it, lagged, or answered    *)
(* with another trade's record (_reconcile_closed_trades).                 *)
ClosedWithEvidence ==
  \A i \in DOMAIN log :
    IsClosed(log[i]) => log[i].result = log[i].ticket /\ log[i].ticket \notin open

(* While Redis takes the engine's writes, a position the engine has opened *)
(* since its last bar is among those the panel shows, until the next bar   *)
(* reads the positions again (redis_update_snapshot_positions).            *)
NewPositionShown ==
  reached /\ engineAt = "idle" => fresh \subseteq ViaRedis.positions

(* While Redis takes the engine's writes, a close is in the history the    *)
(* panel shows as soon as the tick that learned of it is over, if its      *)
(* entry is among the rows shown (redis_update_snapshot_trades).           *)
ClosesShown ==
  reached /\ engineAt = "idle" =>
    \A i \in DOMAIN log :
      i > Len(log) - PanelCap /\ IsClosed(log[i]) =>
        \E j \in DOMAIN ViaRedis.trades : ViaRedis.trades[j] = log[i]

LoggedOpen(t) ==
  \E i \in DOMAIN log : log[i].ticket = t /\ log[i].kind = "entry" /\ ~IsClosed(log[i])

(* As long as one engine keeps serving, every trade it logged gets its     *)
(* close from the broker's history after it has closed, whatever was       *)
(* missing from the bridge's answers before (unless audit rows push the    *)
(* entry out of the log).                                                  *)
ClosesGetRecorded ==
  \A t \in Ticket :
    (LoggedOpen(t) /\ t \notin open /\ engineAt # "down")
      ~> (~LoggedOpen(t) \/ paused \/ engineAt = "down")

(* A closed position does not stay among the open ones the panel shows:    *)
(* the next bar removes it, or the key's expiry when the engine is gone.   *)
(* (A paused engine has no bars but renews the key with every write, as    *)
(* one does that is started again and again.)                              *)
ClosedLeavesPanel ==
  \A t \in Ticket :
    (t \in ViaRedis.positions /\ t \notin open)
      ~> (t \notin ViaRedis.positions \/ paused \/ engineAt = "boot")
=============================================================================
