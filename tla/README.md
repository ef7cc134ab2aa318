# A verification development of the gold scalping robot

The repository holds a Python trading robot (`src/live_trading`), a Telegram
control panel in a process of its own (`src/telegram_panel`), an offline
TypeScript backtester (`src/robot`) and the image of a third-party MetaTrader
bridge (`src/mtapi-bridge`). This directory models the robot (its process, its
engine with risk, entries, trailing and trade log, its decisions, its connection)
and the parts of the panel that act on it or speak of it (commands, alerts,
access, configuration), checks them with TLC and proves the most important
results with TLAPS. In file paths `src/` is the root of the repository; `live_loop.py` is
`src/live_trading/trading/live_loop.py`, `guardian.py` is
`src/live_trading/risk/guardian.py`, and so on.

## 1. Inventory

One process runs the HTTP server (`server.py`) and, as tasks of the same event
loop, the supervisor, the trading engine and the connector's watchdog. The
panel is another process. They share a Redis (a key for the robot's state, a
key for the commands, a key for the guardian), the HTTP endpoints of the
server, and, when both run in one container, files under `/tmp`.

| component | state it keeps | operations | what makes it correct |
|---|---|---|---|
| Risk guardian (`risk/guardian.py`) | halt and its reason, equity peak, daily baseline and day, limits, account identity; a copy in Redis and one in a file | `initialize`, `check`, `reset_halt`, `restore_state`, `_save_state` | no entry while a breaker holds; a halt survives restarts; a drawdown halt is sticky, a daily one ends with the day |
| Engine: life and loop (`trading/live_loop.py`) | `running`, `paused`, the last account report | `start`, the tick, `_process_commands`, stop | halted implies paused; the guardian comes up; commands do what their documentation says in every order |
| Engine: entry (`_check_new_bars`, `_on_new_bar`) | last bar per timeframe, flag of the tick, last entry, the trade log | bar detection, gates, two looks at positions, order | one position at a time; limits and cooldown kept; a bar is handled once |
| Trade log (`live_loop.py`, `utils/state_writer.py`) | `trade_history`, its copies in the state file and the Redis state key | append and trim, load, reconcile with MT5 history | entries of the day are not forgotten; a closed trade is counted once |
| Trailing stop (`risk/trailing_stop.py`, `_manage_trailing_stop`) | baselines by ticket | staircase, ratchet, modify | a stop never moves back; a baseline lost in a restart does not loosen a stop |
| Capital manager (`risk/capital_manager.py`) | none | lot, SL and TP of an entry | lot within the broker's bounds, rounded down |
| Command channel (`redis_ipc.py`, `state_writer.py`, `server.py` `/command`) | Redis dictionary with expiry, command file | `send_command`, `read_commands`, `clear_command` | a command is executed once, and not after it went stale |
| Connector (`mt5/connector.py`) | connection id, account, failure counters | connect, invalidate, ensure, watchdog, session keepalive, queries | a lost connection is rebuilt; nobody uses an invalidated one |
| Executor (`mt5/executor.py`) | none | market order, close, modify | an outcome reported is the outcome that happened |
| Supervisor (`server.py`) | current engine, status, backoff, the keepalive task | start, catch, back off, start again; pings; `/force-resume`, `/status`, `/health` | an engine that ended runs again; a service that is pinged is not suspended; the endpoints say what is so |
| Signals (`signals/*.py`) | none: every bar reads its window from scratch | candles to structure, votes, regime, gates, H1 confirmation | gates refuse what they document; an entry follows the newest structure; what was read of settled bars stays |
| Panel: heartbeat, event bus, notifications | last seen state, queue | poll, compare, publish, deliver | each transition is announced once |
| Panel: robot, account, risk, strategy services | SQLite tables | read state, queue commands | a command reaches the robot by one transport; the keys sent are the keys read |
| Panel: authentication, rate limit, sessions | role cache, windows | check, record | a revoked role stops working within the cache's life; the owner is never locked out |
| Panel: handlers and services of configuration and accounts | conversations in progress, SQLite rows | edit, save, push; add, switch, delete | the robot runs what the panel shows; one account is the active one |

`PROJECT.json` lists all components, the ones that are not modelled with the
reason.

How they interact:

- the supervisor constructs an engine and awaits `start()`; when that returns
  or raises, it waits and constructs a new one (a new object: whatever is not
  saved is gone, but module-level settings live on until the process dies);
- the engine calls connector and executor, and each `await` there is a point
  where HTTP handlers run; `/force-resume` writes the guardian and `paused` of
  the engine at such points;
- the panel and the robot read and write the same Redis keys without any lock;
- the guardian saves itself after each change to Redis and to the file; the
  engine writes its own state (with the trade log) at the end of most paths,
  to both, each of which can miss a write on its own.

Behaviours that are hard to test here: crashes between two saves and copies
that diverge; operators' commands between any two awaits; two timeframes that
close a bar in the same tick while the bridge is late; orders that are executed
although the call failed; corrupted rows in the list of positions; caches that
answer with old bars; limits that depend on a log that is trimmed, reloaded and
overwritten. The list, each at its line, is `hazards` in `PROJECT.json`.

## 2. Modules

| module | models | composed of |
|---|---|---|
| `RiskGuardian` | the operations of `guardian.py` as operators on a record | |
| `RobotHalt` | the engine's life around the guardian: boot and restore, commands, pause, the tick up to the entry gates, both copies, `/force-resume`, crash | `RiskGuardian` |
| `RiskWindow` | abstract: what the guardian promises of its risk window, for a robot that never restarts | `RiskGuardian` |
| `RobotHalt_proofs` | theorems about `RobotHalt` | `RobotHalt` |
| `EntryGate` | bar detection, gates, looks at the positions, order, trade log with both copies, crash | |
| `EntryGate_proofs` | theorems about `EntryGate` | `EntryGate` |
| `CommandChannel` | the Redis dictionary and the command file between panel, HTTP handler and engine; the poll with its clearing | |
| `CommandBox` | abstract: what the channel promises, without its two stores | |
| `CommandChannel_proofs` | theorems about `CommandChannel` | `CommandChannel` |
| `TrailingStop` | the staircase, its baselines, a tick's trailing with `modify_position`, the market | |
| `Connection` | the connection's module variables shared by engine, watchdog and session keepalive; sessions that end, engines that end and start again | |
| `Connection_proofs` | theorems about `Connection` | `Connection` |
| `PanelAlerts` | the panel's heartbeat monitor, event bus and notification worker, with their two queues | |
| `Supervisor` | the process: the engine's attempts and their backoff, the keepalive, both copies of the state and what the endpoints make of them, the platform that suspends an idle service | |
| `Supervisor_proofs` | theorems about `Supervisor` | `Supervisor` |
| `TradeLedger` | a trade from its entry to its recorded close and to the panel: reconciliation with the broker's history, CLOSE_ALL, the state and the snapshot key | |
| `Trades_proofs` | theorems about `TrailingStop` and `TradeLedger` | both |
| `PanelAccess` | one user's requests in the panel: the permission check with its cache, role changes, the configuration and account handlers | |
| `Panel_proofs` | theorems about `PanelAlerts` and `PanelAccess` | both |
| `MarketStructure` | swings, breaks, changes of character, order blocks, sweeps, equal levels of a window of candles, as operators | |
| `DecisionGates` | what a closed bar goes through: regime, votes, filters, stop and target, H1 confirmation | `MarketStructure` |
| `DecisionGates_proofs` | theorems about both | `DecisionGates` |
| `MCRobotHalt`, `MCEntryGate`, `MCCommandChannel`, `MCTrailingStop`, `MCPanelAlerts`, `MCPanelAccess`, `MCDecisionGates` | values for the constants | |

Two modules of theorems are about two components each, which share nothing. That
is why the standard names carry a prefix in one of the two: `LedgerInit` to
`LedgerSpec` in `TradeLedger`, `AccessInit` to `AccessSpec` in `PanelAccess`.

### RiskGuardian and RobotHalt

A guardian is a record; `_halted` and `_halt_reason`, always written together,
are the field `halt`. Percentages are compared after multiplying out. Of the
session's opening balance the code only ever reads whether it is positive, so
the model keeps that. `Check` is `DayReset`, `RaisePeak`, `Trip` in the code's
order; `Restore` and `RestoreAccepts` are `restore_state()`.

`phase` is where the engine's coroutine waits, and a step runs from one such
point to the next. `Boot` constructs the engine; `RestoreOrInitialize` is the
rest of `start()`, choosing the Redis copy before the file and initializing
from the account when nothing valid is found; `InitializeLate` is its second
attempt. `Poll` is `_process_commands()` with any set of up to `MaxCommands`
commands, applied in the code's order, then the paused branch or
`ensure_connected()`. `BarCheck` is `_on_new_bar` up to and including
`guardian.check()`, `FinishEntry` what follows it (see `EntryGate`).
`ForceResume` may fall between any two steps. `EngineFails` is an exception that
reaches the supervisor, `Crash` the death of the process, after which another
account may be configured.

Two history variables serve the properties: `owed`, the halt the engine that
served last was under until someone lifted it, and `recovered`, whether the
last start restored the newest state, an older copy, or none. Each copy carries
a bit `current` of the same kind: it still is what the guardian would go on
from.

`RiskWindow` is the promise: a window is opened, carried forward by checks,
reset by operators, dropped only when it is invalid, of another account or out
of date. `RobotHalt` implements it (`RestartsInvisible`) with the window mapped
to what Redis holds: crashes, failed boots and restarts are stuttering steps.

### EntryGate

Time is in units of the shortest timeframe; a bar is named by its opening time.
`Poll` is `_check_new_bars`, in which a timeframe reports its last bar, a cached
old one or nothing. `FirstLook` is the handler from the position check through
the gates, `SecondLook` the re-check before the order, `OrderExecuted` the
broker's act, `OrderAcknowledged` and `OrderFails` the two ways the call
returns. An executed order whose answer is an error is `OrderFails` from
`filled`: the handler treats it as a rejection. `PositionReports` lets any row
come back corrupted at any time; `Recognised` applies the repair by known
tickets. `EngineStarts` writes the state with the empty log and then reads the
log back, as `start()` does. `entries` is history: what the engine knows it
opened. The signal is any direction and regime.

The rows of the log are entries and audit rows; profit fields, lots and prices
are not read by any gate and are left out.

### CommandChannel

A send is two steps: the dictionary (or the list in the file) is read, then
written back with the new key; `panel` and `http` hold what was read in
between. The panel tries Redis, then HTTP, then the file, one send at a time;
the trade service has Redis only, and always sends a dictionary. The HTTP
handler is in the engine's process: it begins only where the engine waits
(`EngineWaits`) and the engine goes on when it is done (`Turn`). `Read` takes
the commands that are true in Python's sense, without `resume` and `start` when
there is a `pause`; `Apply` takes them in the code's order, and each is followed
by the three steps of `clear_command()`: `ClearRedis` writes back what was read,
`ClearReads` reads the commands again, `ClearWrites` writes the file. `reach`
says whose client reaches Redis, `Expire` and `Age` are the two lifetimes,
`EngineFails` and `Crash` drop a poll. The values are a flag, a configuration and
the empty dictionary; the file's list keeps only what a reader would still take
from it. `backed` is history: the keys written since they were last applied.
What the commands do to the guardian is in `RobotHalt`, whose `Poll` takes any
set of commands.

`CommandBox` is the promise: keys are put in, the engine takes some of them at
once, without those a pause shields, and applying a key uses it up until it is put
in again; a failure of the engine drops what it took, and only a death of the
process or a change of Redis' reachability puts what was applied in doubt. It says
nothing of commands that get lost. `CommandChannel` implements it
(`TakenOncePerWrite`) with `backed` for the contents of the box and `todo` for what
was taken: reading, clearing and expiring are stuttering steps.

### TrailingStop

Prices are whole numbers of the smallest price step, and what the configuration
gives in R is counted in parts of R. `Triggered`, `Stairs`, `Locked`, `Secured`
and `Candidate` are `compute_staircase_sl` with its rounding and ATR floor,
`ShouldApply` is `should_apply`. `Baseline` is what `_manage_trailing_stop`
measures from: memory, else the entry row, else the reported position
(`Restored`, `Approximated`); `Anchored` keeps it when it has a risk.

A tick's trailing is `Look` (positions read, baselines of absent ones dropped),
`Quoted` or `NoQuote`, and for each row `Consider` and, when the stop improves,
`Modified` or `ModifyFails`; between two of them the market moves, positions
close and the engine may die. `Look` may miss any position and leave any type
unreadable. The tick goes through the rows in any order, as the bridge lists
them. Of the log the model keeps the tickets whose entry row is left (`logged`);
each row appended may push the oldest out (`Trimmed`), and a new engine reads
back any part (`Start`), which is what `EntryGate` shows of it. `Alive` is the
broker's rule: a position closes when the market reaches its stop, and no such
stop is taken.

Left out: stops moved at the terminal by hand and modifications executed after
their call has timed out (both would move a stop under the engine's hands),
positions without a stop, and the statuses kept for the panel.

### Connection

`con` is the connector's module state: `connected`, `id` (`_conn_id`, as what the
bridge makes of it: no id, a live session, a dead one), `base` (`_base_url` is
set), `age` (the time since `_last_connect_time`: within the grace period, past
it, past the refresh age), `lock` (the holder of `_reconnect_lock`) and `fails`
(the watchdog's counter). `task` says for each of the three tasks where its
coroutine waits; `to` is the id its request was sent with: the current one, or,
once that was replaced or given up (`Former`), what became of it. A step runs
from one `await` to the next: `EnsureConnected` is `ensure_connected()` up to its
first wait, `Reconnect` the part after the status request, `Returned` what its
caller does with the answer, `Attempt` one round of the queries' retry loop,
which all of them share (`fetch_candles`, `get_account_info`,
`get_open_positions`, `get_closed_position_history`, `get_current_quote`;
`RequestRaises` is the way out the two that raise have in addition). A lock that
is free but waited for queues a newcomer (`turn`), as `asyncio.Lock` does.
`Starting` is `start()` before its tasks exist: its failure ends the engine.
`EngineEnds` is `_run_loop`'s `finally`; `Closing` and `Closed` are the two halves
of `disconnect()`, whose end cuts every request still under way on the HTTP
session (`Cut`). `healthy` is whether the bridge answers whatever is sent to a live
session; any answer that looks wrong counts as a failure, as in the code.

Left out: the keepalive's ping, which changes nothing; the `/Disconnect` request
for the id itself (the session it ends is nobody's any more); what the queries
return; the executor's requests, which change nothing here; an exception between
the creation of the tasks and `_run_loop()`, which no call there lets through.

### PanelAlerts

`monitor` is where `HeartbeatMonitor._check()` waits: `LookAtStatus` is its read of
the status, `JudgeStatus` the comparison with `lastStatus` and `lastConn` and what is
published of it (with the periodic heartbeat, whose interval is `timer`),
`LookAtRows` the position poll with `known`, the set that only grows. A read may
show anything: what the robot wrote last or, through the cache, a few seconds
ago; a state that is unreadable or older than three minutes shows as
disconnected (`_apply_staleness_guard`); rows may be old, missing, or left out
because they cannot be parsed. `CheckFails` is an exception in either read.

`bus` and `queue` are the two bounded queues, `handling` the event whose handler
waits for the settings table, `job` the delivery under way: the recipients still
to be served, the attempt, and whether the worker waits for Telegram (`Send`), for
the log of a success (`Book`) or of a failure (`GiveUp`). An event is known by its
place in the history `published`; `inbox` is what each chat has received, `lost`
which event nobody will send to whom any more. A message that is sent again
because its answer or its booking failed arrives twice in a row and counts
once.

Left out: the texts; the settings behind `notify()`, of which only the outcome is
kept (`NotifySkips`); start and stop of the panel, which loses what is queued.
`HeartbeatMonitor` without an MT5 service makes no poll; the panel always gives it
one.

### Supervisor

`phase` is where the supervisor's coroutine waits: between attempts (`wait`, with
`left` of the pause), in `start()` (`boot`), while the engine serves (`loop`), in
`_run_loop`'s and `_run_robot_once`'s `finally` (`closing`, `ending`).
`Attempt`, `BootRefused`, `BootRaises`, `BootSucceeds`, `LoopStops`, `LoopRaises`
and `Supervise` are the ways an attempt goes; `result` is how `start()` came
back. `backoff` doubles up to its maximum as in the code. `file` and `redis` are
the two copies of the published state with their ages; a `Beat` writes both, and
either write may miss. `Status` is `_status()`, which prefers a fresh Redis copy,
and `Health` is `_health()`, which takes the freshest. `ping` is the keepalive task:
its own ping, then the bridge's up to `BridgeTries` times, with a pause after each;
`quiet` counts the time since the platform's edge saw a request, and `Suspended`
kills the process at `SuspendAfter`. Time is relative, so that behaviours of any
length have finitely many states; a `Tick` waits until nothing is due.

Left out: requests of the panel, which only make the service less idle; the
engine's own work (see the other modules); `/snapshot` and `/debug`, which read
what `TradeLedger` writes.

### TradeLedger

`log` is `trade_history`: entry rows, and the audit rows of trailing and CLOSE_ALL
that share its bound. `engineAt` is where the engine's coroutine waits. `work` is
the set of trades whose history is still to be asked for in this tick; they are
served in the order of their tickets (`Turn`). A tick is `PausedTick`, or `ReconcileStarts`, one
`HistoryRead` for each logged trade that is no longer listed, and the bar.
`Reports` is what `OpenedOrders` may say of each position (good, corrupted,
missing, or a row nobody knows), `Answers` what `HistoryPositions` may (an error,
any of the archived records, a record without its price yet). A trade whose
history was asked for rests for a minute (`rested`). `Published` is `_write_state`
with both copies, `Save` what goes with it, `BarSnapshot` and `EntrySnapshot` the
snapshot key; `Merged` is the union of both logs `start()` reads. The broker opens and closes
positions and archives them late.

Left out: sums of money; `logged_at`; the reports of the panel, which read a table
nobody fills.

### PanelAccess

A `slot` is one request in progress; python-telegram-bot runs updates
concurrently, so several of one user are under way at once and each waits at
some await. `Request`, `ReadUser`, `Upsert`, `Insert`, `Enforce`, `CacheUser` and
`Decide` are `get_user()` and `check_permission()` from one await to the next; a
fresh entry skips to the decision. `OtherSetsRole` and `OtherInvalidates` are
another owner's `set_user_role`, `SetsOwnRole` and `InvalidatesOwn` the subject's.
A user object carries its role and the permissions of some role, because the
code assigns the two separately. `ToggleComponent`, `ToggleAll`, `ReceiveValue` start
an edit, `UpdateParameter`, `LooksForRow`, `Saves` and `Pushes` take it from row to
row and to the robot, which may not be reached. `accounts` keeps which rows are active and enabled and
their order by `updated_at`; `Created` puts a new row before the day's changes,
because SQLite's default stamp sorts there. History: `since` (how long ago the
row last held each role), `crossed` (the row was written while the request held
an older one), `healed`, `chosen`.

A *scene* is a use of the panel chosen at the start: which operations, who makes
them, how often his role changes, how many at once. Scenes keep concerns apart
that the code keeps apart (the configuration's rows know nothing of the
accounts'); clocks stand still in those without roles.

Left out: the rate limiter, which only refuses; logs and audit rows; the strategy's and
the risk's rows are handled alike, so a scene uses one of them; what becomes of a
command behind the permission is `CommandChannel`'s.

### MarketStructure and DecisionGates

`candles` is the window of closed candles; `NewBar` appends one (the code fetches
the whole window anew) and `Analyze` reads it from scratch, as
`analyze_smc_structure()` does. `Structure` is `_detect_bos_and_choch` as a recursive
function from bars to readings: `trend` and `run` are `local_trend` and the
consecutive breaks it counts, `used` the swings already broken, `lists` the
two result lists (cut to their last few at the end), `events` both in order.
`Swings` confirms a swing when `SwingLookback` bars follow it.
`Blocks`, `Mitigated`, `FakeBreakout`, `Sweeps` and `EqualLevel` are the functions of
those names. `Decide` is `run_decision_engine()`: `Refusal` is the first gate that
refuses, in the code's order; `Trade` is `calc_trade_parameters()` without the lot;
`Confirm` is the H1 fetch, `validate_h1_candles`, `compute_mtf_bias` and
`mtf_allows_trade`; `Return` ends the bar.

Prices are integers of a grid whose unit is coarser than the code's tolerances
(0.05 for a sweep, the tolerance of equal levels), so "within tolerance" is
equality; average true ranges are compared and added as sums, with the divisor
multiplied out. What the other engines say (moving averages, price action, Wyckoff,
ADX, session, the confidence score) is a *reading*: any of `Readings` may come
with any window. Regime, volatility, votes, range playbook, quality filter and
fake breakouts are computed from window and reading.

Left out: the floating-point scores themselves, divergence, news, the lot, and
the grace minutes of an H1 close.

## 3. Runs

| run | instance | what it shows |
|---|---|---|
| `halt_window` | reliable storage; 2 accounts, 2 pairs of limits, one update, 3 days, 2 commands per poll | entries are gated (`EntryGated`), a drawdown halt is sticky (`DrawdownHaltSticky`), and the engine with all its restarts implements `RiskWindow` (`RestartsInvisible`) |
| `halt_storage` | `FairSpec`; Redis and disk miss any save; 1 account, 1 day | a copy that missed nothing tells of the halt in force (`HaltRecorded`), and an engine that keeps reaching its bars gets an initialized guardian (`GuardianComesUp`) |
| `entry_gate` | 2 timeframes (one twice the other), bridge that lags or loses answers, file that misses writes, 2 orders, 3 time units, log of 3 rows | one position, the RANGE limit and the cooldown within an engine's life |
| `channel` | 5 commands, 2 sends, Redis reachable by any of the processes and changing | the channel implements `CommandBox`, one write, one application (`TakenOncePerWrite`); `Drained`: the engine works through the commands when the senders are quiet |
| `trailing` | a BUY and a SELL of risk 4, three prices, spread and slippage 1, one ATR, restarts and log losses | stops only advance (`StopAdvances`), are sent to the market's side (`MarketSide`), and in a settled market get where the stairs put them (`Protected`) |
| `connection` | `FairSpec`; engine, watchdog, keepalive; 2 attempts per reconnection, a bridge whose health changes at will | between two engines nothing is left over (`QuietBetween`), whoever waits for a reconnection is served (`WaitersServed`), and with a bridge that answers from some time on the watchdog gets a usable connection for good (`Settles`) |
| `alerts` | `FairSpec`; 2 tickets, owner and an admin, statuses running, error and idle, a bus of 1, a queue of 2, 2 attempts | a trade is announced once (`AnnouncedOnce`), nobody reads alerts out of order (`InOrder`), each is accounted for to each recipient (`Accounted`) and ends (`AlertsEnd`), and the last one about the connection is true (`LastAlertTrue`) |
| `supervisor` | `FairSpec`; copies that miss writes, expire or outlive their process, Redis that comes and goes, a bridge that answers or not, any way for an attempt to end | "connected" is never older than a heartbeat may be and the endpoints agree (`EndpointsTruthful`), a service whose pings arrive is not suspended (`StaysAwake`), and an engine that ended serves again (`EngineReturns`) |
| `ledger` | `FairSpec`; 2 trades, log of 2 rows of which the panel gets 1, 1 audit row, a file that misses writes, reports and histories that miss, lag, corrupt or fail | a close is recorded only with the broker's own record (`ClosedWithEvidence`) and always in the end (`ClosesGetRecorded`); positions and closes reach the panel (`NewPositionShown`, `ClosesShown`) and leave it (`ClosedLeavesPanel`) |
| `access` | 5 scenes: commands by anyone under 2 role changes; an owner's menu under 1; toggles; edits with their conversation; accounts. 2 requests at once (1 for accounts), a cache of 2 time units, 2 settings, 3 accounts, 2 questions | who is let through (`GrantedLately`, `OwnerAllowed`), what the cache says (`CacheTracksRole`), an edit alone leaves the robot with the row (`LoneEditHeals`), the account switched to stays the active one (`SwitchHolds`) |
| `decision` | 8 histories (a trend after a decline, a trend that turns, a wide one that idles, a side market, and their mirror images), 8 kinds of bars, windows up to 19 candles, 28 readings, 4 configurations, 31 kinds of H1 data | structure (`ReversalEndsTrend`, `SettledStructureStays`), entries (`EntryFollowsStructure`, `FailedBreakRefused`, `EntryGeometry`) and their confirmation (`OrderConfirmed`) |
| `sweep_missed` | the instance of `decision` | violation of `SweepsAreSeen`: a bar that wicks through a confirmed swing and closes back is not reported, already in a history |

Every run checks for deadlock.

Four further configurations hold counterexamples to what the code says of
itself (section 5). They are kept to be run by hand, each reports a violation:

    tlc -config HaltRestart.cfg  MCRobotHalt       # HaltSurvivesRestart
    tlc -config HaltMidnight.cfg MCRobotHalt       # DailyHaltLifted
    tlc -config RangeLimit.cfg   MCEntryGate       # RangeSessionLimit
    tlc -config ChannelPause.cfg MCCommandChannel  # PauseWins

**Bounds, and why they are enough.** The breakers see only comparisons of a
balance with a baseline and of an equity with a peak, so one healthy report and
one that trips (plus a zero one where initialization is the question) reach
every branch. Two accounts show a foreign state; two pairs of limits an update.
One clock unit per day with `MaxTime = 2` gives a restart inside the day, on the
next one, and past the age a copy may have (`FreshFor = RedisTTL = 1`). Two
commands per poll include every pair, so every order in which the fixed
sequence of `_process_commands` can matter. In `EntryGate` two orders are what a
second position needs; a timeframe of two units over one of one unit makes both
close a bar in the same tick at time 2, and `MaxTime = 3` leaves one more tick
after it; `DayLength = 3` puts a day boundary inside the run; a log of three
rows with one audit row can overflow; `StaleAfter = 4` is twice the longest
timeframe, the least the configuration gives. The second copy's failure
(`MayMiss = {"redis"}`) was explored as well and holds; it is not among the runs
because it doubles their time and the code treats the copies alike. In
`CommandChannel` two sends are what it takes for one write to overtake another,
and the five commands are one of each kind the poll treats differently: the one
that shields, the one that is passed over, two during which the engine waits
(one of them unpausing, one sent with `{}`) and the one that ends the engine;
three sends of three commands were explored as well and hold. In `TrailingStop`
the prices of `trailing` are one where the BUY opens and the SELL is up 1 R,
one where the SELL opens and the BUY is up 1 R, and one where the BUY is two
stairs further and the SELL is stopped out; risk 4 with a step of half an R, a
buffer of a quarter and an ATR gap of 3, more than a stair, makes both the stair
and the floor decide stops. Other prices, gaps and more tickets
are what the theorems cover. In `Connection` two attempts have a first, a pause
and a last one, which is all the code tells apart (12 and 3 in the code). In
`PanelAlerts` two tickets can be new in one poll, in either order, or one known
and one new; no check goes on once two events are published
(`MaxPublished`), but one check can publish three, and a bus of one place then
overflows (the code has 500, a queue of 1000 and 3 attempts). The robot and the
broker are not there at all: the reads show any status and any rows. In
`Supervisor` the constants keep the code's order of sizes: a heartbeat is younger
than the key's expiry, a round of pings with every wait at its longest (2 + 2·2·1
= 6) is shorter than the platform's limit (7; in the code at most 525 s of 900),
and the backoff doubles twice before its maximum. In `TradeLedger` two trades are
one whose record can be taken for the other's; a log of two rows and one audit
row overflow; a panel that gets one row shows the cut. In `PanelAccess` two
requests are what it takes for one to fill the cache with what the other
overwrote, two changes bring a role back that was lost, and a cache of two units
has a fresh, an older and an expired entry; three accounts are the one switched
to, another one, and one added. In `MarketStructure` and `DecisionGates` a window
of 19 holds two breaks with a pullback before each, a reversal and the bars the
averages need (`MeanBars = 14`); swings are confirmed by 2 bars as in the
defaults; bodies of 1 and 8 are a weak bar and a break, the wicked ones end in
swings or pierce them. Each history is followed by every continuation until the
window is full, and the readings put one field at a time out of line.

**Fairness.** The loop, the supervisor and the timers are coroutines of one
event loop in which no step blocks: a step that stays enabled is eventually
scheduled, hence weak fairness on `Boot`, `InitializeLate`, `Stop`,
`FinishEntry`, `EndTick` and `Clock`. The bridge answers again and again and
bars close again and again, hence strong fairness on `RestoreOrInitialize`, on
the quiet poll that gets connected, and on `BarCheck`. Operators, failures and
crashes get none. `GuardianComesUp` also assumes, in its own statement, that the
engine keeps reaching a bar. In `CommandChannel` a send that began ends and the
supervisor starts a new engine (weak fairness); the steps of a poll are strongly
fair, because failures may come again and again but not always at the same point
of a poll. `Drained` supposes quiet senders and an unchanged reachability in its
own statement; the passing of time is not fair, so nothing is drained merely by
expiring. `EntryGate` states safety only. In
`TrailingStop` calls end and engines are started again (weak fairness on
`ModifyFails`, `NoQuote`, `Start`), and for each position the bridge now and
then lists, quotes and answers (strong fairness on `Look` with its row readable,
`Quoted`, `Consider`, `Modified`): the loop runs every few seconds for as long
as a position is open, and what may fail does not fail every time. `Protected`
supposes a settled price, trailing switched on and the entry row in the log in
its own statement; prices, operators, bars and crashes get no fairness. In
`Connection` every request has a timeout, pauses end, the watchdog wakes every 30
seconds and time passes (weak fairness on `Proceeds`, the checks, the requests,
`Closed`, `WatchdogWakes`, `Aged`); `asyncio.Lock` serves its waiters first come,
first served, so a waiter gets a lock that is free again and again (strong
fairness on `Acquires`). The engine's ticks and the keepalive get none: a paused
engine makes none, and the connection is to come back without them. `Settles`
supposes in its own statement that the bridge is healthy, the watchdog there and
nobody disconnecting from some time on. In `PanelAlerts` the two workers are tasks
whose every wait has a timeout (weak fairness on each of their steps); the
heartbeat monitor, the clock and Telegram's answers get none. In `Supervisor`
processes are started, attempts begin, pauses end, pings have timeouts and time
passes (weak fairness); that a start succeeds is strongly fair, for the bridge lets an
engine in if it is asked again and again. In `TradeLedger` the engine's coroutine goes
on because its waits have timeouts, minutes pass and the broker archives (weak
fairness); a bridge that answers now and then answers well now and then: a bar
whose report is right (`BarRefused`) and the history of an archived trade
(`HistoryTold`) are strongly fair. Crashes, pauses and failures get none.
`PanelAccess` and `DecisionGates` state safety only.

## 4. Proofs

TLAPS proves, for every value of the constants that meets the named
assumptions:

- `TypeCorrect`, `EntriesGated`, `HaltPauses`, `HaltIsRecorded`,
  `RestartKeeps`, `DrawdownSticks` (`RobotHalt_proofs`): the corresponding
  properties of the runs, for all reports, limits, updates, days, command
  bounds, with and without failing storage. `EntryGated` is inductive together
  with the type invariant, because the path behind the check reads nothing
  again and a reset does not touch the baselines the check used.
  `HaltedMeansPaused` and `HaltRecorded` are not inductive alone: a restore
  pauses only because the copy tells of the halt, and a copy tells of the halt
  only because a serving guardian agrees with `owed`; the invariant is
  `HaltInv == HaltRecorded /\ HaltedMeansPaused` over the types. The two action
  properties follow from it step by step.
- `RestartsAreInvisible` (`RobotHalt_proofs`): `RobotHalt` implements `RiskWindow`,
  for all reports, limits, days and accounts, as long as Redis is reached
  (`RedisMayFail = FALSE`; the disk may miss any save). Without that it is false:
  `HaltRestart.cfg` is the counterexample. `WindowInv` is what it stands on: the
  file is never ahead of Redis (`Newest`), a guardian that was initialized is in
  Redis as it stands, whichever engine object holds it (`Holds`), and one that
  `start()` left uninitialized has done nothing, over a window that may be
  dropped (`Dropping`). Each step is then shown to be one of the window's own, or to
  leave it alone (`StepFollows`).
- `NeverTwoPositions` (`EntryGate_proofs`): `OnePosition` for one allowed
  position and any bridge that does not both lag and lose answers, for all
  timeframes, regimes, limits and bounds, through crashes and restarts. The
  inductive invariant `OneInv` says that an order is sent only with no position
  open (`FlatBeforeOrder`) and that, under a lagging bridge, a position opened
  in this tick has its flag set (`FreshFlagged`): the one is what the second
  look establishes, the other why it may be trusted.
- `GateTypes`, `CooldownAlwaysKept`, `RangeLimitAlwaysKept` (`EntryGate_proofs`):
  types with the cap of both copies, `CooldownKept` and `RangeLimitInLife`, for any
  bridge, any number of positions and through every crash. `GateInv` has three
  parts: what the engine remembers of its last entry is that entry (`OwnLast`);
  what the gates found at the first look is still so when the order is
  acknowledged, because nothing touches the log or that memory in between
  (`GatesHold`); and a log that has not reached its cap holds a row for every RANGE
  entry of the life (`RangeCounted`), which is why the limit is kept only until
  then.
- `CommandsNotRepeated`, `ChannelKeepsPromise` (`CommandChannel_proofs`): no key is
  about to be applied without a write since it was applied last (`NoEcho`), and the
  channel implements `CommandBox` (`TakenOncePerWrite`), for any keys, any
  pattern of reachability and any number of sends. `EchoInv` says that what the
  engine will read holds only keys written since they were applied, except the
  one it is clearing, and that what it is about to write back does not return
  that one: the dictionary read by `clear_command()` may be outdated, but only by
  writes that vouch for themselves. With it, and with nothing taken while the
  engine is idle (`IdleInv`), each step is one of the box's or leaves it alone.
- `ChannelTypes` (`CommandChannel_proofs`): whatever is read, changed and written
  back without a lock, both stores hold commands the engine knows, each with a
  value it can take, and a command being cleared is known.
- `TrailingTypes`, `SentToMarketSide`, `StopNeverBack`, `OwnStairsKept`
  (`Trades_proofs`): the safety properties of `trailing` for any tickets,
  plans, prices and staircases. `LockedBelowProfit` is the arithmetic: a triggered
  staircase, rounded, locks less than the profit there is. The code never
  compares a stop with the position's true direction, so `StopNeverBack` needs
  `StopInv`: a baseline with the wrong direction comes from an unreadable row
  (`BaseTrue`), and is triggered only where the market would already have closed
  the position; therefore a stop under way is for the position's own side, beyond
  the stop it has (`OrderTrue`). `OwnStairsKept` needs that memory agrees with the
  entry row whenever both exist (`OwnBases`).
- `LedgerTypes`, `ClosesAreEvidenced`, `NewPositionsShown`, `ClosesAlwaysShown`
  (`Trades_proofs`): the safety of `ledger` for any number of tickets, rows and
  caps, and for any answers of the broker. `LedgerInv` says that the rows of the log
  and of both copies are true (`LogTrue`: a row that tells of a close is of a trade
  the broker has closed), since the next engine merges what either copy holds;
  that a trade about to be asked for has no recorded close (`Asked`); that the
  positions opened since the positions were last listed are in the snapshot
  (`FreshShown`); and that the snapshot shows the closes among the newest rows
  wherever the engine has nothing left to write (`TradesShown`), that is, not
  before it serves and not between two answers of one tick's reconciliation.
- `ConnectionTypes`, `QuietBetweenEngines` (`Connection_proofs`): the safety of
  `connection` for any numbers of attempts. `ConInv` adds to the types that only a
  task about to connect holds the lock (`LockHeld`), that the two crew tasks come
  and go together (`CrewTogether`), and that an engine without them is starting or
  ending, with the lock free (`Alone`). That is why the cancellation of the crew
  in `_run_loop`'s `finally` releases the lock for good: the engine itself, at its
  loop, never holds it. The proof follows the code's helpers: each is shown to
  leave the lock in order (`Moves`), and every action is one of them.
- `PanelTypes`, `TradesAnnouncedOnce` (`Panel_proofs`): types with the queues'
  capacities, and `AnnouncedOnce`, for any tickets, recipients, capacities and
  numbers of attempts. The types need `Ids`: every number on its way is that of a
  published event with somebody to go to, so a delivery under way has a recipient
  left. `OnceInv` adds to the property that a published trade is known and that
  nothing is known before the first poll.
- `AlertsInOrder`, `AlertsAccounted`, `LastAlertAlwaysTrue` (`Panel_proofs`): `InOrder`,
  `Accounted` and `LastAlertTrue`, for the same range. `OrderInv` lines up everything
  that is on its way: what is delivered is older than what the worker holds, that
  than what waits in its queue, that than what is being handled, and that than the
  bus (`Lined`, `ReadSoFar`, `Below`). `SettledInv` is the accounting: each event of
  each addressee is under way, delivered, or listed as lost, and a message is
  booked only after it has gone out. `ConnInv` says that the newest alert about the
  connection is what `_last_conn` remembers; the last one that reached a chat that
  missed none is then the newest by the order and the accounting.
- `LetThroughLately`, `OwnerNeverRefused`, `CacheFollowsTable` (`Panel_proofs`):
  `GrantedLately`, `OwnerAllowed` and `CacheTracksRole` for any number of requests in
  progress, any life of the cache and any scene. `AccessInv` says what each
  request knows (`Holds`): the role it read was in the table since it began or
  no longer ago than the request is old, and still is unless the request was
  crossed. An entry of the cache inherits that age, so a role it grants is at most
  one life old. A request that found no row needs a case of its own
  (`Unregistered`): all of them would insert the same role. Every step behind the
  permission check keeps the invariant for one reason (`LaterKeeps`).
- `AccessTypes`, `LoneEditAlwaysHeals`, `SwitchAlwaysHolds` (`Panel_proofs`):
  `AccessTypeOK`, `LoneEditHeals` and `SwitchHolds`, for any requests, settings and
  accounts. `EditInv` says of an edit that is still alone that no other is in
  progress (`Alone`) and that what it read of the table is still so (`RowFits`: it
  creates a row only where there is none, and what it is about to send is the
  row). `AccountsInv` says that since the last switch no other account carries the
  mark, and that the list, which a switch, a new row, a deletion and midnight
  rearrange in four ways, remains a list of accounts of which the last few changed
  today.
- `SupervisorTypes`, `EndpointsAlwaysTruthful`, `AlwaysStaysAwake`
  (`Supervisor_proofs`): `EndpointsTruthful` and `StaysAwake`, for any lifetimes, pauses
  and timeouts. `TruthInv` says of both copies that one which tells of a connection
  was written no later than a live one was last published (`Witnessed`). `AwakeInv` bounds the time since the
  platform saw a request by what a round of the keepalive may have taken so far
  (`Spent`), as long as no ping was lost.
- `ReversalsEndTrends`, `EntriesFollowStructure`, `StrictRangesRefused`,
  `OrdersConfirmed`, `SettledStructureKept` (`DecisionGates_proofs`): for windows
  of any length and candles at any prices, any configuration, any readings and any
  H1 data. Structure is a recursive function over the bars; the library's
  induction theorems take an operator and cannot be used, so what holds of all
  readings is shown of the first that would not have it (`NatMin`, from the
  library's well-founded order on finite sets). `ReadingInv` ties trend, run and
  lists to the events: a trend stands on two breaks that are the last events, so a
  change of character follows them directly; the last event is the last of its
  list, so the cuts cannot hide the newest break. `SettledStructureKept` compares
  two functions: up to the last bar before which no swing is added they take the
  same steps, and what they add later bears later bars.
  `StrictRangesRefused` is the general form of the finding `sweep_missed`: the only
  bars compared with a swing are those that had to stay clear of it for it to be
  one (`NoSweeps`), in every window.
- `FailedBreaksRefused`, `EntriesCanBeTraded` (`DecisionGates_proofs`):
  `FailedBreakRefused` and `EntryGeometry`, for the same range. The first needs that
  every break in the list has its block in one of the two lists the fake breakout
  is looked for in (`EveryBlockSeen`), which holds because the lists of blocks are
  cut no shorter than the list of breaks. The second is arithmetic over the block
  and level lists, which may be empty, with the roundings of
  `calc_trade_parameters` and the configured reward (`StructureTyped`, `SettingsInv`).

Assumptions, all named in the modules:

- decisions: the analysis asks for at least as many bars as a swing looks back, its
  lists keep one event or more, the lists of blocks at least as many as the list of
  breaks (6 and 5 in the code), `RANGE_MIN_RR` is at least 1.0 (`config.py` enforces
  it), a range is measured on one candle or more, stamps of H1 are whole minutes;
- trailing: the staircase activates at 1 R or more, at least half an R above its
  buffer (the defaults are 1.0 and 0.1; `config.py` allows an activation of 0.1,
  where a triggered staircase may lock more than there is);
- guardian: limits are positive, a copy that is accepted is still in Redis
  (`FreshFor <= RedisTTL`, in the code 26 and 27 hours), the broker can report
  something;
- gates: a bar is refused as stale only after two of its own lengths, a position is
  in the bridge's list by the next tick, an order is executed or rejected before
  a new engine connects; for `NeverTwoPositions` also that `MAX_OPEN_TRADES` is 1,
  its default;
- trade log: the panel's list is no longer than the log (`PanelCap <= HistoryCap`);
- supervisor: a round of the keepalive with every try of the bridge timing out is
  shorter than the platform's limit, a heartbeat expires no later than the state
  in Redis, and the backoff's base is no more than its maximum;
- values that stand for "nothing" (`NoView`, `NoCopy`, `NoAcc`, `Nothing`, `None`) are none of
  the values they are told apart from.

Checked by TLC only: liveness, which is out of the prover's reach as `ENABLED` is:
`GuardianComesUp`, `Drained`, `Protected`, `WaitersServed`, `Settles`, `AlertsEnd`,
`EngineReturns`, `ClosesGetRecorded` and `ClosedLeavesPanel`. Every safety property
of a passing run is a theorem, and so are the type invariants and the two refinements
(of `RiskWindow` and of `CommandBox`).

What the recursive definitions of the market's structure compute is proved only as
far as it follows from a step (`NatMin`, see above): induction over data is out of
reach. The definitions of `TradeLedger` and `EntryGate` that go through rows
(`Merged`, `WithMissing`, `WithNew`) are recursive functions for the same reason, and what is
needed of them is shown of the first row that would not have it.

## 5. What the code does differently from what it says

- A bar that wicks through a confirmed swing and closes back is never reported as a
  liquidity sweep (`sweep_missed`): the sweeps of a bar are looked for among the swings of
  the last `SWING_LOOKBACK` bars (`smc_engine.py:421`), but a swing is one only if those
  bars stayed clear of it (`:204`, `:218`). Since the strict range filters, on by
  default, ask for a sweep (`config.py:168`, "the edge/sweep/reversal gate is
  mandatory"), no setup of a ranging market is ever allowed with them
  (`StrictRangesRefused`). The tests build their sweeps by hand
  (`tests/test_range_strategy.py:33`).
- A halt saved to the file while Redis was unreachable is lost when Redis is
  back at the restart (`HaltRestart.cfg`): `start()` never compares the ages of the
  two copies.
- A daily-loss halt is not lifted at UTC midnight (`HaltMidnight.cfg`): the halt
  pauses the loop and the paused loop never calls `check()`.
- The RANGE limit of the session does not survive a restart
  (`RangeLimit.cfg`): the STARTING state, with an empty log, is written over
  both copies before they are read.
- A pause does not win over a resume of the same poll (`ChannelPause.cfg`): the
  resume is skipped together with its clearing and applied by the next poll.

Observed and not turned into a run: limits set by UPDATE_RISK do not survive an
engine restart (`live_loop.py:1671` does not save them, `restore_state()` puts
older saved ones back, against `guardian.py:381`); with a bridge that both lags and loses
answers, two positions can open in one tick; with `MAX_OPEN_TRADES` above 1 the
second look refuses any recognised position, and lets through an unknown
corrupted one. In the channel, `CLOSE_ALL` from the trade service, and every command
without payload over HTTP, is stored as `{}`, which `_process_commands` takes for
absent: it is reported as sent and never applied (`redis_ipc.py:245` of the panel,
`server.py:402`). An update can be lost when two writes overlap
(the sender is still told "sent"); a command is applied again when the process
dies, or Redis becomes unreachable, between applying and clearing; a command in
the file's list that was also mirrored to Redis is applied again when Redis goes
away within its five minutes; and each write renews the expiry of the whole
dictionary, so old commands outlive their 300 seconds.

In trailing, without its entry row a position's risk is taken from its trailed
stop (`live_loop.py:1311`); the stairs become dense and the stop is drawn close
behind the price, up to more than a stair ahead of the original staircase, where
`live_loop.py:1292` says "just slightly more conservative". Since the log is often
empty after a restart (`RangeLimit.cfg`), this is the usual case and not the
rare one. `OwnStairs` therefore speaks of logged positions only.

In the connector: `_connected` can be true without an id, when the answer of
`/ConnectionStatus` arrives after the id was given up (`connector.py:378`); two
`ConnectEx` can be under way at once, because the refresh after 4 hours and
`start()` do not take the lock; the watchdog's count of failures outlives the
connection they were failures of, so that a single failed check can give up a
new connection, where `connector.py:430` wants two; a late failure gives up
whichever id is in force; the keepalive's "never invalidate or reconnect from this
task" (`connector.py:540`) is about its ping only; and if anything raised between
the creation of the tasks and `_run_loop()`, `start()`'s `finally` would leave the
watchdog and the session keepalive running (`live_loop.py:440` cancels the bridge
pings only), although nothing there lets an exception through today. None of
these keeps the connection from settling.

In the panel, `heartbeat.py:65` says positions that were open before the panel started
are not announced, but a first poll that cannot read the snapshot returns an
empty list and becomes the baseline, after which the same positions are
announced as new (`AnnouncedOnce` speaks of the first poll as it came back). The
events `robot.started`, `.stopped` and `.paused` have no subscriber
(`bot.py:306`), although `heartbeat.py:128` says that "status-change events already
notified the user". The engine's status alternates between RUNNING, WAITING,
SCANNING and HOLDING, and each return to RUNNING restarts the heartbeat's
interval (`heartbeat.py:109`), so that a robot at work sends hardly any heartbeat.
Switching a notification type off has no effect: `upsert_setting` relies on a
conflict that SQLite never sees for a NULL user, so each switch inserts another
row and `get_setting` keeps finding the first one. When the event bus is
stopped inside a handler, its worker calls `task_done()` twice (`event_bus.py:96` and
`:101`), and the `ValueError` leaves `stop()`.

In the server, `start()` returns `False` when it cannot connect and nothing
otherwise, so "Robot exited cleanly" and the reset of the backoff it brings are
never reached; the status CONFIG_ERROR is replaced by the next pause's before a
request can read it, so the 503 of `/health` (`server.py:41`) is practically never
given; the three pings within 15 minutes that `server.py:58` promises become one
when the bridge is slow (a round may take 525 s), which `StaysAwake` shows to be
enough; `/snapshot` stamps what it serves with the present time, however old it
is, and shows at most one position and none between bars.

In the trade log, the day's profit counts a trade closed by CLOSE_ALL twice (its
entry row and its audit row) and by the day it was entered, not closed
(`state_writer.py:214`); the panel's list shows trades that are still open as
CLOSED with ticket 0; while the engine is paused each update of the trades
renews the life of the whole snapshot, so positions closed meanwhile stay in it
(`ClosedLeavesPanel` excludes a paused engine); a bar whose rows are not
recognised ends before the snapshot is written; `save_trade` and
`compute_and_save_daily` have no caller, so the panel's reports stay empty. A
stop moved by trailing is recorded as SL.

In the panel's access, configured administrators become so only when their row is
first created (`auth.py:47` says it of every contact); an owner demoted by another
can undo that with a role change that was already permitted; of two overlapping
toggles one is lost, and two first saves both insert a row; a second click on
the confirmation creates an account twice; the parameter left behind by `/cancel`
is used by the next value; a risk value typed while the add-account conversation
waits goes to that one; the answers of that conversation are taken from anyone,
only its confirmation asks for the permission; switching to an account that does not
exist leaves none active and reports success; a new account comes up active, and
when no account was changed on the same day it takes over from the one switched to.

In the decisions, `NORMAL_MIN_CONFIDENCE` and `RANGE_MIN_CONFIDENCE` decide nothing:
outside a range the fixed reward of 2.0 R satisfies the marginal gate, in a range
the gate on R:R implies it. A configured minimum of five confirmations or more is
*lowered* to 4 where the code means to ask for one more (`min(base + 1, 4)`). Events
of the last bars are repainted when a swing is confirmed later, and the whole
reading may change when the window slides (`SettledStructureStays` says which part
is safe). With the strict filters off, a RANGE entry needs no votes. The
sessions' hours cover the day, so that BLOCKED means an unreadable timestamp. On
H1 an analysis that raised is refused because its averages do not match the
validated ones; on another timeframe its neutral range would confirm a RANGE
entry. A change of character never opens an order block, and a swing swept once
is not reported again.

## 6. Not modelled, and the plan

- Floating-point scores (moving averages, ADX, price action, Wyckoff, confidence,
  divergence) have no state and nothing finite to check; `DecisionGates` takes
  their outcome as any reading. News filters are part of "any bar may be
  skipped".
- Lots, account figures, statistics and reports are sums nothing else depends on.
- Keyboards, message texts, logging, environment parsing, encryption and SQL
  statements that write one row are I/O.
- `SessionManager` calls repository methods that do not exist and is not used. The
  limiter (`rate_limiter.py`) only refuses.
- The offline backtester replays candles and shares no state with the robot; the
  bridge is third-party, and modelled by what the robot sees of it.
- Hazards without a property (`PROJECT.json` has a note on each) are those where
  the code has no promise to check, such as limits that are changed in memory
  only.

What is left to do, in this order:

1. Compositions: `TradeLedger` with `PanelAlerts` (from the broker's close to the
   message), `Supervisor` with `Connection` (attempts over a connection whose id
   outlives an engine).
2. The sliding of windows beyond `MaxBars`, to say how much of a reading may change.
