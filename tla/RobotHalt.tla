------------------------------ MODULE RobotHalt ------------------------------
(***************************************************************************)
(* The trading engine's life around its circuit breaker: GoldScalperLive   *)
(* of live_trading/trading/live_loop.py from start() to the end of a tick, *)
(* the guardian it owns, the two persistent copies of the guardian's state *)
(* (a Redis key and a file), the panel commands that pause and resume it,  *)
(* and /force-resume of live_trading/server.py, which changes the engine   *)
(* object between any two awaits of the loop.                              *)
(*                                                                         *)
(* phase is where the engine's coroutine waits:                            *)
(*   crashed  no process                 boot   connecting to the bridge   *)
(*   down     process up, engine ended   boot2  second account fetch       *)
(*   tick     top of the loop            scan   connected, no bar yet      *)
(*   bars     between two bars           gates  guardian passed, the entry *)
(*                                              gates and the order follow *)
(* A step runs from one such point to the next.  Of the awaits inside a    *)
(* step, only a daily reset's account fetch comes before a write to this   *)
(* state, and nothing read before it is used after it.                     *)
(***************************************************************************)
EXTENDS RiskGuardian, FiniteSets

CONSTANTS
  Reports,             \* account figures [bal, eq] the broker may report
  Limits,              \* pairs of limits [LimitKeys -> percent]
  Defaults,            \* the pair config.py reads when the process starts
  LimitUpdates,        \* UPDATE_RISK payloads: functions on some of LimitKeys
  EnvPins,             \* the limits set in the environment
  DayLength,           \* clock units per UTC day
  FreshFor, RedisTTL,  \* ages up to which a copy is accepted, and Redis keeps it
  MaxTime,             \* bound of the clock
  MaxCommands,         \* bound of the commands one poll finds
  RedisMayFail, DiskMayFail,  \* whether a save may miss a copy
  NoAcc, NoCopy

ASSUME MoneyAssumption == Reports # {} /\ Reports \subseteq [bal : Int, eq : Int]

ASSUME NoAccAssumption == NoAcc \notin Reports

(* Limits are positive: with a limit of 0 every check without a profit     *)
(* halts.                                                                  *)
ASSUME LimitsAssumption ==
  /\ Limits \subseteq [LimitKeys -> Nat \ {0}]
  /\ Defaults \in Limits
  /\ EnvPins \subseteq LimitKeys
  /\ \A l \in Limits, u \in LimitUpdates :
       [k \in LimitKeys |-> IF k \in DOMAIN u THEN u[k] ELSE l[k]] \in Limits
  /\ \A l, m \in Limits :
       [k \in LimitKeys |-> IF k \in EnvPins THEN l[k] ELSE m[k]] \in Limits

ASSUME TimeAssumption ==
  /\ DayLength \in Nat \ {0}
  /\ FreshFor \in Nat /\ RedisTTL \in Nat /\ FreshFor <= RedisTTL
  /\ MaxTime \in Nat /\ MaxCommands \in Nat

ASSUME FlagAssumption == RedisMayFail \in BOOLEAN /\ DiskMayFail \in BOOLEAN

VARIABLES
  phase, running, paused,
  guardian,   \* the engine's RiskGuardian
  acc,        \* _last_acc_info
  config,     \* the limits in the process's config module
  account,    \* the account the environment names
  redis, disk, redisUp, \* the copies, and whether the client reaches Redis
  now,
  owed,       \* history: the halt the engine that served last was under, until lifted
  recovered   \* history: what the last start() recovered

engine  == <<phase, running, paused, guardian, acc>>
storage == <<redis, disk>>
world   == <<account, redisUp, now>>
history == <<owed, recovered>>
vars    == <<engine, config, storage, world, history>>

Copies  == [state : Guardians(Int, Limits), at : 0..MaxTime, current : BOOLEAN]
Phases  == {"crashed", "down", "boot", "boot2", "tick", "scan", "bars", "gates"}
Serving == phase \in {"tick", "scan", "bars", "gates"}
Today   == now \div DayLength

(* What a copy shows of its guardian's risk window.                        *)
Windows ==
  [halt : HaltReasons, peak : Int, sessionOpen : BOOLEAN, dayOpen : Int,
   lastDay : Int, id : Accounts \cup {NoId}, at : Int]

Shown(copy) ==
  IF copy = NoCopy THEN NoCopy
  ELSE [halt |-> copy.state.halt, peak |-> copy.state.peak,
        sessionOpen |-> copy.state.sessionOpen, dayOpen |-> copy.state.dayOpen,
        lastDay |-> copy.state.lastDay, id |-> copy.state.id, at |-> copy.at]

ASSUME NoCopyAssumption == NoCopy \notin Copies /\ NoCopy \notin Windows

(* What a poll of the command channel may return: the keys present, with   *)
(* "daily" for a reset_guardian whose payload asks for a new baseline.     *)
AllBatches ==
  [pause : BOOLEAN, resume : BOOLEAN, stop : BOOLEAN, start : BOOLEAN,
   reset : {"no", "plain", "daily"}, update : LimitUpdates \cup {NoCopy}]

Present(b) ==
  {k \in {"pause", "resume", "stop", "start"} : b[k]}
    \cup (IF b.reset = "no" THEN {} ELSE {"reset"})
    \cup (IF b.update = NoCopy THEN {} ELSE {"update"})

Batches == {b \in AllBatches : Cardinality(Present(b)) <= MaxCommands}

TypeOK ==
  /\ phase \in Phases
  /\ running \in BOOLEAN /\ paused \in BOOLEAN
  /\ guardian \in Guardians(Int, Limits)
  /\ acc \in Reports \cup {NoAcc}
  /\ config \in Limits
  /\ account \in Accounts
  /\ redis \in Copies \cup {NoCopy} /\ disk \in Copies \cup {NoCopy}
  /\ redisUp \in BOOLEAN
  /\ now \in 0..MaxTime
  /\ owed \in HaltReasons
  /\ recovered \in {"current", "older", "none"}

Init ==
  /\ phase = "crashed" /\ running = TRUE /\ paused = FALSE
  /\ guardian = Fresh(Defaults) /\ acc = NoAcc /\ config = Defaults
  /\ account \in Accounts
  /\ redis = NoCopy /\ disk = NoCopy
  /\ redisUp \in {TRUE, ~RedisMayFail}
  /\ now = 0 /\ owed = "none" /\ recovered = "none"

-----------------------------------------------------------------------------
(***************************************************************************)
(* Persistence.  _save_state() writes Redis, then the file; a failed write *)
(* is logged and leaves the older copy in place.                           *)
(***************************************************************************)
(* current is history: the copy holds the state the engine serving now, or *)
(* the last one that did, would go on from.                                *)
Aged(copy) == IF copy = NoCopy THEN NoCopy ELSE [copy EXCEPT !.current = FALSE]

Matched(copy, state) ==
  IF copy = NoCopy THEN NoCopy ELSE [copy EXCEPT !.current = (copy.state = state)]

Save(g) ==
  LET new == [state |-> g, at |-> now, current |-> TRUE]
  IN  /\ redis' = IF redisUp THEN new ELSE Aged(redis)
      /\ disk' \in {new} \cup (IF DiskMayFail THEN {Aged(disk)} ELSE {})

(* check() saves when the day turned, the peak rose or a breaker tripped,  *)
(* that is, when it changed anything.                                      *)
SaveIfChanged(old, new) ==
  IF new # old THEN Save(new) ELSE UNCHANGED storage

RedisCopy ==
  IF redisUp /\ redis # NoCopy /\ now - redis.at <= RedisTTL
  THEN redis ELSE NoCopy

(* Redis is asked first; the file only when Redis has nothing to say.      *)
SavedCopy == IF RedisCopy # NoCopy THEN RedisCopy ELSE disk

FreshCopy(copy) == copy # NoCopy /\ now - copy.at <= FreshFor

-----------------------------------------------------------------------------
(***************************************************************************)
(* start(): a new engine object connects, fetches the account, restores or *)
(* initializes its guardian and enters the loop.                           *)
(***************************************************************************)
Boot ==
  /\ phase \in {"crashed", "down"}
  /\ phase' = "boot" /\ running' = TRUE /\ paused' = FALSE
  /\ guardian' = Fresh(config) /\ acc' = NoAcc
  /\ UNCHANGED <<config, storage, world, history>>

ConnectFails ==
  /\ phase = "boot"
  /\ phase' = "down"
  /\ UNCHANGED <<running, paused, guardian, acc, config, storage, world, history>>

Identified(g, a) == IF a = NoAcc THEN g ELSE [g EXCEPT !.id = account]

RestoreGuardian(a) ==
  LET g == Identified(guardian, a)
      copy == SavedCopy
  IN  /\ FreshCopy(copy) /\ RestoreAccepts(g, copy.state)
      /\ guardian' = Restore(g, copy.state, EnvPins)
      /\ paused' = (paused \/ Halted(copy.state))
      /\ phase' = "tick"
      /\ recovered' = IF copy.current THEN "current" ELSE "older"
      /\ owed' = copy.state.halt
      /\ redis' = Matched(redis, copy.state) /\ disk' = Matched(disk, copy.state)

ColdStart(a) ==
  LET g == Identified(guardian, a)
  IN  /\ ~(FreshCopy(SavedCopy) /\ RestoreAccepts(g, SavedCopy.state))
      /\ recovered' = "none" /\ owed' = "none"
      /\ UNCHANGED paused
      /\ IF a # NoAcc /\ a.bal > 0
         THEN /\ guardian' = Initialize(g, a.bal, a.eq, Today)
              /\ Save(guardian')
              /\ phase' = "tick"
         ELSE /\ guardian' = g
              /\ phase' = "boot2"
              /\ redis' = Aged(redis) /\ disk' = Aged(disk)

RestoreOrInitialize ==
  \E a \in Reports \cup {NoAcc} :
    /\ phase = "boot"
    /\ acc' = a
    /\ RestoreGuardian(a) \/ ColdStart(a)
    /\ UNCHANGED <<running, config, world>>

(* The second fetch does not tell the guardian its account; without a      *)
(* positive balance the guardian stays uninitialized.                      *)
InitializeLate ==
  \E a \in Reports \cup {NoAcc} :
    /\ phase = "boot2"
    /\ phase' = "tick"
    /\ acc' = IF a = NoAcc THEN acc ELSE a
    /\ IF a # NoAcc /\ a.bal > 0
       THEN /\ guardian' = Initialize(guardian, a.bal, a.eq, Today)
            /\ Save(guardian')
       ELSE UNCHANGED <<guardian, storage>>
    /\ UNCHANGED <<running, paused, config, world, history>>

-----------------------------------------------------------------------------
(***************************************************************************)
(* The head of a tick: _process_commands() in its fixed order, then the    *)
(* paused branch or ensure_connected().                                    *)
(***************************************************************************)
Updated(limits, u) ==
  IF u = NoCopy THEN limits
  ELSE [k \in LimitKeys |-> IF k \in DOMAIN u THEN u[k] ELSE limits[k]]

Unpauses(b, g) == ~b.pause /\ ~Halted(g)

(* a is the account the daily reset reads: the cached one, or a fetch.     *)
ProcessCommands(b, a) ==
  LET resetOk == \/ b.reset = "plain"
                 \/ b.reset = "daily" /\ a # NoAcc /\ ~ResetRefused(TRUE, a.bal)
      g1 == IF resetOk
            THEN ResetHalt(guardian, b.reset = "daily",
                           IF a = NoAcc THEN 0 ELSE a.bal, Today)
            ELSE guardian
      resumed == b.resume /\ Unpauses(b, guardian)
      started == b.start /\ Unpauses(b, g1)
  IN  /\ paused' = ((paused \/ b.pause) /\ ~resumed /\ ~resetOk /\ ~started)
      /\ running' = ~b.stop
      /\ guardian' = [g1 EXCEPT !.limits = Updated(@, b.update)]
      /\ config' = Updated(config, b.update)
      /\ acc' = IF b.reset = "daily" THEN a ELSE acc
      /\ IF resetOk
         THEN Save(g1) /\ owed' = "none"
         ELSE UNCHANGED <<storage, owed>>

PollOf(b) ==
  \E a \in Reports \cup {NoAcc} :
    /\ phase = "tick" /\ running
    /\ acc # NoAcc => a = acc
    /\ ProcessCommands(b, a)
    /\ phase' \in IF paused' THEN {"tick"} ELSE {"tick", "scan"}
    /\ UNCHANGED <<world, recovered>>

Poll == \E b \in Batches : PollOf(b)

(* while self.running: the loop ends only at the head of a tick.           *)
Stop ==
  /\ phase = "tick" /\ ~running
  /\ phase' = "down"
  /\ UNCHANGED <<running, paused, guardian, acc, config, storage, world, history>>

(* No new bar: the account may be refreshed for the panel.                 *)
IdleTick ==
  /\ phase = "scan"
  /\ phase' = "tick"
  /\ acc' \in Reports \cup {acc}
  /\ UNCHANGED <<running, paused, guardian, config, storage, world, history>>

-----------------------------------------------------------------------------
(***************************************************************************)
(* _on_new_bar(), for each bar the tick found.                             *)
(***************************************************************************)
(* Too few candles, or no account data: the bar ends before the guardian.  *)
BarAbandoned ==
  /\ phase = "scan"
  /\ phase' = "bars"
  /\ UNCHANGED <<running, paused, guardian, acc, config, storage, world, history>>

\* Faulty variant: no lazy initialization.
CheckedNeverInitializes(a) ==
  IF guardian.init THEN Check(guardian, a.bal, a.eq, Today) ELSE guardian

(* Lazy initialization, then the check.                                    *)
Checked(a) ==
  Check(IF guardian.init THEN guardian
                         ELSE Initialize(guardian, a.bal, a.eq, Today),
        a.bal, a.eq, Today)

PausesAt(g) == paused \/ Halted(g)

BarCheck ==
  \E a \in Reports :
    /\ phase \in {"scan", "bars"}
    /\ acc' = a
    /\ guardian' = Checked(a)
    /\ SaveIfChanged(guardian, guardian')
    /\ paused' = PausesAt(guardian')
    /\ phase' = IF Halted(guardian') THEN "bars" ELSE "gates"
    /\ owed' = guardian'.halt
    /\ UNCHANGED <<running, config, world, recovered>>

(* The entry gates, the order and its bookkeeping: RiskGuardian's state is *)
(* not read again on this path.                                            *)
FinishEntry ==
  /\ phase = "gates"
  /\ phase' = "bars"
  /\ UNCHANGED <<running, paused, guardian, acc, config, storage, world, history>>

EndTick ==
  /\ phase = "bars"
  /\ phase' = "tick"
  /\ UNCHANGED <<running, paused, guardian, acc, config, storage, world, history>>

-----------------------------------------------------------------------------
(* POST /force-resume: acts on the engine object, also on one that is      *)
(* still connecting or has already ended.                                  *)
ForceResume ==
  \E rebase \in BOOLEAN :
    LET bal == IF acc = NoAcc THEN 0 ELSE acc.bal
        g1  == IF rebase /\ bal > 0
               THEN Initialize(guardian, bal, acc.eq, Today) ELSE guardian
    IN  /\ phase # "crashed"
        /\ guardian' = ResetHalt(g1, FALSE, bal, Today)
        /\ Save(guardian')
        /\ paused' = FALSE
        /\ owed' = "none"
        /\ UNCHANGED <<phase, running, acc, config, world, recovered>>

(* An exception leaves the loop: the supervisor catches it, the process    *)
(* and the limits set since it started live on.                            *)
EngineFails ==
  /\ phase \in {"boot", "boot2", "tick", "scan", "bars", "gates"}
  /\ phase' = "down"
  /\ UNCHANGED <<running, paused, guardian, acc, config, storage, world, history>>

(* The process dies; a redeployment may start it for another account.      *)
Crash ==
  /\ phase # "crashed"
  /\ phase' = "crashed"
  /\ running' = TRUE /\ paused' = FALSE
  /\ guardian' = Fresh(Defaults) /\ acc' = NoAcc /\ config' = Defaults
  /\ account' \in Accounts
  /\ UNCHANGED <<storage, redisUp, now, history>>

RedisFlips ==
  /\ RedisMayFail
  /\ redisUp' = ~redisUp
  /\ UNCHANGED <<engine, config, storage, account, now, history>>

Clock ==
  /\ now < MaxTime
  /\ now' = now + 1
  /\ UNCHANGED <<engine, config, storage, account, redisUp, history>>

RobotStep ==
  \/ Boot \/ RestoreOrInitialize \/ InitializeLate
  \/ Poll \/ Stop \/ IdleTick
  \/ BarAbandoned \/ BarCheck \/ FinishEntry \/ EndTick

Next ==
  \/ RobotStep \/ ConnectFails \/ ForceResume
  \/ EngineFails \/ Crash \/ RedisFlips \/ Clock

Spec == Init /\ [][Next]_vars

(* The loop and the supervisor are coroutines of one event loop: a step    *)
(* that stays enabled runs.  The bridge answers and bars close again and   *)
(* again, so connecting and checking a bar are strongly fair; operators,   *)
(* failures and crashes are not fair, so the poll that must eventually get *)
(* through is one that finds no command.                                   *)
NoCommands ==
  [pause |-> FALSE, resume |-> FALSE, stop |-> FALSE, start |-> FALSE,
   reset |-> "no", update |-> NoCopy]

Connects == PollOf(NoCommands) /\ phase' = "scan"

Fairness ==
  /\ WF_vars(Boot) /\ WF_vars(InitializeLate) /\ WF_vars(Stop)
  /\ WF_vars(FinishEntry) /\ WF_vars(EndTick) /\ WF_vars(Clock)
  /\ SF_vars(RestoreOrInitialize) /\ SF_vars(Connects) /\ SF_vars(BarCheck)

FairSpec == Spec /\ Fairness

-----------------------------------------------------------------------------
(***************************************************************************)
(* Properties.                                                             *)
(***************************************************************************)

(* live_loop.py: no bar reaches the entry gates unless the guardian was    *)
(* initialized and neither breaker holds on the account figures this bar   *)
(* fetched, whatever resets, baselines and limits changed in between.      *)
EntryGated ==
  phase = "gates" =>
    /\ guardian.init /\ ~Halted(guardian)
    /\ acc # NoAcc
    /\ ~DailyLossHit(guardian, acc.bal) /\ ~DrawdownHit(guardian, acc.eq)

(* live_loop.py: while the engine serves, a halted guardian means a paused *)
(* robot, so the panel never shows RUNNING over a tripped breaker and no   *)
(* tick spends itself on bars that cannot trade.                           *)
HaltedMeansPaused == Serving /\ Halted(guardian) => paused

(* guardian.py, _save_state(): a copy that was not outdated by a missed     *)
(* save tells of the halt that is in force, whatever happened to the       *)
(* engine since it was written; so does a serving engine's own guardian,   *)
(* and an engine that is still starting owes nothing it could lose.        *)
HaltRecorded ==
  /\ Serving => guardian.halt = owed
  /\ phase \in {"boot", "boot2"} => ~Halted(guardian)
  /\ phase = "boot2" => owed = "none"
  /\ \A copy \in {redis, disk} :
       copy # NoCopy /\ copy.current => copy.state.halt = owed

(* live_loop.py, start(): a restart that recovers the newest state the     *)
(* guardian saved also recovers the halt that was in force.                *)
RestartKeepsHalt ==
  [][(~Serving /\ Serving' /\ recovered' = "current" /\ owed # "none")
       => guardian'.halt = owed]_vars

(* OPERATIONS_GUIDE "MAX_DRAWDOWN: sticky": in a serving engine a drawdown *)
(* halt ends only together with the pause it caused, that is, by a reset   *)
(* an operator asked for; no day rollover lifts it.                        *)
DrawdownHaltSticky ==
  [][(Serving /\ Serving' /\ guardian.halt = "drawdown")
       => guardian'.halt = "drawdown" \/ (guardian'.halt = "none" /\ ~paused')]_vars

(* live_loop.py:307 "If Guardian was halted before restart it must remain  *)
(* halted": asked of every restart for which some copy still holds the     *)
(* newest state and is not out of date.                                    *)
HaltSurvivesRestart ==
  [][(/\ ~Serving /\ Serving' /\ owed # "none"
      /\ \E c \in {redis, disk} : FreshCopy(c) /\ c.current)
       => Halted(guardian')]_vars

(* live_loop.py:770: a guardian left uninitialized by start() does not     *)
(* block trading forever: an engine that keeps reaching its bars brings it *)
(* up, whatever resets and restarts happen in between.                     *)
GuardianComesUp == []<>(phase = "scan") => []<>(Serving /\ guardian.init)

(* OPERATIONS_GUIDE "DAILY_LOSS_LIMIT: auto-reset at UTC midnight": a      *)
(* daily-loss halt is lifted once the UTC day it belongs to is over.       *)
DailyHaltLifted ==
  (Serving /\ guardian.halt = "daily" /\ Today > guardian.lastDay)
    ~> (guardian.halt # "daily" \/ ~Serving)

(* The refinement: the window is what Redis holds.  RobotHalt, with its    *)
(* crashes, failed boots and restarts, implements the robot that never     *)
(* restarts.                                                               *)
Window ==
  INSTANCE RiskWindow WITH
    NoWindow <- NoCopy,
    window   <- Shown(redis),
    entering <- (phase = "gates")

RestartsInvisible == Window!Spec
=============================================================================
