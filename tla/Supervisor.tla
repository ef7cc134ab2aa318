------------------------------ MODULE Supervisor ------------------------------
(***************************************************************************)
(* The robot's process: live_trading/server.py.  Three tasks of one event  *)
(* loop - the supervisor that starts the engine and starts it again, the   *)
(* keepalive that pings the service through the hosting platform's edge,   *)
(* and the HTTP server whose /health, /status and /snapshot tell the panel *)
(* what the engine last published - and the platform that suspends a       *)
(* service nobody asks for.                                                *)
(*                                                                         *)
(* phase is where the supervisor waits:                                    *)
(*   dead  no process           boot   start() connects                    *)
(*   wait  between two attempts loop   the engine serves                   *)
(*         (left is the time    closing  _run_loop's finally               *)
(*         still to sleep)      ending   _run_robot_once's finally         *)
(* Time is relative: every age is counted up to the first value that no    *)
(* longer matters, so behaviours of any length have finitely many states.  *)
(***************************************************************************)
EXTENDS Integers, FiniteSetsExt

CONSTANTS
  BackoffBase, BackoffMax, \* pauses between two attempts
  HeartbeatMax,            \* _HEARTBEAT_MAX_AGE_SECONDS
  StateTTL,                \* Redis drops the state key after this
  PingEvery,               \* _KEEPALIVE_INTERVAL_SECONDS
  PingTimeout,             \* of one ping, and the pause before a further one
  BridgeTries,             \* pings of the bridge per round
  SuspendAfter,            \* the platform suspends a service not asked for so long
  NoCopy

ASSUME PauseAssumption ==
  /\ BackoffBase \in Nat \ {0} /\ BackoffMax \in Nat /\ BackoffBase <= BackoffMax

ASSUME AgeAssumption ==
  HeartbeatMax \in Nat /\ StateTTL \in Nat /\ HeartbeatMax <= StateTTL

\* A round: the pause, the own ping, the bridge's, and the pauses between those.
ASSUME PingAssumption ==
  /\ PingEvery \in Nat \ {0} /\ PingTimeout \in Nat \ {0}
  /\ BridgeTries \in Nat \ {0} /\ SuspendAfter \in Nat
  /\ PingEvery + 2 * BridgeTries * PingTimeout < SuspendAfter

VARIABLES
  phase, left, backoff, robotStatus,
  result,           \* how the engine's start() ended, until the supervisor sees it
  config,           \* the environment names a bridge and an account
  file, redis,      \* the published state, or NoCopy
  redisUp,
  ping,             \* the keepalive task: [at, left, tries]
  quiet,            \* time since the edge last saw a request for this service
  linked,           \* history: time since an engine last published a live connection
  lost              \* history: pings in a row the edge did not see

engine    == <<phase, left, backoff, robotStatus, result>>
published == <<file, redis>>
edge      == <<ping, quiet, lost>>
vars == <<engine, config, published, redisUp, edge, linked>>

Results == {"none", "raised", "false", "nothing"}
Least(a, b) == IF a <= b THEN a ELSE b
Cap == StateTTL + 1
Copies == [conn : BOOLEAN, age : 0..Cap]
PingLimit == Max({PingEvery, PingTimeout})
Pings == [at : {"sleep", "own", "bridge", "again"}, left : 0..PingLimit,
          tries : 0..BridgeTries]
Up == phase # "dead"

TypeOK ==
  /\ phase \in {"dead", "wait", "boot", "loop", "closing", "ending"}
  /\ left \in 0..BackoffMax /\ backoff \in BackoffBase..BackoffMax
  /\ robotStatus \in {"STARTING", "RUNNING", "STOPPED", "RETRY"}
  /\ result \in Results
  /\ config \in BOOLEAN /\ redisUp \in BOOLEAN
  /\ file \in Copies \cup {NoCopy} /\ redis \in Copies \cup {NoCopy}
  /\ ping \in Pings
  /\ quiet \in 0..SuspendAfter
  /\ linked \in 0..Cap /\ lost \in 0..1

NoPing == [at |-> "sleep", left |-> 0, tries |-> 0]

Init ==
  /\ phase = "dead" /\ left = 0 /\ backoff = BackoffBase
  /\ robotStatus = "STARTING" /\ result = "none"
  /\ config \in BOOLEAN /\ redisUp \in BOOLEAN
  /\ file = NoCopy /\ redis = NoCopy
  /\ ping = NoPing /\ quiet = 0
  /\ linked = Cap /\ lost = 0

-----------------------------------------------------------------------------
(***************************************************************************)
(* Publication: _write_state() writes the file and mirrors it to Redis;    *)
(* either write may fail and then leaves the older copy.  Of the state, a  *)
(* copy keeps its age and what is_connected() said; its status text is     *)
(* abstracted to "published".                                              *)
(***************************************************************************)
Publish(conn) ==
  LET new == [conn |-> conn, age |-> 0]
  IN  /\ file' \in {new, file}
      /\ redis' \in {redis} \cup (IF redisUp THEN {new} ELSE {})
      /\ linked' = IF conn THEN 0 ELSE linked

Fresh(copy) == copy # NoCopy /\ copy.age <= HeartbeatMax

RedisCopy == IF redisUp THEN redis ELSE NoCopy

Sources == {RedisCopy, file} \ {NoCopy}

\* GET /health: the status of the freshest of the fresh copies.
Health ==
  IF \E c \in Sources : Fresh(c) THEN "published"
  ELSE IF Sources # {} THEN "DISCONNECTED" ELSE robotStatus

\* Faulty variant: a copy is shown as it was written.
ShownAsWritten(copy) == [conn |-> copy.conn, fresh |-> Fresh(copy)]

\* A copy that is too old is shown as disconnected.
Shown(copy) == [conn |-> copy.conn /\ Fresh(copy), fresh |-> Fresh(copy)]

NothingKnown == [conn |-> FALSE, fresh |-> FALSE]

\* GET /status: Redis while it is fresh, then the file, then whatever Redis has.
Status ==
  IF Fresh(RedisCopy) THEN Shown(RedisCopy)
  ELSE IF file # NoCopy THEN Shown(file)
  ELSE IF RedisCopy # NoCopy THEN Shown(RedisCopy)
  ELSE NothingKnown

-----------------------------------------------------------------------------
(***************************************************************************)
(* The engine's life, as its supervisor and its readers see it.            *)
(***************************************************************************)
ProcessStarts ==
  /\ phase = "dead"
  /\ phase' = "wait" /\ left' = 0 /\ backoff' = BackoffBase
  /\ robotStatus' = "STARTING" /\ result' = "none"
  /\ config' \in BOOLEAN
  /\ file' \in {file, NoCopy}
  /\ ping' = NoPing /\ quiet' = 0 /\ lost' = 0
  /\ UNCHANGED <<redis, redisUp, linked>>

(* Only a start() that returns something true counts as a clean exit, and  *)
(* none does: False is a failed start, and start() falls off its end       *)
(* after an engine that was told to stop.                                  *)
Slept(r) ==
  IF r \in {"raised", "false", "nothing"}
  THEN /\ left' = Least(backoff, BackoffMax)
       /\ backoff' = Least(2 * backoff, BackoffMax)
       /\ robotStatus' = "RETRY"
  ELSE /\ left' = BackoffBase /\ backoff' = BackoffBase
       /\ UNCHANGED robotStatus

\* CONFIG_ERROR is replaced by RETRY_IN before anyone can read it.
AttemptUnconfigured ==
  /\ phase = "wait" /\ left = 0 /\ ~config
  /\ Slept("raised")
  /\ UNCHANGED <<phase, result, config, published, redisUp, edge, linked>>

Attempt ==
  /\ phase = "wait" /\ left = 0 /\ config
  /\ phase' = "boot" /\ robotStatus' = "RUNNING"
  /\ Publish(FALSE)
  /\ UNCHANGED <<left, backoff, result, config, redisUp, edge>>

Ends(r) == /\ phase' = "ending" /\ result' = r /\ robotStatus' = "STOPPED"
           /\ UNCHANGED <<left, backoff>>

BootRefused ==
  /\ phase = "boot"
  /\ Publish(FALSE)
  /\ Ends("false")
  /\ UNCHANGED <<config, redisUp, edge>>

BootRaises ==
  /\ phase = "boot"
  /\ Ends("raised")
  /\ UNCHANGED <<config, published, redisUp, edge, linked>>

BootSucceeds ==
  /\ phase = "boot"
  /\ phase' = "loop"
  /\ \E conn \in BOOLEAN : Publish(conn)
  /\ UNCHANGED <<left, backoff, robotStatus, result, config, redisUp, edge>>

Beat ==
  /\ phase = "loop"
  /\ \E conn \in BOOLEAN : Publish(conn)
  /\ UNCHANGED <<engine, config, redisUp, edge>>

LoopStops ==
  /\ phase = "loop"
  /\ phase' = "closing" /\ result' = "nothing"
  /\ UNCHANGED <<left, backoff, robotStatus, config, published, redisUp, edge, linked>>

LoopRaises ==
  /\ phase = "loop"
  /\ phase' = "closing" /\ result' = "raised"
  /\ \E conn \in BOOLEAN : Publish(conn)
  /\ UNCHANGED <<left, backoff, robotStatus, config, redisUp, edge>>

LoopClosed ==
  /\ phase = "closing"
  /\ Publish(FALSE)
  /\ Ends(result)
  /\ UNCHANGED <<config, redisUp, edge>>

\* Faulty variant: an engine that was told to stop ends its supervisor.
SupervisesFailures ==
  /\ phase = "ending" /\ result # "nothing"
  /\ phase' = "wait" /\ result' = "none"
  /\ Slept(result)
  /\ UNCHANGED <<config, published, redisUp, edge, linked>>

Supervise ==
  /\ phase = "ending"
  /\ phase' = "wait" /\ result' = "none"
  /\ Slept(result)
  /\ UNCHANGED <<config, published, redisUp, edge, linked>>

-----------------------------------------------------------------------------
(***************************************************************************)
(* The keepalive: its own /health through the edge, then the bridge, which *)
(* is asked again a few times while it does not answer 200.                *)
(***************************************************************************)
PingAt(at, time, tries) == [at |-> at, left |-> time, tries |-> tries]

Wakes ==
  /\ Up /\ ping.at = "sleep" /\ ping.left = 0
  /\ ping' = PingAt("own", PingTimeout, 0)
  /\ UNCHANGED <<engine, config, published, redisUp, quiet, lost, linked>>

PingOwn ==
  \E seen \in BOOLEAN :
    /\ Up /\ ping.at = "own"
    /\ ping' = PingAt("bridge", PingTimeout, 1)
    /\ quiet' = IF seen THEN 0 ELSE quiet
    /\ lost' = IF seen THEN 0 ELSE 1
    /\ UNCHANGED <<engine, config, published, redisUp, linked>>

\* Faulty variant: the bridge is asked until it answers.
AsksAgainForever(n) == TRUE

AsksAgain(n) == n < BridgeTries

PingBridge ==
  \E answers \in BOOLEAN :
    /\ Up /\ ping.at = "bridge"
    /\ ping' = IF ~answers /\ AsksAgain(ping.tries)
               THEN PingAt("again", PingTimeout, ping.tries)
               ELSE PingAt("sleep", PingEvery, 0)
    /\ UNCHANGED <<engine, config, published, redisUp, quiet, lost, linked>>

PingAgain ==
  /\ Up /\ ping.at = "again" /\ ping.left = 0
  /\ ping' = PingAt("bridge", PingTimeout, Least(ping.tries + 1, BridgeTries))
  /\ UNCHANGED <<engine, config, published, redisUp, quiet, lost, linked>>

-----------------------------------------------------------------------------
(***************************************************************************)
(* The platform, Redis and time.                                           *)
(***************************************************************************)
\* The process dies, is redeployed, or is suspended for want of requests.
Dies ==
  /\ phase' = "dead" /\ left' = 0 /\ backoff' = BackoffBase
  /\ robotStatus' = "STARTING" /\ result' = "none"
  /\ ping' = NoPing /\ quiet' = 0 /\ lost' = 0
  /\ UNCHANGED <<config, published, redisUp, linked>>

Crash == Up /\ Dies

Suspended == Up /\ quiet = SuspendAfter /\ Dies

RedisFlips ==
  /\ redisUp' = ~redisUp
  /\ UNCHANGED <<engine, config, published, edge, linked>>

Older(copy) == IF copy = NoCopy THEN NoCopy ELSE [copy EXCEPT !.age = Least(@ + 1, Cap)]

Expired(copy) == IF copy # NoCopy /\ copy.age > StateTTL THEN NoCopy ELSE copy

(* A timer that has run out is served before time goes on, and no request  *)
(* outlasts its timeout.                                                   *)
NothingDue ==
  /\ phase = "wait" => left > 0
  /\ Up => ping.left > 0
  /\ Up => quiet < SuspendAfter

Tick ==
  /\ NothingDue
  /\ left' = IF phase = "wait" THEN left - 1 ELSE left
  /\ ping' = IF Up THEN [ping EXCEPT !.left = @ - 1] ELSE ping
  /\ quiet' = IF Up THEN quiet + 1 ELSE quiet
  /\ file' = Older(file) /\ redis' = Expired(Older(redis))
  /\ linked' = Least(linked + 1, Cap)
  /\ UNCHANGED <<phase, backoff, robotStatus, result, config, redisUp, lost>>

EngineStep ==
  \/ AttemptUnconfigured \/ Attempt
  \/ BootRefused \/ BootRaises \/ BootSucceeds
  \/ Beat \/ LoopStops \/ LoopRaises \/ LoopClosed \/ Supervise

KeepaliveStep == Wakes \/ PingOwn \/ PingBridge \/ PingAgain

Next ==
  \/ ProcessStarts \/ EngineStep \/ KeepaliveStep
  \/ Crash \/ Suspended \/ RedisFlips \/ Tick

Spec == Init /\ [][Next]_vars

(* Coroutines that can go on do; time passes.  The bridge lets an engine   *)
(* in once it was asked often enough, hence strong fairness of a start     *)
(* that succeeds; neither failures nor operators are fair.                 *)
Fairness ==
  /\ WF_vars(ProcessStarts) /\ WF_vars(Attempt) /\ WF_vars(AttemptUnconfigured)
  /\ WF_vars(LoopClosed) /\ WF_vars(Supervise)
  /\ WF_vars(KeepaliveStep) /\ WF_vars(Suspended) /\ WF_vars(Tick)
  /\ SF_vars(BootSucceeds)

FairSpec == Spec /\ Fairness

-----------------------------------------------------------------------------
(***************************************************************************)
(* Properties.                                                             *)
(***************************************************************************)

(* server.py, _status() and _health() choose between two copies by rules   *)
(* of their own.  Whichever of them missed a write, expired, or survived   *)
(* the process that wrote it, "connected" is never older than a heartbeat  *)
(* may be, and one endpoint speaks of a live engine exactly when the other *)
(* does.                                                                   *)
EndpointsTruthful ==
  Up => /\ Status.conn => linked <= HeartbeatMax
        /\ Status.fresh <=> Health = "published"

(* server.py:36 "so Render free-tier services never spin down": unless a   *)
(* ping was lost on its way, the platform never finds the service idle     *)
(* long enough to suspend it, however slowly the bridge answers.           *)
StaysAwake == lost = 0 => quiet < SuspendAfter

(* server.py:6 "robot loop restarts with exponential backoff on any        *)
(* failure": an engine that ended, for whatever reason, serves again,      *)
(* unless the configuration is missing or the process is restarted.        *)
EngineReturns == (phase = "ending" /\ config) ~> (phase = "loop" \/ phase = "dead")
=============================================================================
