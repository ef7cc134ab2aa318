------------------------------ MODULE Connection ------------------------------
(***************************************************************************)
(* The one connection to the MT5 bridge (connector.py) and the tasks that  *)
(* share its module variables: the engine, the watchdog and the session    *)
(* keepalive, from the engine's start to its end and its next life.        *)
(*                                                                         *)
(* A task is where its coroutine waits:                                    *)
(*   off      there is no such task      pause    between two attempts     *)
(*   rest     elsewhere                  check    the watchdog's own check *)
(*   status   ConnectionStatus           request  a query of the engine    *)
(*   result   lock: for what comes of it closing  disconnect               *)
(*   turn     lock: to reconnect                                           *)
(*   connect  ConnectEx                                                    *)
(*                                                                         *)
(* A connection id is what the bridge makes of it: a live session or a     *)
(* dead one.  A request is to the current id or to a former one.           *)
(***************************************************************************)
EXTENDS Integers

CONSTANTS
  StartTries,   \* connect_with_retry of start()
  RetryTries    \* connect_with_retry of ensure_connected()

ASSUME TriesAssumption == StartTries \in Nat \ {0} /\ RetryTries \in Nat \ {0}

VARIABLES
  con,      \* the module variables
  task,
  healthy   \* the bridge answers whatever is sent to a live session

vars == <<con, task, healthy>>

Crew   == {"watchdog", "keepalive"}
Tasks  == {"engine"} \cup Crew
Nobody == "nobody"

\* age: _CONNECT_GRACE_PERIOD is not over; over; _MT5_SESSION_REFRESH_AGE_S is.
Module ==
  [connected : BOOLEAN, id : {"none", "live", "dead"}, base : BOOLEAN,
   age : {"grace", "settled", "old"}, lock : Tasks \cup {Nobody}, fails : 0..1]

\* query: which attempt of a query goes on when the task is done.
Frames ==
  [at : {"off", "rest", "status", "result", "turn", "connect", "pause",
         "check", "request", "closing"},
   to : {"none", "current", "live", "dead"}, tries : Nat, query : 0..2]

Place(at, to, tries, query) == [at |-> at, to |-> to, tries |-> tries, query |-> query]
Off  == Place("off", "none", 0, 0)
Rest == Place("rest", "none", 0, 0)

TypeOK ==
  /\ con \in Module
  /\ task \in [Tasks -> Frames]
  /\ \A t \in Tasks : task[t].tries <= StartTries \/ task[t].tries <= RetryTries
  /\ healthy \in BOOLEAN

Fresh == [connected |-> FALSE, id |-> "none", base |-> FALSE, age |-> "old",
          lock |-> Nobody, fails |-> 0]

Init ==
  /\ con = Fresh /\ task = [t \in Tasks |-> Off] /\ healthy \in BOOLEAN

-----------------------------------------------------------------------------
(***************************************************************************)
(* What the steps are made of.  g are the module variables and fs the      *)
(* frames as the step has left them so far.                                *)
(***************************************************************************)
\* The id is replaced or given up: requests on their way go to a former one.
Former(fs) ==
  [u \in Tasks |-> IF fs[u].to = "current" THEN [fs[u] EXCEPT !.to = con.id] ELSE fs[u]]

Becomes(t, g, fs, frame) ==
  con' = g /\ task' = [fs EXCEPT ![t] = frame] /\ UNCHANGED healthy

\* Without an id or an address a request cannot succeed.
Aim(g) == IF g.id = "none" \/ ~g.base THEN "dead" ELSE "current"

\* The caller of ensure_connected(): a query goes on, all others are done.
Returned(t, ok, g, fs) ==
  LET q == fs[t].query
  IN  Becomes(t, g, fs, IF ok /\ q > 0 THEN Place("request", Aim(g), 0, q) ELSE Rest)

(* Faulty variant: a failed attempt leaves the lock with its holder. *)
ReleaseOnSuccess(t, g) ==
  [g EXCEPT !.lock = IF @ = t /\ g.connected THEN Nobody ELSE @]

Release(t, g) == [g EXCEPT !.lock = IF @ = t THEN Nobody ELSE @]

Connecting(t, g, fs, tries, query) ==
  Becomes(t, [g EXCEPT !.base = TRUE], fs, Place("connect", "none", tries, query))

Waiting(t) == task[t].at \in {"result", "turn"}

\* The lock is free and nobody is before us: the check inside it is in vain.
Reconnect(t, g, fs, query) ==
  LET lost == [g EXCEPT !.connected = FALSE]
  IN  IF g.lock # Nobody THEN Becomes(t, lost, fs, Place("result", "none", 0, query))
      ELSE IF \E u \in Tasks \ {t} : Waiting(u)
      THEN Becomes(t, lost, fs, Place("turn", "none", 0, query))
      ELSE Connecting(t, [lost EXCEPT !.lock = t], fs, 1, query)

InGrace(g) == g.connected /\ g.age = "grace"

EnsureConnected(t, g, fs, query) ==
  IF g.id # "none" /\ InGrace(g)
  THEN Returned(t, TRUE, g, [fs EXCEPT ![t].query = query])
  ELSE IF g.id # "none" /\ g.base
  THEN Becomes(t, g, fs, Place("status", "current", 0, query))
  ELSE Reconnect(t, g, fs, query)

Invalidated(g) == [g EXCEPT !.connected = FALSE, !.id = "none"]
Disconnected(g) == [Invalidated(g) EXCEPT !.base = FALSE]

\* One attempt of a query.
Attempt(n, g, fs) ==
  IF g.id = "none" THEN EnsureConnected("engine", g, fs, n)
  ELSE Becomes("engine", g, fs, Place("request", Aim(g), 0, n))

-----------------------------------------------------------------------------
(***************************************************************************)
(* The bridge's answers.                                                   *)
(***************************************************************************)
Target(t) == IF task[t].to = "current" THEN con.id ELSE task[t].to

Answers(t) == Target(t) = "live"
Errs(t) == Target(t) # "live" \/ ~healthy

StatusGood(t) ==
  /\ task[t].at = "status" /\ Answers(t)
  /\ Returned(t, TRUE, [con EXCEPT !.connected = TRUE], task)

StatusBad(t) ==
  /\ task[t].at = "status" /\ Errs(t)
  /\ Reconnect(t, con, task, task[t].query)

ResultTaken(t) ==
  /\ task[t].at = "result" /\ con.lock = Nobody
  /\ Returned(t, con.connected, con, task)

TurnTaken(t) ==
  /\ task[t].at = "turn" /\ con.lock = Nobody
  /\ IF InGrace(con) THEN Returned(t, TRUE, con, task)
     ELSE Connecting(t, [con EXCEPT !.lock = t], task, 1, task[t].query)

(* start() waits for its first connection; the crew is not there yet.      *)
Starting(t) == t = "engine" /\ task["watchdog"] = Off

Spawned(fs) == [u \in Tasks |-> IF u \in Crew THEN Rest ELSE fs[u]]

\* connect(): a ConnectEx whose HTTP session was closed cannot succeed.
ConnectGood(t) ==
  /\ task[t].at = "connect" /\ task[t].to # "dead"
  /\ LET g == Release(t, [con EXCEPT !.connected = TRUE, !.id = "live", !.age = "grace"])
     IN  IF Starting(t)
         THEN Becomes(t, [g EXCEPT !.fails = 0], Spawned(Former(task)), Rest)
         ELSE Returned(t, TRUE, g, Former(task))

\* The keepalive's refresh is a single attempt outside the lock.
Tries(t) ==
  IF Starting(t) THEN StartTries ELSE IF con.lock = t THEN RetryTries ELSE 1

(* connect() fails.  A start() that fails ends the engine: the supervisor  *)
(* disconnects.                                                            *)
ConnectBad(t) ==
  /\ task[t].at = "connect" /\ (task[t].to = "dead" \/ ~healthy)
  /\ LET g == [con EXCEPT !.connected = FALSE]
     IN  IF task[t].tries < Tries(t)
         THEN Becomes(t, g, task, [task[t] EXCEPT !.at = "pause", !.to = "none"])
         ELSE IF Starting(t)
         THEN Becomes(t, Disconnected(g), Former(task), Place("closing", "none", 0, 0))
         ELSE Returned(t, FALSE, Release(t, g), task)

PauseOver(t) ==
  /\ task[t].at = "pause"
  /\ Connecting(t, con, task, task[t].tries + 1, task[t].query)

-----------------------------------------------------------------------------
(***************************************************************************)
(* The watchdog and the keepalive.                                         *)
(***************************************************************************)
WatchdogWakes ==
  /\ task["watchdog"].at = "rest" /\ ~InGrace(con)
  /\ IF con.connected /\ con.id # "none"
     THEN Becomes("watchdog", con, task, Place("check", Aim(con), 0, 0))
     ELSE EnsureConnected("watchdog", con, task, 0)

CheckGood ==
  /\ task["watchdog"].at = "check" /\ Answers("watchdog")
  /\ Becomes("watchdog", [con EXCEPT !.fails = 0], task, Rest)

(* Faulty variant: a failed check is never counted. *)
CheckBadUncounted ==
  /\ task["watchdog"].at = "check" /\ Errs("watchdog")
  /\ Becomes("watchdog", con, task, Rest)

\* The second failure in a row gives the id up, whichever it is by now.
CheckBad ==
  /\ task["watchdog"].at = "check" /\ Errs("watchdog")
  /\ IF con.fails = 0
     THEN Becomes("watchdog", [con EXCEPT !.fails = 1], task, Rest)
     ELSE Reconnect("watchdog", Invalidated([con EXCEPT !.fails = 0]), Former(task), 0)

\* The keepalive's ping changes nothing and is left out.
KeepaliveWakes ==
  /\ task["keepalive"].at = "rest"
  /\ IF con.connected /\ con.id # "none" /\ con.base
     THEN con.age = "old" /\ Connecting("keepalive", con, task, 1, 0)
     ELSE /\ con.id # "none" \/ con.base
          /\ EnsureConnected("keepalive", con, task, 0)

-----------------------------------------------------------------------------
(***************************************************************************)
(* The engine.                                                             *)
(***************************************************************************)
Up == task["engine"].at = "rest"

Tick == Up /\ EnsureConnected("engine", con, task, 0)

QueryStarts == Up /\ Attempt(1, con, task)

RequestGood ==
  /\ task["engine"].at = "request" /\ Answers("engine")
  /\ Becomes("engine", con, task, Rest)

\* Whatever does not look like an answer is taken for a dead session, once.
RequestBad ==
  /\ task["engine"].at = "request" /\ Errs("engine")
  /\ IF task["engine"].query = 1
     THEN Attempt(2, Invalidated(con), Former(task))
     ELSE Becomes("engine", con, task, Rest)

\* get_open_positions, get_closed_position_history: an HTTP error is raised.
RequestRaises ==
  /\ task["engine"].at = "request" /\ Errs("engine")
  /\ Becomes("engine", con, task, Rest)

Closing == Place("closing", "none", 0, 0)

RestartMt5 == Up /\ Becomes("engine", Disconnected(con), Former(task), Closing)

(* Faulty variant: the session keepalive is forgotten. *)
CancelledWatchdog(fs) == [fs EXCEPT !["watchdog"] = Off]

Cancelled(fs) == [u \in Tasks |-> IF u \in Crew THEN Off ELSE fs[u]]

\* _run_loop's finally: the crew is cancelled, which frees the lock; disconnect.
EngineEnds ==
  /\ Up
  /\ LET g == [con EXCEPT !.lock = IF @ \in Crew THEN Nobody ELSE @]
     IN  Becomes("engine", Disconnected(g), Former(Cancelled(task)), Closing)

(* The HTTP session is closed, with the requests under way on it.  After   *)
(* an engine the supervisor disconnects once more.                         *)
Cut(fs) ==
  [u \in Tasks |-> IF fs[u].at \in {"status", "check", "request", "connect"}
                   THEN [fs[u] EXCEPT !.to = "dead"] ELSE fs[u]]

Closed ==
  /\ task["engine"].at = "closing"
  /\ IF task["watchdog"] = Off
     THEN Becomes("engine", Disconnected(con), Cut(Former(task)), Off)
     ELSE Becomes("engine", con, Cut(task), Rest)

\* The supervisor's next engine.
Start ==
  /\ task["engine"] = Off
  /\ Connecting("engine", con, task, 1, 0)

-----------------------------------------------------------------------------
(***************************************************************************)
(* The world.                                                              *)
(***************************************************************************)
Aged ==
  /\ \/ con.age = "grace" /\ con' = [con EXCEPT !.age = "settled"]
     \/ con.age = "settled" /\ con' = [con EXCEPT !.age = "old"]
  /\ UNCHANGED <<task, healthy>>

HealthChanges == healthy' = ~healthy /\ UNCHANGED <<con, task>>

\* The session in use ends, or one that a request is still on its way to.
SessionEnds ==
  /\ ~healthy
  /\ \/ con.id = "live" /\ con' = [con EXCEPT !.id = "dead"] /\ UNCHANGED task
     \/ \E t \in Tasks :
          /\ task[t].to = "live"
          /\ task' = [task EXCEPT ![t].to = "dead"] /\ UNCHANGED con
  /\ UNCHANGED healthy

\* The process dies; its sessions are nobody's any more.
Crash ==
  /\ con' = Fresh /\ task' = [t \in Tasks |-> Off] /\ UNCHANGED healthy

Proceeds(t) ==
  StatusGood(t) \/ StatusBad(t) \/ ConnectGood(t) \/ ConnectBad(t) \/ PauseOver(t)

Acquires(t) == ResultTaken(t) \/ TurnTaken(t)

Next ==
  \/ \E t \in Tasks : Proceeds(t) \/ Acquires(t)
  \/ WatchdogWakes \/ CheckGood \/ CheckBad \/ KeepaliveWakes
  \/ Tick \/ QueryStarts \/ RequestGood \/ RequestBad \/ RequestRaises
  \/ RestartMt5 \/ EngineEnds \/ Closed \/ Start
  \/ Aged \/ HealthChanges \/ SessionEnds \/ Crash

Spec == Init /\ [][Next]_vars

(* Calls have timeouts, pauses end, the watchdog wakes every 30 s, and a   *)
(* lock that is free again and again is got by each who waits for it.      *)
(* Nothing is asked of the engine's ticks: a paused engine makes none.     *)
FairSpec ==
  /\ Spec
  /\ \A t \in Tasks : WF_vars(Proceeds(t)) /\ SF_vars(Acquires(t))
  /\ WF_vars(WatchdogWakes) /\ WF_vars(CheckGood \/ CheckBad)
  /\ WF_vars(RequestGood \/ RequestBad \/ RequestRaises)
  /\ WF_vars(Closed) /\ WF_vars(Aged)

-----------------------------------------------------------------------------
(***************************************************************************)
(* Properties.                                                             *)
(***************************************************************************)
(* Between two engines there is no connection, no lock held and no task    *)
(* that might make one (_run_loop's finally, _run_robot_once's finally).   *)
QuietBetween ==
  task["engine"] = Off =>
    /\ con.id = "none" /\ ~con.connected /\ con.lock = Nobody
    /\ \A t \in Crew : task[t] = Off

(* Whoever waits for a reconnection under way gets an answer, whatever the *)
(* bridge does and however attempts fail or are cancelled                  *)
(* (ensure_connected, _reconnect_lock).                                    *)
WaitersServed == \A t \in Tasks : Waiting(t) ~> ~Waiting(t)

Usable == con.connected /\ con.id = "live" /\ con.base

(* With a bridge that answers from some time on and nobody disconnecting,  *)
(* the watchdog brings the connection back and the tasks stop taking it    *)
(* from each other, in whatever state their failures have left it and      *)
(* without any tick of the engine (start_connection_watchdog).             *)
Settles ==
  <>[](healthy /\ task["watchdog"] # Off /\ task["engine"].at # "closing") => <>[]Usable
=============================================================================
