--------------------------- MODULE Connection_proofs ---------------------------
(***************************************************************************)
(* Theorems about Connection, for any number of attempts.                  *)
(***************************************************************************)
EXTENDS Connection, TLAPS

(***************************************************************************)
(* The inductive invariant.                                                *)
(***************************************************************************)
PausesFew ==
  \A t \in Tasks :
    task[t].at = "pause" => task[t].tries < StartTries \/ task[t].tries < RetryTries

(* Only a task that is about to connect holds the lock.                    *)
LockHeld == \A t \in Tasks : con.lock = t => task[t].at \in {"connect", "pause"}

CrewTogether == task["watchdog"] = Off <=> task["keepalive"] = Off

(* An engine without its crew is starting or ending, and the lock is free. *)
Alone ==
  task["watchdog"] = Off =>
    con.lock = Nobody /\ task["engine"].at \in {"off", "connect", "pause", "closing"}

NoHalfOff == \A t \in Tasks : task[t].at = "off" => task[t] = Off

ConInv ==
  TypeOK /\ PausesFew /\ LockHeld /\ CrewTogether /\ Alone /\ NoHalfOff /\ QuietBetween

-----------------------------------------------------------------------------
(***************************************************************************)
(* What the parts of a step do.                                            *)
(***************************************************************************)
FrameSets == [Tasks -> Frames]

LEMMA Bounds == StartTries >= 1 /\ RetryTries >= 1 /\ StartTries \in Nat /\ RetryTries \in Nat
  BY TriesAssumption

\* The frames the step's own task may be left with by the helpers.
Regular == {"rest", "status", "result", "turn", "connect", "check", "request"}

(* t's step goes from g and fs to a regular place, taking the lock at most *)
(* when it is free.                                                        *)
Moves(t, g, fs) ==
  /\ con' \in Module /\ UNCHANGED healthy
  /\ \E f \in Frames :
       /\ task' = [fs EXCEPT ![t] = f]
       /\ f.at \in Regular /\ f.tries \in 0..1
       /\ con'.lock = g.lock \/ (g.lock = Nobody /\ con'.lock = t /\ f.at = "connect")

LEMMA MovesTo ==
  ASSUME NEW t \in Tasks, NEW g \in Module, NEW fs \in FrameSets,
         NEW h \in Module, NEW f \in Frames,
         con' = h, task' = [fs EXCEPT ![t] = f], UNCHANGED healthy,
         f.at \in Regular, f.tries \in 0..1,
         h.lock = g.lock \/ (g.lock = Nobody /\ h.lock = t /\ f.at = "connect")
  PROVE  Moves(t, g, fs)
  BY DEF Moves

LEMMA ReturnedMoves ==
  ASSUME NEW t \in Tasks, NEW g \in Module, NEW fs \in FrameSets, NEW ok \in BOOLEAN,
         Returned(t, ok, g, fs)
  PROVE  Moves(t, g, fs)
<1> DEFINE q == fs[t].query
           f == IF ok /\ q > 0 THEN Place("request", Aim(g), 0, q) ELSE Rest
<1>1. q \in 0..2 BY DEF FrameSets, Frames
<1>2. Aim(g) \in {"current", "dead"} BY DEF Aim
<1>3. f \in Frames /\ f.at \in Regular /\ f.tries \in 0..1
      BY <1>1, <1>2 DEF Rest, Regular, Place, Frames
<1>4. con' = g /\ task' = [fs EXCEPT ![t] = f] /\ UNCHANGED healthy
      BY DEF Returned, Becomes
<1> HIDE DEF f
<1> QED BY <1>3, <1>4, MovesTo

LEMMA ReconnectMoves ==
  ASSUME NEW t \in Tasks, NEW g \in Module, NEW fs \in FrameSets, NEW q \in 0..2,
         Reconnect(t, g, fs, q)
  PROVE  Moves(t, g, fs)
<1> DEFINE lost == [g EXCEPT !.connected = FALSE]
<1>1. lost \in Module /\ lost.lock = g.lock BY DEF Module
<1>2. CASE g.lock # Nobody
  <2> DEFINE f == Place("result", "none", 0, q)
  <2>1. con' = lost /\ task' = [fs EXCEPT ![t] = f] /\ UNCHANGED healthy
    BY <1>2 DEF Reconnect, Becomes
  <2>2. f \in Frames /\ f.at \in Regular /\ f.tries \in 0..1
    BY DEF Regular, Place, Frames
  <2> HIDE DEF f, lost
  <2> QED BY <2>1, <2>2, <1>1, MovesTo
<1>3. CASE g.lock = Nobody /\ \E u \in Tasks \ {t} : Waiting(u)
  <2> DEFINE f == Place("turn", "none", 0, q)
  <2>1. con' = lost /\ task' = [fs EXCEPT ![t] = f] /\ UNCHANGED healthy
    BY <1>3 DEF Reconnect, Becomes
  <2>2. f \in Frames /\ f.at \in Regular /\ f.tries \in 0..1
    BY DEF Regular, Place, Frames
  <2> HIDE DEF f, lost
  <2> QED BY <2>1, <2>2, <1>1, MovesTo
<1>4. CASE g.lock = Nobody /\ ~\E u \in Tasks \ {t} : Waiting(u)
  <2> DEFINE f == Place("connect", "none", 1, q)
             h == [[lost EXCEPT !.lock = t] EXCEPT !.base = TRUE]
  <2>1. con' = h /\ task' = [fs EXCEPT ![t] = f] /\ UNCHANGED healthy
    BY <1>4 DEF Reconnect, Connecting, Becomes
  <2>2. h \in Module /\ h.lock = t BY <1>1 DEF Module
  <2>3. f \in Frames /\ f.at = "connect" /\ f.at \in Regular /\ f.tries \in 0..1
    BY DEF Regular, Place, Frames
  <2> HIDE DEF f, h
  <2> QED BY <2>1, <2>2, <2>3, <1>4, MovesTo
<1> QED BY <1>2, <1>3, <1>4

LEMMA EnsureMoves ==
  ASSUME NEW t \in Tasks, NEW g \in Module, NEW fs \in FrameSets, NEW q \in 0..2,
         EnsureConnected(t, g, fs, q)
  PROVE  Moves(t, g, fs)
<1>1. CASE g.id # "none" /\ InGrace(g)
  <2> DEFINE ft == [fs EXCEPT ![t].query = q]
  <2>1. ft \in FrameSets BY DEF FrameSets, Frames
  <2>2. Returned(t, TRUE, g, ft) BY <1>1 DEF EnsureConnected
  <2>3. Moves(t, g, ft) BY <2>1, <2>2, ReturnedMoves
  <2>4. \A f : [ft EXCEPT ![t] = f] = [fs EXCEPT ![t] = f] BY DEF FrameSets
  <2> QED BY <2>3, <2>4 DEF Moves
<1>2. CASE ~(g.id # "none" /\ InGrace(g)) /\ g.id # "none" /\ g.base
  <2> DEFINE f == Place("status", "current", 0, q)
  <2>1. con' = g /\ task' = [fs EXCEPT ![t] = f] /\ UNCHANGED healthy
    BY <1>2 DEF EnsureConnected, Becomes
  <2>2. f \in Frames /\ f.at \in Regular /\ f.tries \in 0..1
    BY DEF Regular, Place, Frames
  <2> HIDE DEF f
  <2> QED BY <2>1, <2>2, MovesTo
<1>3. CASE ~(g.id # "none" /\ InGrace(g)) /\ ~(g.id # "none" /\ g.base)
  BY <1>3, ReconnectMoves DEF EnsureConnected
<1> QED BY <1>1, <1>2, <1>3

LEMMA AttemptMoves ==
  ASSUME NEW n \in 0..2, NEW g \in Module, NEW fs \in FrameSets, Attempt(n, g, fs)
  PROVE  Moves("engine", g, fs)
<1>1. CASE g.id = "none" BY <1>1, EnsureMoves DEF Attempt, Tasks
<1>2. CASE g.id # "none"
  <2>1. Aim(g) \in {"current", "dead"} BY DEF Aim
  <2> DEFINE f == Place("request", Aim(g), 0, n)
  <2>2. con' = g /\ task' = [fs EXCEPT !["engine"] = f] /\ UNCHANGED healthy
    BY <1>2 DEF Attempt, Becomes
  <2>3. f \in Frames /\ f.at \in Regular /\ f.tries \in 0..1
    BY <2>1 DEF Regular, Place, Frames
  <2> HIDE DEF f
  <2> QED BY <2>2, <2>3, MovesTo DEF Tasks
<1> QED BY <1>1, <1>2

-----------------------------------------------------------------------------
(***************************************************************************)
(* Frames whose requests were turned to another id.                        *)
(***************************************************************************)
Alike(fs) ==
  /\ fs \in FrameSets
  /\ \A u \in Tasks :
       /\ fs[u].at = task[u].at
       /\ fs[u].tries = task[u].tries
       /\ task[u] = Off => fs[u] = Off

LEMMA TaskAlike == TypeOK => Alike(task)
  BY DEF TypeOK, Alike, FrameSets

LEMMA FormerAlike ==
  ASSUME TypeOK, NEW fs, Alike(fs)
  PROVE  Alike(Former(fs))
<1>1. con.id \in {"none", "live", "dead"} BY DEF TypeOK, Module
<1>2. Former(fs) \in FrameSets
  BY <1>1 DEF Alike, Former, FrameSets, Frames
<1>3. ASSUME NEW u \in Tasks
      PROVE  /\ Former(fs)[u].at = task[u].at /\ Former(fs)[u].tries = task[u].tries
             /\ task[u] = Off => Former(fs)[u] = Off
  <2>1. CASE fs[u].to = "current"
    <3>1. Former(fs)[u] = [fs[u] EXCEPT !.to = con.id] BY <2>1 DEF Former
    <3>2. fs[u] \in Frames BY DEF Alike, FrameSets
    <3>3. task[u] # Off BY <2>1 DEF Alike, Off, Place
    <3> QED BY <3>1, <3>2, <3>3 DEF Alike, Frames
  <2>2. CASE fs[u].to # "current"
    BY <2>2 DEF Former, Alike
  <2> QED BY <2>1, <2>2
<1> QED BY <1>2, <1>3 DEF Alike

LEMMA CutAlike ==
  ASSUME TypeOK, NEW fs, Alike(fs)
  PROVE  Alike(Cut(fs))
<1>1. Cut(fs) \in FrameSets BY DEF Alike, Cut, FrameSets, Frames
<1>2. ASSUME NEW u \in Tasks
      PROVE  /\ Cut(fs)[u].at = task[u].at /\ Cut(fs)[u].tries = task[u].tries
             /\ task[u] = Off => Cut(fs)[u] = Off
  <2>1. fs[u] \in Frames BY DEF Alike, FrameSets
  <2>2. CASE fs[u].at \in {"status", "check", "request", "connect"}
    <3>1. Cut(fs)[u] = [fs[u] EXCEPT !.to = "dead"] BY <2>2 DEF Cut
    <3>2. task[u] # Off BY <2>2 DEF Alike, Off, Place
    <3> QED BY <2>1, <3>1, <3>2 DEF Alike, Frames
  <2>3. CASE fs[u].at \notin {"status", "check", "request", "connect"}
    BY <2>3 DEF Cut, Alike
  <2> QED BY <2>2, <2>3
<1> QED BY <1>1, <1>2 DEF Alike

(* A step of one task, while the crew is there, keeps the invariant if it  *)
(* leaves the lock in order.                                               *)
LEMMA StepKeeps ==
  ASSUME ConInv, NEW t \in Tasks, NEW fs, Alike(fs), NEW f \in Frames,
         task["watchdog"] # Off,
         con' \in Module, UNCHANGED healthy, task' = [fs EXCEPT ![t] = f],
         f.at # "off",
         f.tries <= StartTries \/ f.tries <= RetryTries,
         f.at = "pause" => f.tries < StartTries \/ f.tries < RetryTries,
         con'.lock = t => f.at \in {"connect", "pause"},
         \A u \in Tasks \ {t} : con'.lock = u => con.lock = u
  PROVE  ConInv'
<1>1. \A u \in Tasks : task'[u] = IF u = t THEN f ELSE fs[u]
  BY DEF Alike, FrameSets
<1>2. task' \in FrameSets BY DEF Alike, FrameSets
<1>3. \A u \in Tasks : task[u] # Off => task'[u] # Off
  <2> SUFFICES ASSUME NEW u \in Tasks, task'[u] = Off PROVE task[u] = Off
    OBVIOUS
  <2>1. task'[u].at = "off" BY DEF Off, Place
  <2>2. u # t /\ fs[u].at = "off" BY <1>1, <2>1
  <2> QED BY <2>2 DEF Alike, ConInv, NoHalfOff
<1>4. TypeOK' BY <1>1, <1>2 DEF ConInv, TypeOK, FrameSets, Alike
<1>5. PausesFew' BY <1>1 DEF ConInv, PausesFew, Alike
<1>6. LockHeld' BY <1>1 DEF ConInv, LockHeld, Alike
<1>7. /\ "watchdog" \in Tasks /\ "keepalive" \in Tasks /\ "engine" \in Tasks
  BY DEF Tasks, Crew
<1>8. task["keepalive"] # Off /\ task["engine"] # Off
  <2>1. task["keepalive"] # Off BY DEF ConInv, CrewTogether
  <2> QED BY <2>1 DEF ConInv, QuietBetween, Crew
<1>9. CrewTogether' /\ Alone' /\ QuietBetween'
  BY <1>3, <1>7, <1>8 DEF CrewTogether, Alone, QuietBetween
<1>10. NoHalfOff'
  <2> SUFFICES ASSUME NEW u \in Tasks, task'[u].at = "off" PROVE task'[u] = Off
    BY DEF NoHalfOff
  <2>1. u # t /\ fs[u].at = "off" BY <1>1
  <2>2. task[u] = Off BY <2>1 DEF Alike, ConInv, NoHalfOff
  <2> QED BY <1>1, <2>1, <2>2 DEF Alike
<1> QED BY <1>4, <1>5, <1>6, <1>9, <1>10 DEF ConInv

LEMMA MovesKeep ==
  ASSUME ConInv, NEW t \in Tasks, NEW g \in Module, NEW fs, Alike(fs), Moves(t, g, fs),
         task["watchdog"] # Off, g.lock # t,
         g.lock = con.lock \/ g.lock = Nobody
  PROVE  ConInv'
<1>1. PICK f \in Frames :
        /\ task' = [fs EXCEPT ![t] = f]
        /\ f.at \in Regular /\ f.tries \in 0..1
        /\ con'.lock = g.lock \/ (g.lock = Nobody /\ con'.lock = t /\ f.at = "connect")
  BY DEF Moves
<1>2. con' \in Module /\ UNCHANGED healthy BY DEF Moves
<1>3. f.at # "off" /\ f.at # "pause" BY <1>1 DEF Regular
<1>4. f.tries <= StartTries BY <1>1, Bounds DEF Frames
<1>5. con'.lock = t => f.at \in {"connect", "pause"} BY <1>1
<1>6. \A u \in Tasks \ {t} : con'.lock = u => con.lock = u
  BY <1>1 DEF Tasks, Crew, Nobody
<1> QED BY <1>1, <1>2, <1>3, <1>4, <1>5, <1>6, StepKeeps

-----------------------------------------------------------------------------
(***************************************************************************)
(* The crew is there whenever a task is anywhere but in a start or an end. *)
(***************************************************************************)
LEMMA CrewOn ==
  ASSUME ConInv, NEW t \in Tasks,
         task[t].at \in {"rest", "status", "result", "turn", "check", "request"}
  PROVE  task["watchdog"] # Off /\ con.lock # t
<1>1. con.lock # t BY DEF ConInv, LockHeld
<1>2. SUFFICES ASSUME task["watchdog"] = Off PROVE FALSE
  BY <1>1
<1>3. task["keepalive"] = Off BY <1>2 DEF ConInv, CrewTogether
<1>4. t = "engine" BY <1>2, <1>3 DEF Tasks, Crew, Off, Place
<1> QED BY <1>2, <1>4 DEF ConInv, Alone

LEMMA CrewOnUnlessStarting ==
  ASSUME ConInv, NEW t \in Tasks, task[t].at # "off", ~Starting(t)
  PROVE  task["watchdog"] # Off
<1>1. SUFFICES ASSUME task["watchdog"] = Off PROVE FALSE
  OBVIOUS
<1>2. task["keepalive"] = Off BY <1>1 DEF ConInv, CrewTogether
<1>3. t = "engine" BY <1>1, <1>2 DEF Tasks, Crew, Off, Place
<1> QED BY <1>1, <1>3 DEF Starting

LEMMA Typed ==
  ASSUME ConInv
  PROVE  con \in Module /\ task \in FrameSets /\ Alike(task)
         /\ \A t \in Tasks : task[t] \in Frames /\ task[t].query \in 0..2
BY TaskAlike DEF ConInv, TypeOK, FrameSets, Frames

-----------------------------------------------------------------------------
(***************************************************************************)
(* The steps of every task.                                                *)
(***************************************************************************)
LEMMA StatusKeeps ==
  ASSUME ConInv, NEW t \in Tasks, StatusGood(t) \/ StatusBad(t)
  PROVE  ConInv'
<1>1. task["watchdog"] # Off /\ con.lock # t
  BY CrewOn DEF StatusGood, StatusBad
<1>2. CASE StatusGood(t)
  <2> DEFINE g == [con EXCEPT !.connected = TRUE]
  <2>1. g \in Module /\ g.lock = con.lock BY Typed DEF Module
  <2>2. Returned(t, TRUE, g, task) BY <1>2 DEF StatusGood
  <2> HIDE DEF g
  <2>3. Moves(t, g, task) BY <2>1, <2>2, Typed, ReturnedMoves
  <2> QED BY <1>1, <2>1, <2>3, Typed, MovesKeep
<1>3. CASE StatusBad(t)
  <2>1. Moves(t, con, task)
    BY <1>3, Typed, ReconnectMoves DEF StatusBad
  <2> QED BY <1>1, <2>1, Typed, MovesKeep
<1> QED BY <1>2, <1>3

LEMMA AcquiresKeeps ==
  ASSUME ConInv, NEW t \in Tasks, Acquires(t)
  PROVE  ConInv'
<1>1. task["watchdog"] # Off /\ con.lock # t /\ con.lock = Nobody
  BY CrewOn DEF Acquires, ResultTaken, TurnTaken
<1>2. con.connected \in BOOLEAN BY Typed DEF Module
<1>3. CASE \E ok \in BOOLEAN : Returned(t, ok, con, task)
  <2>1. Moves(t, con, task) BY <1>3, Typed, ReturnedMoves
  <2> QED BY <1>1, <2>1, Typed, MovesKeep
<1>4. CASE Connecting(t, [con EXCEPT !.lock = t], task, 1, task[t].query)
  <2> DEFINE h == [[con EXCEPT !.lock = t] EXCEPT !.base = TRUE]
             f == Place("connect", "none", 1, task[t].query)
  <2>1. h \in Module /\ h.lock = t BY Typed DEF Module
  <2>2. f \in Frames /\ f.at = "connect" /\ f.at \in Regular /\ f.tries \in 0..1
    BY Typed DEF Frames, Place, Regular
  <2>3. con' = h /\ task' = [task EXCEPT ![t] = f] /\ UNCHANGED healthy
    BY <1>4 DEF Connecting, Becomes
  <2> HIDE DEF h, f
  <2>4. Moves(t, con, task) BY <1>1, <2>1, <2>2, <2>3, Typed, MovesTo
  <2> QED BY <1>1, <2>4, Typed, MovesKeep
<1> QED BY <1>2, <1>3, <1>4 DEF Acquires, ResultTaken, TurnTaken

(* A step that leaves no task but an engine that starts, closes or ended.  *)
LEMMA AloneKeeps ==
  ASSUME NEW fs \in FrameSets, NEW f \in Frames,
         fs["watchdog"] = Off, fs["keepalive"] = Off,
         con' \in Module, con'.lock = Nobody, healthy' \in BOOLEAN,
         task' = [fs EXCEPT !["engine"] = f],
         \/ f.at \in {"connect", "pause", "closing"}
         \/ f = Off /\ con'.id = "none" /\ ~con'.connected,
         f.tries <= StartTries \/ f.tries <= RetryTries,
         f.at = "pause" => f.tries < StartTries \/ f.tries < RetryTries
  PROVE  ConInv'
<1>1. /\ "watchdog" \in Tasks /\ "keepalive" \in Tasks /\ "engine" \in Tasks
      /\ Tasks = {"engine", "watchdog", "keepalive"} /\ Crew = {"watchdog", "keepalive"}
  BY DEF Tasks, Crew
<1>2. task'["engine"] = f /\ task'["watchdog"] = Off /\ task'["keepalive"] = Off
  BY <1>1 DEF FrameSets
<1>3. task' \in FrameSets BY DEF FrameSets
<1>4. Off.at = "off" /\ Off.tries = 0 BY DEF Off, Place
<1>5. TypeOK' BY <1>1, <1>2, <1>3, <1>4, Bounds DEF TypeOK, FrameSets, Frames
<1>6. PausesFew' BY <1>1, <1>2, <1>4 DEF PausesFew
<1>7. LockHeld' BY <1>1 DEF LockHeld, Nobody
<1>8. CrewTogether' /\ Alone' BY <1>2, <1>4 DEF CrewTogether, Alone
<1>9. NoHalfOff' BY <1>1, <1>2 DEF NoHalfOff
<1>10. QuietBetween' BY <1>1, <1>2, <1>4 DEF QuietBetween
<1> QED BY <1>5, <1>6, <1>7, <1>8, <1>9, <1>10 DEF ConInv

(* A step that moves no task and leaves the lock alone.                    *)
LEMMA SameKeeps ==
  ASSUME ConInv, con' \in Module, healthy' \in BOOLEAN, Alike(task'),
         con'.lock = con.lock, con'.connected = con.connected,
         con.id = "none" => con'.id = "none"
  PROVE  ConInv'
<1>1. \A u \in Tasks : task'[u].at = task[u].at /\ task'[u].tries = task[u].tries
  BY DEF Alike
<1>2. \A u \in Tasks : task'[u] = Off <=> task[u] = Off
  <2> SUFFICES ASSUME NEW u \in Tasks, task'[u] = Off PROVE task[u] = Off
    BY DEF Alike
  <2>1. task[u].at = "off" BY <1>1 DEF Off, Place
  <2> QED BY <2>1 DEF ConInv, NoHalfOff
<1>3. /\ "watchdog" \in Tasks /\ "keepalive" \in Tasks /\ "engine" \in Tasks
      /\ Crew \subseteq Tasks
  BY DEF Tasks, Crew
<1>4. TypeOK' BY <1>1 DEF ConInv, TypeOK, Alike, FrameSets
<1>5. PausesFew' BY <1>1 DEF ConInv, PausesFew
<1>6. LockHeld' BY <1>1 DEF ConInv, LockHeld
<1>7. CrewTogether' BY <1>2, <1>3 DEF ConInv, CrewTogether
<1>8. Alone' BY <1>1, <1>2, <1>3 DEF ConInv, Alone
<1>9. NoHalfOff' BY <1>1, <1>2 DEF ConInv, NoHalfOff
<1>10. QuietBetween' BY <1>2, <1>3 DEF ConInv, QuietBetween
<1> QED BY <1>4, <1>5, <1>6, <1>7, <1>8, <1>9, <1>10 DEF ConInv

LEMMA NobodyElse == Nobody \notin Tasks
  BY DEF Nobody, Tasks, Crew

LEMMA StartingAlone ==
  ASSUME ConInv, NEW t \in Tasks, Starting(t)
  PROVE  /\ t = "engine" /\ con.lock = Nobody
         /\ task["watchdog"] = Off /\ task["keepalive"] = Off
BY DEF Starting, ConInv, CrewTogether, Alone

LEMMA ConnectGoodKeeps ==
  ASSUME ConInv, NEW t \in Tasks, ConnectGood(t)
  PROVE  ConInv'
<1> DEFINE g == Release(t, [con EXCEPT !.connected = TRUE, !.id = "live", !.age = "grace"])
<1>1. g \in Module /\ g.lock # t /\ (g.lock = con.lock \/ g.lock = Nobody)
  BY Typed, NobodyElse DEF Module, Release
<1>2. Alike(Former(task)) /\ Former(task) \in FrameSets
  BY Typed, FormerAlike DEF ConInv, Alike
<1>3. CASE Starting(t)
  <2> DEFINE h == [g EXCEPT !.fails = 0]
             fs == Spawned(Former(task))
  <2>1. t = "engine" /\ con.lock = Nobody BY <1>3, StartingAlone
  <2>2. h \in Module /\ h.lock = Nobody
    <3>1. g.lock = Nobody BY <1>1, <2>1
    <3> HIDE DEF g
    <3> QED BY <1>1, <3>1 DEF Module
  <2>3. con' = h /\ task' = [fs EXCEPT !["engine"] = Rest] /\ UNCHANGED healthy
    BY <1>3, <2>1 DEF ConnectGood, Becomes
  <2>4. Rest \in Frames /\ Rest.at = "rest" /\ Rest.tries = 0 /\ Rest # Off
    BY DEF Rest, Off, Place, Frames
  <2>5. \A u \in Tasks : task'[u] = Rest
    <3>1. fs = [u \in Tasks |-> IF u \in Crew THEN Rest ELSE Former(task)[u]]
      BY DEF Spawned
    <3> HIDE DEF fs
    <3> QED BY <2>3, <3>1 DEF Tasks, Crew
  <2>6. task' \in FrameSets
    <3>1. fs \in FrameSets BY <1>2, <2>4 DEF Spawned, FrameSets
    <3> HIDE DEF fs
    <3> QED BY <2>3, <2>4, <3>1 DEF FrameSets
  <2> HIDE DEF g, h, fs
  <2>7. /\ "watchdog" \in Tasks /\ "keepalive" \in Tasks /\ "engine" \in Tasks
    BY DEF Tasks, Crew
  <2>8. con'.lock = Nobody /\ con' \in Module /\ healthy' \in BOOLEAN
    BY <2>2, <2>3 DEF ConInv, TypeOK
  <2>9. TypeOK' BY <2>4, <2>5, <2>6, <2>8, Bounds DEF TypeOK, FrameSets
  <2>10. PausesFew' /\ LockHeld' /\ NoHalfOff'
    BY <2>4, <2>5, <2>8, NobodyElse DEF PausesFew, LockHeld, NoHalfOff
  <2>11. CrewTogether' /\ Alone' /\ QuietBetween'
    BY <2>4, <2>5, <2>7 DEF CrewTogether, Alone, QuietBetween
  <2> QED BY <2>9, <2>10, <2>11 DEF ConInv
<1>4. CASE ~Starting(t)
  <2>1. task["watchdog"] # Off
    BY <1>4, CrewOnUnlessStarting DEF ConnectGood
  <2>2. Returned(t, TRUE, g, Former(task)) BY <1>4 DEF ConnectGood
  <2> HIDE DEF g
  <2>3. Moves(t, g, Former(task)) BY <1>1, <1>2, <2>2, ReturnedMoves
  <2> QED BY <1>1, <1>2, <2>1, <2>3, MovesKeep
<1> QED BY <1>3, <1>4

LEMMA ConnectBadKeeps ==
  ASSUME ConInv, NEW t \in Tasks, ConnectBad(t)
  PROVE  ConInv'
<1> DEFINE g == [con EXCEPT !.connected = FALSE]
<1>1. g \in Module /\ g.lock = con.lock BY Typed DEF Module
<1>2. Alike(Former(task)) /\ Former(task) \in FrameSets
  BY Typed, FormerAlike DEF ConInv, Alike
<1>3. task[t] \in Frames /\ task[t].at = "connect" BY Typed DEF ConnectBad
<1>4. "engine" \in Tasks /\ "watchdog" \in Tasks /\ "keepalive" \in Tasks
  BY DEF Tasks, Crew
<1>5. CASE task[t].tries < Tries(t)
  <2> DEFINE f == [task[t] EXCEPT !.at = "pause", !.to = "none"]
  <2>1. f \in Frames /\ f.at = "pause" /\ f.tries = task[t].tries
    BY <1>3 DEF Frames
  <2> HIDE DEF f
  <2>2. f.tries < StartTries \/ f.tries < RetryTries
    <3>1. task[t].tries < StartTries \/ task[t].tries < RetryTries \/ task[t].tries < 1
      BY <1>5 DEF Tries
    <3>2. task[t].tries \in Nat BY <1>3 DEF Frames
    <3> QED BY <2>1, <3>1, <3>2, Bounds
  <2>3. f.tries <= StartTries \/ f.tries <= RetryTries
    <3>1. f.tries \in Nat BY <2>1 DEF Frames
    <3> QED BY <2>2, <3>1, Bounds
  <2>4. con' = g /\ task' = [task EXCEPT ![t] = f] /\ UNCHANGED healthy
    BY <1>5 DEF ConnectBad, Becomes, f
  <2> HIDE DEF g
  <2>5. CASE Starting(t)
    <3>1. t = "engine" /\ con.lock = Nobody
          /\ task["watchdog"] = Off /\ task["keepalive"] = Off
      BY <2>5, StartingAlone
    <3>2. healthy' \in BOOLEAN BY <2>4 DEF ConInv, TypeOK
    <3> QED BY <1>1, <2>1, <2>2, <2>3, <2>4, <3>1, <3>2, Typed, AloneKeeps
  <2>6. CASE ~Starting(t)
    <3>1. task["watchdog"] # Off
      BY <1>3, <2>6, CrewOnUnlessStarting
    <3> QED BY <1>1, <2>1, <2>2, <2>3, <2>4, <3>1, Typed, StepKeeps
  <2> QED BY <2>5, <2>6
<1>6. CASE ~(task[t].tries < Tries(t)) /\ Starting(t)
  <2> DEFINE f == Place("closing", "none", 0, 0)
             h == Disconnected(g)
  <2>1. t = "engine" /\ con.lock = Nobody
        /\ task["watchdog"] = Off /\ task["keepalive"] = Off
    BY <1>6, StartingAlone
  <2>2. h \in Module /\ h.lock = con.lock
    <3> HIDE DEF g
    <3> QED BY <1>1 DEF Module, Disconnected, Invalidated
  <2>3. f \in Frames /\ f.at = "closing" /\ f.tries = 0 BY DEF Place, Frames
  <2>4. con' = h /\ task' = [Former(task) EXCEPT !["engine"] = f] /\ UNCHANGED healthy
    BY <1>6, <2>1 DEF ConnectBad, Becomes
  <2>5. healthy' \in BOOLEAN BY <2>4 DEF ConInv, TypeOK
  <2>6. Former(task)["watchdog"] = Off /\ Former(task)["keepalive"] = Off
    BY <1>2, <1>4, <2>1 DEF Alike
  <2> HIDE DEF g, h, f
  <2>7. f.tries <= StartTries /\ f.at # "pause" BY <2>3, Bounds
  <2> QED BY <1>2, <2>1, <2>2, <2>3, <2>4, <2>5, <2>6, <2>7, AloneKeeps
<1>7. CASE ~(task[t].tries < Tries(t)) /\ ~Starting(t)
  <2>1. task["watchdog"] # Off
    BY <1>3, <1>7, CrewOnUnlessStarting
  <2> DEFINE h == Release(t, g)
  <2>2. Returned(t, FALSE, h, task) BY <1>7 DEF ConnectBad
  <2> HIDE DEF g
  <2>3. h \in Module /\ h.lock # t /\ (h.lock = con.lock \/ h.lock = Nobody)
    BY <1>1, NobodyElse DEF Module, Release
  <2> HIDE DEF h
  <2>4. Moves(t, h, task) BY <2>2, <2>3, Typed, ReturnedMoves
  <2> QED BY <1>1, <2>1, <2>3, <2>4, Typed, MovesKeep
<1> QED BY <1>5, <1>6, <1>7

LEMMA PauseOverKeeps ==
  ASSUME ConInv, NEW t \in Tasks, PauseOver(t)
  PROVE  ConInv'
<1> DEFINE g == [con EXCEPT !.base = TRUE]
           f == Place("connect", "none", task[t].tries + 1, task[t].query)
<1>1. g \in Module /\ g.lock = con.lock BY Typed DEF Module
<1>2. task[t] \in Frames /\ task[t].at = "pause" BY Typed DEF PauseOver
<1>3. f \in Frames /\ f.at = "connect" /\ f.tries = task[t].tries + 1
  BY <1>2 DEF Place, Frames
<1>4. task[t].tries < StartTries \/ task[t].tries < RetryTries
  BY <1>2 DEF ConInv, PausesFew
<1>5. f.tries <= StartTries \/ f.tries <= RetryTries
  BY <1>2, <1>3, <1>4, Bounds DEF Frames
<1>6. con' = g /\ task' = [task EXCEPT ![t] = f] /\ UNCHANGED healthy
  BY DEF PauseOver, Connecting, Becomes
<1> HIDE DEF g, f
<1>7. CASE Starting(t)
  <2>1. t = "engine" /\ con.lock = Nobody
        /\ task["watchdog"] = Off /\ task["keepalive"] = Off
    BY <1>7, StartingAlone
  <2>2. healthy' \in BOOLEAN BY <1>6 DEF ConInv, TypeOK
  <2> QED BY <1>1, <1>3, <1>5, <1>6, <2>1, <2>2, Typed, AloneKeeps
<1>8. CASE ~Starting(t)
  <2>1. task["watchdog"] # Off BY <1>2, <1>8, CrewOnUnlessStarting
  <2> QED BY <1>1, <1>3, <1>5, <1>6, <2>1, Typed, StepKeeps
<1> QED BY <1>7, <1>8

-----------------------------------------------------------------------------
(***************************************************************************)
(* The steps of the crew and of the engine.                                *)
(***************************************************************************)
LEMMA EnsureKeeps ==
  ASSUME ConInv, NEW t \in Tasks, task[t].at = "rest", EnsureConnected(t, con, task, 0)
  PROVE  ConInv'
<1>1. task["watchdog"] # Off /\ con.lock # t BY CrewOn
<1>2. Moves(t, con, task) BY Typed, EnsureMoves
<1> QED BY <1>1, <1>2, Typed, MovesKeep

LEMMA WatchdogKeeps ==
  ASSUME ConInv, WatchdogWakes \/ CheckGood \/ CheckBad
  PROVE  ConInv'
<1>1. "watchdog" \in Tasks BY DEF Tasks, Crew
<1>2. task["watchdog"] # Off /\ con.lock # "watchdog"
  BY <1>1, CrewOn DEF WatchdogWakes, CheckGood, CheckBad
<1>3. CASE WatchdogWakes
  <2>1. CASE con.connected /\ con.id # "none"
    <3> DEFINE f == Place("check", Aim(con), 0, 0)
    <3>1. Aim(con) \in {"current", "dead"} BY DEF Aim
    <3>2. f \in Frames /\ f.at \in Regular /\ f.tries \in 0..1
      BY <3>1 DEF Place, Frames, Regular
    <3>3. con' = con /\ task' = [task EXCEPT !["watchdog"] = f] /\ UNCHANGED healthy
      BY <1>3, <2>1 DEF WatchdogWakes, Becomes
    <3> HIDE DEF f
    <3>4. Moves("watchdog", con, task) BY <1>1, <3>2, <3>3, Typed, MovesTo
    <3> QED BY <1>1, <1>2, <3>4, Typed, MovesKeep
  <2>2. CASE ~(con.connected /\ con.id # "none")
    BY <1>1, <1>3, <2>2, EnsureKeeps DEF WatchdogWakes
  <2> QED BY <2>1, <2>2
<1>4. ASSUME NEW n \in 0..1, Becomes("watchdog", [con EXCEPT !.fails = n], task, Rest)
      PROVE  ConInv'
  <2> DEFINE g == [con EXCEPT !.fails = n]
  <2>1. g \in Module /\ g.lock = con.lock BY Typed DEF Module
  <2>2. Rest \in Frames /\ Rest.at \in Regular /\ Rest.tries \in 0..1
    BY DEF Rest, Place, Frames, Regular
  <2>3. con' = g /\ task' = [task EXCEPT !["watchdog"] = Rest] /\ UNCHANGED healthy
    BY <1>4 DEF Becomes
  <2> HIDE DEF g
  <2>4. Moves("watchdog", con, task) BY <1>1, <2>1, <2>2, <2>3, Typed, MovesTo
  <2> QED BY <1>1, <1>2, <2>4, Typed, MovesKeep
<1>5. CASE CheckGood BY <1>4, <1>5 DEF CheckGood
<1>6. CASE CheckBad
  <2>1. CASE con.fails = 0 BY <1>4, <1>6, <2>1 DEF CheckBad
  <2>2. CASE con.fails # 0
    <3> DEFINE g == Invalidated([con EXCEPT !.fails = 0])
    <3>1. g \in Module /\ g.lock = con.lock
      <4> DEFINE c == [con EXCEPT !.fails = 0]
      <4>1. c \in Module /\ c.lock = con.lock BY Typed DEF Module
      <4> HIDE DEF c
      <4>2. Invalidated(c) \in Module /\ Invalidated(c).lock = con.lock
        BY <4>1 DEF Invalidated, Module
      <4> QED BY <4>2 DEF c
    <3>2. Reconnect("watchdog", g, Former(task), 0) BY <1>6, <2>2 DEF CheckBad
    <3> HIDE DEF g
    <3>3. Alike(Former(task)) /\ Former(task) \in FrameSets
      BY Typed, FormerAlike DEF ConInv, Alike
    <3>4. Moves("watchdog", g, Former(task)) BY <1>1, <3>1, <3>2, <3>3, ReconnectMoves
    <3> QED BY <1>1, <1>2, <3>1, <3>3, <3>4, MovesKeep
  <2> QED BY <2>1, <2>2
<1> QED BY <1>3, <1>5, <1>6

LEMMA KeepaliveKeeps ==
  ASSUME ConInv, KeepaliveWakes
  PROVE  ConInv'
<1>1. "keepalive" \in Tasks /\ task["keepalive"].at = "rest"
  BY DEF Tasks, Crew, KeepaliveWakes
<1>2. CASE Connecting("keepalive", con, task, 1, 0)
  <2> DEFINE g == [con EXCEPT !.base = TRUE]
             f == Place("connect", "none", 1, 0)
  <2>1. g \in Module /\ g.lock = con.lock BY Typed DEF Module
  <2>2. f \in Frames /\ f.at \in Regular /\ f.tries \in 0..1
    BY DEF Place, Frames, Regular
  <2>3. con' = g /\ task' = [task EXCEPT !["keepalive"] = f] /\ UNCHANGED healthy
    BY <1>2 DEF Connecting, Becomes
  <2> HIDE DEF g, f
  <2>4. task["watchdog"] # Off /\ con.lock # "keepalive" BY <1>1, CrewOn
  <2>5. Moves("keepalive", con, task) BY <1>1, <2>1, <2>2, <2>3, Typed, MovesTo
  <2> QED BY <1>1, <2>4, <2>5, Typed, MovesKeep
<1>3. CASE EnsureConnected("keepalive", con, task, 0)
  BY <1>1, <1>3, EnsureKeeps
<1> QED BY <1>2, <1>3 DEF KeepaliveWakes

LEMMA EngineRests ==
  ASSUME ConInv, task["engine"].at \in {"rest", "request"},
         Becomes("engine", con, task, Rest)
  PROVE  ConInv'
<1>1. "engine" \in Tasks BY DEF Tasks
<1>2. task["watchdog"] # Off /\ con.lock # "engine" BY <1>1, CrewOn
<1>3. Rest \in Frames /\ Rest.at \in Regular /\ Rest.tries \in 0..1
  BY DEF Rest, Place, Frames, Regular
<1>4. Moves("engine", con, task) BY <1>1, <1>3, Typed, MovesTo DEF Becomes
<1> QED BY <1>1, <1>2, <1>4, Typed, MovesKeep

LEMMA QueriesKeep ==
  ASSUME ConInv, QueryStarts \/ RequestGood \/ RequestBad \/ RequestRaises
  PROVE  ConInv'
<1>1. "engine" \in Tasks BY DEF Tasks
<1>2. task["watchdog"] # Off /\ con.lock # "engine"
  BY <1>1, CrewOn DEF QueryStarts, Up, RequestGood, RequestBad, RequestRaises
<1>3. CASE QueryStarts
  <2>1. Moves("engine", con, task) BY <1>3, Typed, AttemptMoves DEF QueryStarts
  <2> QED BY <1>1, <1>2, <2>1, Typed, MovesKeep
<1>4. CASE RequestGood \/ RequestRaises
  BY <1>4, EngineRests DEF RequestGood, RequestRaises
<1>5. CASE RequestBad
  <2>1. CASE task["engine"].query = 1
    <3> DEFINE g == Invalidated(con)
    <3>1. g \in Module /\ g.lock = con.lock BY Typed DEF Module, Invalidated
    <3>2. Attempt(2, g, Former(task)) BY <1>5, <2>1 DEF RequestBad
    <3> HIDE DEF g
    <3>3. Alike(Former(task)) /\ Former(task) \in FrameSets
      BY Typed, FormerAlike DEF ConInv, Alike
    <3>4. Moves("engine", g, Former(task)) BY <3>1, <3>2, <3>3, AttemptMoves
    <3> QED BY <1>1, <1>2, <3>1, <3>3, <3>4, MovesKeep
  <2>2. CASE task["engine"].query # 1
    BY <1>5, <2>2, EngineRests DEF RequestBad
  <2> QED BY <2>1, <2>2
<1> QED BY <1>3, <1>4, <1>5

LEMMA DisconnectedTyped ==
  ASSUME NEW g \in Module
  PROVE  /\ Disconnected(g) \in Module /\ Disconnected(g).lock = g.lock
         /\ Disconnected(g).id = "none" /\ ~Disconnected(g).connected
BY DEF Module, Disconnected, Invalidated

LEMMA RestartKeeps ==
  ASSUME ConInv, RestartMt5
  PROVE  ConInv'
<1>1. "engine" \in Tasks BY DEF Tasks
<1>2. task["watchdog"] # Off /\ con.lock # "engine"
  BY <1>1, CrewOn DEF RestartMt5, Up
<1>3. Alike(Former(task)) BY Typed, FormerAlike DEF ConInv
<1>4. Closing \in Frames /\ Closing.at = "closing" /\ Closing.tries = 0
  BY DEF Closing, Place, Frames
<1>5. /\ con' = Disconnected(con) /\ UNCHANGED healthy
      /\ task' = [Former(task) EXCEPT !["engine"] = Closing]
  BY DEF RestartMt5, Becomes
<1>6. con' \in Module /\ con'.lock = con.lock BY <1>5, Typed, DisconnectedTyped
<1>7. /\ Closing.at # "off" /\ Closing.at # "pause" /\ Closing.tries <= StartTries
      /\ con'.lock # "engine"
  BY <1>2, <1>4, <1>6, Bounds
<1> QED BY <1>1, <1>2, <1>3, <1>4, <1>5, <1>6, <1>7, StepKeeps

LEMMA EngineEndsKeeps ==
  ASSUME ConInv, EngineEnds
  PROVE  ConInv'
<1> DEFINE g == [con EXCEPT !.lock = IF @ \in Crew THEN Nobody ELSE @]
           fs == Former(Cancelled(task))
<1>1. "engine" \in Tasks /\ task["engine"].at = "rest"
  BY DEF Tasks, EngineEnds, Up
<1>2. con.lock # "engine" BY <1>1, CrewOn
<1>3. g \in Module /\ g.lock = Nobody
  BY <1>2, Typed DEF Module, Tasks, Crew
<1>4. con' = Disconnected(g) /\ task' = [fs EXCEPT !["engine"] = Closing]
      /\ UNCHANGED healthy
  BY DEF EngineEnds, Becomes
<1>5. /\ Cancelled(task) \in FrameSets
      /\ Cancelled(task)["watchdog"] = Off /\ Cancelled(task)["keepalive"] = Off
  <2>1. Off \in Frames BY DEF Off, Place, Frames
  <2> QED BY <2>1, Typed DEF Cancelled, FrameSets, Tasks, Crew
<1>6. fs \in FrameSets /\ fs["watchdog"] = Off /\ fs["keepalive"] = Off
  <2>1. con.id \in {"none", "live", "dead"} BY Typed DEF Module
  <2>2. fs \in FrameSets BY <1>5, <2>1 DEF Former, FrameSets, Frames
  <2>3. Off.to = "none" BY DEF Off, Place
  <2> QED BY <1>5, <2>2, <2>3 DEF Former, Tasks, Crew
<1>7. Closing \in Frames /\ Closing.at = "closing" /\ Closing.tries = 0
  BY DEF Closing, Place, Frames
<1> HIDE DEF g, fs
<1>8. con' \in Module /\ con'.lock = Nobody BY <1>3, <1>4, DisconnectedTyped
<1>9. healthy' \in BOOLEAN BY <1>4 DEF ConInv, TypeOK
<1>10. Closing.tries <= StartTries /\ Closing.at # "pause" BY <1>7, Bounds
<1> QED BY <1>4, <1>6, <1>7, <1>8, <1>9, <1>10, AloneKeeps

LEMMA ClosedKeeps ==
  ASSUME ConInv, Closed
  PROVE  ConInv'
<1>1. /\ "engine" \in Tasks /\ "watchdog" \in Tasks /\ "keepalive" \in Tasks
      /\ task["engine"].at = "closing"
  BY DEF Tasks, Crew, Closed
<1>2. con.lock # "engine" BY <1>1 DEF ConInv, LockHeld
<1>3. CASE task["watchdog"] = Off
  <2> DEFINE fs == Cut(Former(task))
  <2>1. Alike(Former(task)) BY Typed, FormerAlike DEF ConInv
  <2>2. Alike(fs) BY <2>1, CutAlike DEF ConInv
  <2>3. con.lock = Nobody /\ task["keepalive"] = Off
    BY <1>3 DEF ConInv, Alone, CrewTogether
  <2>4. con' = Disconnected(con) /\ UNCHANGED healthy
        /\ task' = [fs EXCEPT !["engine"] = Off]
    BY <1>3 DEF Closed, Becomes
  <2> HIDE DEF fs
  <2>5. fs \in FrameSets /\ fs["watchdog"] = Off /\ fs["keepalive"] = Off
    BY <1>1, <1>3, <2>2, <2>3 DEF Alike
  <2>6. /\ con' \in Module /\ con'.lock = Nobody
        /\ con'.id = "none" /\ ~con'.connected
    BY <2>3, <2>4, Typed, DisconnectedTyped
  <2>7. Off \in Frames /\ Off.at = "off" /\ Off.tries = 0 BY DEF Off, Place, Frames
  <2>8. Off.tries <= StartTries /\ Off.at # "pause" BY <2>7, Bounds
  <2>9. healthy' \in BOOLEAN BY <2>4 DEF ConInv, TypeOK
  <2> QED BY <2>4, <2>5, <2>6, <2>7, <2>8, <2>9, AloneKeeps
<1>4. CASE task["watchdog"] # Off
  <2>1. Alike(Cut(task)) BY Typed, CutAlike DEF ConInv
  <2>2. con' = con /\ task' = [Cut(task) EXCEPT !["engine"] = Rest] /\ UNCHANGED healthy
    BY <1>4 DEF Closed, Becomes
  <2>3. Rest \in Frames /\ Rest.at = "rest" /\ Rest.tries = 0
    BY DEF Rest, Place, Frames
  <2>4. Rest.at # "off" /\ Rest.at # "pause" /\ Rest.tries <= StartTries
    BY <2>3, Bounds
  <2> QED BY <1>1, <1>2, <1>4, <2>1, <2>2, <2>3, <2>4, Typed, StepKeeps
<1> QED BY <1>3, <1>4

LEMMA StartKeeps ==
  ASSUME ConInv, Start
  PROVE  ConInv'
<1> DEFINE g == [con EXCEPT !.base = TRUE]
           f == Place("connect", "none", 1, 0)
<1>1. con.lock = Nobody /\ task["watchdog"] = Off /\ task["keepalive"] = Off
  BY DEF Start, ConInv, QuietBetween, Crew
<1>2. g \in Module /\ g.lock = Nobody BY <1>1, Typed DEF Module
<1>3. f \in Frames /\ f.at = "connect" /\ f.tries = 1 BY DEF Place, Frames
<1>4. con' = g /\ task' = [task EXCEPT !["engine"] = f] /\ UNCHANGED healthy
  BY DEF Start, Connecting, Becomes
<1> HIDE DEF g, f
<1>5. healthy' \in BOOLEAN BY <1>4 DEF ConInv, TypeOK
<1>6. f.tries <= StartTries /\ f.at # "pause" BY <1>3, Bounds
<1> QED BY <1>1, <1>2, <1>3, <1>4, <1>5, <1>6, Typed, AloneKeeps

-----------------------------------------------------------------------------
(***************************************************************************)
(* The steps of the world.                                                 *)
(***************************************************************************)
LEMMA WorldKeeps ==
  ASSUME ConInv, Aged \/ HealthChanges \/ SessionEnds \/ UNCHANGED vars
  PROVE  ConInv'
<1>1. con \in Module /\ healthy \in BOOLEAN /\ Alike(task)
  BY Typed DEF ConInv, TypeOK
<1>2. CASE Aged
  <2>1. task' = task /\ healthy' = healthy BY <1>2 DEF Aged
  <2>2. /\ con' \in Module /\ con'.lock = con.lock
        /\ con'.connected = con.connected /\ con'.id = con.id
    BY <1>1, <1>2 DEF Aged, Module
  <2>3. Alike(task') BY <1>1, <2>1
  <2> QED BY <1>1, <2>1, <2>2, <2>3, SameKeeps
<1>3. CASE HealthChanges \/ UNCHANGED vars
  <2>1. task' = task /\ con' = con /\ healthy' \in BOOLEAN
    BY <1>1, <1>3 DEF HealthChanges, vars
  <2>2. Alike(task') BY <1>1, <2>1
  <2> QED BY <1>1, <2>1, <2>2, SameKeeps
<1>4. CASE SessionEnds /\ con.id = "live" /\ task' = task
                       /\ con' = [con EXCEPT !.id = "dead"]
  <2>1. /\ con' \in Module /\ con'.lock = con.lock
        /\ con'.connected = con.connected /\ con.id # "none"
    BY <1>1, <1>4 DEF Module
  <2>2. Alike(task') /\ healthy' \in BOOLEAN BY <1>1, <1>4 DEF SessionEnds
  <2> QED BY <2>1, <2>2, SameKeeps
<1>5. CASE SessionEnds /\ con' = con
                       /\ \E t \in Tasks : task[t].to = "live"
                                           /\ task' = [task EXCEPT ![t].to = "dead"]
  <2>1. PICK t \in Tasks :
          task[t].to = "live" /\ task' = [task EXCEPT ![t].to = "dead"]
    BY <1>5
  <2>2. task' \in FrameSets BY <2>1, Typed DEF FrameSets, Frames
  <2>3. \A u \in Tasks : task'[u].at = task[u].at /\ task'[u].tries = task[u].tries
    BY <2>1, Typed DEF FrameSets, Frames
  <2>4. \A u \in Tasks : u # t => task'[u] = task[u]
    BY <2>1, Typed DEF FrameSets
  <2>5. task[t] # Off BY <2>1 DEF Off, Place
  <2>6. Alike(task') BY <2>2, <2>3, <2>4, <2>5 DEF Alike
  <2>7. healthy' \in BOOLEAN BY <1>1, <1>5 DEF SessionEnds
  <2> QED BY <1>1, <1>5, <2>6, <2>7, SameKeeps
<1> QED BY <1>2, <1>3, <1>4, <1>5 DEF SessionEnds

LEMMA CrashKeeps ==
  ASSUME ConInv, Crash
  PROVE  ConInv'
<1> DEFINE fs == [t \in Tasks |-> Off]
<1>1. Off \in Frames /\ Off.at = "off" /\ Off.tries = 0 BY DEF Off, Place, Frames
<1>2. fs \in FrameSets /\ fs["watchdog"] = Off /\ fs["keepalive"] = Off
      /\ fs = [fs EXCEPT !["engine"] = Off]
  BY <1>1 DEF FrameSets, Tasks, Crew
<1>3. /\ con' \in Module /\ con'.lock = Nobody
      /\ con'.id = "none" /\ ~con'.connected
  BY DEF Crash, Fresh, Module
<1>4. task' = [fs EXCEPT !["engine"] = Off] BY <1>2 DEF Crash
<1>5. healthy' \in BOOLEAN BY DEF Crash, ConInv, TypeOK
<1>6. Off.tries <= StartTries /\ Off.at # "pause" BY <1>1, Bounds
<1> HIDE DEF fs
<1> QED BY <1>1, <1>2, <1>3, <1>4, <1>5, <1>6, AloneKeeps

-----------------------------------------------------------------------------
(***************************************************************************)
(* Theorems.                                                               *)
(***************************************************************************)
LEMMA InitInv == Init => ConInv
<1> SUFFICES ASSUME Init PROVE ConInv
  OBVIOUS
<1>1. \A t \in Tasks : task[t] = Off BY DEF Init
<1>2. Off \in Frames /\ Off.at = "off" /\ Off.tries = 0 BY DEF Off, Place, Frames
<1>3. /\ "watchdog" \in Tasks /\ "keepalive" \in Tasks /\ "engine" \in Tasks
      /\ Crew \subseteq Tasks
  BY DEF Tasks, Crew
<1>4. con \in Module /\ con.lock = Nobody /\ con.id = "none" /\ ~con.connected
  BY DEF Init, Fresh, Module
<1>5. TypeOK
  <2>1. task \in [Tasks -> Frames] BY <1>2 DEF Init
  <2>2. \A t \in Tasks : task[t].tries <= StartTries BY <1>1, <1>2, Bounds
  <2> QED BY <1>4, <2>1, <2>2 DEF TypeOK, Init
<1>6. PausesFew /\ LockHeld /\ NoHalfOff
  BY <1>1, <1>2, <1>4, NobodyElse DEF PausesFew, LockHeld, NoHalfOff
<1>7. CrewTogether /\ Alone /\ QuietBetween
  BY <1>1, <1>2, <1>3, <1>4 DEF CrewTogether, Alone, QuietBetween
<1> QED BY <1>5, <1>6, <1>7 DEF ConInv

LEMMA NextInv == ConInv /\ [Next]_vars => ConInv'
<1> SUFFICES ASSUME ConInv, [Next]_vars PROVE ConInv'
  OBVIOUS
<1>1. ASSUME NEW t \in Tasks, Proceeds(t) \/ Acquires(t) PROVE ConInv'
  BY <1>1, StatusKeeps, AcquiresKeeps, ConnectGoodKeeps, ConnectBadKeeps, PauseOverKeeps
     DEF Proceeds
<1>2. CASE WatchdogWakes \/ CheckGood \/ CheckBad BY <1>2, WatchdogKeeps
<1>3. CASE KeepaliveWakes BY <1>3, KeepaliveKeeps
<1>4. CASE Tick BY <1>4, EnsureKeeps DEF Tick, Up, Tasks
<1>5. CASE QueryStarts \/ RequestGood \/ RequestBad \/ RequestRaises
  BY <1>5, QueriesKeep
<1>6. CASE RestartMt5 BY <1>6, RestartKeeps
<1>7. CASE EngineEnds BY <1>7, EngineEndsKeeps
<1>8. CASE Closed BY <1>8, ClosedKeeps
<1>9. CASE Start BY <1>9, StartKeeps
<1>10. CASE Aged \/ HealthChanges \/ SessionEnds \/ UNCHANGED vars
  BY <1>10, WorldKeeps
<1>11. CASE Crash BY <1>11, CrashKeeps
<1> QED BY <1>1, <1>2, <1>3, <1>4, <1>5, <1>6, <1>7, <1>8, <1>9, <1>10, <1>11 DEF Next

(* The module variables and the tasks are always what their types say, and *)
(* no task ever makes more attempts than it was given                      *)
(* (connect_with_retry).                                                   *)
THEOREM ConnectionTypes == Spec => []TypeOK
<1>1. ConInv => TypeOK BY DEF ConInv
<1> QED BY <1>1, InitInv, NextInv, PTL DEF Spec

(* Between two engines nothing is connected, locked or running, after any  *)
(* failures, reconnections, restarts, ends and crashes (_run_loop's        *)
(* finally, _run_robot_once).                                              *)
THEOREM QuietBetweenEngines == Spec => []QuietBetween
<1>1. ConInv => QuietBetween BY DEF ConInv
<1> QED BY <1>1, InitInv, NextInv, PTL DEF Spec
=============================================================================
