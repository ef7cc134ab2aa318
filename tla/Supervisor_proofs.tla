--------------------------- MODULE Supervisor_proofs ---------------------------
(***************************************************************************)
(* Theorems about Supervisor, for any pauses, ages and intervals that meet *)
(* the assumptions of the module.                                          *)
(***************************************************************************)
EXTENDS Supervisor, TLAPS

(***************************************************************************)
(* Types, and what a copy says of a connection.                            *)
(***************************************************************************)
(* A copy that says "connected" is no older than the last live connection. *)
Witnessed(copy) == copy # NoCopy /\ copy.conn => linked <= copy.age

TruthInv == TypeOK /\ Witnessed(file) /\ Witnessed(redis)

LEMMA PingBounds ==
  /\ PingLimit \in Nat /\ PingEvery <= PingLimit /\ PingTimeout <= PingLimit
<1>1. \E x \in {PingEvery, PingTimeout} : \A y \in {PingEvery, PingTimeout} : x >= y
  BY PingAssumption
<1>2. PingLimit \in {PingEvery, PingTimeout} /\ \A y \in {PingEvery, PingTimeout} : PingLimit >= y
  BY <1>1, Zenon DEF PingLimit, Max
<1> QED
  BY <1>2, PingAssumption

LEMMA LeastOf == \A a, b \in Int : Least(a, b) \in {a, b} /\ Least(a, b) <= a /\ Least(a, b) <= b
BY DEF Least

LEMMA CapType == Cap \in Nat /\ HeartbeatMax < Cap
BY AgeAssumption DEF Cap

LEMMA NewCopy == \A c \in BOOLEAN : [conn |-> c, age |-> 0] \in Copies
BY CapType DEF Copies

(* What a publication leaves.                                              *)
LEMMA Published ==
  ASSUME TruthInv, NEW conn \in BOOLEAN, Publish(conn)
  PROVE  /\ file' \in Copies \cup {NoCopy} /\ redis' \in Copies \cup {NoCopy}
         /\ linked' \in 0..Cap
         /\ Witnessed(file)' /\ Witnessed(redis)'
<1> DEFINE new == [conn |-> conn, age |-> 0]
<1>1. new \in Copies /\ new.conn = conn /\ new.age = 0
  BY NewCopy
<1>2. linked' \in 0..Cap /\ (conn => linked' = 0) /\ (~conn => linked' = linked)
  BY CapType DEF Publish, TruthInv, TypeOK
<1>3. file' \in {new, file} /\ redis' \in {new, redis}
  BY DEF Publish
<1> HIDE DEF new
<1>4. ASSUME NEW c \in Copies, c.conn => linked <= c.age
      PROVE  c.conn => linked' <= c.age
  BY <1>2, <1>4 DEF Copies, TruthInv, TypeOK
<1> QED
  BY <1>1, <1>2, <1>3, <1>4 DEF Witnessed, TruthInv, TypeOK

(* A copy and the last live connection grow old together, up to the cap.   *)
LEMMA Aged ==
  ASSUME NEW c \in Copies \cup {NoCopy}, NEW l \in 0..Cap,
         c # NoCopy /\ c.conn => l <= c.age
  PROVE  /\ Older(c) \in Copies \cup {NoCopy}
         /\ Older(c) # NoCopy /\ Older(c).conn => Least(l + 1, Cap) <= Older(c).age
<1>1. CASE c = NoCopy
  BY <1>1 DEF Older
<1>2. CASE c # NoCopy
  BY <1>2, CapType DEF Older, Copies, Least
<1> QED
  BY <1>1, <1>2

LEMMA TruthInit == Init => TruthInv
<1>1. NoPing \in Pings
  BY PingBounds, PingAssumption DEF NoPing, Pings
<1> QED
  BY <1>1, PauseAssumption, PingAssumption, CapType
     DEF Init, TruthInv, TypeOK, Witnessed, Results

LEMMA SleptType ==
  ASSUME TypeOK, NEW r, Slept(r)
  PROVE  left' \in 0..BackoffMax /\ backoff' \in BackoffBase..BackoffMax
         /\ robotStatus' \in {"STARTING", "RUNNING", "STOPPED", "RETRY"}
BY PauseAssumption DEF Slept, Least, TypeOK

LEMMA TruthStep == TruthInv /\ [Next]_vars => TruthInv'
<1> SUFFICES ASSUME TruthInv, [Next]_vars PROVE TruthInv'
  OBVIOUS
<1> USE DEF engine, published, edge
<1>n. NoPing \in Pings
  BY PingBounds, PingAssumption DEF NoPing, Pings
<1>1. CASE UNCHANGED vars
  BY <1>1 DEF TruthInv, TypeOK, Witnessed, vars
<1>2. CASE ProcessStarts
  BY <1>2, <1>n, PauseAssumption, PingAssumption
     DEF ProcessStarts, TruthInv, TypeOK, Witnessed, Results
<1>3. CASE AttemptUnconfigured
  BY <1>3, SleptType DEF AttemptUnconfigured, TruthInv, TypeOK, Witnessed
<1>4. CASE Supervise
  BY <1>4, SleptType DEF Supervise, TruthInv, TypeOK, Witnessed, Results
<1>5. CASE \/ Attempt \/ BootRefused \/ BootSucceeds \/ Beat \/ LoopRaises \/ LoopClosed
  <2>1. PICK conn \in BOOLEAN : Publish(conn)
    BY <1>5 DEF Attempt, BootRefused, BootSucceeds, Beat, LoopRaises, LoopClosed
  <2>2. /\ UNCHANGED <<left, backoff, config, redisUp, ping, quiet, lost>>
        /\ phase' \in {"boot", "loop", "closing", "ending"}
        /\ robotStatus' \in {"RUNNING", "STOPPED", robotStatus}
        /\ result' \in Results
    BY <1>5 DEF Attempt, BootRefused, BootSucceeds, Beat, LoopRaises, LoopClosed, Ends,
                Results, TruthInv, TypeOK
  <2> QED
    BY <2>1, <2>2, Published DEF TruthInv, TypeOK
<1>6. CASE BootRaises \/ LoopStops
  BY <1>6 DEF BootRaises, LoopStops, Ends, TruthInv, TypeOK, Witnessed, Results
<1>7. CASE KeepaliveStep
  <2>1. ping' \in Pings /\ quiet' \in 0..SuspendAfter /\ lost' \in 0..1
    BY <1>7, PingBounds, PingAssumption DEF KeepaliveStep, Wakes, PingOwn, PingBridge, PingAgain,
       PingAt, Pings, TruthInv, TypeOK, Least, AsksAgain
  <2>2. UNCHANGED <<engine, config, published, redisUp, linked>>
    BY <1>7 DEF KeepaliveStep, Wakes, PingOwn, PingBridge, PingAgain
  <2> QED
    BY <2>1, <2>2 DEF TruthInv, TypeOK, Witnessed
<1>8. CASE Crash \/ Suspended
  BY <1>8, <1>n, PauseAssumption, PingAssumption
     DEF Crash, Suspended, Dies, TruthInv, TypeOK, Witnessed, Results
<1>9. CASE RedisFlips
  BY <1>9 DEF RedisFlips, TruthInv, TypeOK, Witnessed
<1>10. CASE Tick
  <2>1. left' \in 0..BackoffMax /\ quiet' \in 0..SuspendAfter
    BY <1>10, PauseAssumption, PingAssumption DEF Tick, NothingDue, TruthInv, TypeOK
  <2>2. ping' \in Pings
    BY <1>10, PingBounds DEF Tick, NothingDue, TruthInv, TypeOK, Pings
  <2>3. linked' = Least(linked + 1, Cap) /\ linked' \in 0..Cap
    BY <1>10, CapType DEF Tick, Least, TruthInv, TypeOK
  <2>4. file' = Older(file) /\ redis' \in {Older(redis), NoCopy}
    BY <1>10 DEF Tick, Expired
  <2>5. /\ file' \in Copies \cup {NoCopy} /\ redis' \in Copies \cup {NoCopy}
        /\ Witnessed(file)' /\ Witnessed(redis)'
    BY <2>3, <2>4, Aged DEF Witnessed, TruthInv, TypeOK
  <2> QED
    BY <1>10, <2>1, <2>2, <2>3, <2>5 DEF Tick, TruthInv, TypeOK
<1> QED
  BY <1>1, <1>2, <1>3, <1>4, <1>5, <1>6, <1>7, <1>8, <1>9, <1>10 DEF Next, EngineStep

(* Types: counters, ages and timers keep their bounds.                     *)
THEOREM SupervisorTypes == Spec => []TypeOK
<1>1. TruthInv => TypeOK
  BY DEF TruthInv
<1> QED
  BY <1>1, TruthInit, TruthStep, PTL DEF Spec

(* The freshness that is shown is that of either copy: /status prefers     *)
(* Redis, and turns to the file only when Redis is not fresh.              *)
LEMMA TruthShows == TruthInv => EndpointsTruthful
<1> SUFFICES ASSUME TruthInv PROVE EndpointsTruthful
  OBVIOUS
<1>1. ASSUME NEW c \in {RedisCopy, file}, Shown(c).conn, c # NoCopy
      PROVE  linked <= HeartbeatMax
  <2>1. c.conn /\ c.age <= HeartbeatMax
    BY <1>1 DEF Shown, Fresh
  <2>2. c \in {redis, file}
    BY <1>1 DEF RedisCopy
  <2>3. c \in Copies /\ linked <= c.age
    BY <1>1, <2>1, <2>2 DEF TruthInv, TypeOK, Witnessed
  <2> QED
    BY <2>1, <2>3, AgeAssumption DEF Copies, TruthInv, TypeOK
<1>2. ASSUME Status.conn PROVE linked <= HeartbeatMax
  BY <1>1, <1>2 DEF Status, NothingKnown, Fresh
<1>3. Health = "published" <=> Fresh(RedisCopy) \/ Fresh(file)
  BY DEF Health, Sources, Fresh, TruthInv, TypeOK
<1>4. Status.fresh <=> Fresh(RedisCopy) \/ Fresh(file)
  BY DEF Status, Shown, NothingKnown, Fresh
<1> QED
  BY <1>2, <1>3, <1>4 DEF EndpointsTruthful

(* Whatever missed a write, expired, or survived a process, /status does   *)
(* not call a connection live that is older than a heartbeat may be, and   *)
(* agrees with /health on whether an engine is (server.py, _status).       *)
THEOREM EndpointsAlwaysTruthful == Spec => []EndpointsTruthful
  BY TruthInit, TruthStep, TruthShows, PTL DEF Spec

-----------------------------------------------------------------------------
(***************************************************************************)
(* The keepalive.  Spent is the time a round may have taken since the edge *)
(* last saw a request, by where the round is: every try of the bridge is a *)
(* ping and a pause, and both may last PingTimeout.                        *)
(***************************************************************************)
Rounds(k) == 2 * k * PingTimeout

Spent ==
  CASE ping.at = "bridge" -> Rounds(ping.tries) - PingTimeout - ping.left
    [] ping.at = "again"  -> Rounds(ping.tries) - ping.left
    [] ping.at = "sleep"  -> Rounds(BridgeTries) - PingTimeout + PingEvery - ping.left
    [] ping.at = "own"    -> Rounds(BridgeTries) + PingEvery - ping.left

AwakeInv ==
  /\ TypeOK
  /\ ping.at = "bridge" => ping.tries >= 1
  /\ ping.at = "again" => ping.tries < BridgeTries /\ ping.tries >= 1
  /\ lost = 0 => quiet <= Spent

(* Arithmetic of the rounds; the longest is shorter than the platform's    *)
(* patience (PingAssumption).                                              *)
LEMMA RoundsGrow ==
  /\ \A k \in Nat : Rounds(k) \in Nat /\ Rounds(k + 1) = Rounds(k) + 2 * PingTimeout
  /\ \A k \in Nat : k <= BridgeTries => Rounds(k) <= Rounds(BridgeTries)
  /\ Rounds(1) = 2 * PingTimeout
  /\ Rounds(BridgeTries) + PingEvery < SuspendAfter
<1>1. \A k, t \in Nat : 2 * k * t \in Nat /\ 2 * (k + 1) * t = 2 * k * t + 2 * t
  OBVIOUS
<1>2. \A j, k, t \in Nat : k <= j => 2 * k * t <= 2 * j * t
  <2> SUFFICES ASSUME NEW j \in Nat, NEW k \in Nat, NEW t \in Nat, k <= j
               PROVE 2 * k * t <= 2 * j * t
    OBVIOUS
  <2>1. (j - k) \in Nat /\ t * (j - k) >= 0
    OBVIOUS
  <2> QED
    BY <2>1
<1>3. \A t \in Nat : 2 * 1 * t = 2 * t
  OBVIOUS
<1> QED
  BY <1>1, <1>2, <1>3, PingAssumption DEF Rounds

LEMMA AwakeInit == Init => AwakeInv
<1>1. Init => TypeOK
  BY TruthInit DEF TruthInv
<1>2. Rounds(1) <= Rounds(BridgeTries)
  BY RoundsGrow, PingAssumption
<1> QED
  BY <1>1, <1>2, RoundsGrow, PingAssumption DEF Init, AwakeInv, Spent, NoPing

LEMMA AwakeStep == AwakeInv /\ TruthInv /\ [Next]_vars => AwakeInv'
<1> SUFFICES ASSUME AwakeInv, TruthInv, [Next]_vars PROVE AwakeInv'
  OBVIOUS
<1>t. TypeOK'
  BY TruthStep DEF TruthInv
<1>r. Rounds(1) <= Rounds(BridgeTries)
  BY RoundsGrow, PingAssumption
<1> USE DEF engine, published, edge
<1>1. CASE UNCHANGED edge
  BY <1>1, <1>t DEF AwakeInv, Spent
<1>2. CASE ping' = NoPing /\ quiet' = 0 /\ lost' = 0
  BY <1>2, <1>t, <1>r, RoundsGrow, PingAssumption DEF AwakeInv, Spent, NoPing
<1>p. ping \in Pings /\ ping' \in Pings /\ quiet \in Nat /\ quiet' \in Nat /\ lost' \in 0..1
  BY <1>t DEF TypeOK, AwakeInv
<1>3. CASE Wakes
  BY <1>3, <1>t, <1>p, RoundsGrow, PingAssumption DEF Wakes, PingAt, AwakeInv, Spent, Pings
<1>4. CASE PingOwn
  BY <1>4, <1>t, <1>p, RoundsGrow, PingAssumption DEF PingOwn, PingAt, AwakeInv, Spent, Pings
<1>5. CASE PingBridge
  <2>1. Rounds(ping.tries) <= Rounds(BridgeTries) /\ Rounds(ping.tries) \in Nat
    BY <1>p, RoundsGrow DEF Pings
  <2>2. lost = 0 => quiet <= Rounds(ping.tries) - PingTimeout
    BY <1>5, <1>p, <2>1, PingAssumption DEF PingBridge, AwakeInv, Spent, Pings
  <2>3. CASE ping' = PingAt("again", PingTimeout, ping.tries) /\ AsksAgain(ping.tries)
    BY <1>5, <2>3, <2>2, <1>t, <1>p, RoundsGrow, PingAssumption
       DEF PingBridge, PingAt, AwakeInv, Spent, Pings, AsksAgain
  <2>4. CASE ping' = PingAt("sleep", PingEvery, 0)
    BY <1>5, <2>4, <2>1, <2>2, <1>t, <1>p, RoundsGrow, PingAssumption
       DEF PingBridge, PingAt, AwakeInv, Spent, Pings
  <2> QED
    BY <1>5, <2>3, <2>4 DEF PingBridge
<1>6. CASE PingAgain
  <2>1. ping.tries + 1 \in Nat /\ Least(ping.tries + 1, BridgeTries) = ping.tries + 1
    BY <1>6, <1>p, PingAssumption DEF PingAgain, AwakeInv, Least, Pings
  <2>2. Rounds(ping.tries + 1) = Rounds(ping.tries) + 2 * PingTimeout /\ Rounds(ping.tries) \in Nat
    BY <1>p, RoundsGrow DEF Pings
  <2> QED
    BY <1>6, <2>1, <2>2, <1>t, <1>p, PingAssumption DEF PingAgain, PingAt, AwakeInv, Spent, Pings
<1>7. CASE Tick
  <2>1. CASE Up
    <3>1. /\ ping' = [ping EXCEPT !.left = @ - 1] /\ quiet' = quiet + 1 /\ lost' = lost
      BY <1>7, <2>1 DEF Tick
    <3>2. /\ ping'.at = ping.at /\ ping'.tries = ping.tries /\ ping'.left = ping.left - 1
          /\ ping.at \in {"sleep", "own", "bridge", "again"}
      BY <3>1, <1>p DEF Pings
    <3>3. /\ Rounds(ping.tries) \in Nat /\ Rounds(BridgeTries) \in Nat /\ ping.left \in Nat
          /\ PingEvery \in Nat /\ PingTimeout \in Nat
      BY RoundsGrow, <1>p, PingAssumption DEF Pings
    <3>4. Spent' = Spent + 1 /\ Spent \in Int
      BY <3>2, <3>3 DEF Spent
    <3> QED
      BY <3>1, <3>2, <3>4, <1>t, <1>p DEF AwakeInv
  <2>2. CASE ~Up
    BY <1>1, <1>7, <2>2 DEF Tick
  <2> QED
    BY <2>1, <2>2
<1>8. UNCHANGED edge \/ (ping' = NoPing /\ quiet' = 0 /\ lost' = 0)
        \/ KeepaliveStep \/ Tick
  BY DEF Next, vars, EngineStep, ProcessStarts, AttemptUnconfigured, Attempt, BootRefused,
         BootRaises, BootSucceeds, Beat, LoopStops, LoopRaises, LoopClosed, Supervise,
         Crash, Suspended, Dies, RedisFlips
<1> QED
  BY <1>1, <1>2, <1>3, <1>4, <1>5, <1>6, <1>7, <1>8 DEF KeepaliveStep

LEMMA AwakeShows == AwakeInv => StaysAwake
<1> SUFFICES ASSUME AwakeInv, lost = 0 PROVE quiet < SuspendAfter
  BY DEF StaysAwake
<1>1. /\ Rounds(ping.tries) \in Nat /\ Rounds(ping.tries) <= Rounds(BridgeTries)
      /\ Rounds(BridgeTries) \in Nat /\ Rounds(BridgeTries) + PingEvery < SuspendAfter
  BY RoundsGrow, PingAssumption DEF AwakeInv, TypeOK, Pings
<1>2. ping.left \in Nat /\ quiet \in Nat /\ ping.at \in {"sleep", "own", "bridge", "again"}
  BY DEF AwakeInv, TypeOK, Pings
<1>3. Spent <= Rounds(BridgeTries) + PingEvery
  BY <1>1, <1>2, PingAssumption DEF Spent
<1> QED
  BY <1>1, <1>2, <1>3, PingAssumption DEF AwakeInv, Spent

(* Unless a ping was lost, the platform never finds the service idle,      *)
(* however slowly the bridge answers (server.py, _keepalive).              *)
THEOREM AlwaysStaysAwake == Spec => []StaysAwake
<1>1. Init => TruthInv /\ AwakeInv
  BY TruthInit, AwakeInit
<1>2. (TruthInv /\ AwakeInv) /\ [Next]_vars => (TruthInv /\ AwakeInv)'
  BY TruthStep, AwakeStep
<1> QED
  BY <1>1, <1>2, AwakeShows, PTL DEF Spec
=============================================================================
