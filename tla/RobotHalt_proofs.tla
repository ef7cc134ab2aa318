-------------------------- MODULE RobotHalt_proofs --------------------------
(***************************************************************************)
(* Proofs about RobotHalt for every set of accounts, reports and limits,   *)
(* every day length, freshness and clock bound, with Redis and the disk    *)
(* failing or not.                                                         *)
(***************************************************************************)
EXTENDS RobotHalt, TLAPS

Guard == Guardians(Int, Limits)

-----------------------------------------------------------------------------
(***************************************************************************)
(* What the guardian's operations return.                                  *)
(***************************************************************************)

(* Every operation of the guardian takes a guardian's state to one.        *)
LEMMA GuardianTypes ==
  ASSUME NEW g \in Guard, NEW bal \in Int, NEW eq \in Int, NEW today \in Int
  PROVE  /\ Initialize(g, bal, eq, today) \in Guard
         /\ DayReset(g, bal, today) \in Guard
         /\ RaisePeak(g, eq) \in Guard
         /\ Trip(g, bal, eq) \in Guard
         /\ \A rebase \in BOOLEAN : ResetHalt(g, rebase, bal, today) \in Guard
<1> USE DEF Guard, Guardians, HaltReasons
<1>1. Initialize(g, bal, eq, today) \in Guard
  <2>1. (bal > 0) \in BOOLEAN
    OBVIOUS
  <2>2. QED
    BY <2>1 DEF Initialize
<1>2. DayReset(g, bal, today) \in Guard
  BY DEF DayReset
<1>3. RaisePeak(g, eq) \in Guard
  BY DEF RaisePeak
<1>4. Trip(g, bal, eq) \in Guard
  BY DEF Trip, Halted
<1>5. \A rebase \in BOOLEAN : ResetHalt(g, rebase, bal, today) \in Guard
  BY DEF ResetHalt
<1>6. QED
  BY <1>1, <1>2, <1>3, <1>4, <1>5

LEMMA CheckType ==
  ASSUME NEW g \in Guard, NEW bal \in Int, NEW eq \in Int, NEW today \in Int
  PROVE  Check(g, bal, eq, today) \in Guard
<1>1. DayReset(g, bal, today) \in Guard
  BY GuardianTypes
<1>2. RaisePeak(DayReset(g, bal, today), eq) \in Guard
  BY <1>1, GuardianTypes
<1>3. QED
  BY <1>2, GuardianTypes DEF Check

LEMMA FreshType ==
  ASSUME NEW l \in Limits
  PROVE  Fresh(l) \in Guard /\ ~Halted(Fresh(l))
BY DEF Fresh, Guard, Guardians, HaltReasons, NoDay, Halted

(* A restored guardian has the saved halt, and limits that are a pair the  *)
(* engine knows.                                                           *)
LEMMA RestoreType ==
  ASSUME NEW g \in Guard, NEW saved \in Guard
  PROVE  /\ Restore(g, saved, EnvPins) \in Guard
         /\ Restore(g, saved, EnvPins).halt = saved.halt
<1>1. [k \in LimitKeys |-> IF k \in EnvPins THEN g.limits[k] ELSE saved.limits[k]]
        \in Limits
  <2>1. g.limits \in Limits /\ saved.limits \in Limits
    BY DEF Guard, Guardians
  <2>2. QED
    BY <2>1, LimitsAssumption
<1>2. QED
  BY <1>1 DEF Restore, Guard, Guardians

LEMMA UpdatedType ==
  ASSUME NEW l \in Limits, NEW u \in LimitUpdates \cup {NoCopy}
  PROVE  Updated(l, u) \in Limits
BY LimitsAssumption DEF Updated

LEMMA TodayType ==
  ASSUME now \in 0..MaxTime
  PROVE  Today \in Int
BY TimeAssumption DEF Today

(* Saving, ageing and matching keep the copies copies.                     *)
LEMMA AgedType ==
  ASSUME NEW copy \in Copies \cup {NoCopy}, NEW state \in Guard
  PROVE  /\ Aged(copy) \in Copies \cup {NoCopy}
         /\ Matched(copy, state) \in Copies \cup {NoCopy}
BY DEF Aged, Matched, Copies, Guard

LEMMA SaveType ==
  ASSUME TypeOK, NEW g \in Guard, Save(g)
  PROVE  redis' \in Copies \cup {NoCopy} /\ disk' \in Copies \cup {NoCopy}
<1>1. [state |-> g, at |-> now, current |-> TRUE] \in Copies
  BY DEF TypeOK, Copies, Guard
<1>2. Aged(redis) \in Copies \cup {NoCopy} /\ Aged(disk) \in Copies \cup {NoCopy}
  BY AgedType DEF TypeOK, Guard
<1>3. QED
  BY <1>1, <1>2 DEF Save

-----------------------------------------------------------------------------
(***************************************************************************)
(* Type correctness, one action at a time.                                 *)
(***************************************************************************)

LEMMA ProcessCommandsType ==
  ASSUME TypeOK, NEW b \in Batches, NEW a \in Reports \cup {NoAcc},
         ProcessCommands(b, a)
  PROVE  /\ paused' \in BOOLEAN /\ running' \in BOOLEAN
         /\ guardian' \in Guard /\ config' \in Limits
         /\ acc' \in Reports \cup {NoAcc}
         /\ redis' \in Copies \cup {NoCopy} /\ disk' \in Copies \cup {NoCopy}
         /\ owed' \in HaltReasons
<1> DEFINE resetOk == \/ b.reset = "plain"
                      \/ b.reset = "daily" /\ a # NoAcc /\ ~ResetRefused(TRUE, a.bal)
           bal == IF a = NoAcc THEN 0 ELSE a.bal
           g1 == IF resetOk THEN ResetHalt(guardian, b.reset = "daily", bal, Today)
                            ELSE guardian
<1>1. b.update \in LimitUpdates \cup {NoCopy} /\ b.pause \in BOOLEAN
      /\ b.stop \in BOOLEAN
  BY DEF Batches, AllBatches
<1>2. bal \in Int
  BY MoneyAssumption
<1>3. g1 \in Guard
  <2>1. (b.reset = "daily") \in BOOLEAN
    OBVIOUS
  <2>2. ResetHalt(guardian, b.reset = "daily", bal, Today) \in Guard
    BY <1>2, <2>1, TodayType, GuardianTypes DEF TypeOK, Guard
  <2>3. QED
    BY <2>2 DEF TypeOK, Guard
<1>4. guardian' = [g1 EXCEPT !.limits = Updated(@, b.update)]
  BY DEF ProcessCommands
<1>5. guardian' \in Guard
  <2>1. g1.limits \in Limits
    BY <1>3 DEF Guard, Guardians
  <2>2. Updated(g1.limits, b.update) \in Limits
    BY <1>1, <2>1, UpdatedType
  <2>3. QED
    BY <1>3, <1>4, <2>2 DEF Guard, Guardians
<1>6. config' \in Limits
  BY <1>1, UpdatedType DEF ProcessCommands, TypeOK
<1>7. redis' \in Copies \cup {NoCopy} /\ disk' \in Copies \cup {NoCopy}
      /\ owed' \in HaltReasons
  <2>1. CASE resetOk
    <3>1. Save(g1) /\ owed' = "none"
      BY <2>1 DEF ProcessCommands
    <3>2. QED
      BY <1>3, <3>1, SaveType DEF HaltReasons
  <2>2. CASE ~resetOk
    BY <2>2 DEF ProcessCommands, storage, TypeOK
  <2>3. QED
    BY <2>1, <2>2
<1>8. paused' \in BOOLEAN /\ running' \in BOOLEAN /\ acc' \in Reports \cup {NoAcc}
  BY <1>1 DEF ProcessCommands, TypeOK
<1>9. QED
  BY <1>5, <1>6, <1>7, <1>8

LEMMA RestoreOrInitializeType ==
  ASSUME TypeOK, RestoreOrInitialize
  PROVE  TypeOK'
<1>1. PICK a \in Reports \cup {NoAcc} :
        /\ phase = "boot" /\ acc' = a
        /\ RestoreGuardian(a) \/ ColdStart(a)
        /\ UNCHANGED <<running, config, world>>
  BY DEF RestoreOrInitialize
<1> DEFINE g == Identified(guardian, a)
<1>2. g \in Guard
  BY DEF Identified, TypeOK, Guard, Guardians
<1>3. CASE RestoreGuardian(a)
  <2>1. SavedCopy \in Copies
    BY <1>3 DEF RestoreGuardian, FreshCopy, SavedCopy, RedisCopy, TypeOK
  <2>2. SavedCopy.state \in Guard
    BY <2>1 DEF Copies, Guard
  <2>3. guardian' \in Guard
    BY <1>2, <1>3, <2>2, RestoreType DEF RestoreGuardian
  <2>4. owed' \in HaltReasons
    BY <1>3, <2>2 DEF RestoreGuardian, Guard, Guardians
  <2>5. redis' \in Copies \cup {NoCopy} /\ disk' \in Copies \cup {NoCopy}
    BY <1>3, <2>2, AgedType DEF RestoreGuardian, TypeOK
  <2>6. paused' \in BOOLEAN
    BY <1>3 DEF RestoreGuardian, TypeOK
  <2>7. phase' = "tick" /\ recovered' \in {"current", "older", "none"}
    BY <1>3 DEF RestoreGuardian
  <2>8. QED
    BY <1>1, <2>3, <2>4, <2>5, <2>6, <2>7 DEF TypeOK, Phases, world, Guard
<1>4. CASE ColdStart(a)
  <2>1. CASE a # NoAcc /\ a.bal > 0
    <3>1. a.bal \in Int /\ a.eq \in Int
      BY <2>1, MoneyAssumption
    <3>2. guardian' = Initialize(g, a.bal, a.eq, Today) /\ Save(guardian')
          /\ phase' = "tick"
      BY <1>4, <2>1 DEF ColdStart
    <3>3. guardian' \in Guard
      BY <1>2, <3>1, <3>2, TodayType, GuardianTypes DEF TypeOK
    <3>4. redis' \in Copies \cup {NoCopy} /\ disk' \in Copies \cup {NoCopy}
      BY <3>2, <3>3, SaveType
    <3>5. QED
      BY <1>1, <1>4, <3>2, <3>3, <3>4
      DEF ColdStart, TypeOK, Phases, HaltReasons, world, Guard
  <2>2. CASE ~(a # NoAcc /\ a.bal > 0)
    <3>1. guardian' = g /\ phase' = "boot2"
          /\ redis' = Aged(redis) /\ disk' = Aged(disk)
      BY <1>4, <2>2 DEF ColdStart
    <3>2. redis' \in Copies \cup {NoCopy} /\ disk' \in Copies \cup {NoCopy}
      BY <1>2, <3>1, AgedType DEF TypeOK
    <3>3. QED
      BY <1>1, <1>2, <1>4, <3>1, <3>2
      DEF ColdStart, TypeOK, Phases, HaltReasons, world, Guard
  <2>3. QED
    BY <2>1, <2>2
<1>5. QED
  BY <1>1, <1>3, <1>4

LEMMA BarCheckType ==
  ASSUME TypeOK, BarCheck
  PROVE  TypeOK'
<1>1. PICK a \in Reports :
        /\ acc' = a /\ guardian' = Checked(a)
        /\ SaveIfChanged(guardian, guardian')
        /\ paused' = PausesAt(guardian')
        /\ phase' = IF Halted(guardian') THEN "bars" ELSE "gates"
        /\ owed' = guardian'.halt
        /\ UNCHANGED <<running, config, world, recovered>>
  BY DEF BarCheck
<1>2. a.bal \in Int /\ a.eq \in Int /\ Today \in Int
  BY MoneyAssumption, TodayType DEF TypeOK
<1>3. (IF guardian.init THEN guardian
       ELSE Initialize(guardian, a.bal, a.eq, Today)) \in Guard
  BY <1>2, GuardianTypes DEF TypeOK, Guard
<1>4. guardian' \in Guard
  BY <1>1, <1>2, <1>3, CheckType DEF Checked
<1>5. redis' \in Copies \cup {NoCopy} /\ disk' \in Copies \cup {NoCopy}
  BY <1>1, <1>4, SaveType DEF SaveIfChanged, storage, TypeOK
<1>6. paused' \in BOOLEAN /\ owed' \in HaltReasons
  BY <1>1, <1>4 DEF PausesAt, Halted, TypeOK, Guard, Guardians
<1>7. QED
  BY <1>1, <1>4, <1>5, <1>6 DEF TypeOK, Phases, world, Guard

LEMMA ForceResumeType ==
  ASSUME TypeOK, ForceResume
  PROVE  TypeOK'
<1>1. PICK rebase \in BOOLEAN :
        LET bal == IF acc = NoAcc THEN 0 ELSE acc.bal
            g1  == IF rebase /\ bal > 0
                   THEN Initialize(guardian, bal, acc.eq, Today) ELSE guardian
        IN  guardian' = ResetHalt(g1, FALSE, bal, Today)
  BY DEF ForceResume
<1> DEFINE bal == IF acc = NoAcc THEN 0 ELSE acc.bal
           g1  == IF rebase /\ bal > 0
                  THEN Initialize(guardian, bal, acc.eq, Today) ELSE guardian
<1>2. bal \in Int /\ Today \in Int
  BY MoneyAssumption, TodayType DEF TypeOK
<1>3. g1 \in Guard
  <2>1. CASE rebase /\ bal > 0
    <3>1. acc # NoAcc /\ acc.eq \in Int
      BY <2>1, MoneyAssumption DEF TypeOK
    <3>2. QED
      BY <1>2, <2>1, <3>1, GuardianTypes DEF TypeOK, Guard
  <2>2. CASE ~(rebase /\ bal > 0)
    BY <2>2 DEF TypeOK, Guard
  <2>3. QED
    BY <2>1, <2>2
<1>4. guardian' \in Guard
  BY <1>1, <1>2, <1>3, GuardianTypes
<1>5. redis' \in Copies \cup {NoCopy} /\ disk' \in Copies \cup {NoCopy}
  BY <1>4, SaveType DEF ForceResume
<1>6. QED
  BY <1>4, <1>5 DEF ForceResume, TypeOK, HaltReasons, world, Guard

(* Every variable keeps its type in every step, a stuttering one included. *)
LEMMA TypePreserved ==
  ASSUME TypeOK, [Next]_vars
  PROVE  TypeOK'
<1> USE DEF TypeOK, Phases
<1>1. CASE Boot
  BY <1>1, FreshType DEF Boot, storage, world, history, Guard
<1>2. CASE ConnectFails
  BY <1>2 DEF ConnectFails, storage, world, history
<1>3. CASE RestoreOrInitialize
  BY <1>3, RestoreOrInitializeType
<1>4. CASE InitializeLate
  <2>1. PICK a \in Reports \cup {NoAcc} :
          /\ acc' = IF a = NoAcc THEN acc ELSE a
          /\ IF a # NoAcc /\ a.bal > 0
             THEN /\ guardian' = Initialize(guardian, a.bal, a.eq, Today)
                  /\ Save(guardian')
             ELSE UNCHANGED <<guardian, storage>>
    BY <1>4 DEF InitializeLate
  <2>2. CASE a # NoAcc /\ a.bal > 0
    <3>1. a.bal \in Int /\ a.eq \in Int /\ Today \in Int
      BY <2>2, MoneyAssumption, TodayType
    <3>2. guardian' \in Guard
      BY <2>1, <2>2, <3>1, GuardianTypes DEF Guard
    <3>3. redis' \in Copies \cup {NoCopy} /\ disk' \in Copies \cup {NoCopy}
      BY <2>1, <2>2, <3>2, SaveType
    <3>4. QED
      BY <1>4, <2>1, <3>2, <3>3 DEF InitializeLate, world, history, Guard
  <2>3. CASE ~(a # NoAcc /\ a.bal > 0)
    BY <1>4, <2>1, <2>3 DEF InitializeLate, storage, world, history
  <2>4. QED
    BY <2>2, <2>3
<1>5. CASE Poll
  <2>1. PICK b \in Batches, a \in Reports \cup {NoAcc} :
          /\ ProcessCommands(b, a)
          /\ phase' \in IF paused' THEN {"tick"} ELSE {"tick", "scan"}
          /\ UNCHANGED <<world, recovered>>
    BY <1>5 DEF Poll, PollOf
  <2>2. QED
    BY <2>1, ProcessCommandsType DEF world, Guard
<1>6. CASE Stop
  BY <1>6 DEF Stop, storage, world, history
<1>7. CASE IdleTick
  BY <1>7 DEF IdleTick, storage, world, history
<1>8. CASE BarAbandoned
  BY <1>8 DEF BarAbandoned, storage, world, history
<1>9. CASE BarCheck
  BY <1>9, BarCheckType
<1>10. CASE FinishEntry
  BY <1>10 DEF FinishEntry, storage, world, history
<1>11. CASE EndTick
  BY <1>11 DEF EndTick, storage, world, history
<1>12. CASE ForceResume
  BY <1>12, ForceResumeType
<1>13. CASE EngineFails
  BY <1>13 DEF EngineFails, storage, world, history
<1>14. CASE Crash
  BY <1>14, FreshType, LimitsAssumption DEF Crash, storage, history, Guard
<1>15. CASE RedisFlips
  BY <1>15 DEF RedisFlips, engine, storage, history
<1>16. CASE Clock
  BY <1>16, TimeAssumption DEF Clock, engine, storage, history
<1>17. CASE UNCHANGED vars
  BY <1>17 DEF vars, engine, storage, world, history
<1>18. QED
  BY <1>1, <1>2, <1>3, <1>4, <1>5, <1>6, <1>7, <1>8, <1>9, <1>10, <1>11, <1>12,
     <1>13, <1>14, <1>15, <1>16, <1>17
  DEF Next, RobotStep

LEMMA InitType == Init => TypeOK
<1> SUFFICES ASSUME Init PROVE TypeOK
  OBVIOUS
<1>1. redisUp \in BOOLEAN
  BY FlagAssumption, Zenon DEF Init
<1>2. guardian \in Guard
  BY FreshType, LimitsAssumption DEF Init
<1>3. now \in 0..MaxTime
  BY TimeAssumption DEF Init
<1>4. QED
  BY <1>1, <1>2, <1>3, LimitsAssumption DEF Init, TypeOK, Phases, HaltReasons, Guard

(* Every variable of RobotHalt always has its type.                        *)
THEOREM TypeCorrect == Spec => []TypeOK
<1>1. TypeOK /\ [Next]_vars => TypeOK'
  BY TypePreserved
<1>2. QED
  BY <1>1, InitType, PTL DEF Spec

-----------------------------------------------------------------------------
(***************************************************************************)
(* The halt: what the guardian's operations do to it.                      *)
(***************************************************************************)

LEMMA InitializeKeepsHalt ==
  ASSUME NEW g \in Guard, NEW bal, NEW eq, NEW today
  PROVE  Initialize(g, bal, eq, today).halt = g.halt
BY DEF Initialize, Guard, Guardians

LEMMA ResetHaltClears ==
  ASSUME NEW g \in Guard, NEW rebase \in BOOLEAN, NEW bal, NEW today
  PROVE  ResetHalt(g, rebase, bal, today).halt = "none"
BY DEF ResetHalt, Guard, Guardians

(* A check never lifts a drawdown halt.                                    *)
LEMMA CheckKeepsDrawdown ==
  ASSUME NEW g \in Guard, NEW bal \in Int, NEW eq \in Int, NEW today \in Int,
         g.halt = "drawdown"
  PROVE  Check(g, bal, eq, today).halt = "drawdown"
<1>1. DayReset(g, bal, today) \in Guard /\ DayReset(g, bal, today).halt = "drawdown"
  BY GuardianTypes DEF DayReset, Guard, Guardians
<1> DEFINE h == RaisePeak(DayReset(g, bal, today), eq)
<1>2. h.halt = "drawdown"
  BY <1>1 DEF RaisePeak, Guard, Guardians
<1>3. Halted(h)
  BY <1>2 DEF Halted
<1>4. Trip(h, bal, eq) = h
  BY <1>3 DEF Trip
<1>5. QED
  BY <1>2, <1>4 DEF Check

(* A guardian that lets a bar pass is the one that was asked, and neither  *)
(* breaker holds for it on the same figures.                               *)
LEMMA CheckPasses ==
  ASSUME NEW g \in Guard, NEW bal \in Int, NEW eq \in Int, NEW today \in Int,
         ~Halted(Check(g, bal, eq, today))
  PROVE  /\ Check(g, bal, eq, today).init = g.init
         /\ ~DailyLossHit(Check(g, bal, eq, today), bal)
         /\ ~DrawdownHit(Check(g, bal, eq, today), eq)
<1> DEFINE d == DayReset(g, bal, today)
           h == RaisePeak(d, eq)
<1>1. d \in Guard /\ h \in Guard
  BY GuardianTypes
<1>2. d.init = g.init
  BY DEF DayReset, Guard, Guardians
<1>3. h.init = d.init
  BY <1>1 DEF RaisePeak, Guard, Guardians
<1> HIDE DEF d, h
<1>4. ~Halted(Trip(h, bal, eq))
  BY DEF Check, d, h
<1>5. Trip(h, bal, eq) = h /\ ~DailyLossHit(h, bal) /\ ~DrawdownHit(h, eq)
  <2>1. CASE Halted(h)
    BY <1>4, <2>1 DEF Trip
  <2>2. CASE ~Halted(h) /\ DailyLossHit(h, bal)
    <3>1. Trip(h, bal, eq) = [h EXCEPT !.halt = "daily"]
      BY <2>2 DEF Trip
    <3>2. Trip(h, bal, eq).halt = "daily"
      BY <1>1, <3>1 DEF Guard, Guardians
    <3>3. QED
      BY <1>4, <3>2 DEF Halted
  <2>3. CASE ~Halted(h) /\ ~DailyLossHit(h, bal) /\ DrawdownHit(h, eq)
    <3>1. Trip(h, bal, eq) = [h EXCEPT !.halt = "drawdown"]
      BY <2>3 DEF Trip
    <3>2. Trip(h, bal, eq).halt = "drawdown"
      BY <1>1, <3>1 DEF Guard, Guardians
    <3>3. QED
      BY <1>4, <3>2 DEF Halted
  <2>4. CASE ~Halted(h) /\ ~DailyLossHit(h, bal) /\ ~DrawdownHit(h, eq)
    BY <2>4 DEF Trip
  <2>5. QED
    BY <2>1, <2>2, <2>3, <2>4
<1>6. QED
  BY <1>2, <1>3, <1>5 DEF Check, d, h

(* With positive limits, neither breaker holds on the figures a guardian   *)
(* was just initialized with.                                              *)
LEMMA RebasedPasses ==
  ASSUME NEW g \in Guard, NEW bal \in Int, NEW eq \in Int, NEW today \in Int,
         bal > 0
  PROVE  LET h == ResetHalt(Initialize(g, bal, eq, today), FALSE, bal, today)
         IN  /\ h.init /\ ~DailyLossHit(h, bal) /\ ~DrawdownHit(h, eq)
<1> DEFINE h == ResetHalt(Initialize(g, bal, eq, today), FALSE, bal, today)
<1>1. g.limits \in [LimitKeys -> Nat \ {0}]
  BY LimitsAssumption DEF Guard, Guardians
<1>2. PICK daily \in Nat \ {0}, drawdown \in Nat \ {0} :
        g.limits["daily"] = daily /\ g.limits["drawdown"] = drawdown
  BY <1>1 DEF LimitKeys
<1>3. /\ h.init /\ h.dayOpen = bal /\ h.peak = eq
      /\ h.limits["daily"] = daily /\ h.limits["drawdown"] = drawdown
  BY <1>2 DEF ResetHalt, Initialize, Guard, Guardians
<1> HIDE DEF h
<1>4. ~DailyLossHit(h, bal)
  <2>1. daily * bal > 0
    OBVIOUS
  <2>2. (bal - bal) * 100 = 0
    OBVIOUS
  <2>3. QED
    BY <1>3, <2>1, <2>2 DEF DailyLossHit
<1>5. ~DrawdownHit(h, eq)
  <2>1. CASE eq > 0
    <3>1. drawdown * eq > 0
      BY <2>1
    <3>2. (eq - eq) * 100 = 0
      OBVIOUS
    <3>3. QED
      BY <1>3, <2>1, <3>1, <3>2 DEF DrawdownHit
  <2>2. CASE ~(eq > 0)
    BY <1>3, <2>2 DEF DrawdownHit
  <2>3. QED
    BY <2>1, <2>2
<1>6. QED
  BY <1>3, <1>4, <1>5 DEF h

-----------------------------------------------------------------------------
(***************************************************************************)
(* The halt and its copies.                                                *)
(***************************************************************************)

(* After a save, a copy that claims to be current holds what was saved.    *)
LEMMA SaveIsCurrent ==
  ASSUME TypeOK, NEW g \in Guard, Save(g)
  PROVE  \A copy \in {redis', disk'} : copy # NoCopy /\ copy.current => copy.state = g
<1>1. \A copy \in Copies \cup {NoCopy} :
        Aged(copy) # NoCopy => ~Aged(copy).current
  BY DEF Aged, Copies
<1>2. QED
  BY <1>1 DEF Save, TypeOK

(* Ageing claims nothing.                                                  *)
LEMMA AgedIsNotCurrent ==
  ASSUME NEW copy \in Copies \cup {NoCopy}, Aged(copy) # NoCopy
  PROVE  ~Aged(copy).current
BY DEF Aged, Copies

LEMMA MatchedIsCurrent ==
  ASSUME NEW copy \in Copies \cup {NoCopy}, NEW state \in Guard,
         Matched(copy, state) # NoCopy, Matched(copy, state).current
  PROVE  Matched(copy, state).state = state
<1>1. Matched(copy, state) = [copy EXCEPT !.current = (copy.state = state)]
      /\ copy \in Copies
  BY DEF Matched
<1>2. Matched(copy, state).state = copy.state
  BY <1>1 DEF Copies
<1>3. Matched(copy, state).current = (copy.state = state)
  BY <1>1 DEF Copies
<1>4. QED
  BY <1>2, <1>3

(* A poll either lifts the halt, saves that and unpauses, or leaves the    *)
(* halt and its copies alone and does not unpause a halted robot.          *)
LEMMA PollCases ==
  ASSUME TypeOK, NEW b \in Batches, NEW a \in Reports \cup {NoAcc},
         ProcessCommands(b, a)
  PROVE  \/ /\ guardian'.halt = "none" /\ owed' = "none" /\ ~paused'
            /\ \A copy \in {redis', disk'} :
                 copy # NoCopy /\ copy.current => copy.state.halt = "none"
         \/ /\ guardian'.halt = guardian.halt
            /\ UNCHANGED <<storage, owed>>
            /\ Halted(guardian) /\ paused => paused'
<1> DEFINE resetOk == \/ b.reset = "plain"
                      \/ b.reset = "daily" /\ a # NoAcc /\ ~ResetRefused(TRUE, a.bal)
           bal == IF a = NoAcc THEN 0 ELSE a.bal
           reset == ResetHalt(guardian, b.reset = "daily", bal, Today)
<1>1. guardian \in Guard
  BY DEF TypeOK, Guard
<1>2. CASE resetOk
  <2>1. bal \in Int /\ (b.reset = "daily") \in BOOLEAN
    BY MoneyAssumption
  <2>2. reset \in Guard /\ reset.halt = "none"
    <3>1. reset \in Guard
      BY <1>1, <2>1, TodayType, GuardianTypes DEF TypeOK
    <3>2. reset.halt = "none"
      BY <1>1 DEF ResetHalt, Guard, Guardians
    <3>3. QED
      BY <3>1, <3>2
  <2>3. guardian' = [reset EXCEPT !.limits = Updated(@, b.update)]
        /\ Save(reset) /\ owed' = "none" /\ ~paused'
    BY <1>2 DEF ProcessCommands
  <2>4. guardian'.halt = "none"
    BY <2>2, <2>3 DEF Guard, Guardians
  <2>5. QED
    BY <2>2, <2>3, <2>4, SaveIsCurrent
<1>3. CASE ~resetOk
  <2>1. guardian' = [guardian EXCEPT !.limits = Updated(@, b.update)]
        /\ UNCHANGED <<storage, owed>>
    BY <1>3 DEF ProcessCommands
  <2>2. guardian'.halt = guardian.halt
    BY <1>1, <2>1 DEF Guard, Guardians
  <2>3. paused' = ((paused \/ b.pause) /\ ~(b.resume /\ Unpauses(b, guardian))
                     /\ ~(b.start /\ Unpauses(b, guardian)))
    BY <1>3 DEF ProcessCommands
  <2>4. Halted(guardian) /\ paused => paused'
    BY <2>3 DEF Unpauses
  <2>5. QED
    BY <2>1, <2>2, <2>4
<1>4. QED
  BY <1>2, <1>3

(* The inductive invariant of the halt.  HaltedMeansPaused alone is not    *)
(* inductive: the engine that is still starting is unpaused, and it is     *)
(* HaltRecorded that says it holds no halt it could carry into its loop.   *)
HaltInv == HaltRecorded /\ HaltedMeansPaused

LEMMA RestoreOrInitializeHalt ==
  ASSUME TypeOK, HaltInv, RestoreOrInitialize
  PROVE  HaltInv'
<1>1. PICK a \in Reports \cup {NoAcc} :
        phase = "boot" /\ acc' = a /\ (RestoreGuardian(a) \/ ColdStart(a))
  BY DEF RestoreOrInitialize
<1> DEFINE g == Identified(guardian, a)
<1>2. g \in Guard /\ g.halt = "none"
  BY <1>1 DEF Identified, TypeOK, Guard, Guardians, HaltInv, HaltRecorded, Halted
<1>3. CASE RestoreGuardian(a)
  <2>1. SavedCopy \in Copies /\ SavedCopy.state \in Guard
    BY <1>3 DEF RestoreGuardian, FreshCopy, SavedCopy, RedisCopy, TypeOK, Copies, Guard
  <2>2. guardian'.halt = SavedCopy.state.halt /\ owed' = SavedCopy.state.halt
        /\ phase' = "tick"
    BY <1>2, <1>3, <2>1, RestoreType DEF RestoreGuardian
  <2>3. \A copy \in {redis', disk'} :
          copy # NoCopy /\ copy.current => copy.state.halt = owed'
    BY <1>3, <2>1, <2>2, MatchedIsCurrent DEF RestoreGuardian, TypeOK
  <2>4. Halted(guardian') => paused'
    BY <1>3, <2>2 DEF RestoreGuardian, Halted
  <2>5. QED
    BY <2>2, <2>3, <2>4 DEF HaltInv, HaltRecorded, HaltedMeansPaused, Serving
<1>4. CASE ColdStart(a)
  <2>1. CASE a # NoAcc /\ a.bal > 0
    <3>1. guardian' = Initialize(g, a.bal, a.eq, Today) /\ Save(guardian')
          /\ phase' = "tick" /\ owed' = "none"
      BY <1>4, <2>1 DEF ColdStart
    <3>2. guardian' \in Guard
      BY <1>2, <2>1, <3>1, MoneyAssumption, TodayType, GuardianTypes DEF TypeOK
    <3>3. guardian'.halt = "none"
      BY <1>2, <3>1, InitializeKeepsHalt
    <3>4. QED
      BY <3>1, <3>2, <3>3, SaveIsCurrent
      DEF HaltInv, HaltRecorded, HaltedMeansPaused, Serving, Halted
  <2>2. CASE ~(a # NoAcc /\ a.bal > 0)
    <3>1. guardian' = g /\ phase' = "boot2" /\ owed' = "none"
          /\ redis' = Aged(redis) /\ disk' = Aged(disk)
      BY <1>4, <2>2 DEF ColdStart
    <3>2. QED
      BY <1>2, <3>1, AgedIsNotCurrent
      DEF HaltInv, HaltRecorded, HaltedMeansPaused, Serving, Halted, TypeOK
  <2>3. QED
    BY <2>1, <2>2
<1>5. QED
  BY <1>1, <1>3, <1>4

LEMMA BarCheckHalt ==
  ASSUME TypeOK, HaltInv, BarCheck
  PROVE  HaltInv'
<1>1. guardian' \in Guard /\ owed' = guardian'.halt /\ phase' \in {"bars", "gates"}
      /\ SaveIfChanged(guardian, guardian') /\ phase \in {"scan", "bars"}
  BY BarCheckType DEF BarCheck, TypeOK, Guard
<1>2. paused' = PausesAt(guardian')
  BY DEF BarCheck
<1>3. \A copy \in {redis', disk'} :
        copy # NoCopy /\ copy.current => copy.state.halt = owed'
  <2>1. CASE guardian' = guardian
    BY <1>1, <2>1 DEF SaveIfChanged, storage, HaltInv, HaltRecorded, Serving
  <2>2. CASE guardian' # guardian
    BY <1>1, <2>2, SaveIsCurrent DEF SaveIfChanged
  <2>3. QED
    BY <2>1, <2>2
<1>4. QED
  BY <1>1, <1>2, <1>3
  DEF HaltInv, HaltRecorded, HaltedMeansPaused, Serving, PausesAt

(* /force-resume leaves no halt, with or without a new baseline.           *)
LEMMA ForceResumeClears ==
  ASSUME TypeOK, ForceResume
  PROVE  guardian'.halt = "none"
<1>1. PICK rebase \in BOOLEAN :
        LET bal == IF acc = NoAcc THEN 0 ELSE acc.bal
            g1  == IF rebase /\ bal > 0
                   THEN Initialize(guardian, bal, acc.eq, Today) ELSE guardian
        IN  guardian' = ResetHalt(g1, FALSE, bal, Today)
  BY DEF ForceResume
<1> DEFINE bal == IF acc = NoAcc THEN 0 ELSE acc.bal
           g1  == IF rebase /\ bal > 0
                  THEN Initialize(guardian, bal, acc.eq, Today) ELSE guardian
<1>2. g1 \in Guard
  <2>1. guardian \in Guard
    BY DEF TypeOK, Guard
  <2>2. CASE rebase /\ bal > 0
    <3>1. bal \in Int /\ acc.eq \in Int
      BY <2>2, MoneyAssumption DEF TypeOK
    <3>2. QED
      BY <2>1, <2>2, <3>1, TodayType, GuardianTypes DEF TypeOK
  <2>3. CASE ~(rebase /\ bal > 0)
    BY <2>1, <2>3
  <2>4. QED
    BY <2>2, <2>3
<1>3. QED
  BY <1>1, <1>2, ResetHaltClears

LEMMA ForceResumeHalt ==
  ASSUME TypeOK, HaltInv, ForceResume
  PROVE  HaltInv'
<1>1. guardian' \in Guard
  BY ForceResumeType DEF TypeOK, Guard
<1>2. guardian'.halt = "none"
  BY ForceResumeClears
<1>3. QED
  BY <1>1, <1>2, SaveIsCurrent
  DEF ForceResume, HaltInv, HaltRecorded, HaltedMeansPaused, Serving, Halted

LEMMA HaltPreserved ==
  ASSUME TypeOK, HaltInv, [Next]_vars
  PROVE  HaltInv'
<1> USE DEF HaltInv, HaltRecorded, HaltedMeansPaused, Serving
<1>1. CASE Boot
  <2>1. ~Halted(guardian')
    BY <1>1, FreshType DEF Boot, TypeOK
  <2>2. QED
    BY <1>1, <2>1 DEF Boot, storage, history
<1>2. CASE ConnectFails \/ Stop \/ EngineFails
  BY <1>2 DEF ConnectFails, Stop, EngineFails, storage, history
<1>3. CASE RestoreOrInitialize
  BY <1>3, RestoreOrInitializeHalt
<1>4. CASE InitializeLate
  <2>1. PICK a \in Reports \cup {NoAcc} :
          IF a # NoAcc /\ a.bal > 0
          THEN /\ guardian' = Initialize(guardian, a.bal, a.eq, Today)
               /\ Save(guardian')
          ELSE UNCHANGED <<guardian, storage>>
    BY <1>4 DEF InitializeLate
  <2>2. guardian.halt = "none" /\ owed' = "none" /\ phase' = "tick"
    BY <1>4 DEF InitializeLate, history, Halted
  <2>3. CASE a # NoAcc /\ a.bal > 0
    <3>1. a.bal \in Int /\ a.eq \in Int /\ Today \in Int
      BY <2>3, MoneyAssumption, TodayType DEF TypeOK
    <3>2. guardian' \in Guard
      BY <2>1, <2>3, <3>1, GuardianTypes DEF TypeOK, Guard
    <3>3. guardian'.halt = "none"
      BY <2>1, <2>2, <2>3, InitializeKeepsHalt DEF TypeOK, Guard
    <3>4. QED
      BY <2>1, <2>2, <2>3, <3>2, <3>3, SaveIsCurrent DEF Halted
  <2>4. CASE ~(a # NoAcc /\ a.bal > 0)
    BY <1>4, <2>1, <2>2, <2>4 DEF InitializeLate, storage, history, Halted
  <2>5. QED
    BY <2>3, <2>4
<1>5. CASE Poll
  <2>1. PICK b \in Batches, a \in Reports \cup {NoAcc} :
          phase = "tick" /\ ProcessCommands(b, a) /\ phase' \in {"tick", "scan"}
    BY <1>5 DEF Poll, PollOf
  <2>2. QED
    BY <2>1, PollCases DEF storage, Halted
<1>6. CASE IdleTick \/ BarAbandoned \/ FinishEntry \/ EndTick
  BY <1>6 DEF IdleTick, BarAbandoned, FinishEntry, EndTick, storage, history
<1>7. CASE BarCheck
  BY <1>7, BarCheckHalt
<1>8. CASE ForceResume
  BY <1>8, ForceResumeHalt
<1>9. CASE Crash
  BY <1>9 DEF Crash, storage, history
<1>10. CASE RedisFlips \/ Clock
  BY <1>10 DEF RedisFlips, Clock, engine, storage, history
<1>11. CASE UNCHANGED vars
  BY <1>11 DEF vars, engine, storage, history
<1>12. QED
  BY <1>1, <1>2, <1>3, <1>4, <1>5, <1>6, <1>7, <1>8, <1>9, <1>10, <1>11
  DEF Next, RobotStep

LEMMA HaltInvariant == Spec => [](TypeOK /\ HaltInv)
<1>1. Init => HaltInv
  BY DEF Init, HaltInv, HaltRecorded, HaltedMeansPaused, Serving
<1>2. TypeOK /\ HaltInv /\ [Next]_vars => HaltInv'
  BY HaltPreserved
<1>3. QED
  BY <1>1, <1>2, InitType, TypePreserved, PTL DEF Spec

(* live_loop.py: a serving engine whose guardian is halted is paused.      *)
THEOREM HaltPauses == Spec => []HaltedMeansPaused
<1>1. HaltInv => HaltedMeansPaused
  BY DEF HaltInv
<1>2. QED
  BY <1>1, HaltInvariant, PTL

(* guardian.py, _save_state(): every copy no save has missed tells of the  *)
(* halt in force.                                                          *)
THEOREM HaltIsRecorded == Spec => []HaltRecorded
<1>1. HaltInv => HaltRecorded
  BY DEF HaltInv
<1>2. QED
  BY <1>1, HaltInvariant, PTL

(* live_loop.py, start(): a restart that recovers the newest saved state   *)
(* recovers the halt that was in force.                                    *)
THEOREM RestartKeeps == Spec => RestartKeepsHalt
<1>1. ASSUME TypeOK, HaltInv, [Next]_vars, ~Serving, Serving',
             recovered' = "current", owed # "none"
      PROVE  guardian'.halt = owed
  <2> USE <1>1 DEF Serving
  <2>1. CASE RestoreOrInitialize
    <3>1. PICK a \in Reports \cup {NoAcc} : RestoreGuardian(a) \/ ColdStart(a)
      BY <2>1 DEF RestoreOrInitialize
    <3>2. RestoreGuardian(a)
      BY <3>1 DEF ColdStart
    <3>3. SavedCopy \in {redis, disk} /\ SavedCopy \in Copies /\ SavedCopy.current
      BY <3>2 DEF RestoreGuardian, FreshCopy, SavedCopy, RedisCopy, TypeOK
    <3>4. SavedCopy # NoCopy
      BY <3>2 DEF RestoreGuardian, FreshCopy
    <3>5. SavedCopy.state.halt = owed
      BY <3>3, <3>4 DEF HaltInv, HaltRecorded
    <3>6. Identified(guardian, a) \in Guard /\ SavedCopy.state \in Guard
      BY <3>3 DEF Identified, TypeOK, Copies, Guard, Guardians
    <3>7. QED
      BY <3>2, <3>5, <3>6, RestoreType DEF RestoreGuardian
  <2>2. CASE InitializeLate
    BY <2>2 DEF InitializeLate, HaltInv, HaltRecorded
  <2>3. CASE ~RestoreOrInitialize /\ ~InitializeLate
    BY <2>3 DEF Next, RobotStep, Boot, ConnectFails, Poll, PollOf, Stop, IdleTick,
       BarAbandoned, BarCheck, FinishEntry, EndTick, ForceResume, EngineFails,
       Crash, RedisFlips, Clock, vars, engine
  <2>4. QED
    BY <2>1, <2>2, <2>3
<1>2. TypeOK /\ HaltInv /\ [Next]_vars
        => [(~Serving /\ Serving' /\ recovered' = "current" /\ owed # "none")
              => guardian'.halt = owed]_vars
  BY <1>1
<1>3. QED
  BY <1>2, HaltInvariant, PTL DEF Spec, RestartKeepsHalt

(* OPERATIONS_GUIDE: no step of a serving engine but an operator's reset   *)
(* ends a drawdown halt.                                                   *)
THEOREM DrawdownSticks == Spec => DrawdownHaltSticky
<1>1. ASSUME TypeOK, [Next]_vars, Serving, Serving', guardian.halt = "drawdown"
      PROVE  guardian'.halt = "drawdown" \/ (guardian'.halt = "none" /\ ~paused')
  <2> USE <1>1 DEF Serving
  <2>1. CASE Poll
    <3>1. PICK b \in Batches, a \in Reports \cup {NoAcc} : ProcessCommands(b, a)
      BY <2>1 DEF Poll, PollOf
    <3>2. QED
      BY <3>1, PollCases
  <2>2. CASE BarCheck
    <3>1. PICK a \in Reports : guardian' = Checked(a)
      BY <2>2 DEF BarCheck
    <3> DEFINE g == IF guardian.init THEN guardian
                    ELSE Initialize(guardian, a.bal, a.eq, Today)
    <3>2. a.bal \in Int /\ a.eq \in Int /\ Today \in Int /\ guardian \in Guard
      BY MoneyAssumption, TodayType DEF TypeOK, Guard
    <3>3. g \in Guard /\ g.halt = "drawdown"
      BY <3>2, GuardianTypes, InitializeKeepsHalt
    <3>4. QED
      BY <3>1, <3>2, <3>3, CheckKeepsDrawdown DEF Checked
  <2>3. CASE ForceResume
    <3>1. guardian'.halt = "none"
      BY <2>3, ForceResumeClears
    <3>2. QED
      BY <2>3, <3>1 DEF ForceResume
  <2>4. CASE ~Poll /\ ~BarCheck /\ ~ForceResume
    BY <2>4 DEF Next, RobotStep, Boot, ConnectFails, RestoreOrInitialize,
       InitializeLate, Stop, IdleTick, BarAbandoned, FinishEntry, EndTick,
       EngineFails, Crash, RedisFlips, Clock, vars, engine
  <2>5. QED
    BY <2>1, <2>2, <2>3, <2>4
<1>2. TypeOK /\ [Next]_vars
        => [(Serving /\ Serving' /\ guardian.halt = "drawdown")
              => guardian'.halt = "drawdown"
                 \/ (guardian'.halt = "none" /\ ~paused')]_vars
  BY <1>1
<1>3. QED
  BY <1>2, TypeCorrect, PTL DEF Spec, DrawdownHaltSticky

-----------------------------------------------------------------------------
(***************************************************************************)
(* The gate.                                                               *)
(***************************************************************************)

LEMMA BarCheckGated ==
  ASSUME TypeOK, BarCheck
  PROVE  EntryGated'
<1>1. PICK a \in Reports : acc' = a /\ guardian' = Checked(a)
  BY DEF BarCheck
<1> DEFINE g == IF guardian.init THEN guardian
                ELSE Initialize(guardian, a.bal, a.eq, Today)
<1>2. a.bal \in Int /\ a.eq \in Int /\ Today \in Int /\ guardian \in Guard
  BY MoneyAssumption, TodayType DEF TypeOK, Guard
<1>3. g \in Guard /\ g.init
  BY <1>2, GuardianTypes DEF Initialize, Guard, Guardians
<1>4. guardian' = Check(g, a.bal, a.eq, Today)
  BY <1>1 DEF Checked
<1>5. SUFFICES ASSUME phase' = "gates"
               PROVE  /\ guardian'.init /\ ~Halted(guardian')
                      /\ acc' # NoAcc
                      /\ ~DailyLossHit(guardian', acc'.bal)
                      /\ ~DrawdownHit(guardian', acc'.eq)
  BY DEF EntryGated
<1>6. ~Halted(guardian')
  BY <1>5 DEF BarCheck
<1>7. a # NoAcc
  BY NoAccAssumption
<1> HIDE DEF g
<1>8. QED
  BY <1>1, <1>2, <1>3, <1>4, <1>6, <1>7, CheckPasses

LEMMA ForceResumeGated ==
  ASSUME TypeOK, EntryGated, ForceResume
  PROVE  EntryGated'
<1>1. SUFFICES ASSUME phase = "gates"
               PROVE  /\ guardian'.init /\ ~Halted(guardian')
                      /\ ~DailyLossHit(guardian', acc.bal)
                      /\ ~DrawdownHit(guardian', acc.eq)
  BY DEF EntryGated, ForceResume
<1>2. /\ guardian \in Guard /\ guardian.init /\ acc # NoAcc
      /\ ~DailyLossHit(guardian, acc.bal) /\ ~DrawdownHit(guardian, acc.eq)
      /\ acc.bal \in Int /\ acc.eq \in Int /\ Today \in Int
  BY <1>1, MoneyAssumption, TodayType DEF EntryGated, TypeOK, Guard
<1>3. PICK rebase \in BOOLEAN :
        guardian' = ResetHalt(IF rebase /\ acc.bal > 0
                              THEN Initialize(guardian, acc.bal, acc.eq, Today)
                              ELSE guardian, FALSE, acc.bal, Today)
  BY <1>2 DEF ForceResume
<1>4. ~Halted(guardian')
  BY <1>1, ForceResumeClears DEF Halted
<1>5. CASE rebase /\ acc.bal > 0
  BY <1>2, <1>3, <1>4, <1>5, RebasedPasses
<1>6. CASE ~(rebase /\ acc.bal > 0)
  <2>1. guardian' = [guardian EXCEPT !.halt = "none"]
    BY <1>3, <1>6 DEF ResetHalt
  <2>2. /\ guardian'.init = guardian.init /\ guardian'.dayOpen = guardian.dayOpen
        /\ guardian'.peak = guardian.peak /\ guardian'.limits = guardian.limits
    BY <1>2, <2>1 DEF Guard, Guardians
  <2>3. QED
    BY <1>2, <1>4, <2>2 DEF DailyLossHit, DrawdownHit
<1>7. QED
  BY <1>5, <1>6

(* live_loop.py: a bar behind the guardian's check has an initialized,     *)
(* unhalted guardian neither of whose breakers holds on the figures the    *)
(* bar fetched, however an operator resets it meanwhile.                   *)
THEOREM EntriesGated == Spec => []EntryGated
<1>1. Init => EntryGated
  BY DEF Init, EntryGated
<1>2. ASSUME TypeOK, EntryGated, [Next]_vars
      PROVE  EntryGated'
  <2>1. CASE BarCheck
    BY <1>2, <2>1, BarCheckGated
  <2>2. CASE ForceResume
    BY <1>2, <2>2, ForceResumeGated
  <2>3. CASE RedisFlips \/ Clock \/ UNCHANGED vars
    BY <1>2, <2>3 DEF RedisFlips, Clock, vars, engine, EntryGated
  <2>4. CASE ~BarCheck /\ ~ForceResume /\ ~(RedisFlips \/ Clock \/ UNCHANGED vars)
    <3>1. phase' # "gates"
      BY <1>2, <2>4 DEF Next, RobotStep, Boot, ConnectFails, RestoreOrInitialize,
         RestoreGuardian, ColdStart, InitializeLate, Poll, PollOf, Stop, IdleTick,
         BarAbandoned, FinishEntry, EndTick, EngineFails, Crash
    <3>2. QED
      BY <3>1 DEF EntryGated
  <2>5. QED
    BY <2>1, <2>2, <2>3, <2>4
<1>3. QED
  BY <1>1, <1>2, TypeCorrect, PTL DEF Spec

-----------------------------------------------------------------------------
(***************************************************************************)
(* Restarts are invisible.  The engine with its crashes and restarts       *)
(* implements RiskWindow as long as Redis is reached; the file may miss    *)
(* any save, because it is only asked when Redis has nothing, and then it  *)
(* holds nothing that is younger.                                          *)
(***************************************************************************)

(* The window's operations are the guardian's.                             *)
LEMMA SameOperations ==
  ASSUME NEW g, NEW bal, NEW eq, NEW today, NEW rebase
  PROVE  /\ Window!Check(g, bal, eq, today) = Check(g, bal, eq, today)
         /\ Window!Initialize(g, bal, eq, today) = Initialize(g, bal, eq, today)
         /\ Window!ResetHalt(g, rebase, bal, today) = ResetHalt(g, rebase, bal, today)
         /\ Window!ResetRefused(rebase, bal) = ResetRefused(rebase, bal)
         /\ Window!Halted(g) = Halted(g)
         /\ Window!Fresh(g) = Fresh(g)
<1>1. \A h : /\ Window!DayReset(h, bal, today) = DayReset(h, bal, today)
             /\ Window!RaisePeak(h, eq) = RaisePeak(h, eq)
             /\ Window!Trip(h, bal, eq) = Trip(h, bal, eq)
  BY DEF Window!DayReset, DayReset, Window!RaisePeak, RaisePeak, Window!Trip, Trip,
     Window!Halted, Halted, Window!DailyLossHit, DailyLossHit, Window!DrawdownHit,
     DrawdownHit
<1>2. Window!Check(g, bal, eq, today) = Check(g, bal, eq, today)
  BY <1>1 DEF Window!Check, Check
<1>3. QED
  BY <1>2 DEF Window!Initialize, Initialize, Window!ResetHalt, ResetHalt,
     Window!ResetRefused, ResetRefused, Window!Halted, Halted, Window!Fresh, Fresh,
     Window!NoDay, NoDay

LEMMA SameDay == Window!Today = Today
BY DEF Window!Today, Today

(* Nothing but the identity depends on the identity.                       *)
LEMMA CheckIgnoresId ==
  ASSUME NEW g \in Guard, NEW bal \in Int, NEW eq \in Int, NEW today \in Int,
         NEW id \in Accounts \cup {NoId}
  PROVE  /\ Check([g EXCEPT !.id = id], bal, eq, today)
              = [Check(g, bal, eq, today) EXCEPT !.id = id]
         /\ Check(g, bal, eq, today).id = g.id
         /\ Check(g, bal, eq, today).init = g.init
         /\ Check(g, bal, eq, today).limits = g.limits
<1>1. \A h \in Guard :
        /\ DayReset([h EXCEPT !.id = id], bal, today)
             = [DayReset(h, bal, today) EXCEPT !.id = id]
        /\ DayReset(h, bal, today).id = h.id
        /\ DayReset(h, bal, today).init = h.init
        /\ DayReset(h, bal, today).limits = h.limits
  BY DEF DayReset, Guard, Guardians
<1>2. \A h \in Guard :
        /\ RaisePeak([h EXCEPT !.id = id], eq) = [RaisePeak(h, eq) EXCEPT !.id = id]
        /\ RaisePeak(h, eq).id = h.id
        /\ RaisePeak(h, eq).init = h.init
        /\ RaisePeak(h, eq).limits = h.limits
  BY DEF RaisePeak, Guard, Guardians
<1>3. \A h \in Guard :
        /\ Trip([h EXCEPT !.id = id], bal, eq) = [Trip(h, bal, eq) EXCEPT !.id = id]
        /\ Trip(h, bal, eq).id = h.id
        /\ Trip(h, bal, eq).init = h.init
        /\ Trip(h, bal, eq).limits = h.limits
  <2> SUFFICES ASSUME NEW h \in Guard
               PROVE /\ Trip([h EXCEPT !.id = id], bal, eq) = [Trip(h, bal, eq) EXCEPT !.id = id]
                     /\ Trip(h, bal, eq).id = h.id
                     /\ Trip(h, bal, eq).init = h.init
                     /\ Trip(h, bal, eq).limits = h.limits
    OBVIOUS
  <2> DEFINE k == [h EXCEPT !.id = id]
  <2>1. /\ k.halt = h.halt /\ k.dayOpen = h.dayOpen /\ k.peak = h.peak
        /\ k.limits = h.limits
    BY DEF Guard, Guardians
  <2> HIDE DEF k
  <2>2. /\ Halted(k) = Halted(h) /\ DailyLossHit(k, bal) = DailyLossHit(h, bal)
        /\ DrawdownHit(k, eq) = DrawdownHit(h, eq)
    BY <2>1, Zenon DEF Halted, DailyLossHit, DrawdownHit
  <2>3. \A w : [k EXCEPT !.halt = w] = [[h EXCEPT !.halt = w] EXCEPT !.id = id]
    BY DEF Guard, Guardians, k
  <2>4. \A w : /\ [h EXCEPT !.halt = w].id = h.id /\ [h EXCEPT !.halt = w].init = h.init
               /\ [h EXCEPT !.halt = w].limits = h.limits
    BY DEF Guard, Guardians
  <2>5. CASE Halted(h)
    BY <2>2, <2>5 DEF Trip, k
  <2>6. CASE ~Halted(h) /\ DailyLossHit(h, bal)
    BY <2>2, <2>3, <2>4, <2>6 DEF Trip, k
  <2>7. CASE ~Halted(h) /\ ~DailyLossHit(h, bal) /\ DrawdownHit(h, eq)
    BY <2>2, <2>3, <2>4, <2>7 DEF Trip, k
  <2>8. CASE ~Halted(h) /\ ~DailyLossHit(h, bal) /\ ~DrawdownHit(h, eq)
    BY <2>2, <2>8 DEF Trip, k
  <2>9. QED
    BY <2>5, <2>6, <2>7, <2>8
<1> DEFINE d == DayReset(g, bal, today)
           h == RaisePeak(d, eq)
<1>4. d \in Guard /\ h \in Guard
  BY GuardianTypes
<1>5. Check(g, bal, eq, today) = Trip(h, bal, eq)
  BY DEF Check
<1>6. Check([g EXCEPT !.id = id], bal, eq, today) = Trip([h EXCEPT !.id = id], bal, eq)
  BY <1>1, <1>2, <1>4 DEF Check
<1>7. h.id = g.id /\ h.init = g.init /\ h.limits = g.limits
  BY <1>1, <1>2, <1>4
<1> HIDE DEF d, h
<1>8. QED
  BY <1>3, <1>4, <1>5, <1>6, <1>7

(* What the guardian and a copy say of the risk window is the same, and    *)
(* the guardian, if it knows its account, may carry the copy on.           *)
Holds(copy, g, who) ==
  /\ copy # NoCopy
  /\ copy.state.halt = g.halt /\ copy.state.peak = g.peak
  /\ copy.state.sessionOpen = g.sessionOpen
  /\ copy.state.dayOpen = g.dayOpen /\ copy.state.lastDay = g.lastDay
  /\ g.id = NoId \/ copy.state.id \in {who, NoId}

(* A guardian nobody initialized, and one nobody reset either.             *)
Unset(g) == g.halt = "none" /\ g.peak = 0 /\ ~g.sessionOpen
Blank(g) == g.dayOpen = 0 /\ g.lastDay = NoDay

(* The file is never ahead of Redis.                                       *)
Newest ==
  /\ redisUp
  /\ redis # NoCopy => redis.at <= now
  /\ disk # NoCopy => redis # NoCopy /\ disk.at <= redis.at

(* A new window may be opened over a copy (RiskWindow, MayDrop).           *)
Dropping(copy) ==
  \/ copy = NoCopy
  \/ ~(copy.state.peak > 0 /\ copy.state.dayOpen > 0 /\ copy.state.sessionOpen)
  \/ now - copy.at > FreshFor
  \/ copy.state.id \notin {account, NoId}

(* An initialized guardian is in Redis as it stands, whichever engine       *)
(* object holds it; one that start() left uninitialized stands over a      *)
(* window that may be dropped.                                             *)
WindowInv ==
  /\ Newest
  /\ guardian.id \in {NoId, account}
  /\ phase = "boot" => ~guardian.init /\ Blank(guardian) /\ acc = NoAcc
  /\ guardian.init => Holds(redis, guardian, account)
  /\ ~guardian.init =>
       /\ Unset(guardian)
       /\ Blank(guardian) \/ Holds(redis, guardian, account)
       /\ Serving \/ phase = "boot2" => Dropping(redis)

LEMMA ShownType ==
  ASSUME NEW copy \in Copies
  PROVE  Shown(copy) \in Windows /\ copy # NoCopy /\ Shown(copy) # NoCopy
<1>1. copy # NoCopy
  BY NoCopyAssumption
<1>2. copy.state \in Guard /\ copy.at \in Int
  BY TimeAssumption DEF Copies, Guard
<1>3. Shown(copy) \in Windows
  BY <1>1, <1>2 DEF Shown, Windows, Guard, Guardians
<1>4. QED
  BY <1>1, <1>3, NoCopyAssumption

LEMMA ShownReads ==
  ASSUME NEW copy \in Copies
  PROVE  /\ Shown(copy).halt = copy.state.halt /\ Shown(copy).peak = copy.state.peak
         /\ Shown(copy).sessionOpen = copy.state.sessionOpen
         /\ Shown(copy).dayOpen = copy.state.dayOpen
         /\ Shown(copy).lastDay = copy.state.lastDay
         /\ Shown(copy).id = copy.state.id /\ Shown(copy).at = copy.at
BY ShownType DEF Shown

LEMMA DropReads ==
  ASSUME TypeOK
  PROVE  Window!MayDrop <=> Dropping(redis)
<1>1. CASE redis = NoCopy
  BY <1>1 DEF Window!MayDrop, Shown, Dropping
<1>2. CASE redis # NoCopy
  <2>1. redis \in Copies
    BY <1>2 DEF TypeOK
  <2>2. Window!Valid(Shown(redis))
          <=> redis.state.peak > 0 /\ redis.state.dayOpen > 0 /\ redis.state.sessionOpen
    BY <2>1, ShownReads DEF Window!Valid
  <2>3. QED
    BY <1>2, <2>1, <2>2, ShownType, ShownReads, Zenon DEF Window!MayDrop, Dropping
<1>3. QED
  BY <1>1, <1>2

-----------------------------------------------------------------------------
LEMMA SaveWrites ==
  ASSUME TypeOK, Newest, NEW g \in Guard, Save(g)
  PROVE  /\ redis' = [state |-> g, at |-> now, current |-> TRUE]
         /\ redis' \in Copies
         /\ disk' # NoCopy => disk'.at <= now
<1>1. redis' = [state |-> g, at |-> now, current |-> TRUE]
  BY DEF Save, Newest
<1>2. redis' \in Copies
  BY <1>1 DEF TypeOK, Copies, Guard
<1>3. CASE disk' = [state |-> g, at |-> now, current |-> TRUE]
  BY <1>1, <1>2, <1>3 DEF TypeOK
<1>4. CASE disk' = Aged(disk)
  <2>1. CASE disk = NoCopy
    BY <1>1, <1>2, <1>4, <2>1 DEF Aged
  <2>2. CASE disk # NoCopy
    <3>1. disk \in Copies /\ redis \in Copies
      BY <2>2 DEF TypeOK, Newest
    <3>2. disk'.at = disk.at
      BY <1>4, <2>2, <3>1 DEF Aged, Copies
    <3>3. disk.at \in Int /\ redis.at \in Int /\ now \in Int
      BY <3>1, TimeAssumption DEF Copies, TypeOK
    <3>4. QED
      BY <1>1, <1>2, <2>2, <3>1, <3>2, <3>3, NoCopyAssumption DEF Newest
  <2>3. QED
    BY <2>1, <2>2
<1>5. QED
  BY <1>1, <1>2, <1>3, <1>4 DEF Save

(* The guardian a save wrote, before a poll put new limits in.              *)
Alike(g, h) ==
  /\ g.init = h.init /\ g.halt = h.halt /\ g.peak = h.peak
  /\ g.sessionOpen = h.sessionOpen /\ g.dayOpen = h.dayOpen
  /\ g.lastDay = h.lastDay /\ g.id = h.id

(* A step that saves what it leaves.                                       *)
LEMMA SavedKeeps ==
  ASSUME TypeOK, WindowInv, NEW g \in Guard, Save(g), Alike(guardian', g),
         g.id \in {NoId, account}, g.init \/ Unset(g),
         phase' = "boot" => ~g.init /\ Blank(g) /\ acc' = NoAcc,
         UNCHANGED <<redisUp, now, account>>
  PROVE  WindowInv'
<1>1. /\ redis' = [state |-> g, at |-> now, current |-> TRUE] /\ redis' \in Copies
      /\ disk' # NoCopy => disk'.at <= now
  BY SaveWrites DEF WindowInv
<1>2. redis'.state = g /\ redis'.at = now
  BY <1>1
<1>3. Newest'
  <2>1. redis' # NoCopy
    BY <1>1, NoCopyAssumption
  <2>2. redisUp
    BY DEF WindowInv, Newest
  <2>3. now \in Int
    BY TimeAssumption DEF TypeOK
  <2>4. QED
    BY <1>1, <1>2, <2>1, <2>2, <2>3 DEF Newest
<1>4. Holds(redis', guardian', account')
  BY <1>1, <1>2, NoCopyAssumption DEF Holds, Alike
<1>5. ~g.init => Dropping(redis)' /\ Unset(guardian')
  BY <1>2 DEF Dropping, Unset, Alike
<1>6. guardian'.id \in {NoId, account'} /\ guardian'.init = g.init
      /\ (Blank(g) => Blank(guardian'))
  BY DEF Alike, Blank
<1>7. QED
  BY <1>3, <1>4, <1>5, <1>6 DEF WindowInv

(* A step of the engine that leaves the copies alone and the guardian alike. *)
LEMMA QuietKeeps ==
  ASSUME WindowInv, Alike(guardian', guardian),
         UNCHANGED <<storage, redisUp, now, account>>, phase' # "boot",
         Serving' \/ phase' = "boot2" => Serving \/ phase = "boot2"
  PROVE  WindowInv'
<1>1. Newest' /\ (Dropping(redis) => Dropping(redis)')
  BY DEF WindowInv, Newest, storage, Dropping
<1>2. /\ Unset(guardian) => Unset(guardian')
      /\ Blank(guardian) => Blank(guardian')
      /\ Holds(redis, guardian, account) => Holds(redis', guardian', account')
  BY DEF Alike, Unset, Blank, Holds, storage
<1>3. guardian'.init = guardian.init /\ guardian'.id = guardian.id
  BY DEF Alike
<1>4. QED
  BY <1>1, <1>2, <1>3 DEF WindowInv

-----------------------------------------------------------------------------
(***************************************************************************)
(* What a save shows, as an operation on the window.                       *)
(***************************************************************************)
Written(g) == /\ g \in Guard
              /\ redis' = [state |-> g, at |-> now, current |-> TRUE]
              /\ redis' \in Copies

LEMMA SaveIsWritten ==
  ASSUME TypeOK, WindowInv, NEW g \in Guard, Save(g)
  PROVE  Written(g)
BY SaveWrites DEF Written, WindowInv

LEMMA WrittenShows ==
  ASSUME NEW g, Written(g)
  PROVE  Shown(redis)' = Window!WindowOf(g, now)
<1>1. redis'.state = g /\ redis'.at = now /\ redis' # NoCopy
  BY NoCopyAssumption DEF Written
<1>2. QED
  BY <1>1 DEF Shown, Window!WindowOf

\* No operation of the window reads the limits, or an identity it replaces.
LEMMA SameWindow ==
  ASSUME NEW g, NEW h, NEW at,
         g.halt = h.halt, g.peak = h.peak, g.sessionOpen = h.sessionOpen,
         g.dayOpen = h.dayOpen, g.lastDay = h.lastDay, g.id = h.id
  PROVE  Window!WindowOf(g, at) = Window!WindowOf(h, at)
BY DEF Window!WindowOf

LEMMA OpensWindow ==
  ASSUME TypeOK, NEW h \in Guard, h.halt = "none", NEW a \in Reports,
         Written(Initialize(h, a.bal, a.eq, Today))
  PROVE  Window!Open(a, h.id)
<1> DEFINE L == CHOOSE l \in Limits : TRUE
           f == [Window!Fresh(L) EXCEPT !.id = h.id]
           g == Initialize(h, a.bal, a.eq, Today)
           k == Window!Initialize(f, a.bal, a.eq, Window!Today)
<1>1. k = Initialize(f, a.bal, a.eq, Today)
  <2> HIDE DEF f
  <2>1. Window!Initialize(f, a.bal, a.eq, Today) = Initialize(f, a.bal, a.eq, Today)
    BY SameOperations, Zenon
  <2>2. QED
    BY <2>1, SameDay
<1>2. /\ f.halt = "none" /\ f.id = h.id
      /\ DOMAIN f = {"init", "halt", "peak", "sessionOpen", "dayOpen", "lastDay",
                     "limits", "id"}
  <2>1. Window!Fresh(L) = Fresh(L)
    BY SameOperations, Zenon
  <2> HIDE DEF L
  <2>2. f = [Fresh(L) EXCEPT !.id = h.id]
    BY <2>1
  <2>3. Fresh(L) = [init |-> FALSE, halt |-> "none", peak |-> 0, sessionOpen |-> FALSE,
                    dayOpen |-> 0, lastDay |-> NoDay, limits |-> L, id |-> NoId]
    BY DEF Fresh
  <2> HIDE DEF f
  <2>4. QED
    BY <2>2, <2>3
<1>3. /\ k.halt = "none" /\ k.peak = a.eq /\ k.sessionOpen = (a.bal > 0)
      /\ k.dayOpen = a.bal /\ k.lastDay = Today /\ k.id = h.id
  <2> HIDE DEF f, k
  <2>1. k = [f EXCEPT !.init = TRUE, !.peak = a.eq, !.sessionOpen = (a.bal > 0),
                      !.dayOpen = a.bal, !.lastDay = Today]
    BY <1>1 DEF Initialize
  <2>2. QED
    BY <1>2, <2>1
<1>4. /\ g.halt = "none" /\ g.peak = a.eq /\ g.sessionOpen = (a.bal > 0)
      /\ g.dayOpen = a.bal /\ g.lastDay = Today /\ g.id = h.id
  BY DEF Initialize, Guard, Guardians
<1> HIDE DEF g, k
<1>5. Window!WindowOf(g, now) = Window!WindowOf(k, now)
  BY <1>3, <1>4, SameWindow
<1>6. Shown(redis)' = Window!WindowOf(g, now)
  BY WrittenShows DEF g
<1>7. QED
  BY <1>5, <1>6 DEF Window!Open, k

\* What a reset makes of a guardian.
LEMMA ResetReads ==
  ASSUME NEW g, NEW rebase \in BOOLEAN, NEW bal, NEW today,
         DOMAIN g = {"init", "halt", "peak", "sessionOpen", "dayOpen", "lastDay",
                     "limits", "id"}
  PROVE  LET r == ResetHalt(g, rebase, bal, today)
         IN  /\ r.halt = "none" /\ r.peak = g.peak /\ r.sessionOpen = g.sessionOpen
             /\ r.dayOpen = (IF rebase THEN bal ELSE g.dayOpen)
             /\ r.lastDay = (IF rebase THEN today ELSE g.lastDay)
             /\ r.id = g.id /\ r.init = g.init /\ r.limits = g.limits
BY DEF ResetHalt

LEMMA GuardFields ==
  ASSUME NEW g \in Guard
  PROVE  DOMAIN g = {"init", "halt", "peak", "sessionOpen", "dayOpen", "lastDay",
                     "limits", "id"}
BY DEF Guard, Guardians

\* The owner a held window may get.
LEMMA HeldOwner ==
  ASSUME TypeOK, Holds(redis, guardian, account), guardian.id \in {NoId, account}
  PROVE  guardian.id \in Window!Owner
<1>1. redis \in Copies
  BY DEF TypeOK, Holds
<1>2. Shown(redis).id = redis.state.id
  BY <1>1, ShownReads
<1>3. QED
  BY <1>2 DEF Holds, Window!Owner

\* The guardian a held window stands for, but for its identity.
LEMMA HeldWindow ==
  ASSUME TypeOK, Holds(redis, guardian, account), NEW l
  PROVE  Window!GuardianOf(Shown(redis), l)
           = [init |-> TRUE, halt |-> guardian.halt, peak |-> guardian.peak,
              sessionOpen |-> guardian.sessionOpen, dayOpen |-> guardian.dayOpen,
              lastDay |-> guardian.lastDay, limits |-> l, id |-> redis.state.id]
<1>1. redis \in Copies
  BY DEF TypeOK, Holds
<1>2. QED
  BY <1>1, ShownReads DEF Holds, Window!GuardianOf

LEMMA ResetsWindow ==
  ASSUME TypeOK, Holds(redis, guardian, account), guardian.id \in {NoId, account},
         NEW rebase \in BOOLEAN, NEW a \in Reports, ~ResetRefused(rebase, a.bal),
         NEW bal, rebase => bal = a.bal,
         Written(ResetHalt(guardian, rebase, bal, Today)),
         UNCHANGED <<account, now>>, (phase' = "gates") = (phase = "gates")
  PROVE  Window!Reset
<1> DEFINE L == CHOOSE l \in Limits : TRUE
           w == Window!GuardianOf(Shown(redis), L)
           r == ResetHalt(w, rebase, a.bal, Today)
           g == ResetHalt(guardian, rebase, bal, Today)
           k == [r EXCEPT !.id = guardian.id]
<1>1. redis \in Copies /\ guardian \in Guard
  BY DEF TypeOK, Holds, Guard
<1>2. /\ w.halt = guardian.halt /\ w.peak = guardian.peak
      /\ w.sessionOpen = guardian.sessionOpen /\ w.dayOpen = guardian.dayOpen
      /\ w.lastDay = guardian.lastDay
      /\ DOMAIN w = {"init", "halt", "peak", "sessionOpen", "dayOpen", "lastDay",
                     "limits", "id"}
  <2> HIDE DEF L
  <2>1. QED
    BY HeldWindow
<1> HIDE DEF w
<1>3. /\ r.halt = "none" /\ r.peak = w.peak /\ r.sessionOpen = w.sessionOpen
      /\ r.dayOpen = (IF rebase THEN a.bal ELSE w.dayOpen)
      /\ r.lastDay = (IF rebase THEN Today ELSE w.lastDay)
  BY <1>2, ResetReads
<1>4. /\ g.halt = "none" /\ g.peak = guardian.peak
      /\ g.sessionOpen = guardian.sessionOpen
      /\ g.dayOpen = (IF rebase THEN bal ELSE guardian.dayOpen)
      /\ g.lastDay = (IF rebase THEN Today ELSE guardian.lastDay)
      /\ g.id = guardian.id
  BY <1>1, GuardFields, ResetReads
<1>5. DOMAIN r = {"init", "halt", "peak", "sessionOpen", "dayOpen", "lastDay",
                  "limits", "id"}
  BY <1>2 DEF ResetHalt
<1> HIDE DEF r, g
<1>6. /\ k.halt = r.halt /\ k.peak = r.peak /\ k.sessionOpen = r.sessionOpen
      /\ k.dayOpen = r.dayOpen /\ k.lastDay = r.lastDay /\ k.id = guardian.id
  BY <1>5
<1> HIDE DEF k
<1>7. Window!WindowOf(g, now) = Window!WindowOf(k, now)
  <2>1. /\ g.halt = k.halt /\ g.peak = k.peak /\ g.sessionOpen = k.sessionOpen
        /\ g.dayOpen = k.dayOpen /\ g.lastDay = k.lastDay /\ g.id = k.id
    BY <1>2, <1>3, <1>4, <1>6
  <2>2. QED
    BY <2>1, SameWindow
<1>8. Shown(redis)' = Window!WindowOf(k, now)
  BY <1>7, WrittenShows DEF g
<1>9. Window!ResetHalt(w, rebase, a.bal, Window!Today) = r
      /\ ~Window!ResetRefused(rebase, a.bal)
  <2>1. Window!ResetHalt(w, rebase, a.bal, Today) = r
    BY SameOperations, Zenon DEF r
  <2>2. ~Window!ResetRefused(rebase, a.bal)
    BY SameOperations, Zenon
  <2>3. QED
    BY <2>1, <2>2, SameDay
<1>10. Shown(redis) # NoCopy /\ guardian.id \in Window!Owner
  BY <1>1, ShownType, HeldOwner
<1>11. /\ ~Window!ResetRefused(rebase, a.bal)
       /\ Shown(redis)' = Window!WindowOf([Window!ResetHalt(w, rebase, a.bal, Window!Today)
                                             EXCEPT !.id = guardian.id], now)
  BY <1>8, <1>9 DEF k
<1>12. QED
  BY <1>10, <1>11 DEF Window!Reset, w

LEMMA DiscardsWindow ==
  ASSUME TypeOK, NEW g, Written(g), Unset(g), g.id \in {NoId, account},
         g.lastDay \in {NoDay, Today},
         g.dayOpen = 0 \/ \E a \in Reports : g.dayOpen = a.bal,
         UNCHANGED <<account, now>>, (phase' = "gates") = (phase = "gates")
  PROVE  Window!Discard
<1>1. PICK a \in Reports \cup {[bal |-> 0, eq |-> 0]} : g.dayOpen = a.bal
  <2>1. CASE g.dayOpen = 0
    <3>1. [bal |-> 0, eq |-> 0].bal = 0
      OBVIOUS
    <3>2. QED
      BY <2>1, <3>1, Zenon
  <2>2. CASE \E a \in Reports : g.dayOpen = a.bal
    BY <2>2, Zenon
  <2>3. QED
    BY <2>1, <2>2
<1>2. Shown(redis)' = Window!WindowOf(g, now)
  BY WrittenShows
<1>3. g.sessionOpen = FALSE
  BY DEF Unset, Written, Guard, Guardians
<1>4. Window!WindowOf(g, now)
        = [halt |-> "none", peak |-> 0, sessionOpen |-> FALSE,
           dayOpen |-> a.bal, lastDay |-> g.lastDay, id |-> g.id, at |-> now]
  BY <1>1, <1>3 DEF Unset, Window!WindowOf
<1>5. g.lastDay \in {Window!NoDay, Window!Today}
  BY SameDay DEF Window!NoDay, NoDay
<1>6. QED
  BY <1>1, <1>2, <1>4, <1>5 DEF Window!Discard

LEMMA GuardEqual ==
  ASSUME NEW g \in Guard, NEW h \in Guard,
         g.init <=> h.init, g.halt = h.halt, g.peak = h.peak,
         g.sessionOpen <=> h.sessionOpen, g.dayOpen = h.dayOpen,
         g.lastDay = h.lastDay, g.limits = h.limits, g.id = h.id
  PROVE  g = h
BY DEF Guard, Guardians

(* A check of an initialized guardian is a check of the window, and saves  *)
(* when it changes it.                                                     *)
LEMMA ChecksWindow ==
  ASSUME TypeOK, guardian.init, Holds(redis, guardian, account),
         guardian.id \in {NoId, account}, NEW a \in Reports,
         guardian' = Check(guardian, a.bal, a.eq, Today),
         guardian' # guardian => Written(guardian'),
         guardian' = guardian => redis' = redis,
         (phase' = "gates") = ~Halted(guardian'),
         UNCHANGED <<account, now>>
  PROVE  Window!CheckWindow
<1> DEFINE L == guardian.limits
           w == Window!GuardianOf(Shown(redis), L)
           c == Check(w, a.bal, a.eq, Today)
<1>1. redis \in Copies /\ guardian \in Guard /\ L \in Limits
  BY DEF TypeOK, Holds, Guard, Guardians
<1>2. redis.state.id \in Accounts \cup {NoId}
  BY <1>1 DEF Copies, Guardians
<1>3. w = [guardian EXCEPT !.id = redis.state.id]
  <2>1. w = [init |-> TRUE, halt |-> guardian.halt, peak |-> guardian.peak,
             sessionOpen |-> guardian.sessionOpen, dayOpen |-> guardian.dayOpen,
             lastDay |-> guardian.lastDay, limits |-> L, id |-> redis.state.id]
    BY HeldWindow
  <2> HIDE DEF w
  <2>2. w \in Guard
    BY <1>1, <1>2, <2>1 DEF Guard, Guardians
  <2>3. /\ w.init /\ w.halt = guardian.halt /\ w.peak = guardian.peak
        /\ w.sessionOpen = guardian.sessionOpen /\ w.dayOpen = guardian.dayOpen
        /\ w.lastDay = guardian.lastDay /\ w.limits = L /\ w.id = redis.state.id
    BY <2>1
  <2> DEFINE h == [guardian EXCEPT !.id = redis.state.id]
  <2>4. /\ h \in Guard
        /\ h.init /\ h.halt = guardian.halt /\ h.peak = guardian.peak
        /\ h.sessionOpen = guardian.sessionOpen /\ h.dayOpen = guardian.dayOpen
        /\ h.lastDay = guardian.lastDay /\ h.limits = L /\ h.id = redis.state.id
    BY <1>1, <1>2 DEF Guard, Guardians
  <2> HIDE DEF h, L
  <2>5. w = h
    BY <2>2, <2>3, <2>4, GuardEqual
  <2>6. QED
    BY <2>5 DEF h
<1>4. /\ c = [guardian' EXCEPT !.id = redis.state.id]
      /\ guardian'.id = guardian.id
  <2>1. a.bal \in Int /\ a.eq \in Int /\ Today \in Int
    BY MoneyAssumption, TodayType DEF TypeOK
  <2> HIDE DEF w
  <2>2. QED
    BY <1>1, <1>2, <1>3, <2>1, CheckIgnoresId
<1>5. guardian' \in Guard
  <2>1. a.bal \in Int /\ a.eq \in Int /\ Today \in Int
    BY MoneyAssumption, TodayType DEF TypeOK
  <2>2. QED
    BY <1>1, <2>1, CheckType
<1>6. Window!Check(w, a.bal, a.eq, Window!Today) = c
  <2> HIDE DEF w
  <2>1. Window!Check(w, a.bal, a.eq, Today) = c
    BY SameOperations, Zenon
  <2>2. QED
    BY <2>1, SameDay
<1> HIDE DEF c, w
<1>7. c = w <=> guardian' = guardian
  <2>1. ASSUME c = w PROVE guardian' = guardian
    <3>1. [c EXCEPT !.id = guardian.id] = guardian'
      BY <1>4, <1>5 DEF Guard, Guardians
    <3>2. [w EXCEPT !.id = guardian.id] = guardian
      BY <1>1, <1>3 DEF Guard, Guardians
    <3>3. QED
      BY <2>1, <3>1, <3>2
  <2>2. QED
    BY <1>3, <1>4, <2>1
<1>8. Window!Halted(c) = Halted(guardian')
  <2>1. c.halt = guardian'.halt
    BY <1>4, <1>5 DEF Guard, Guardians
  <2>2. Window!Halted(c) = Halted(c)
    BY SameOperations, Zenon
  <2>3. QED
    BY <2>1, <2>2 DEF Halted
<1>9. Shown(redis)' = IF c = w THEN Shown(redis)
                      ELSE Window!WindowOf([c EXCEPT !.id = guardian.id], now)
  <2>1. CASE guardian' = guardian
    BY <1>7, <2>1 DEF Shown
  <2>2. CASE guardian' # guardian
    <3>1. [c EXCEPT !.id = guardian.id] = guardian'
      BY <1>4, <1>5 DEF Guard, Guardians
    <3>2. QED
      BY <1>7, <2>2, <3>1, WrittenShows
  <2>3. QED
    BY <2>1, <2>2
<1>10. Shown(redis) # NoCopy /\ guardian.id \in Window!Owner
  BY <1>1, ShownType, HeldOwner
<1>11. (phase' = "gates") = ~Window!Halted(c)
  BY <1>8
<1>12. QED
  BY <1>1, <1>6, <1>9, <1>10, <1>11, Zenon DEF Window!CheckWindow, w

-----------------------------------------------------------------------------
(***************************************************************************)
(* One action at a time: what it keeps, and what it is to the window.      *)
(***************************************************************************)
Follows == Window!Next \/ UNCHANGED Window!vars

Implemented == WindowInv' /\ Follows

LEMMA StandsStill ==
  ASSUME Shown(redis)' = Shown(redis), (phase' = "gates") = (phase = "gates"),
         UNCHANGED <<account, now>>
  PROVE  Follows
BY DEF Follows, Window!vars

LEMMA LeavesGates ==
  ASSUME Shown(redis)' = Shown(redis), phase = "gates", phase' # "gates",
         UNCHANGED <<account, now>>
  PROVE  Follows
BY DEF Follows, Window!Next, Window!Leave

\* Steps in which the engine only moves on.
LEMMA QuietFollows ==
  ASSUME WindowInv,
         \/ ConnectFails \/ Stop \/ IdleTick \/ BarAbandoned \/ FinishEntry
         \/ EndTick \/ EngineFails
  PROVE  Implemented
<1>1. /\ UNCHANGED <<guardian, storage, redisUp, now, account>>
      /\ phase' \notin {"boot", "boot2", "gates"}
      /\ Serving' => Serving
  BY DEF ConnectFails, Stop, IdleTick, BarAbandoned, FinishEntry, EndTick,
     EngineFails, world, Serving
<1>2. Shown(redis)' = Shown(redis)
  BY <1>1 DEF storage, Shown
<1>3. WindowInv'
  BY <1>1, QuietKeeps DEF Alike
<1>4. QED
  BY <1>1, <1>2, <1>3, StandsStill, LeavesGates DEF Implemented

\* A new engine object, in the same process or in the next one.
LEMMA NewEngineFollows ==
  ASSUME TypeOK, WindowInv, Boot \/ Crash
  PROVE  Implemented
<1>1. \A l : /\ ~Fresh(l).init /\ Unset(Fresh(l)) /\ Blank(Fresh(l))
             /\ Fresh(l).id = NoId
  BY DEF Fresh, Unset, Blank
<1>2. Newest' /\ UNCHANGED <<redis, now>>
  BY DEF Boot, Crash, storage, world, WindowInv, Newest
<1>3. WindowInv'
  <2>1. /\ ~guardian'.init /\ Unset(guardian)' /\ Blank(guardian)'
        /\ guardian'.id = NoId
    BY <1>1 DEF Boot, Crash, Unset, Blank
  <2>2. /\ phase' \in {"boot", "crashed"} /\ acc' = NoAcc
        /\ ~Serving'
    BY DEF Boot, Crash, Serving
  <2>3. QED
    BY <1>2, <2>1, <2>2 DEF WindowInv
<1>4. Shown(redis)' = Shown(redis)
  BY <1>2 DEF Shown
<1>5. CASE Boot
  BY <1>3, <1>4, <1>5, StandsStill DEF Implemented, Boot, world
<1>6. CASE Crash
  <2>1. Window!SwitchAccount
    BY <1>2, <1>4, <1>6 DEF Crash, Window!SwitchAccount
  <2>2. QED
    BY <1>3, <2>1 DEF Implemented, Follows, Window!Next
<1>7. QED
  BY <1>5, <1>6

LEMMA ClockFollows ==
  ASSUME TypeOK, WindowInv, Clock
  PROVE  Implemented
<1>1. UNCHANGED <<phase, guardian, acc, redis, disk, account, redisUp>> /\ now' = now + 1
      /\ now < MaxTime
  BY DEF Clock, engine, storage
<1>2. now \in Int /\ (redis # NoCopy => redis.at \in Int)
  BY TimeAssumption DEF TypeOK, Copies
<1>3. Newest'
  BY <1>1, <1>2 DEF WindowInv, Newest
<1>4. Dropping(redis) => Dropping(redis)'
  BY <1>1, <1>2, TimeAssumption DEF Dropping
<1>5. WindowInv'
  BY <1>1, <1>3, <1>4 DEF WindowInv, Serving
<1>6. Window!Clock
  BY <1>1 DEF Window!Clock, Shown
<1>7. QED
  BY <1>5, <1>6 DEF Implemented, Follows, Window!Next

(* start() never takes a copy that is accepted from anywhere but Redis.     *)
LEMMA AskedCopy ==
  ASSUME TypeOK, Newest, FreshCopy(SavedCopy)
  PROVE  SavedCopy = redis /\ redis # NoCopy
<1>1. CASE RedisCopy # NoCopy
  BY <1>1 DEF SavedCopy, RedisCopy
<1>2. CASE RedisCopy = NoCopy
  <2>1. SavedCopy = disk /\ disk # NoCopy /\ now - disk.at <= FreshFor
    BY <1>2 DEF SavedCopy, FreshCopy
  <2>2. redis # NoCopy /\ disk.at <= redis.at
    BY <2>1 DEF Newest
  <2>3. redis.at \in Int /\ disk.at \in Int /\ now \in Int
    BY <2>1, <2>2, TimeAssumption DEF TypeOK, Copies
  <2>4. now - redis.at <= RedisTTL
    BY <2>1, <2>2, <2>3, TimeAssumption
  <2>5. RedisCopy = redis
    BY <2>2, <2>4 DEF RedisCopy, Newest
  <2>6. QED
    BY <1>2, <2>2, <2>5
<1>3. QED
  BY <1>1, <1>2

\* A window start() does not accept may be dropped.
LEMMA RefusedDrops ==
  ASSUME TypeOK, Newest, NEW g, g.id \in {NoId, account},
         ~(FreshCopy(SavedCopy) /\ RestoreAccepts(g, SavedCopy.state))
  PROVE  Dropping(redis)
<1> SUFFICES ASSUME redis # NoCopy PROVE Dropping(redis)
  BY DEF Dropping
<1>1. redis.at \in Int /\ now \in Int
  BY TimeAssumption DEF TypeOK, Copies
<1>2. CASE now - redis.at <= FreshFor
  <2>1. now - redis.at <= RedisTTL
    BY <1>1, <1>2, TimeAssumption
  <2>2. SavedCopy = redis /\ FreshCopy(redis)
    BY <1>2, <2>1 DEF Newest, SavedCopy, RedisCopy, FreshCopy
  <2>3. ~RestoreAccepts(g, redis.state)
    BY <2>2
  <2>4. QED
    BY <2>3 DEF RestoreAccepts, Dropping
<1>3. CASE ~(now - redis.at <= FreshFor)
  BY <1>1, <1>3, TimeAssumption DEF Dropping
<1>4. QED
  BY <1>2, <1>3

\* Marks of history show nothing.
LEMMA MarkedCopy ==
  ASSUME NEW copy \in Copies \cup {NoCopy}, NEW state
  PROVE  /\ Shown(Aged(copy)) = Shown(copy) /\ Shown(Matched(copy, state)) = Shown(copy)
         /\ Aged(copy) = NoCopy <=> copy = NoCopy
         /\ Matched(copy, state) = NoCopy <=> copy = NoCopy
         /\ copy # NoCopy => /\ Aged(copy).at = copy.at /\ Aged(copy).state = copy.state
                             /\ Matched(copy, state).at = copy.at
                             /\ Matched(copy, state).state = copy.state
<1>1. CASE copy = NoCopy
  BY <1>1 DEF Aged, Matched, Shown
<1>2. CASE copy \in Copies
  <2>1. Aged(copy) = [copy EXCEPT !.current = FALSE]
        /\ Matched(copy, state) = [copy EXCEPT !.current = (copy.state = state)]
        /\ copy # NoCopy
    BY <1>2, NoCopyAssumption DEF Aged, Matched
  <2>2. Aged(copy) \in Copies /\ Matched(copy, state) \in Copies
    BY <1>2, <2>1 DEF Copies
  <2>3. /\ Aged(copy).at = copy.at /\ Aged(copy).state = copy.state
        /\ Matched(copy, state).at = copy.at /\ Matched(copy, state).state = copy.state
    BY <1>2, <2>1 DEF Copies
  <2>4. QED
    BY <2>1, <2>2, <2>3, NoCopyAssumption DEF Shown
<1>3. QED
  BY <1>1, <1>2

\* Both copies marked anew, the window and the order of their ages stay.
LEMMA MarkingKeeps ==
  ASSUME TypeOK, Newest, NEW state,
         \/ redis' = Aged(redis) /\ disk' = Aged(disk)
         \/ redis' = Matched(redis, state) /\ disk' = Matched(disk, state),
         UNCHANGED <<redisUp, now, account>>
  PROVE  /\ Newest' /\ Shown(redis)' = Shown(redis)
         /\ redis' = NoCopy <=> redis = NoCopy
         /\ redis # NoCopy => redis'.state = redis.state
         /\ Dropping(redis) => Dropping(redis)'
<1>1. redis \in Copies \cup {NoCopy} /\ disk \in Copies \cup {NoCopy}
  BY DEF TypeOK
<1>2. /\ Shown(redis)' = Shown(redis)
      /\ redis' = NoCopy <=> redis = NoCopy
      /\ disk' = NoCopy <=> disk = NoCopy
      /\ redis # NoCopy => redis'.state = redis.state /\ redis'.at = redis.at
      /\ disk # NoCopy => disk'.at = disk.at
  BY <1>1, MarkedCopy
<1>3. Newest'
  BY <1>2 DEF Newest
<1>4. Dropping(redis) => Dropping(redis)'
  BY <1>2 DEF Dropping
<1>5. QED
  BY <1>2, <1>3, <1>4

\* A window is opened and saved: by start(), by the lazy initialization, or by
\* an operator.
LEMMA InitializeSaved ==
  ASSUME TypeOK, WindowInv, NEW h \in Guard, h.halt = "none", h.id \in {NoId, account},
         NEW a \in Reports, guardian' = Initialize(h, a.bal, a.eq, Today),
         Save(guardian'), phase' # "boot", UNCHANGED <<redisUp, now, account>>
  PROVE  WindowInv' /\ Window!Open(a, h.id)
<1>1. a.bal \in Int /\ a.eq \in Int /\ Today \in Int
  BY MoneyAssumption, TodayType DEF TypeOK
<1>2. guardian' \in Guard
  BY <1>1, GuardianTypes
<1>3. guardian'.init /\ guardian'.id = h.id
  BY DEF Initialize, Guard, Guardians
<1>4. WindowInv'
  BY <1>2, <1>3, SavedKeeps DEF Alike
<1>5. Written(guardian')
  BY <1>2, SaveIsWritten
<1>6. QED
  BY <1>4, <1>5, OpensWindow

\* The copy of the state fits the guardian restored from it.
LEMMA RestoredHolds ==
  ASSUME NEW g \in Guard, NEW saved \in Guard, RestoreAccepts(g, saved),
         g.id \in {NoId, account}
  PROVE  LET r == Restore(g, saved, EnvPins)
         IN  /\ r.init /\ r.halt = saved.halt /\ r.peak = saved.peak
             /\ r.sessionOpen = saved.sessionOpen /\ r.dayOpen = saved.dayOpen
             /\ r.lastDay = saved.lastDay /\ r.id = g.id
             /\ r.id = NoId \/ saved.id \in {account, NoId}
BY DEF Restore, RestoreAccepts, Guard, Guardians

LEMMA StartFollows ==
  ASSUME TypeOK, WindowInv, HaltInv, RestoreOrInitialize
  PROVE  Implemented
<1>1. PICK a \in Reports \cup {NoAcc} :
        /\ phase = "boot" /\ acc' = a
        /\ RestoreGuardian(a) \/ ColdStart(a)
        /\ UNCHANGED <<running, config, world>>
  BY DEF RestoreOrInitialize
<1> DEFINE g == Identified(guardian, a)
<1>2. g \in Guard /\ g.id \in {NoId, account} /\ g.halt = "none"
      /\ ~g.init /\ Unset(g) /\ Blank(g)
  <2>1. guardian \in Guard /\ account \in Accounts
    BY DEF TypeOK, Guard
  <2>2. ~guardian.init /\ Unset(guardian) /\ Blank(guardian)
        /\ guardian.id \in {NoId, account}
    BY <1>1 DEF WindowInv
  <2>3. QED
    BY <2>1, <2>2 DEF Identified, Guard, Guardians, Unset, Blank
<1>3. UNCHANGED <<redisUp, now, account>> /\ Newest
  BY <1>1 DEF world, WindowInv
<1>4. CASE RestoreGuardian(a)
  <2>1. /\ FreshCopy(SavedCopy) /\ RestoreAccepts(g, SavedCopy.state)
        /\ guardian' = Restore(g, SavedCopy.state, EnvPins) /\ phase' = "tick"
        /\ redis' = Matched(redis, SavedCopy.state)
        /\ disk' = Matched(disk, SavedCopy.state)
    BY <1>4 DEF RestoreGuardian
  <2> HIDE DEF g
  <2>2. SavedCopy = redis /\ redis # NoCopy
    BY <1>3, <2>1, AskedCopy
  <2>3. redis.state \in Guard
    BY <2>2 DEF TypeOK, Copies, Guard
  <2>4. /\ Newest' /\ Shown(redis)' = Shown(redis) /\ redis' # NoCopy
        /\ redis'.state = redis.state
    BY <1>3, <2>1, <2>2, MarkingKeeps
  <2>5. Holds(redis', guardian', account) /\ guardian'.init /\ guardian'.id = g.id
    BY <1>2, <2>1, <2>2, <2>3, <2>4, RestoredHolds DEF Holds
  <2>6. WindowInv'
    BY <1>2, <1>3, <2>1, <2>4, <2>5 DEF WindowInv
  <2>7. QED
    BY <1>1, <1>3, <2>1, <2>4, <2>6, StandsStill DEF Implemented
<1>5. CASE ColdStart(a)
  <2>1. ~(FreshCopy(SavedCopy) /\ RestoreAccepts(g, SavedCopy.state))
    BY <1>5 DEF ColdStart
  <2>2. Dropping(redis)
    BY <1>2, <1>3, <2>1, RefusedDrops
  <2>3. CASE a # NoAcc /\ a.bal > 0
    <3>1. /\ guardian' = Initialize(g, a.bal, a.eq, Today) /\ Save(guardian')
          /\ phase' = "tick" /\ a \in Reports
      BY <1>5, <2>3 DEF ColdStart
    <3> HIDE DEF g
    <3>2. WindowInv' /\ Window!Open(a, g.id)
      BY <1>2, <1>3, <3>1, InitializeSaved
    <3>3. Window!ColdStart
      BY <1>2, <1>3, <2>2, <3>1, <3>2, DropReads DEF Window!ColdStart
    <3>4. QED
      BY <3>2, <3>3 DEF Implemented, Follows, Window!Next
  <2>4. CASE ~(a # NoAcc /\ a.bal > 0)
    <3>1. /\ guardian' = g /\ phase' = "boot2"
          /\ redis' = Aged(redis) /\ disk' = Aged(disk)
      BY <1>5, <2>4 DEF ColdStart
    <3> HIDE DEF g
    <3>2. Newest' /\ Shown(redis)' = Shown(redis) /\ Dropping(redis)'
      BY <1>3, <2>2, <3>1, MarkingKeeps
    <3>3. WindowInv'
      BY <1>2, <1>3, <3>1, <3>2 DEF WindowInv
    <3>4. QED
      BY <1>1, <1>3, <3>1, <3>2, <3>3, StandsStill DEF Implemented
  <2>5. QED
    BY <2>3, <2>4
<1>6. QED
  BY <1>1, <1>4, <1>5

LEMMA LateStartFollows ==
  ASSUME TypeOK, WindowInv, HaltInv, InitializeLate
  PROVE  Implemented
<1>1. PICK a \in Reports \cup {NoAcc} :
        IF a # NoAcc /\ a.bal > 0
        THEN /\ guardian' = Initialize(guardian, a.bal, a.eq, Today)
             /\ Save(guardian')
        ELSE UNCHANGED <<guardian, storage>>
  BY DEF InitializeLate
<1>2. /\ phase = "boot2" /\ phase' = "tick"
      /\ UNCHANGED <<redisUp, now, account>>
      /\ guardian \in Guard /\ guardian.halt = "none" /\ guardian.id \in {NoId, account}
  BY DEF InitializeLate, world, TypeOK, Guard, HaltInv, HaltRecorded, Halted, WindowInv
<1>3. CASE a # NoAcc /\ a.bal > 0
  <2>1. WindowInv' /\ Window!Open(a, guardian.id) /\ a \in Reports
    BY <1>1, <1>2, <1>3, InitializeSaved
  <2>2. a.bal > 0
    BY <1>3
  <2>3. Window!Rebase
    BY <1>2, <2>1, <2>2 DEF Window!Rebase
  <2>4. QED
    BY <2>1, <2>3 DEF Implemented, Follows, Window!Next
<1>4. CASE ~(a # NoAcc /\ a.bal > 0)
  <2>1. UNCHANGED <<guardian, storage>>
    BY <1>1, <1>4
  <2>2. WindowInv'
    BY <1>2, <2>1, QuietKeeps DEF Serving, Alike
  <2>3. Shown(redis)' = Shown(redis)
    BY <2>1 DEF storage, Shown
  <2>4. QED
    BY <1>2, <2>2, <2>3, StandsStill DEF Implemented
<1>5. QED
  BY <1>3, <1>4

\* An operator's reset of the guardian as it is.
LEMMA ResetSaved ==
  ASSUME TypeOK, WindowInv, NEW rebase \in BOOLEAN, NEW bal \in Int,
         rebase => bal > 0 /\ \E a \in Reports : a.bal = bal,
         Save(ResetHalt(guardian, rebase, bal, Today)),
         Alike(guardian', ResetHalt(guardian, rebase, bal, Today)),
         phase' = "boot" => phase = "boot" /\ ~rebase /\ acc' = acc,
         (phase' = "gates") = (phase = "gates"),
         UNCHANGED <<redisUp, now, account>>
  PROVE  Implemented
<1> DEFINE g == ResetHalt(guardian, rebase, bal, Today)
<1>1. guardian \in Guard /\ guardian.id \in {NoId, account}
  BY DEF TypeOK, Guard, WindowInv
<1>2. g \in Guard
  BY <1>1, TodayType, GuardianTypes DEF TypeOK
<1>3. /\ g.halt = "none" /\ g.peak = guardian.peak
      /\ g.sessionOpen = guardian.sessionOpen
      /\ g.dayOpen = (IF rebase THEN bal ELSE guardian.dayOpen)
      /\ g.lastDay = (IF rebase THEN Today ELSE guardian.lastDay)
      /\ g.id = guardian.id /\ g.init = guardian.init
  BY <1>1, GuardFields, ResetReads
<1>4. Written(g)
  BY <1>2, SaveIsWritten
<1> HIDE DEF g
<1>5. ~guardian.init => Unset(g)
  BY <1>3 DEF WindowInv, Unset
<1>6. WindowInv'
  <2>1. phase' = "boot" => ~g.init /\ Blank(g) /\ acc' = NoAcc
    BY <1>3 DEF WindowInv, Blank
  <2>2. QED
    BY <1>1, <1>2, <1>3, <1>5, <2>1, SavedKeeps DEF g
<1>7. CASE Holds(redis, guardian, account)
  <2>1. PICK a \in Reports : rebase => a.bal = bal
    BY MoneyAssumption
  <2>2. ~ResetRefused(rebase, a.bal)
    BY <2>1 DEF ResetRefused
  <2>3. Window!Reset
    BY <1>1, <1>4, <1>7, <2>1, <2>2, ResetsWindow DEF g
  <2>4. QED
    BY <1>6, <2>3 DEF Implemented, Follows, Window!Next
<1>8. CASE ~Holds(redis, guardian, account)
  <2>1. ~guardian.init /\ Blank(guardian)
    BY <1>8 DEF WindowInv
  <2>2. g.lastDay \in {NoDay, Today}
        /\ (g.dayOpen = 0 \/ \E a \in Reports : g.dayOpen = a.bal)
    BY <1>3, <2>1 DEF Blank
  <2>3. Window!Discard
    BY <1>1, <1>3, <1>4, <1>5, <2>1, <2>2, DiscardsWindow
  <2>4. QED
    BY <1>6, <2>3 DEF Implemented, Follows, Window!Next
<1>9. QED
  BY <1>7, <1>8

LEMMA PollFollows ==
  ASSUME TypeOK, WindowInv, Poll
  PROVE  Implemented
<1>1. PICK b \in Batches, a \in Reports \cup {NoAcc} :
        /\ phase = "tick" /\ ProcessCommands(b, a) /\ phase' \in {"tick", "scan"}
        /\ UNCHANGED <<world, recovered>>
  BY DEF Poll, PollOf
<1> DEFINE resetOk == \/ b.reset = "plain"
                      \/ b.reset = "daily" /\ a # NoAcc /\ ~ResetRefused(TRUE, a.bal)
           bal == IF a = NoAcc THEN 0 ELSE a.bal
           g1 == ResetHalt(guardian, b.reset = "daily", bal, Today)
<1>2. /\ guardian \in Guard /\ bal \in Int /\ (b.reset = "daily") \in BOOLEAN
      /\ UNCHANGED <<redisUp, now, account>>
  BY <1>1, MoneyAssumption DEF TypeOK, Guard, world
<1>3. \A g \in Guard : \A u : Alike([g EXCEPT !.limits = u], g)
  BY DEF Alike, Guard, Guardians
<1>4. CASE resetOk
  <2>1. Save(g1) /\ guardian' = [g1 EXCEPT !.limits = Updated(@, b.update)]
    BY <1>1, <1>4 DEF ProcessCommands
  <2>2. b.reset = "daily" => bal > 0 /\ \E r \in Reports : r.bal = bal
    BY <1>4, <1>2 DEF ResetRefused
  <2>3. g1 \in Guard
    BY <1>2, TodayType, GuardianTypes DEF TypeOK
  <2> HIDE DEF bal
  <2>4. Alike(guardian', g1)
    <3> HIDE DEF g1
    <3>1. QED
      BY <1>3, <2>1, <2>3
  <2>5. QED
    BY <1>1, <1>2, <2>1, <2>2, <2>4, ResetSaved
<1>5. CASE ~resetOk
  <2>1. guardian' = [guardian EXCEPT !.limits = Updated(@, b.update)]
        /\ UNCHANGED storage
    BY <1>1, <1>5 DEF ProcessCommands
  <2>2. Alike(guardian', guardian)
    BY <1>2, <1>3, <2>1
  <2>3. WindowInv'
    BY <1>1, <1>2, <2>1, <2>2, QuietKeeps DEF Serving
  <2>4. Shown(redis)' = Shown(redis)
    BY <2>1 DEF storage, Shown
  <2>5. QED
    BY <1>1, <1>2, <2>3, <2>4, StandsStill DEF Implemented
<1>6. QED
  BY <1>4, <1>5

LEMMA ForceFollows ==
  ASSUME TypeOK, WindowInv, ForceResume
  PROVE  Implemented
<1> DEFINE bal == IF acc = NoAcc THEN 0 ELSE acc.bal
<1>1. PICK rebase \in BOOLEAN :
        LET g1 == IF rebase /\ bal > 0
                  THEN Initialize(guardian, bal, acc.eq, Today) ELSE guardian
        IN  guardian' = ResetHalt(g1, FALSE, bal, Today)
  BY DEF ForceResume
<1>2. /\ Save(guardian') /\ UNCHANGED <<phase, acc, redisUp, now, account>>
      /\ guardian \in Guard /\ guardian.id \in {NoId, account} /\ bal \in Int
  <2>1. Save(guardian') /\ UNCHANGED <<phase, acc, redisUp, now, account>>
    BY DEF ForceResume, world
  <2>2. bal \in Int
    BY MoneyAssumption DEF TypeOK
  <2>3. QED
    BY <2>1, <2>2 DEF TypeOK, Guard, WindowInv
<1>3. CASE rebase /\ bal > 0
  <2> DEFINE h == [guardian EXCEPT !.halt = "none"]
  <2>1. acc \in Reports /\ acc.bal = bal /\ phase # "boot"
    BY <1>3 DEF TypeOK, WindowInv
  <2>2. h \in Guard /\ h.halt = "none" /\ h.id = guardian.id
    BY <1>2 DEF Guard, Guardians, HaltReasons
  <2>3. guardian' = Initialize(h, acc.bal, acc.eq, Today)
    <3>1. guardian' = ResetHalt(Initialize(guardian, bal, acc.eq, Today), FALSE, bal, Today)
      BY <1>1, <1>3
    <3>2. ResetHalt(Initialize(guardian, bal, acc.eq, Today), FALSE, bal, Today)
            = Initialize(h, bal, acc.eq, Today)
      <4> HIDE DEF bal
      <4>1. QED
        BY <1>2 DEF ResetHalt, Initialize, Guard, Guardians
    <3>3. QED
      BY <2>1, <3>1, <3>2
  <2> HIDE DEF h, bal
  <2>4. WindowInv' /\ Window!Open(acc, h.id)
    BY <1>2, <2>1, <2>2, <2>3, InitializeSaved
  <2>5. Window!Rebase
    BY <1>2, <1>3, <2>1, <2>2, <2>4 DEF Window!Rebase
  <2>6. QED
    BY <2>4, <2>5 DEF Implemented, Follows, Window!Next
<1>4. CASE ~(rebase /\ bal > 0)
  <2>1. guardian' = ResetHalt(guardian, FALSE, bal, Today)
    BY <1>1, <1>4
  <2> HIDE DEF bal
  <2>2. Alike(guardian', ResetHalt(guardian, FALSE, bal, Today))
    BY <2>1 DEF Alike
  <2>3. Save(ResetHalt(guardian, FALSE, bal, Today))
    BY <1>2, <2>1
  <2>4. QED
    BY <1>2, <2>2, <2>3, ResetSaved
<1>5. QED
  BY <1>3, <1>4

\* The check that follows an initialization on the same figures finds nothing.
LEMMA FreshCheck ==
  ASSUME NEW h \in Guard, h.halt = "none", NEW bal \in Int, NEW eq \in Int,
         NEW today \in Int
  PROVE  Check(Initialize(h, bal, eq, today), bal, eq, today)
           = Initialize(h, bal, eq, today)
<1> DEFINE g == Initialize(h, bal, eq, today)
<1>1. /\ g.halt = "none" /\ g.peak = eq /\ g.dayOpen = bal /\ g.lastDay = today
      /\ g.limits = h.limits /\ g \in Guard
  BY GuardianTypes DEF Initialize, Guard, Guardians
<1>2. h.limits \in [LimitKeys -> Nat \ {0}]
  BY LimitsAssumption DEF Guard, Guardians
<1>3. PICK daily \in Nat \ {0}, drawdown \in Nat \ {0} :
        h.limits["daily"] = daily /\ h.limits["drawdown"] = drawdown
  BY <1>2 DEF LimitKeys
<1> HIDE DEF g
<1>4. DayReset(g, bal, today) = g /\ RaisePeak(g, eq) = g
  BY <1>1 DEF DayReset, RaisePeak
<1>5. ~DailyLossHit(g, bal)
  <2>1. bal > 0 => daily * bal > 0
    OBVIOUS
  <2>2. (bal - bal) * 100 = 0
    OBVIOUS
  <2>3. QED
    BY <1>1, <1>3, <2>1, <2>2 DEF DailyLossHit
<1>6. ~DrawdownHit(g, eq)
  <2>1. eq > 0 => drawdown * eq > 0
    OBVIOUS
  <2>2. (eq - eq) * 100 = 0
    OBVIOUS
  <2>3. QED
    BY <1>1, <1>3, <2>1, <2>2 DEF DrawdownHit
<1>7. Trip(g, bal, eq) = g
  BY <1>1, <1>5, <1>6 DEF Trip, Halted
<1>8. QED
  BY <1>4, <1>7 DEF Check, g

LEMMA BarFollows ==
  ASSUME TypeOK, WindowInv, BarCheck
  PROVE  Implemented
<1>1. PICK a \in Reports :
        /\ guardian' = Checked(a)
        /\ SaveIfChanged(guardian, guardian')
        /\ phase' = IF Halted(guardian') THEN "bars" ELSE "gates"
  BY DEF BarCheck
<1>2. /\ phase \in {"scan", "bars"} /\ UNCHANGED <<redisUp, now, account>>
      /\ guardian \in Guard /\ guardian.id \in {NoId, account}
      /\ a.bal \in Int /\ a.eq \in Int /\ Today \in Int
  BY MoneyAssumption, TodayType DEF BarCheck, world, TypeOK, Guard, WindowInv
<1>3. phase' # "boot" /\ (phase' = "gates") = ~Halted(guardian')
  BY <1>1
<1>4. CASE guardian.init
  <2>1. guardian' = Check(guardian, a.bal, a.eq, Today)
    BY <1>1, <1>4 DEF Checked
  <2>2. guardian' \in Guard /\ guardian'.id = guardian.id /\ guardian'.init
    BY <1>2, <1>4, <2>1, CheckType, CheckIgnoresId
  <2>3. guardian' # guardian => Save(guardian') /\ Written(guardian')
    BY <1>1, <2>2, SaveIsWritten DEF SaveIfChanged
  <2>4. guardian' = guardian => UNCHANGED storage
    BY <1>1 DEF SaveIfChanged
  <2>5. Window!CheckWindow
    BY <1>2, <1>3, <1>4, <2>1, <2>3, <2>4, ChecksWindow DEF WindowInv, storage
  <2>6. WindowInv'
    <3>1. CASE guardian' # guardian
      BY <1>2, <1>3, <2>2, <2>3, <3>1, SavedKeeps DEF Alike
    <3>2. CASE guardian' = guardian
      <4>1. Alike(guardian', guardian)
        BY <3>2 DEF Alike
      <4>2. Serving
        BY <1>2 DEF Serving
      <4>3. QED
        BY <1>2, <1>3, <2>4, <3>2, <4>1, <4>2, QuietKeeps
    <3>3. QED
      BY <3>1, <3>2
  <2>7. QED
    BY <2>5, <2>6 DEF Implemented, Follows, Window!Next
<1>5. CASE ~guardian.init
  <2>1. guardian.halt = "none" /\ Dropping(redis)
    BY <1>2, <1>5 DEF WindowInv, Unset, Serving
  <2>2. guardian' = Initialize(guardian, a.bal, a.eq, Today)
    BY <1>1, <1>2, <1>5, <2>1, FreshCheck DEF Checked
  <2>3. guardian'.init
    BY <1>2, <2>2 DEF Initialize, Guard, Guardians
  <2>4. Save(guardian')
    BY <1>1, <1>5, <2>3 DEF SaveIfChanged
  <2>5. WindowInv' /\ Window!Open(a, guardian.id)
    BY <1>2, <1>3, <2>1, <2>2, <2>4, InitializeSaved
  <2>6. Window!ColdStart
    BY <1>2, <2>1, <2>5, DropReads DEF Window!ColdStart
  <2>7. QED
    BY <2>5, <2>6 DEF Implemented, Follows, Window!Next
<1>6. QED
  BY <1>4, <1>5

\* Redis is reached from the start, and does not go away.
LEMMA StepFollows ==
  ASSUME RedisMayFail = FALSE, TypeOK, HaltInv, WindowInv, [Next]_vars
  PROVE  Implemented
<1>1. CASE UNCHANGED vars
  <2>1. /\ UNCHANGED <<phase, guardian, acc, redis, disk, redisUp, now, account>>
        /\ Shown(redis)' = Shown(redis)
    BY <1>1 DEF vars, engine, storage, world, Shown
  <2>2. WindowInv'
    BY <2>1 DEF WindowInv, Newest, Serving, Dropping
  <2>3. QED
    BY <2>1, <2>2, StandsStill DEF Implemented
<1>2. CASE Next
  BY <1>2, QuietFollows, NewEngineFollows, ClockFollows, StartFollows,
     LateStartFollows, PollFollows, ForceFollows, BarFollows
  DEF Next, RobotStep, RedisFlips
<1>3. QED
  BY <1>1, <1>2

LEMMA InitFollows ==
  ASSUME RedisMayFail = FALSE, Init
  PROVE  WindowInv /\ Window!Init
<1>1. redisUp /\ redis = NoCopy /\ disk = NoCopy /\ phase = "crashed"
  BY DEF Init
<1>2. ~guardian.init /\ Unset(guardian) /\ Blank(guardian) /\ guardian.id = NoId
  BY DEF Init, Fresh, Unset, Blank
<1>3. WindowInv
  BY <1>1, <1>2 DEF WindowInv, Newest, Serving
<1>4. Window!Init
  BY <1>1 DEF Init, Window!Init, Shown
<1>5. QED
  BY <1>3, <1>4

(* live_loop.py, start(), and guardian.py, restore_state(): while Redis is *)
(* reached, an engine that crashes, fails to start and is started again    *)
(* at any point, in whichever process and for whichever account, is for    *)
(* its risk window the robot that never restarts.  The disk may miss any   *)
(* save.                                                                   *)
THEOREM RestartsAreInvisible ==
  ASSUME RedisMayFail = FALSE
  PROVE  Spec => RestartsInvisible
<1>1. Init => WindowInv /\ Window!Init
  BY InitFollows
<1>2. TypeOK /\ HaltInv /\ WindowInv /\ [Next]_vars => WindowInv'
  BY StepFollows DEF Implemented
<1>3. TypeOK /\ HaltInv /\ WindowInv /\ [Next]_vars => [Window!Next]_(Window!vars)
  BY StepFollows DEF Implemented, Follows
<1>4. QED
  BY <1>1, <1>2, <1>3, HaltInvariant, PTL DEF Spec, RestartsInvisible, Window!Spec

=============================================================================
