------------------------- MODULE CommandChannel_proofs -------------------------
(***************************************************************************)
(* Theorems about CommandChannel for any keys, any pattern of reachability *)
(* and any number of sends: no command comes back by itself, the channel   *)
(* implements CommandBox, and types.  What the engine reads next holds     *)
(* only keys that were written since they were applied, with the exception *)
(* of the one it is clearing; and what it will write back does not bring   *)
(* that one back.                                                          *)
(***************************************************************************)
EXTENDS CommandChannel, TLAPS

InKeys ==
  /\ todo \subseteq Keys
  /\ DOMAIN redis \subseteq Keys /\ DOMAIN file.cmds \subseteq Keys
  /\ DOMAIN got \subseteq Keys
  /\ panel # NoSend => panel.key \in Keys /\ DOMAIN panel.read \subseteq Keys
  /\ http # NoSend => http.key \in Keys /\ DOMAIN http.read \subseteq Keys

(* The keys Redis, or the file, may hold without a writer to vouch for     *)
(* them.                                                                   *)
InRedis == IF pc = "rset" THEN {cur} ELSE {}
InFile  == IF pc \in {"rset", "fread", "fwrite"} THEN {cur} ELSE {}

RedisBacked ==
  RobotReaches =>
    /\ DOMAIN redis \subseteq backed \cup InRedis
    /\ pc = "rset" => DOMAIN got \subseteq backed \cup {cur}
    /\ pc = "rset" /\ cur \notin DOMAIN got => DOMAIN redis \subseteq backed

FileBacked ==
  ~RobotReaches =>
    /\ DOMAIN ReadFile \subseteq backed \cup InFile
    /\ pc = "fwrite" => DOMAIN got \subseteq backed

EchoInv == InKeys /\ todo \subseteq backed /\ RedisBacked /\ FileBacked

(* The domains of the dictionaries the actions build.                      *)
LEMMA Domains ==
  /\ \A d, k : DOMAIN Without(d, k) = DOMAIN d \ {k}
  /\ \A d, k, v : DOMAIN With(d, k, v) = DOMAIN d \cup {k}
  /\ \A d : ToApply(d) \subseteq DOMAIN d
  /\ \A d, k : DOMAIN Appended(d, k).cmds = DOMAIN d \cup {k}
  /\ DOMAIN NoCommands = {}
BY DEF Without, With, ToApply, NoCommands, Appended

LEMMA FileDomain ==
  /\ DOMAIN ReadFile \subseteq DOMAIN file.cmds
  /\ DOMAIN ReadFile' \subseteq DOMAIN file.cmds'
  /\ DOMAIN ListRead \subseteq DOMAIN file.cmds
BY DEF ReadFile, ListRead, NoCommands

LEMMA EchoInit == Init => EchoInv
BY DEF Init, EchoInv, InKeys, RedisBacked, FileBacked, NoCommands, InRedis,
       InFile, ReadFile, RobotReaches

(* A store that is unchanged, or holds only keys that are vouched for,     *)
(* while the poll stands still.                                            *)
LEMMA Unchanged ==
  ASSUME EchoInv,
         UNCHANGED <<reach, pc, todo, cur, got>>,
         DOMAIN redis' \subseteq Keys, DOMAIN file'.cmds \subseteq Keys,
         panel' \in {panel, NoSend}, http' \in {http, NoSend},
         backed \subseteq backed',
         RobotReaches => redis' = redis \/ DOMAIN redis' \subseteq backed',
         ~RobotReaches => file' = file \/ DOMAIN file'.cmds \subseteq backed'
  PROVE  EchoInv'
<1>1. InKeys' /\ todo' \subseteq backed'
  BY DEF EchoInv, InKeys
<1>2. RedisBacked'
  BY DEF EchoInv, RedisBacked, InRedis, RobotReaches
<1>3. FileBacked'
  <2>1. file' = file => ReadFile' = ReadFile
    BY DEF ReadFile
  <2> QED  BY <2>1, FileDomain DEF EchoInv, FileBacked, InFile, RobotReaches
<1>4. QED  BY <1>1, <1>2, <1>3 DEF EchoInv

(* A sender's writes: only more keys are vouched for, and the poll is not  *)
(* touched.                                                                *)
LEMMA SenderStep ==
  ASSUME EchoInv, Send \/ Sent
  PROVE  EchoInv'
<1> USE Domains, FileDomain
<1>1. ASSUME NEW k \in Keys, PanelReads(k) PROVE EchoInv'
  BY <1>1 DEF EchoInv, InKeys, RedisBacked, FileBacked, InRedis, InFile,
     PanelReads, Sending, poll, past, RobotReaches, ReadFile
<1>2. ASSUME NEW k \in Keys, HttpReads(k) PROVE EchoInv'
  BY <1>2 DEF EchoInv, InKeys, RedisBacked, FileBacked, InRedis, InFile,
     HttpReads, Sending, poll, past, RobotReaches, ReadFile
<1>3. CASE PanelWritesRedis
  <2>1. panel # NoSend /\ panel' = NoSend
        /\ UNCHANGED <<reach, file, http, pc, todo, cur, got>>
    BY <1>3 DEF PanelWritesRedis, poll
  <2>2. DOMAIN redis' \subseteq Keys /\ backed \subseteq backed'
        /\ (redis' # redis /\ RobotReaches => DOMAIN redis' \subseteq backed')
    <3> DEFINE d == With(panel.read, panel.key, PanelValue(panel.key))
    <3>1. DOMAIN d = DOMAIN panel.read \cup {panel.key}
      BY Domains
    <3>2. DOMAIN d \subseteq Keys
      BY <2>1, <3>1 DEF EchoInv, InKeys
    <3>3. CASE "panel" \in reach
      <4>1. redis' = d /\ backed' = backed \cup (IF RobotReaches THEN DOMAIN d ELSE {})
        BY <1>3, <3>3 DEF PanelWritesRedis, Back
      <4> HIDE DEF d
      <4> QED  BY <3>2, <4>1
    <3>4. CASE "panel" \notin reach
      BY <1>3, <3>4 DEF PanelWritesRedis, past, EchoInv, InKeys
    <3> QED  BY <3>3, <3>4
  <2> QED  BY <2>1, <2>2, Unchanged DEF EchoInv, InKeys
<1>4. CASE PanelWritesFile
  <2>1. panel # NoSend /\ panel' = NoSend
        /\ UNCHANGED <<reach, redis, http, pc, todo, cur, got>>
    BY <1>4 DEF PanelWritesFile, poll
  <2>2. DOMAIN file'.cmds \subseteq Keys /\ backed \subseteq backed'
        /\ (~RobotReaches => DOMAIN file'.cmds \subseteq backed')
    <3>1. DOMAIN file'.cmds = DOMAIN panel.read \cup {panel.key}
      BY <1>4, Domains DEF PanelWritesFile
    <3>2. backed' = backed \cup (IF RobotReaches THEN {} ELSE DOMAIN file'.cmds)
      BY <1>4 DEF PanelWritesFile, Back
    <3>3. DOMAIN file'.cmds \subseteq Keys
      BY <2>1, <3>1 DEF EchoInv, InKeys
    <3> QED  BY <3>2, <3>3
  <2> QED  BY <2>1, <2>2, Unchanged DEF EchoInv, InKeys
<1>5. CASE HttpWrites
  <2>1. http # NoSend /\ http' = NoSend
        /\ UNCHANGED <<reach, panel, pc, todo, cur, got>>
    BY <1>5 DEF HttpWrites, poll
  <2>2. DOMAIN redis' \subseteq Keys /\ DOMAIN file'.cmds \subseteq Keys
    <3>1. http.key \in Keys /\ DOMAIN http.read \subseteq Keys
          /\ DOMAIN redis \subseteq Keys /\ DOMAIN ListRead \subseteq Keys
      BY <2>1 DEF EchoInv, InKeys
    <3>2. redis' \in {redis, With(http.read, http.key, HttpValue(http.key))}
          /\ file' = Appended(ListRead, http.key)
      BY <1>5 DEF HttpWrites
    <3>3. DOMAIN With(http.read, http.key, HttpValue(http.key)) = DOMAIN http.read \cup {http.key}
          /\ DOMAIN Appended(ListRead, http.key).cmds = DOMAIN ListRead \cup {http.key}
      BY Domains
    <3> QED  BY <3>1, <3>2, <3>3
  <2>3. backed \subseteq backed'
        /\ (RobotReaches => DOMAIN redis' \subseteq backed')
        /\ (~RobotReaches => redis' = redis /\ DOMAIN file'.cmds \subseteq backed')
    BY <1>5 DEF HttpWrites, Back
  <2> QED  BY <2>1, <2>2, <2>3, Unchanged
<1>6. QED  BY <1>1, <1>2, <1>3, <1>4, <1>5 DEF Send, Sent

(* A poll: reading takes only keys that are vouched for; applying one      *)
(* makes it the one to clear; clearing removes it from what was read.      *)
LEMMA PollStep ==
  ASSUME EchoInv, Read \/ Applying \/ ClearRedis \/ ClearReads \/ ClearWrites
  PROVE  EchoInv'
<1> USE Domains, FileDomain
<1>1. CASE Read
  <2>1. pc = "idle" /\ pc' \in {"idle", "run"} /\ todo' \subseteq DOMAIN ReadCommands
    BY <1>1 DEF Read
  <2>2. DOMAIN ReadCommands \subseteq backed /\ DOMAIN ReadCommands \subseteq Keys
    BY <2>1 DEF EchoInv, InKeys, RedisBacked, FileBacked, InRedis, InFile, ReadCommands
  <2> QED  BY <1>1, <2>1, <2>2 DEF Read, EchoInv, InKeys, RedisBacked, FileBacked,
           InRedis, InFile, sender, RobotReaches, ReadFile
<1>2. ASSUME NEW k \in Keys, Apply(k) PROVE EchoInv'
  <2>1. pc = "run" /\ pc' = "rset" /\ k \in todo /\ todo' = todo \ {k} /\ cur' = k
        /\ backed' = backed \ {k} /\ got' = (IF RobotReaches THEN redis ELSE NoCommands)
        /\ UNCHANGED <<reach, redis, file, panel, http>>
    BY <1>2 DEF Apply, sender
  <2>2. InKeys' /\ todo' \subseteq backed'
    BY <2>1 DEF EchoInv, InKeys
  <2>3. RedisBacked'
    BY <2>1 DEF EchoInv, RedisBacked, InRedis, RobotReaches
  <2>4. FileBacked'
    <3>1. ReadFile' = ReadFile
      BY <2>1 DEF ReadFile
    <3> QED  BY <2>1, <3>1 DEF EchoInv, FileBacked, InFile, RobotReaches
  <2> QED  BY <2>2, <2>3, <2>4 DEF EchoInv
<1>3. CASE ClearRedis
  <2>1. pc = "rset" /\ pc' = "fread" /\ got' = NoCommands
        /\ UNCHANGED <<reach, file, panel, http, todo, cur, backed>>
    BY <1>3 DEF ClearRedis, sender, past
  <2>2. IF RobotReaches /\ cur \in DOMAIN got
        THEN DOMAIN redis' = DOMAIN got \ {cur} ELSE redis' = redis
    <3>1. DOMAIN Without(got, cur) = DOMAIN got \ {cur}
      BY Domains
    <3> QED  BY <1>3, <3>1 DEF ClearRedis
  <2>3. InKeys' /\ todo' \subseteq backed'
    BY <2>1, <2>2 DEF EchoInv, InKeys
  <2>4. RedisBacked'
    BY <2>1, <2>2 DEF EchoInv, RedisBacked, InRedis, RobotReaches
  <2>5. FileBacked'
    <3>1. ReadFile' = ReadFile
      BY <2>1 DEF ReadFile
    <3> QED  BY <2>1, <3>1 DEF EchoInv, FileBacked, InFile, RobotReaches
  <2> QED  BY <2>3, <2>4, <2>5 DEF EchoInv
<1>4. CASE ClearReads
  <2>1. ReadCommands = IF RobotReaches THEN redis ELSE ReadFile
    BY DEF ReadCommands
  <2>2. pc = "fread" /\ pc' \in {"idle", "run", "fwrite"}
    BY <1>4 DEF ClearReads, NextCommand
  <2>3. CASE cur \in DOMAIN ReadCommands
    <3>1. got' = Without(ReadCommands, cur) /\ pc' = "fwrite"
          /\ UNCHANGED <<reach, redis, file, panel, http, todo, cur, backed>>
      BY <1>4, <2>3 DEF ClearReads, sender, past
    <3>2. DOMAIN got' = DOMAIN ReadCommands \ {cur} /\ ReadFile' = ReadFile
      BY <3>1 DEF ReadFile
    <3>3. DOMAIN got' \subseteq Keys
      BY <2>1, <3>2 DEF EchoInv, InKeys
    <3> QED  BY <2>1, <2>2, <3>1, <3>2, <3>3 DEF EchoInv, InKeys, RedisBacked,
             FileBacked, InRedis, InFile, RobotReaches
  <2>4. CASE cur \notin DOMAIN ReadCommands
    BY <1>4, <2>1, <2>2, <2>4 DEF ClearReads, NextCommand, EchoInv, InKeys,
       RedisBacked, FileBacked, InRedis, InFile, sender, past, RobotReaches, ReadFile
  <2> QED  BY <2>3, <2>4
<1>5. CASE ClearWrites
  <2>1. DOMAIN ReadFile' = DOMAIN got
    BY <1>5 DEF ClearWrites, ReadFile
  <2> QED  BY <1>5, <2>1 DEF ClearWrites, NextCommand, EchoInv, InKeys, RedisBacked,
           FileBacked, InRedis, InFile, sender, past, RobotReaches
<1>6. QED  BY <1>1, <1>2, <1>3, <1>4, <1>5 DEF Applying

(* The rest of the world: contents only shrink, an engine that ends        *)
(* forgets its poll, and a crash or a change of reachability vouches for   *)
(* every key.                                                              *)
LEMMA WorldStep ==
  ASSUME EchoInv, Supervised \/ EngineFails \/ Crash \/ Expire \/ Age \/ ReachChange
  PROVE  EchoInv'
<1> USE Domains, FileDomain
<1>1. CASE Supervised \/ EngineFails
  BY <1>1 DEF Supervised, EngineFails, NewEngine, EchoInv, InKeys, RedisBacked,
     FileBacked, InRedis, InFile, sender, past, RobotReaches, ReadFile
<1>2. CASE Crash
  BY <1>2 DEF Crash, EchoInv, InKeys, RedisBacked, FileBacked, InRedis, InFile
<1>3. CASE Expire
  BY <1>3 DEF Expire, EchoInv, InKeys, RedisBacked, FileBacked, InRedis, InFile,
     sender, poll, past, RobotReaches, ReadFile
<1>4. CASE Age
  <2>1. PICK k \in DOMAIN file.cmds :
          file' = [list |-> TRUE, cmds |-> Without(file.cmds, k)]
    BY <1>4 DEF Age
  <2>2. DOMAIN file'.cmds \subseteq DOMAIN file.cmds
        /\ DOMAIN ReadFile' \subseteq DOMAIN ReadFile
    <3>1. InKeys
      BY DEF EchoInv
    <3>2. file.list
      BY <1>4 DEF Age
    <3>3. file'.cmds = Without(file.cmds, k) /\ file'.list
      BY <2>1, <3>2
    <3>4. DOMAIN file'.cmds = DOMAIN file.cmds \ {k}
      <4>1. DOMAIN Without(file.cmds, k) = DOMAIN file.cmds \ {k}
        BY Domains
      <4> QED  BY <3>3, <4>1
    <3> QED  BY <3>2, <3>3, <3>4 DEF ReadFile
  <2> QED  BY <1>4, <2>2 DEF Age, EchoInv, InKeys, RedisBacked, FileBacked, InRedis,
           InFile, sender, poll, past, RobotReaches
<1>5. CASE ReachChange
  BY <1>5 DEF ReachChange, EchoInv, InKeys, RedisBacked, FileBacked, InRedis, InFile,
     sender, poll
<1>6. QED  BY <1>1, <1>2, <1>3, <1>4, <1>5

LEMMA EchoAlways == Spec => []EchoInv
<1>1. EchoInv /\ [Next]_vars => EchoInv'
  <2> SUFFICES ASSUME EchoInv, [Next]_vars PROVE EchoInv'
    OBVIOUS
  <2>1. CASE UNCHANGED vars
    BY <2>1 DEF vars, sender, poll, robot, past, EchoInv, InKeys, RedisBacked,
       FileBacked, InRedis, InFile, RobotReaches, ReadFile
  <2>2. CASE Next
    BY <2>2, SenderStep, PollStep, WorldStep DEF Next
  <2> QED  BY <2>1, <2>2
<1>2. QED  BY EchoInit, <1>1, PTL DEF Spec

(* A command about to be applied was written by a sender since it was      *)
(* applied last, whatever writes overtake each other (clear_command and    *)
(* redis_send_command, without a lock).                                    *)
THEOREM CommandsNotRepeated == Spec => []NoEcho
<1>1. EchoInv => NoEcho
  BY DEF EchoInv, NoEcho
<1>2. QED  BY EchoAlways, <1>1, PTL

-----------------------------------------------------------------------------
(***************************************************************************)
(* The channel implements its box, step by step: what a sender writes is   *)
(* put in, a poll takes, applying uses up, and clearing changes nothing.   *)
(***************************************************************************)
IdleInv == pc = "idle" => todo = {}

LEMMA IdleKept == IdleInv /\ [Next]_vars => IdleInv'
<1> SUFFICES ASSUME IdleInv, [Next]_vars PROVE IdleInv'
  OBVIOUS
<1> USE DEF IdleInv, poll, sender, robot, past
<1>1. CASE UNCHANGED vars \/ Sent
  BY <1>1 DEF vars, Sent, PanelWritesRedis, PanelWritesFile, HttpWrites
<1>2. CASE Send
  BY <1>2 DEF Send, PanelReads, HttpReads
<1>3. CASE Read \/ ClearRedis \/ ClearReads \/ ClearWrites
  BY <1>3 DEF Read, ClearRedis, ClearReads, ClearWrites, NextCommand
<1>4. CASE Applying
  BY <1>4 DEF Applying, Apply
<1>5. CASE Supervised \/ EngineFails \/ Crash \/ Expire \/ Age \/ ReachChange
  BY <1>5 DEF Supervised, EngineFails, NewEngine, Crash, Expire, Age, ReachChange
<1>6. QED  BY <1>1, <1>2, <1>3, <1>4, <1>5 DEF Next

(* A step that leaves the poll's batch alone and vouches for more keys     *)
(* puts them into the box, or nothing.                                     *)
LEMMA Puts ==
  ASSUME NEW keys \in SUBSET Keys, backed' = backed \cup keys, todo' = todo
  PROVE  Box!Put
BY DEF Box!Put

LEMMA BoxSteps ==
  ASSUME EchoInv, EchoInv', IdleInv, [Next]_vars
  PROVE  [Box!Next]_(Box!vars)
<1>1. CASE UNCHANGED <<backed, todo>>
  BY <1>1 DEF Box!vars
<1>2. CASE UNCHANGED vars \/ Send \/ ClearRedis \/ ClearReads \/ ClearWrites \/ Expire \/ Age
  BY <1>1, <1>2 DEF vars, Send, PanelReads, HttpReads, ClearRedis, ClearReads,
     ClearWrites, Expire, Age, poll, past
<1>3. CASE Sent
  <2>1. DOMAIN redis' \subseteq Keys /\ DOMAIN file'.cmds \subseteq Keys
    BY DEF EchoInv, InKeys
  <2>2. CASE PanelWritesRedis
    <3>1. CASE "panel" \in reach
      <4>1. backed' = backed \cup (IF RobotReaches THEN DOMAIN redis' ELSE {})
        BY <2>2, <3>1 DEF PanelWritesRedis, Back
      <4>2. todo' = todo
        BY <2>2 DEF PanelWritesRedis, poll
      <4> QED  BY <2>1, <4>1, <4>2, Puts DEF Box!Next
    <3>2. CASE "panel" \notin reach
      BY <1>1, <2>2, <3>2 DEF PanelWritesRedis, past, poll
    <3> QED  BY <3>1, <3>2
  <2>3. CASE PanelWritesFile
    <3>1. backed' = backed \cup (IF RobotReaches THEN {} ELSE DOMAIN file'.cmds)
          /\ todo' = todo
      BY <2>3 DEF PanelWritesFile, Back, poll
    <3> QED  BY <2>1, <3>1, Puts DEF Box!Next
  <2>4. CASE HttpWrites
    <3>1. backed' = backed \cup (IF RobotReaches THEN DOMAIN redis' ELSE DOMAIN file'.cmds)
          /\ todo' = todo
      BY <2>4 DEF HttpWrites, Back, poll
    <3> QED  BY <2>1, <3>1, Puts DEF Box!Next
  <2> QED  BY <1>3, <2>2, <2>3, <2>4 DEF Sent
<1>4. CASE Read
  <2>1. todo = {} /\ backed' = backed /\ todo' = ToApply(ReadCommands)
    BY <1>4 DEF Read, IdleInv
  <2>2. todo' \subseteq backed
    BY <2>1 DEF EchoInv
  <2>3. "pause" \in todo' => todo' \cap {"resume", "start"} = {}
    BY <2>1 DEF ToApply
  <2>4. Box!Take
    BY <2>1, <2>2, <2>3 DEF Box!Take, Box!Shielded
  <2> QED  BY <2>4 DEF Box!Next
<1>5. ASSUME NEW k \in Keys, Apply(k) PROVE [Box!Next]_(Box!vars)
  <2>1. k \in todo /\ todo' = todo \ {k} /\ backed' = backed \ {k}
        /\ \A j \in todo : Rank[k] <= Rank[j]
    BY <1>5 DEF Apply, First
  <2>2. Box!Apply(k)
    BY <2>1 DEF Box!Apply
  <2> QED  BY <2>1, <2>2 DEF Box!Next
<1>6. CASE Supervised \/ EngineFails
  <2>1. Box!Abandon
    BY <1>6 DEF Supervised, EngineFails, NewEngine, past, Box!Abandon
  <2> QED  BY <2>1 DEF Box!Next
<1>7. CASE Crash \/ ReachChange
  <2>1. Box!Doubt
    BY <1>7 DEF Crash, ReachChange, poll, Box!Doubt
  <2> QED  BY <2>1 DEF Box!Next
<1>8. QED  BY <1>2, <1>3, <1>4, <1>5, <1>6, <1>7 DEF Next, Applying

(* The channel keeps its promise: what the engine takes is what was        *)
(* written since it was applied, nothing a pause shields is taken with     *)
(* one, and each command is used up by being applied, in the order of      *)
(* _process_commands(), however reads, writes and clear_command() overtake *)
(* each other.                                                             *)
THEOREM ChannelKeepsPromise == Spec => TakenOncePerWrite
<1>1. Init => IdleInv /\ Box!Init
  BY DEF Init, IdleInv, Box!Init
<1>2. IdleInv /\ [Next]_vars => IdleInv'
  BY IdleKept
<1>3. EchoInv /\ EchoInv' /\ IdleInv /\ [Next]_vars => [Box!Next]_(Box!vars)
  BY BoxSteps
<1>4. QED  BY <1>1, <1>2, <1>3, EchoAlways, PTL DEF Spec, TakenOncePerWrite, Box!Spec

-----------------------------------------------------------------------------
(* Types: what is built from dictionaries is one.  A dictionary is known   *)
(* by its keys and what they carry.                                        *)
Values == {Flag, Empty, Config}

LEMMA DictionaryIs ==
  ASSUME NEW S \in SUBSET Keys, NEW d \in [S -> Values]
  PROVE  d \in Dictionaries
BY DEF Dictionaries, Values

LEMMA IsDictionary ==
  ASSUME NEW d \in Dictionaries
  PROVE  DOMAIN d \in SUBSET Keys /\ d \in [DOMAIN d -> Values]
BY DEF Dictionaries, Values

LEMMA Built ==
  /\ NoCommands \in Dictionaries
  /\ \A d \in Dictionaries : \A k : Without(d, k) \in Dictionaries
  /\ \A d \in Dictionaries : \A k \in Keys : \A v \in Values :
       With(d, k, v) \in Dictionaries
<1>1. NoCommands \in Dictionaries
  <2>1. NoCommands \in [{} -> Values]
    BY DEF NoCommands
  <2> QED  BY <2>1, DictionaryIs
<1>2. ASSUME NEW d \in Dictionaries, NEW k PROVE Without(d, k) \in Dictionaries
  <2>1. Without(d, k) \in [DOMAIN d \ {k} -> Values] /\ DOMAIN d \ {k} \in SUBSET Keys
    BY IsDictionary DEF Without
  <2> QED  BY <2>1, DictionaryIs
<1>3. ASSUME NEW d \in Dictionaries, NEW k \in Keys, NEW v \in Values
      PROVE  With(d, k, v) \in Dictionaries
  <2>1. With(d, k, v) \in [DOMAIN d \cup {k} -> Values]
        /\ DOMAIN d \cup {k} \in SUBSET Keys
    BY IsDictionary DEF With
  <2> QED  BY <2>1, DictionaryIs
<1>4. QED  BY <1>1, <1>2, <1>3

LEMMA ReadTyped ==
  ASSUME TypeOK
  PROVE  ReadFile \in Dictionaries /\ ListRead \in Dictionaries
         /\ ReadCommands \in Dictionaries
<1>1. file.cmds \in Dictionaries /\ redis \in Dictionaries
  BY DEF TypeOK
<1>2. [k \in DOMAIN file.cmds \ Configs |-> Flag] \in Dictionaries
  <2>1. DOMAIN file.cmds \ Configs \in SUBSET Keys
    BY <1>1, IsDictionary
  <2>2. [k \in DOMAIN file.cmds \ Configs |-> Flag] \in [DOMAIN file.cmds \ Configs -> Values]
    BY DEF Values
  <2> QED  BY <2>1, <2>2, DictionaryIs
<1>3. QED  BY <1>1, <1>2, Built DEF ReadFile, ListRead, ReadCommands

LEMMA ValuesTyped ==
  /\ Flag \in Values
  /\ \A k : PanelValue(k) \in Values /\ HttpValue(k) \in Values
BY DEF Values, PanelValue, HttpValue

LEMMA AppendedTyped ==
  ASSUME NEW d \in Dictionaries, NEW k \in Keys
  PROVE  Appended(d, k) \in [list : BOOLEAN, cmds : Dictionaries]
<1>1. With(d, k, Flag) \in Dictionaries
  BY Built, ValuesTyped
<1>2. QED  BY <1>1 DEF Appended

LEMMA SenderTyped ==
  ASSUME TypeOK, Send \/ Sent
  PROVE  TypeOK'
<1>1. ASSUME NEW k \in Keys, PanelReads(k) PROVE TypeOK'
  <2>1. panel' \in Sends
    <3>1. (IF panel'.to = "redis" THEN redis ELSE ListRead) \in Dictionaries
      BY ReadTyped DEF TypeOK
    <3> QED  BY <1>1, <3>1, ReadTyped DEF PanelReads, Sends, TypeOK
  <2> QED  BY <1>1, <2>1, ChannelAssumption
           DEF PanelReads, Sending, TypeOK, poll, robot, past, ChannelAssumption
<1>2. ASSUME NEW k \in Keys, HttpReads(k) PROVE TypeOK'
  <2>1. http' \in Sends
    BY <1>2 DEF HttpReads, Sends, TypeOK
  <2> QED  BY <1>2, <2>1, ChannelAssumption
           DEF HttpReads, Sending, TypeOK, poll, robot, past, ChannelAssumption
<1>3. CASE PanelWritesRedis
  <2>1. panel.key \in Keys /\ panel.read \in Dictionaries
    BY <1>3 DEF PanelWritesRedis, TypeOK, Sends
  <2> DEFINE d == With(panel.read, panel.key, PanelValue(panel.key))
  <2>2. d \in Dictionaries /\ DOMAIN d \subseteq Keys
    <3>1. d \in Dictionaries
      BY <2>1, Built, ValuesTyped
    <3> HIDE DEF d
    <3> QED  BY <3>1, IsDictionary
  <2>3. CASE "panel" \in reach
    <3>1. redis' = d /\ backed' = backed \cup (IF RobotReaches THEN DOMAIN d ELSE {})
          /\ later' = (later \/ panel.key \in Unpausing) /\ panel' = NoSend
          /\ UNCHANGED <<reach, file, http, sends, poll, robot>>
      BY <1>3, <2>3 DEF PanelWritesRedis, Back
    <3> HIDE DEF d
    <3> QED  BY <2>2, <3>1 DEF TypeOK, poll, robot
  <2>4. CASE "panel" \notin reach
    BY <1>3, <2>4 DEF PanelWritesRedis, TypeOK, poll, robot, past
  <2> QED  BY <2>3, <2>4
<1>4. CASE PanelWritesFile
  <2>1. panel.key \in Keys /\ panel.read \in Dictionaries
    BY <1>4 DEF PanelWritesFile, TypeOK, Sends
  <2>2. file' \in [list : BOOLEAN, cmds : Dictionaries]
    BY <1>4, <2>1, AppendedTyped DEF PanelWritesFile
  <2>3. DOMAIN file'.cmds \subseteq Keys
    BY <2>2, IsDictionary
  <2> QED  BY <1>4, <2>2, <2>3 DEF PanelWritesFile, Back, TypeOK, poll, robot
<1>5. CASE HttpWrites
  <2>1. http.key \in Keys /\ http.read \in Dictionaries /\ redis \in Dictionaries
    BY <1>5 DEF HttpWrites, TypeOK, Sends
  <2>2. file' \in [list : BOOLEAN, cmds : Dictionaries]
    BY <1>5, <2>1, AppendedTyped, ReadTyped DEF HttpWrites
  <2>3. redis' \in Dictionaries
    <3>1. With(http.read, http.key, HttpValue(http.key)) \in Dictionaries
      BY <2>1, Built, ValuesTyped
    <3> QED  BY <1>5, <2>1, <3>1 DEF HttpWrites
  <2>4. DOMAIN file'.cmds \subseteq Keys /\ DOMAIN redis' \subseteq Keys
    BY <2>2, <2>3, IsDictionary
  <2>5. backed' = backed \cup (IF RobotReaches THEN DOMAIN redis' ELSE DOMAIN file'.cmds)
        /\ later' = (later \/ http.key \in Unpausing) /\ http' = NoSend
        /\ UNCHANGED <<reach, panel, sends, poll, robot>>
    BY <1>5 DEF HttpWrites, Back
  <2> QED  BY <2>2, <2>3, <2>4, <2>5 DEF TypeOK, poll, robot
<1>6. QED  BY <1>1, <1>2, <1>3, <1>4, <1>5 DEF Send, Sent

LEMMA PollTyped ==
  ASSUME TypeOK, Read \/ Applying \/ ClearRedis \/ ClearReads \/ ClearWrites
  PROVE  TypeOK'
<1>1. CASE Read
  <2>1. todo' \subseteq Keys
    <3>1. DOMAIN ReadCommands \subseteq Keys
      BY ReadTyped, IsDictionary
    <3> QED  BY <1>1, <3>1 DEF Read, ToApply
  <2> QED  BY <1>1, <2>1 DEF Read, TypeOK, sender, robot
<1>2. ASSUME NEW k \in Keys, Apply(k) PROVE TypeOK'
  <2>1. paused' \in BOOLEAN /\ running' \in BOOLEAN
    BY <1>2 DEF Apply, Effect, TypeOK
  <2>2. got' \in Dictionaries
    BY <1>2, Built DEF Apply, TypeOK
  <2> QED  BY <1>2, <2>1, <2>2 DEF Apply, TypeOK, sender
<1>3. CASE ClearRedis
  <2>1. redis' \in Dictionaries /\ got' \in Dictionaries
    BY <1>3, Built DEF ClearRedis, TypeOK
  <2> QED  BY <1>3, <2>1 DEF ClearRedis, TypeOK, sender, robot, past
<1>4. CASE ClearReads
  <2>1. got' \in Dictionaries
    BY <1>4, Built, ReadTyped DEF ClearReads, TypeOK
  <2>2. \/ pc' = "fwrite" /\ cur' = cur /\ cur \in Keys
        \/ pc' \in {"idle", "run"} /\ cur' = NoSend /\ (pc' = "run" => todo' # {})
    BY <1>4 DEF ClearReads, NextCommand, TypeOK
  <2> QED  BY <1>4, <2>1, <2>2 DEF ClearReads, TypeOK, sender, robot, past
<1>5. CASE ClearWrites
  <2>1. file' \in [list : BOOLEAN, cmds : Dictionaries] /\ got' \in Dictionaries
    BY <1>5, Built DEF ClearWrites, TypeOK
  <2> QED  BY <1>5, <2>1 DEF ClearWrites, NextCommand, TypeOK, sender, robot, past
<1>6. QED  BY <1>1, <1>2, <1>3, <1>4, <1>5 DEF Applying

LEMMA WorldTyped ==
  ASSUME TypeOK, Supervised \/ EngineFails \/ Crash \/ Expire \/ Age \/ ReachChange
  PROVE  TypeOK'
<1>1. CASE Supervised \/ EngineFails
  BY <1>1, Built DEF Supervised, EngineFails, NewEngine, TypeOK, sender, past
<1>2. CASE Crash
  BY <1>2, Built DEF Crash, TypeOK
<1>3. CASE Expire
  BY <1>3, Built DEF Expire, TypeOK, sender, poll, robot, past
<1>4. CASE Age
  <2>1. PICK k \in DOMAIN file.cmds :
          file' = [list |-> TRUE, cmds |-> Without(file.cmds, k)]
    BY <1>4 DEF Age
  <2>2. file' \in [list : BOOLEAN, cmds : Dictionaries]
    <3>1. Without(file.cmds, k) \in Dictionaries
      BY Built DEF TypeOK
    <3> QED  BY <2>1, <3>1
  <2> QED  BY <1>4, <2>2 DEF Age, TypeOK, sender, poll, robot, past
<1>5. CASE ReachChange
  BY <1>5, ChannelAssumption DEF ReachChange, TypeOK, sender, poll, robot, ChannelAssumption
<1>6. QED  BY <1>1, <1>2, <1>3, <1>4, <1>5

(* Types: whatever is read, changed and written back, both stores hold     *)
(* commands the engine knows, each with a value it can take, and while a   *)
(* command is being cleared it is known which one.                         *)
THEOREM ChannelTypes == Spec => []TypeOK
<1>1. Init => TypeOK
  <2> SUFFICES ASSUME Init PROVE TypeOK
    OBVIOUS
  <2>1. reach \in SUBSET {"robot", "panel"} /\ sends \in 0..MaxSends
    BY ChannelAssumption DEF Init, ChannelAssumption
  <2>2. redis \in Dictionaries /\ got \in Dictionaries
        /\ file \in [list : BOOLEAN, cmds : Dictionaries]
    BY Built DEF Init
  <2> QED  BY <2>1, <2>2 DEF Init, TypeOK
<1>2. TypeOK /\ [Next]_vars => TypeOK'
  <2> SUFFICES ASSUME TypeOK, [Next]_vars PROVE TypeOK'
    OBVIOUS
  <2>1. CASE UNCHANGED vars
    BY <2>1 DEF vars, sender, poll, robot, past, TypeOK
  <2>2. CASE Next
    BY <2>2, SenderTyped, PollTyped, WorldTyped DEF Next
  <2> QED  BY <2>1, <2>2
<1>3. QED  BY <1>1, <1>2, PTL DEF Spec
=============================================================================
