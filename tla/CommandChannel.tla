---------------------------- MODULE CommandChannel ----------------------------
(***************************************************************************)
(* How an operator's command reaches the engine: a dictionary under one    *)
(* Redis key and a command file, each read, changed and written back       *)
(* without a lock by two processes, the panel and the robot.  The robot's  *)
(* process is one thread: its HTTP handler /command runs only while the    *)
(* engine waits, and the engine waits for the handler.                     *)
(*                                                                         *)
(* pc is where the engine is in _process_commands():                       *)
(*   idle   between polls, asleep          rset    clearing: Redis read    *)
(*   run    about to apply a command       fread   clearing: Redis done    *)
(*                                         fwrite  clearing: file read     *)
(* What a command does is modelled as far as the channel's promises need   *)
(* it: whether the robot is paused and whether the engine goes on.         *)
(***************************************************************************)
EXTENDS Integers, FiniteSets

CONSTANTS
  Keys,          \* engine keys in use: some of the keys of Rank
  Reachable,     \* the sets of processes that may reach Redis
  ReachChanges,  \* whether that may change
  MaxSends,      \* bound of the commands sent
  NoSend

(* The order in which _process_commands() looks for the keys.              *)
Rank == [pause |-> 1, resume |-> 2, stop |-> 3, close_all |-> 4,
         reset_guardian |-> 5, start |-> 6, restart_engine |-> 7,
         restart_mt5 |-> 8, restart_telegram |-> 9, update_risk |-> 10,
         update_strategy |-> 11]

ASSUME ChannelAssumption ==
  /\ Keys \subseteq DOMAIN Rank
  /\ Reachable \subseteq SUBSET {"robot", "panel"}
  /\ ReachChanges \in BOOLEAN /\ MaxSends \in Nat

(* What a key may carry: TRUE, a configuration, or the empty dictionary,   *)
(* which Python takes for false.                                           *)
Flag == "true"
Empty == "empty"
Config == "config"
Truthy(v) == v # Empty

Configs == {"update_risk", "update_strategy"}   \* keys whose payload is a configuration
TradeKeys == {"close_all"}                      \* the trade service sends these with {}
Unpausing == {"resume", "start", "reset_guardian"}
Ending == {"stop", "restart_engine"}
Waiting == {"close_all", "reset_guardian", "restart_mt5"} \* applied with an await

NoCommands == [k \in {} |-> Flag]
Dictionaries == UNION {[S -> {Flag, Empty, Config}] : S \in SUBSET Keys}

VARIABLES
  reach,        \* the processes whose client reaches Redis
  redis,        \* the dictionary under goldscalper:commands
  file,         \* COMMANDS_FILE: a list of sent commands, or a dictionary
  panel, http,  \* a send in progress: what was read, before it is written
  pc, todo, cur, got, \* the poll: commands to apply, the one to clear, what was read
  paused, running,
  sends,
  backed,       \* history: keys a sender wrote since they were last applied
  later         \* history: an unpausing command was sent since the last pause was read

sender == <<panel, http, sends>>
poll   == <<pc, todo, cur, got>>
robot  == <<paused, running>>
past   == <<backed, later>>
vars   == <<reach, redis, file, sender, poll, robot, past>>

Sends == [key : Keys, to : {"redis", "file"}, read : Dictionaries]

TypeOK ==
  /\ reach \in SUBSET {"robot", "panel"}
  /\ redis \in Dictionaries
  /\ file \in [list : BOOLEAN, cmds : Dictionaries]
  /\ panel \in Sends \cup {NoSend} /\ http \in Sends \cup {NoSend}
  /\ pc \in {"idle", "run", "rset", "fread", "fwrite"}
  /\ todo \subseteq Keys /\ cur \in Keys \cup {NoSend} /\ got \in Dictionaries
  /\ pc = "run" => todo # {}
  /\ pc \in {"rset", "fread", "fwrite"} => cur \in Keys
  /\ paused \in BOOLEAN /\ running \in BOOLEAN
  /\ sends \in 0..MaxSends
  /\ backed \subseteq Keys /\ later \in BOOLEAN

Init ==
  /\ reach \in Reachable
  /\ redis = NoCommands /\ file = [list |-> TRUE, cmds |-> NoCommands]
  /\ panel = NoSend /\ http = NoSend
  /\ pc = "idle" /\ todo = {} /\ cur = NoSend /\ got = NoCommands
  /\ paused = FALSE /\ running = TRUE
  /\ sends = 0 /\ backed = {} /\ later = FALSE

Without(d, k) == [j \in DOMAIN d \ {k} |-> d[j]]
With(d, k, v) == [j \in DOMAIN d \cup {k} |-> IF j = k THEN v ELSE d[j]]

RobotReaches == "robot" \in reach

(* read_commands(): the file counts only when Redis is not reachable.  A   *)
(* list becomes a dictionary of flags; the configuration commands are not  *)
(* in its table.                                                           *)
ReadFile ==
  IF file.list THEN [k \in DOMAIN file.cmds \ Configs |-> Flag] ELSE file.cmds

ReadCommands == IF RobotReaches THEN redis ELSE ReadFile

-----------------------------------------------------------------------------
(***************************************************************************)
(* Senders.  redis_send_command() reads the dictionary and writes it back  *)
(* with the new key; the file is a list to which a command is appended,    *)
(* and a dictionary found there is thrown away.                            *)
(***************************************************************************)
PanelValue(k) ==
  CASE k \in TradeKeys -> Empty [] k \in Configs -> Config [] OTHER -> Flag

HttpValue(k) == IF k \in Configs THEN Config ELSE Empty

Appended(read, k) == [list |-> TRUE, cmds |-> With(read, k, Flag)]
ListRead == IF file.list THEN file.cmds ELSE NoCommands

Back(keys, k) ==
  /\ backed' = backed \cup keys
  /\ later' = (later \/ k \in Unpausing)

Sending(k) ==
  /\ sends < MaxSends /\ sends' = sends + 1
  /\ panel = NoSend /\ http = NoSend

PanelReads(k) ==
  LET to == IF "panel" \in reach THEN "redis" ELSE "file"
  IN  /\ Sending(k)
      /\ to = "file" => k \notin TradeKeys
      /\ panel' = [key |-> k, to |-> to,
                   read |-> IF to = "redis" THEN redis ELSE ListRead]
      /\ UNCHANGED <<reach, redis, file, http, poll, robot, past>>

PanelWritesRedis ==
  /\ panel # NoSend /\ panel.to = "redis" /\ panel' = NoSend
  /\ IF "panel" \in reach
     THEN LET d == With(panel.read, panel.key, PanelValue(panel.key))
          IN  redis' = d /\ Back(IF RobotReaches THEN DOMAIN d ELSE {}, panel.key)
     ELSE UNCHANGED <<redis, past>>
  /\ UNCHANGED <<reach, file, http, sends, poll, robot>>

PanelWritesFile ==
  /\ panel # NoSend /\ panel.to = "file" /\ panel' = NoSend
  /\ file' = Appended(panel.read, panel.key)
  /\ Back(IF RobotReaches THEN {} ELSE DOMAIN file'.cmds, panel.key)
  /\ UNCHANGED <<reach, redis, http, sends, poll, robot>>

(* POST /command, the panel's second choice: mirrored to Redis, with the   *)
(* payload {} when there is none, and appended to the file.                *)
First(k) == \A j \in todo : Rank[k] <= Rank[j]

EngineWaits == pc = "idle" \/ (pc = "run" /\ \E k \in todo \cap Waiting : First(k))

HttpReads(k) ==
  /\ "panel" \notin reach /\ k \notin TradeKeys
  /\ EngineWaits
  /\ Sending(k)
  /\ http' = [key |-> k, to |-> IF RobotReaches THEN "redis" ELSE "file", read |-> redis]
  /\ UNCHANGED <<reach, redis, file, panel, poll, robot, past>>

HttpWrites ==
  /\ http # NoSend /\ http' = NoSend
  /\ file' = Appended(ListRead, http.key)
  /\ LET d == With(http.read, http.key, HttpValue(http.key))
     IN  /\ redis' = IF http.to = "redis" /\ RobotReaches THEN d ELSE redis
         /\ Back(IF RobotReaches THEN DOMAIN redis' ELSE DOMAIN file'.cmds, http.key)
  /\ UNCHANGED <<reach, panel, sends, poll, robot>>

-----------------------------------------------------------------------------
(***************************************************************************)
(* The engine's poll.                                                      *)
(***************************************************************************)
(* A pause in the same poll makes the engine pass over resume and start,   *)
(* which stay where they are.                                              *)
ToApply(d) ==
  LET set == {k \in DOMAIN d : Truthy(d[k])}
  IN  IF "pause" \in set THEN set \ {"resume", "start"} ELSE set

Turn == http = NoSend

Read ==
  /\ Turn /\ pc = "idle" /\ running
  /\ todo' = ToApply(ReadCommands)
  /\ pc' = IF todo' = {} THEN "idle" ELSE "run"
  /\ later' = (later /\ "pause" \notin todo')
  /\ UNCHANGED <<reach, redis, file, sender, cur, got, robot, backed>>

(* A halted guardian refuses to unpause (see RobotHalt).                   *)
Effect(k) ==
  /\ paused' \in (CASE k = "pause" -> {TRUE}
                    [] k \in Unpausing -> {FALSE, paused}
                    [] OTHER -> {paused})
  /\ running' = (running /\ k \notin Ending)

(* clear_command() follows and first reads the Redis dictionary.           *)
Apply(k) ==
  /\ Turn /\ pc = "run" /\ k \in todo /\ First(k)
  /\ Effect(k)
  /\ pc' = "rset" /\ todo' = todo \ {k} /\ cur' = k
  /\ got' = IF RobotReaches THEN redis ELSE NoCommands
  /\ backed' = backed \ {k}
  /\ UNCHANGED <<reach, redis, file, sender, later>>

(* Faulty variant: only the file is cleared. *)
ClearRedisNot ==
  /\ pc = "rset" /\ pc' = "fread"
  /\ got' = NoCommands
  /\ UNCHANGED <<reach, redis, file, sender, todo, cur, robot, past>>

ClearRedis ==
  /\ pc = "rset" /\ pc' = "fread"
  /\ redis' = IF RobotReaches /\ cur \in DOMAIN got THEN Without(got, cur) ELSE redis
  /\ got' = NoCommands
  /\ UNCHANGED <<reach, file, sender, todo, cur, robot, past>>

NextCommand(rest) == pc' = IF rest = {} THEN "idle" ELSE "run"

(* Faulty variant: the file is not cleared. *)
ClearReadsNothing ==
  /\ pc = "fread"
  /\ NextCommand(todo) /\ cur' = NoSend
  /\ UNCHANGED <<got, reach, redis, file, sender, todo, robot, past>>

(* Then it reads the commands as a poll does and, if the key is there,     *)
(* writes the file as a dictionary, even when it read Redis.               *)
ClearReads ==
  /\ pc = "fread"
  /\ IF cur \in DOMAIN ReadCommands
     THEN got' = Without(ReadCommands, cur) /\ pc' = "fwrite" /\ UNCHANGED cur
     ELSE NextCommand(todo) /\ cur' = NoSend /\ UNCHANGED got
  /\ UNCHANGED <<reach, redis, file, sender, todo, robot, past>>

ClearWrites ==
  /\ pc = "fwrite"
  /\ file' = [list |-> FALSE, cmds |-> got]
  /\ NextCommand(todo) /\ cur' = NoSend /\ got' = NoCommands
  /\ UNCHANGED <<reach, redis, sender, todo, robot, past>>

-----------------------------------------------------------------------------
(***************************************************************************)
(* The world.                                                              *)
(***************************************************************************)
(* An engine that was told to end, or fails, is followed by a new one,     *)
(* which starts paused only if its guardian was halted.                    *)
NewEngine ==
  /\ pc' = "idle" /\ todo' = {} /\ cur' = NoSend /\ got' = NoCommands
  /\ running' = TRUE /\ paused' \in BOOLEAN
  /\ UNCHANGED <<reach, redis, file, sender, past>>

Supervised == Turn /\ pc = "idle" /\ ~running /\ NewEngine

EngineFails == Turn /\ pc = "run" /\ NewEngine

(* The process dies at any point.                                          *)
Crash ==
  /\ pc # "idle" \/ http # NoSend
  /\ http' = NoSend
  /\ pc' = "idle" /\ todo' = {} /\ cur' = NoSend /\ got' = NoCommands
  /\ running' = TRUE /\ paused' \in BOOLEAN
  /\ backed' = Keys /\ UNCHANGED later
  /\ UNCHANGED <<reach, redis, file, panel, sends>>

(* Five minutes without a write.                                           *)
Expire ==
  /\ redis # NoCommands /\ redis' = NoCommands
  /\ UNCHANGED <<reach, file, sender, poll, robot, past>>

(* A command in the list grows too old to be taken from it.                *)
Age ==
  /\ file.list
  /\ \E k \in DOMAIN file.cmds : file' = [list |-> TRUE, cmds |-> Without(file.cmds, k)]
  /\ UNCHANGED <<reach, redis, sender, poll, robot, past>>

ReachChange ==
  /\ ReachChanges /\ reach' \in Reachable \ {reach}
  /\ backed' = Keys /\ UNCHANGED later
  /\ UNCHANGED <<redis, file, sender, poll, robot>>

Send == \E k \in Keys : PanelReads(k) \/ HttpReads(k)
Sent == PanelWritesRedis \/ PanelWritesFile \/ HttpWrites
Applying == \E k \in Keys : Apply(k)

Next ==
  \/ Send \/ Sent
  \/ Read \/ Applying \/ ClearRedis \/ ClearReads \/ ClearWrites
  \/ Supervised \/ EngineFails \/ Crash \/ Expire \/ Age \/ ReachChange

Spec == Init /\ [][Next]_vars

(* One event loop runs the engine, the handler and the supervisor, and a   *)
(* send that began ends.  Failures may come again and again, but not       *)
(* always at the same point of a poll, hence strong fairness.  Operators,  *)
(* failures and the passing of time are not fair.                          *)
Fairness ==
  /\ WF_vars(Sent) /\ WF_vars(Supervised)
  /\ SF_vars(Read) /\ SF_vars(Applying)
  /\ SF_vars(ClearRedis) /\ SF_vars(ClearReads) /\ SF_vars(ClearWrites)

FairSpec == Spec /\ Fairness

-----------------------------------------------------------------------------
(***************************************************************************)
(* Properties.                                                             *)
(***************************************************************************)
(* A command is applied once for each time a sender wrote it: whatever     *)
(* writes of the panel, of the handler and of the engine's clearing        *)
(* overtake each other, the channel brings back no command by itself, as   *)
(* long as the process lives and Redis stays as reachable as it was.       *)
NoEcho == pc = "run" => todo \subseteq backed

Box == INSTANCE CommandBox WITH owed <- backed, batch <- todo

(* The whole promise: with its reads, writes and clearings overtaking each *)
(* other, the channel is a box out of which each command is taken once for *)
(* each time it was put in, and without those a pause shields.             *)
TakenOncePerWrite == Box!Spec

(* When the operators are quiet and Redis is as reachable as it was, the   *)
(* engine works through what there is to apply, whatever failures and      *)
(* restarts interrupt its polls: no command is applied for ever.           *)
Quiet(r) == reach = r /\ panel = NoSend /\ http = NoSend

Drained ==
  \A r \in Reachable : <>[]Quiet(r) => <>[](ToApply(ReadCommands) = {})

(* FINAL_RELEASE_NOTES.md, PY-08: with pause and resume in one poll "pause *)
(* now deterministically wins over resume": a pause that was applied is    *)
(* lifted only by a command sent after the poll that read the pause.       *)
PauseWins ==
  [][(pc = "run" /\ pc' = "rset" /\ paused /\ ~paused') => later]_vars
=============================================================================
