----------------------------- MODULE PanelAlerts -----------------------------
(***************************************************************************)
(* The alerts of the Telegram panel during one life of its process: the    *)
(* heartbeat monitor (telegram_panel/core/heartbeat.py) looks at what the  *)
(* robot last wrote and publishes what changed, the event bus              *)
(* (core/event_bus.py) hands every event to its subscriber, and the        *)
(* notification service (services/notification_service.py) sends a message *)
(* to one recipient after the other, with retries.  Three coroutines, two  *)
(* bounded queues between them; each step runs from one await to the next. *)
(*                                                                         *)
(* An event is a kind or the ticket of a new trade, and is known by its    *)
(* place in published.  "noted" stands for robot.started, .stopped and     *)
(* .paused, which nobody subscribes to; the status "paused" stands for     *)
(* stopped too, and "idle" for those whose onset publishes nothing         *)
(* (starting, waiting, scanning, holding, disconnected).                   *)
(***************************************************************************)
EXTENDS Integers, Sequences, FiniteSets, Functions

CONSTANTS
  Tickets,
  Owner, Admins,          \* a chat id, and the sequence of the other ones
  Statuses,               \* the statuses the robot writes
  BusSize, QueueSize,     \* capacities of the two queues
  MaxAttempts,
  NoView,                 \* None for _last_status
  MaxPublished            \* bound: no check goes on once there are as many events

Kinds == {"lost", "restored", "error", "noted", "beat"}

ASSUME SizeAssumption ==
  /\ BusSize \in Nat \ {0} /\ QueueSize \in Nat \ {0}
  /\ MaxAttempts \in Nat \ {0}
  /\ MaxPublished \in Nat

ASSUME NameAssumption ==
  /\ Admins \in Seq(Range(Admins))
  /\ Statuses \subseteq {"running", "paused", "error", "idle"}
  /\ "idle" \in Statuses /\ NoView \notin Statuses \cup {"connected", "disconnected"}
  /\ IsFiniteSet(Tickets) /\ Tickets \cap Kinds = {}

VARIABLES
  monitor,    \* where the heartbeat monitor is: "asleep", "status", "rows"
  status,     \* the status the check under way has read
  lastStatus, lastConn,
  timer,      \* _last_hb_notify: "never", "recent" or "due"
  polled,     \* whether _known_position_tickets is a set already
  known,      \* that set
  bus,        \* the event bus's queue, and the event in its worker's hands
  handling,
  queue,      \* the notification service's queue, and its worker's delivery
  job,
  published,  \* history: the events, in order
  baseline,   \* history: the tickets of the first poll
  inbox,      \* history: the messages each recipient has got, repeats in a row once
  lost        \* history: pairs of an event and a recipient given up on

monitoring == <<monitor, status, lastStatus, lastConn, timer, polled, known,
                baseline>>
vars == <<monitoring, bus, handling, queue, job, published, inbox, lost>>

Recipients == {Owner} \cup Range(Admins)
Connections == {"connected", "disconnected"}
Events == Kinds \cup Tickets
NoJob  == [id |-> 0, to |-> <<>>, attempt |-> 1, at |-> "send"]
Jobs   == [id : Nat, to : Seq(Recipients), attempt : 1..MaxAttempts,
           at : {"send", "book", "giveup"}]

TypeOK ==
  /\ monitor \in {"asleep", "status", "rows"} /\ status \in Statuses
  /\ lastStatus \in Statuses \cup {NoView}
  /\ lastConn \in Connections \cup {NoView}
  /\ timer \in {"never", "recent", "due"}
  /\ polled \in BOOLEAN
  /\ known \in SUBSET Tickets /\ baseline \in SUBSET Tickets
  /\ bus \in Seq(Nat) /\ Len(bus) <= BusSize /\ handling \in Nat
  /\ queue \in Seq(Nat) /\ Len(queue) <= QueueSize
  /\ job \in Jobs
  /\ published \in Seq(Events)
  /\ inbox \in [Recipients -> Seq(Nat)]
  /\ lost \in SUBSET (Nat \X Recipients)

Init ==
  /\ monitor = "asleep" /\ status = "idle"
  /\ lastStatus = NoView /\ lastConn = NoView
  /\ timer = "never" /\ polled = FALSE /\ known = {} /\ baseline = {}
  /\ bus = <<>> /\ handling = 0 /\ queue = <<>> /\ job = NoJob
  /\ published = <<>> /\ inbox = [r \in Recipients |-> <<>>] /\ lost = {}

-----------------------------------------------------------------------------
(***************************************************************************)
(* Publishing.  A full bus drops the event with a warning.                 *)
(***************************************************************************)
Addressees(e) ==
  CASE e \in Tickets \cup {"lost", "restored", "error"} -> <<Owner>> \o Admins
    [] e = "beat" -> <<Owner>>
    [] OTHER -> <<>>

Unsent(ids, events) == UNION {{i} \X Range(Addressees(events[i])) : i \in ids}

Publish(events) ==
  LET room == BusSize - Len(bus)
      kept == IF Len(events) <= room THEN Len(events) ELSE room
      last == Len(published) + kept
  IN  /\ published' = published \o events
      /\ bus' = bus \o [k \in 1..kept |-> Len(published) + k]
      /\ lost' = lost \cup Unsent((last + 1)..Len(published'), published')

-----------------------------------------------------------------------------
(***************************************************************************)
(* HeartbeatMonitor._check(): a read for the status, a second one for the  *)
(* connection, and one of the positions, with an await in each.            *)
(***************************************************************************)
(* RobotService._read_state() shows whatever the robot last wrote, seconds  *)
(* ago when it is cached; a state that cannot be read, or whose heartbeat  *)
(* is more than 3 minutes old, shows as disconnected with an idle status.  *)
(* So a read may show anything, and the next one anything else.            *)
LookAtStatus ==
  /\ monitor = "asleep"
  /\ status' \in Statuses
  /\ monitor' = "status"
  /\ UNCHANGED <<lastStatus, lastConn, timer, polled, known,
                 baseline, bus, handling, queue, job, published, inbox, lost>>

Turned(was, is) == was # NoView /\ is # was

StatusEvents(was, is) ==
  IF ~Turned(was, is) \/ is = "idle" THEN <<>>
  ELSE IF is = "error" THEN <<"error">> ELSE <<"noted">>

\* Faulty variant: only the loss is announced.
ConnEventsOnlyLoss(was, is) ==
  IF Turned(was, is) /\ is = "disconnected" THEN <<"lost">> ELSE <<>>

ConnEvents(was, is) ==
  IF ~Turned(was, is) THEN <<>>
  ELSE IF is = "disconnected" THEN <<"lost">> ELSE <<"restored">>

(* The connection may come from a read of its own.                         *)
JudgeStatus ==
  \E conn \in Connections :
    LET started == Turned(lastStatus, status) /\ status = "running"
        beats   == status = "running" /\ ~started /\ timer # "recent"
    IN  /\ monitor = "status" /\ Len(published) < MaxPublished
        /\ Publish(StatusEvents(lastStatus, status) \o ConnEvents(lastConn, conn)
                     \o IF beats THEN <<"beat">> ELSE <<>>)
        /\ lastStatus' = status /\ lastConn' = conn
        /\ timer' = IF started \/ beats THEN "recent" ELSE timer
        /\ monitor' = "rows"
        /\ UNCHANGED <<status, polled, known, baseline, handling, queue, job, inbox>>

\* Faulty variant: the tickets of this cycle replace those of the earlier ones.
KnownAfterReplaced(seen) == seen

(* The set only ever grows.                                                *)
KnownAfter(seen) == known \cup seen

Orders(S) == {s \in [1..Cardinality(S) -> S] : IsInjective(s)}

(* Any positions may be in the rows: they open and close, the snapshot may *)
(* be old, or unreadable, which looks like no position at all, and a row   *)
(* that cannot be parsed is left out.                                      *)
LookAtRows ==
  \E seen \in SUBSET Tickets :
    /\ monitor = "rows" /\ Len(published) < MaxPublished
    /\ polled' = TRUE
    /\ known' = KnownAfter(seen)
    /\ IF ~polled
       THEN /\ baseline' = seen
            /\ UNCHANGED <<bus, published, lost>>
       ELSE /\ \E order \in Orders(seen \ known) : Publish(order)
            /\ UNCHANGED baseline
    /\ monitor' = "asleep"
    /\ UNCHANGED <<status, lastStatus, lastConn, timer,
                   handling, queue, job, inbox>>

(* An exception ends the check; what it has published stays published.     *)
CheckFails ==
  /\ monitor # "asleep"
  /\ monitor' = "asleep"
  /\ UNCHANGED <<status, lastStatus, lastConn, timer, polled, known,
                 baseline, bus, handling, queue, job, published, inbox, lost>>

(* heartbeat_notify_interval has passed.                                   *)
TimerRuns ==
  /\ timer = "recent"
  /\ timer' = "due"
  /\ UNCHANGED <<monitor, status, lastStatus, lastConn, polled, known,
                 baseline, bus, handling, queue, job, published, inbox, lost>>

-----------------------------------------------------------------------------
(***************************************************************************)
(* EventBus._worker(): one event at a time; its handler waits for the      *)
(* settings table and then queues the message.                             *)
(***************************************************************************)
TakeEvent ==
  /\ handling = 0 /\ bus # <<>>
  /\ handling' = IF Addressees(published[Head(bus)]) = <<>> THEN 0 ELSE Head(bus)
  /\ bus' = Tail(bus)
  /\ UNCHANGED <<monitoring, queue, job, published, inbox, lost>>

\* Faulty variant: the newest message is sent first.
QueuedInFront(id) == <<id>> \o queue

Queued(id) == Append(queue, id)

Notify ==
  /\ handling # 0
  /\ Len(queue) < QueueSize
  /\ queue' = Queued(handling)
  /\ handling' = 0
  /\ UNCHANGED <<monitoring, bus, job, published, inbox, lost>>

(* notify() ends early: the type is switched off, its cooldown runs, the   *)
(* table cannot be read, or the queue is full.                             *)
NotifySkips ==
  /\ handling # 0
  /\ lost' = lost \cup Unsent({handling}, published)
  /\ handling' = 0
  /\ UNCHANGED <<monitoring, bus, queue, job, published, inbox>>

-----------------------------------------------------------------------------
(***************************************************************************)
(* NotificationService._worker() and _deliver().                           *)
(***************************************************************************)
TakeMessage ==
  /\ job = NoJob /\ queue # <<>>
  /\ job' = [NoJob EXCEPT !.id = Head(queue),
                          !.to = Addressees(published[Head(queue)])]
  /\ queue' = Tail(queue)
  /\ UNCHANGED <<monitoring, bus, handling, published, inbox, lost>>

\* Faulty variant: leaves both loops instead of the inner one.
OnwardToNobody(j) == NoJob

Onward(j) ==
  IF Len(j.to) = 1 THEN NoJob
  ELSE [j EXCEPT !.to = Tail(@), !.attempt = 1, !.at = "send"]

\* Faulty variant: the attempts are not counted.
AfterErrorForever(j) == [j EXCEPT !.at = "send"]

AfterError(j) ==
  IF j.attempt = MaxAttempts THEN [j EXCEPT !.at = "giveup"]
  ELSE [j EXCEPT !.attempt = @ + 1, !.at = "send"]

Deliver(r, id) ==
  IF inbox[r] # <<>> /\ inbox[r][Len(inbox[r])] = id THEN inbox
  ELSE [inbox EXCEPT ![r] = Append(@, id)]

(* send_message(): an error, a timeout say, does not tell whether the      *)
(* message arrived.                                                        *)
Send ==
  /\ job # NoJob /\ job.at = "send"
  /\ \/ /\ inbox' = Deliver(Head(job.to), job.id)
        /\ job' \in {[job EXCEPT !.at = "book"], AfterError(job)}
     \/ /\ UNCHANGED inbox
        /\ job' = AfterError(job)
  /\ UNCHANGED <<monitoring, bus, handling, queue, published, lost>>

(* log_notification() and update_last_sent(): when one of them raises, the *)
(* message that was sent counts as a failed attempt.                       *)
Book ==
  /\ job.at = "book"
  /\ job' \in {Onward(job), AfterError(job)}
  /\ UNCHANGED <<monitoring, bus, handling, queue, published, inbox, lost>>

(* After the last attempt the failure is logged; when that raises, the     *)
(* worker drops the message for the recipients still to come as well.      *)
GiveUp ==
  /\ job.at = "giveup"
  /\ \/ /\ job' = Onward(job)
        /\ lost' = lost \cup {<<job.id, Head(job.to)>>}
     \/ /\ job' = NoJob
        /\ lost' = lost \cup ({job.id} \X Range(job.to))
  /\ UNCHANGED <<monitoring, bus, handling, queue, published, inbox>>

-----------------------------------------------------------------------------
Next ==
  \/ LookAtStatus \/ JudgeStatus \/ LookAtRows \/ CheckFails \/ TimerRuns
  \/ TakeEvent \/ Notify \/ NotifySkips
  \/ TakeMessage \/ Send \/ Book \/ GiveUp

Spec == Init /\ [][Next]_vars

(* The two workers are tasks of the event loop and all they wait for has a *)
(* timeout.                                                                *)
Fairness ==
  /\ WF_vars(TakeEvent) /\ WF_vars(Notify \/ NotifySkips)
  /\ WF_vars(TakeMessage) /\ WF_vars(Send) /\ WF_vars(Book) /\ WF_vars(GiveUp)

FairSpec == Spec /\ Fairness

-----------------------------------------------------------------------------
(***************************************************************************)
(* Properties.                                                             *)
(***************************************************************************)

(* heartbeat.py:33 "The already notified ticket set only ever grows": a    *)
(* trade is announced at most once, and not at all when the first poll     *)
(* showed it, through polls that come back empty, short or out of date.    *)
AnnouncedOnce ==
  \A i, j \in DOMAIN published :
    published[i] \in Tickets =>
      /\ published[i] \notin baseline
      /\ published[i] = published[j] => i = j

(* event_bus.py, notification_service.py: whatever fails, is retried or is *)
(* dropped, nobody reads a newer alert before an older one, and a message  *)
(* sent again follows directly on itself.                                  *)
InOrder ==
  \A r \in Recipients : \A m, n \in DOMAIN inbox[r] :
    m < n => inbox[r][m] < inbox[r][n]

UnderWay(i, r) ==
  \/ i \in Range(bus) \cup {handling} \cup Range(queue)
  \/ job.id = i /\ r \in Range(job.to)

Settled(i, r) == <<i, r>> \in lost \/ i \in Range(inbox[r])

(* notification_service.py, _deliver(): what one recipient's chat does     *)
(* takes nothing from the others.  Every trade that was seen after the     *)
(* first poll was published, and every event is, for each of its           *)
(* addressees, under way, delivered, or given up.                          *)
Accounted ==
  /\ \A t \in known \ baseline : t \in Range(published)
  /\ \A i \in DOMAIN published : \A r \in Range(Addressees(published[i])) :
       UnderWay(i, r) \/ Settled(i, r)

(* heartbeat.py, "fire ONCE on each transition": when no alert about the   *)
(* connection is under way, a recipient who lost none of them has as the   *)
(* last one the one that tells the connection as the panel last saw it.    *)
ConnAlerts == {i \in DOMAIN published : published[i] \in {"lost", "restored"}}

LastAlertTrue ==
  \A r \in Recipients :
    (ConnAlerts # {} /\ \A i \in ConnAlerts : ~UnderWay(i, r) /\ <<i, r>> \notin lost)
      => LET got  == {n \in DOMAIN inbox[r] : inbox[r][n] \in ConnAlerts}
             last == CHOOSE n \in got : \A k \in got : k <= n
         IN  published[inbox[r][last]]
               = IF lastConn = "connected" THEN "restored" ELSE "lost"

(* notification_service.py, "Never blocks": no chat that refuses its       *)
(* messages holds up the others: every alert reaches its end for everyone. *)
AlertsEnd ==
  \A i \in 1..MaxPublished :
    (i \in DOMAIN published)
      ~> (/\ i \in DOMAIN published
          /\ \A r \in Range(Addressees(published[i])) : Settled(i, r))
=============================================================================
