------------------------------ MODULE Panel_proofs ------------------------------
(***************************************************************************)
(* Theorems about the panel: PanelAlerts, for any tickets, recipients and  *)
(* capacities of the queues, and PanelAccess, for any number of requests   *)
(* at once, any life of the cache and any scene: who is let through        *)
(* (CacheTracksRole, GrantedLately and OwnerAllowed, from one inductive    *)
(* invariant), what edits leave with the robot, and which account is the   *)
(* active one.                                                             *)
(***************************************************************************)
EXTENDS PanelAlerts, PanelAccess, FiniteSetTheorems, SequenceTheorems, TLAPS

(***************************************************************************)
(* PanelAlerts.                                                            *)
(***************************************************************************)
(***************************************************************************)
(* Types.  The ids in the pipeline are those of published events that have *)
(* somebody to go to, and a delivery under way has a recipient left.       *)
(***************************************************************************)
Addressed(i) == i \in DOMAIN published /\ Addressees(published[i]) # <<>>

Ids ==
  /\ \A n \in DOMAIN bus : bus[n] \in DOMAIN published
  /\ handling # 0 => Addressed(handling)
  /\ \A n \in DOMAIN queue : Addressed(queue[n])
  /\ job # NoJob => job.id > 0 /\ job.to # <<>>

PanelInv == TypeOK /\ Ids

LEMMA AddresseesType == \A e : Addressees(e) \in Seq(Recipients)
<1>1. Admins \in Seq(Recipients) /\ Owner \in Recipients
      BY NameAssumption DEF Recipients
<1>2. <<Owner>> \in Seq(Recipients) /\ <<Owner>> \o Admins \in Seq(Recipients)
      BY <1>1
<1> QED BY <1>2 DEF Addressees

LEMMA SomeoneType ==
  ASSUME NEW e
  PROVE  Range(Addressees(e)) \subseteq Recipients
<1>1. \A n \in DOMAIN Addressees(e) : Addressees(e)[n] \in Recipients BY AddresseesType
<1> QED BY <1>1 DEF Range

LEMMA UnsentType ==
  ASSUME NEW ids \in SUBSET Nat, NEW events
  PROVE  Unsent(ids, events) \in SUBSET (Nat \X Recipients)
<1> SUFFICES ASSUME NEW p \in Unsent(ids, events) PROVE p \in Nat \X Recipients
    OBVIOUS
<1>1. PICK i \in ids : p \in {i} \X Range(Addressees(events[i])) BY DEF Unsent
<1> QED BY <1>1, SomeoneType

(* What publishing leaves behind, and what it appends.                     *)
LEMMA PublishStep ==
  ASSUME NEW events \in Seq(Events), Publish(events), PanelInv
  PROVE  /\ published' \in Seq(Events)
         /\ Len(published') = Len(published) + Len(events)
         /\ \A i \in DOMAIN published : i \in DOMAIN published' /\ published'[i] = published[i]
         /\ \A i \in DOMAIN published' : i > Len(published) =>
              /\ i - Len(published) \in DOMAIN events
              /\ published'[i] = events[i - Len(published)]
         /\ bus' \in Seq(Nat) /\ Len(bus') <= BusSize
         /\ Len(bus') >= Len(bus)
         /\ \A n \in DOMAIN bus : bus'[n] = bus[n]
         /\ \A n \in DOMAIN bus' : n > Len(bus) =>
              /\ bus'[n] = Len(published) + (n - Len(bus))
              /\ bus'[n] \in DOMAIN published'
         /\ lost' \in SUBSET (Nat \X Recipients)
<1> DEFINE room == BusSize - Len(bus)
           kept == IF Len(events) <= room THEN Len(events) ELSE room
           new  == [k \in 1..kept |-> Len(published) + k]
<1>1. /\ published \in Seq(Events) /\ bus \in Seq(Nat) /\ Len(bus) <= BusSize
      /\ BusSize \in Nat /\ lost \in SUBSET (Nat \X Recipients)
      BY SizeAssumption DEF PanelInv, TypeOK
<1>2. kept \in Nat /\ kept <= Len(events) /\ kept <= BusSize - Len(bus) BY <1>1
<1>3. new \in Seq(Nat) /\ Len(new) = kept BY <1>1, <1>2
<1>4. /\ published' = published \o events
      /\ bus' = bus \o new
      /\ lost' = lost \cup Unsent((Len(published) + kept + 1)..Len(published'), published')
      BY DEF Publish
<1>5. /\ published' \in Seq(Events) /\ Len(published') = Len(published) + Len(events)
      /\ \A i \in DOMAIN published : i \in DOMAIN published' /\ published'[i] = published[i]
      /\ \A i \in DOMAIN published' : i > Len(published) =>
           /\ i - Len(published) \in DOMAIN events
           /\ published'[i] = events[i - Len(published)]
      BY <1>1, <1>4
<1>6. \A k \in 1..kept : new[k] = Len(published) + k OBVIOUS
<1> HIDE DEF new, kept, room
<1>7. /\ bus' \in Seq(Nat) /\ Len(bus') = Len(bus) + kept
      /\ \A n \in DOMAIN bus : bus'[n] = bus[n]
      /\ \A n \in DOMAIN bus' : n > Len(bus) => bus'[n] = new[n - Len(bus)]
  <2>1. bus \in Seq(Nat) /\ new \in Seq(Nat) /\ bus' = bus \o new BY <1>1, <1>3, <1>4
  <2>2. /\ bus' \in Seq(Nat) /\ Len(bus') = Len(bus) + Len(new)
        /\ \A n \in 1..(Len(bus) + Len(new)) :
             bus'[n] = IF n <= Len(bus) THEN bus[n] ELSE new[n - Len(bus)]
        BY <2>1, ConcatProperties
  <2>3. DOMAIN bus = 1..Len(bus) /\ DOMAIN bus' = 1..Len(bus') BY <2>1, <2>2
  <2> QED BY <1>2, <1>3, <2>1, <2>2, <2>3
<1>8. \A n \in DOMAIN bus' : n > Len(bus) => n - Len(bus) \in 1..kept
      BY <1>1, <1>2, <1>7
<1>9. \A n \in DOMAIN bus' : n > Len(bus) =>
           /\ bus'[n] = Len(published) + (n - Len(bus))
           /\ bus'[n] \in DOMAIN published'
  <2> TAKE n \in DOMAIN bus'
  <2> HAVE n > Len(bus)
  <2>1. n - Len(bus) \in 1..kept BY <1>8
  <2>2. bus'[n] = Len(published) + (n - Len(bus)) BY <1>6, <1>7, <2>1
  <2>3. bus'[n] \in 1..Len(published') BY <1>1, <1>2, <1>5, <2>1, <2>2
  <2>4. DOMAIN published' = 1..Len(published') BY <1>5
  <2> QED BY <2>2, <2>3, <2>4
<1>10. lost' \in SUBSET (Nat \X Recipients)
  <2>1. (Len(published) + kept + 1)..Len(published') \in SUBSET Nat BY <1>1, <1>2, <1>5
  <2>2. Unsent((Len(published) + kept + 1)..Len(published'), published')
          \in SUBSET (Nat \X Recipients)
        BY <2>1, UnsentType
  <2> QED BY <2>2, <1>1, <1>4
<1>11. Len(bus') <= BusSize /\ Len(bus') >= Len(bus) BY <1>1, <1>2, <1>7
<1> QED BY <1>5, <1>7, <1>9, <1>10, <1>11

LEMMA KindsOnly ==
  ASSUME NEW s, NEW conn, NEW b \in BOOLEAN
  PROVE  StatusEvents(lastStatus, s) \o ConnEvents(lastConn, conn)
           \o (IF b THEN <<"beat">> ELSE <<>>) \in Seq(Kinds)
<1>1. \A k \in Kinds : <<k>> \in Seq(Kinds)
      OBVIOUS
<1>2. <<>> \in Seq(Kinds) OBVIOUS
<1>3. {"lost", "restored", "error", "noted", "beat"} \subseteq Kinds BY DEF Kinds
<1>4. StatusEvents(lastStatus, s) \in Seq(Kinds) BY <1>1, <1>2, <1>3 DEF StatusEvents
<1>5. ConnEvents(lastConn, conn) \in Seq(Kinds) BY <1>1, <1>2, <1>3 DEF ConnEvents
<1>6. (IF b THEN <<"beat">> ELSE <<>>) \in Seq(Kinds) BY <1>1, <1>2, <1>3
<1> QED BY <1>4, <1>5, <1>6

LEMMA KindsAreEvents == ASSUME NEW s \in Seq(Kinds) PROVE s \in Seq(Events)
<1>1. Kinds \subseteq Events BY DEF Events
<1> QED BY <1>1

(* The orders in which the rows of new tickets may come.                   *)
LEMMA OrdersType ==
  ASSUME NEW S \in SUBSET Tickets, NEW order \in Orders(S)
  PROVE  order \in Seq(S) /\ IsInjective(order) /\ order \in Seq(Events)
<1>1. IsFiniteSet(S) BY NameAssumption, FS_Subset
<1>2. Cardinality(S) \in Nat BY <1>1, FS_CardinalityType
<1>3. order \in [1..Cardinality(S) -> S] /\ IsInjective(order) BY DEF Orders
<1>4. order \in Seq(S) BY <1>2, <1>3
<1> QED BY <1>3, <1>4 DEF Events

LEMMA PanelInit == Init => PanelInv
<1> SUFFICES ASSUME Init PROVE PanelInv OBVIOUS
<1>1. NoJob \in Jobs BY SizeAssumption DEF NoJob, Jobs
<1>2. inbox \in [Recipients -> Seq(Nat)] BY DEF Init
<1>3. "idle" \in Statuses /\ 0 <= BusSize /\ 0 <= QueueSize
      BY SizeAssumption, NameAssumption
<1>4. TypeOK
  <2>1. <<>> \in Seq(Nat) /\ <<>> \in Seq(Events) /\ Len(<<>>) = 0 OBVIOUS
  <2>2. bus = <<>> /\ queue = <<>> /\ published = <<>> BY DEF Init
  <2>3. bus \in Seq(Nat) /\ Len(bus) <= BusSize /\ queue \in Seq(Nat)
        /\ Len(queue) <= QueueSize /\ published \in Seq(Events)
        BY <1>3, <2>1, <2>2
  <2>4. monitor \in {"asleep", "status", "rows"} /\ status \in Statuses
        BY <1>3 DEF Init
  <2>5. /\ lastStatus \in Statuses \cup {NoView} /\ lastConn \in Connections \cup {NoView}
        /\ timer \in {"never", "recent", "due"} /\ polled \in BOOLEAN
        /\ known \in SUBSET Tickets /\ baseline \in SUBSET Tickets
        /\ handling \in Nat /\ lost \in SUBSET (Nat \X Recipients)
        BY DEF Init
  <2> QED BY <1>1, <1>2, <2>3, <2>4, <2>5 DEF TypeOK, Init
<1>5. Ids BY DEF Init, Ids
<1> QED BY <1>4, <1>5 DEF PanelInv

(* What the ids need survives every publication.                           *)
LEMMA IdsPublish ==
  ASSUME NEW events \in Seq(Events), Publish(events), PanelInv,
         UNCHANGED <<handling, queue, job>>
  PROVE  Ids'
<1>1. \A i \in DOMAIN published : i \in DOMAIN published' /\ published'[i] = published[i]
      BY PublishStep
<1>2. \A i : Addressed(i) => Addressed(i)' BY <1>1 DEF Addressed
<1>3. \A n \in DOMAIN bus' : bus'[n] \in DOMAIN published'
  <2> TAKE n \in DOMAIN bus'
  <2>1. bus \in Seq(Nat) /\ bus' \in Seq(Nat) BY PublishStep DEF PanelInv, TypeOK
  <2>2. n \in DOMAIN bus \/ n > Len(bus) BY <2>1
  <2>3. CASE n \in DOMAIN bus
        BY <2>3, <1>1, PublishStep DEF PanelInv, Ids
  <2>4. CASE n > Len(bus) BY <2>4, PublishStep
  <2> QED BY <2>2, <2>3, <2>4
<1> QED BY <1>2, <1>3 DEF PanelInv, Ids

LEMMA JudgeStatusTypes == PanelInv /\ JudgeStatus => PanelInv'
<1> SUFFICES ASSUME PanelInv, JudgeStatus PROVE PanelInv' OBVIOUS
<1>1. PICK conn \in Connections :
        LET started == Turned(lastStatus, status) /\ status = "running"
            beats   == status = "running" /\ ~started /\ timer # "recent"
        IN  /\ Publish(StatusEvents(lastStatus, status) \o ConnEvents(lastConn, conn)
                         \o (IF beats THEN <<"beat">> ELSE <<>>))
            /\ lastStatus' = status /\ lastConn' = conn
            /\ timer' = IF started \/ beats THEN "recent" ELSE timer
            /\ monitor' = "rows"
            /\ UNCHANGED <<status, polled, known, baseline, handling, queue, job, inbox>>
      BY DEF JudgeStatus
<1> DEFINE started == Turned(lastStatus, status) /\ status = "running"
           beats   == status = "running" /\ ~started /\ timer # "recent"
           events  == StatusEvents(lastStatus, status) \o ConnEvents(lastConn, conn)
                        \o (IF beats THEN <<"beat">> ELSE <<>>)
<1>2. events \in Seq(Kinds) BY KindsOnly
<1>3. Publish(events) BY <1>1
<1> HIDE DEF events
<1>4. events \in Seq(Events) BY <1>2, KindsAreEvents
<1>5. Ids' BY <1>1, <1>3, <1>4, IdsPublish
<1>6. /\ published' \in Seq(Events) /\ bus' \in Seq(Nat) /\ Len(bus') <= BusSize
      /\ lost' \in SUBSET (Nat \X Recipients)
      BY <1>3, <1>4, PublishStep
<1>7. timer' \in {"never", "recent", "due"} BY <1>1 DEF PanelInv, TypeOK
<1>8. TypeOK' BY <1>1, <1>6, <1>7 DEF PanelInv, TypeOK
<1> QED BY <1>5, <1>8 DEF PanelInv

LEMMA LookAtRowsTypes == PanelInv /\ LookAtRows => PanelInv'
<1> SUFFICES ASSUME PanelInv, LookAtRows PROVE PanelInv' OBVIOUS
<1>1. PICK seen \in SUBSET Tickets :
        /\ polled' = TRUE /\ known' = KnownAfter(seen) /\ monitor' = "asleep"
        /\ \/ ~polled /\ baseline' = seen /\ UNCHANGED <<bus, published, lost>>
           \/ polled /\ baseline' = baseline
                /\ \E order \in Orders(seen \ known) : Publish(order)
        /\ UNCHANGED <<status, lastStatus, lastConn, timer, handling, queue, job, inbox>>
      BY DEF LookAtRows
<1>2. known' \in SUBSET Tickets /\ baseline' \in SUBSET Tickets
      BY <1>1 DEF PanelInv, TypeOK, KnownAfter
<1>3. CASE UNCHANGED <<bus, published, lost>>
  <2>1. TypeOK' BY <1>1, <1>2, <1>3 DEF PanelInv, TypeOK
  <2>2. Ids' BY <1>1, <1>3 DEF PanelInv, Ids, Addressed
  <2> QED BY <2>1, <2>2 DEF PanelInv
<1>4. CASE \E order \in Orders(seen \ known) : Publish(order)
  <2>1. PICK order \in Orders(seen \ known) : Publish(order) BY <1>4
  <2>2. order \in Seq(Events) BY OrdersType
  <2>3. Ids' BY <1>1, <2>1, <2>2, IdsPublish
  <2>4. /\ published' \in Seq(Events) /\ bus' \in Seq(Nat) /\ Len(bus') <= BusSize
        /\ lost' \in SUBSET (Nat \X Recipients)
        BY <2>1, <2>2, PublishStep
  <2>5. TypeOK' BY <1>1, <1>2, <2>4 DEF PanelInv, TypeOK
  <2> QED BY <2>3, <2>5 DEF PanelInv
<1> QED BY <1>1, <1>3, <1>4

LEMMA MonitorTypes ==
  PanelInv /\ (LookAtStatus \/ CheckFails \/ TimerRuns) => PanelInv'
<1> SUFFICES ASSUME PanelInv, LookAtStatus \/ CheckFails \/ TimerRuns PROVE PanelInv'
    OBVIOUS
<1>1. /\ UNCHANGED <<bus, handling, queue, job, published, inbox, lost,
                     lastStatus, lastConn, polled, known, baseline>>
      /\ monitor' \in {"asleep", "status", "rows"} /\ status' \in Statuses
      /\ timer' \in {"never", "recent", "due"}
      BY DEF LookAtStatus, CheckFails, TimerRuns, PanelInv, TypeOK
<1>2. TypeOK' BY <1>1 DEF PanelInv, TypeOK
<1>3. Ids' BY <1>1 DEF PanelInv, Ids, Addressed
<1> QED BY <1>2, <1>3 DEF PanelInv

(* Head and tail of a queue of ids.                                        *)
LEMMA QueueHead ==
  ASSUME NEW s \in Seq(Nat), s # <<>>
  PROVE  /\ Head(s) = s[1] /\ 1 \in DOMAIN s /\ Head(s) \in Nat
         /\ Tail(s) \in Seq(Nat) /\ Len(Tail(s)) = Len(s) - 1
         /\ \A n \in DOMAIN Tail(s) : n + 1 \in DOMAIN s /\ Tail(s)[n] = s[n + 1]
  OBVIOUS

LEMMA BusTypes == PanelInv /\ (TakeEvent \/ Notify \/ NotifySkips) => PanelInv'
<1> SUFFICES ASSUME PanelInv PROVE (TakeEvent \/ Notify \/ NotifySkips) => PanelInv'
    OBVIOUS
<1> USE DEF PanelInv
<1>1. CASE TakeEvent
  <2>1. /\ bus # <<>> /\ bus' = Tail(bus)
        /\ handling' = IF Addressees(published[Head(bus)]) = <<>> THEN 0 ELSE Head(bus)
        /\ UNCHANGED <<monitoring, queue, job, published, inbox, lost>>
        BY <1>1 DEF TakeEvent
  <2>2. /\ Head(bus) \in DOMAIN published /\ Head(bus) \in Nat
        /\ Tail(bus) \in Seq(Nat) /\ Len(Tail(bus)) <= BusSize
        /\ \A n \in DOMAIN Tail(bus) : Tail(bus)[n] \in DOMAIN published
        BY <2>1, QueueHead, SizeAssumption DEF TypeOK, Ids
  <2>3. TypeOK' BY <2>1, <2>2 DEF TypeOK, monitoring
  <2>4. handling' # 0 => Addressed(handling') BY <2>1, <2>2 DEF Addressed
  <2>5. Ids' BY <2>1, <2>2, <2>4 DEF Ids, Addressed
  <2> QED BY <2>3, <2>5
<1>2. CASE Notify
  <2>1. /\ handling # 0 /\ Len(queue) < QueueSize /\ handling' = 0
        /\ queue' = Append(queue, handling)
        /\ UNCHANGED <<monitoring, bus, job, published, inbox, lost>>
        BY <1>2 DEF Notify, Queued
  <2>2. queue' \in Seq(Nat) /\ Len(queue') <= QueueSize
        BY <2>1, SizeAssumption DEF TypeOK
  <2>3. \A n \in DOMAIN queue' : Addressed(queue'[n]) BY <2>1 DEF TypeOK, Ids
  <2>4. TypeOK' BY <2>1, <2>2 DEF TypeOK, monitoring
  <2>5. Ids' BY <2>1, <2>3 DEF Ids, Addressed
  <2> QED BY <2>4, <2>5
<1>3. CASE NotifySkips
  <2>1. /\ handling' = 0 /\ lost' = lost \cup Unsent({handling}, published)
        /\ UNCHANGED <<monitoring, bus, queue, job, published, inbox>>
        BY <1>3 DEF NotifySkips
  <2>2. {handling} \in SUBSET Nat BY DEF TypeOK
  <2>3. lost' \in SUBSET (Nat \X Recipients) BY <2>1, <2>2, UnsentType DEF TypeOK
  <2>4. TypeOK' BY <2>1, <2>3 DEF TypeOK, monitoring
  <2>5. Ids' BY <2>1 DEF Ids, Addressed
  <2> QED BY <2>4, <2>5
<1> QED BY <1>1, <1>2, <1>3

(* A delivery under way.                                                   *)
Going(j) == j \in Jobs /\ j.id > 0 /\ j.to # <<>>

LEMMA LongTail ==
  ASSUME NEW S, NEW s \in Seq(S), s # <<>>, Len(s) # 1
  PROVE  Tail(s) \in Seq(S) /\ Tail(s) # <<>>
<1>1. Len(s) \in Nat /\ Len(s) # 0 BY EmptySeq
<1>2. Tail(s) \in Seq(S) /\ Len(Tail(s)) = Len(s) - 1 BY HeadTailProperties
<1>3. Len(Tail(s)) # 0 BY <1>1, <1>2
<1> QED BY <1>2, <1>3, EmptySeq

LEMMA GoingStep ==
  ASSUME NEW j, Going(j)
  PROVE  /\ Going(AfterError(j)) /\ Going([j EXCEPT !.at = "book"])
         /\ AfterError(j).id = j.id /\ AfterError(j).to = j.to
         /\ Onward(j) = NoJob \/ (Going(Onward(j)) /\ Onward(j).id = j.id
                                    /\ Onward(j).to = Tail(j.to))
         /\ Head(j.to) \in Recipients /\ Range(j.to) \subseteq Recipients
<1>1. /\ j.id \in Nat /\ j.to \in Seq(Recipients) /\ j.to # <<>>
      /\ j.attempt \in 1..MaxAttempts /\ MaxAttempts \in Nat \ {0} /\ j.id > 0
      BY SizeAssumption DEF Going, Jobs
<1>2. /\ Going(AfterError(j)) /\ AfterError(j).id = j.id /\ AfterError(j).to = j.to
  <2>1. j \in Jobs BY DEF Going
  <2>2. CASE j.attempt = MaxAttempts
    <3>1. AfterError(j) = [j EXCEPT !.at = "giveup"] BY <2>2 DEF AfterError
    <3> QED BY <1>1, <2>1, <3>1 DEF Going, Jobs
  <2>3. CASE j.attempt # MaxAttempts
    <3>1. AfterError(j) = [j EXCEPT !.attempt = @ + 1, !.at = "send"]
          BY <2>3 DEF AfterError
    <3>2. j.attempt + 1 \in 1..MaxAttempts BY <1>1, <2>3
    <3> QED BY <1>1, <2>1, <3>1, <3>2 DEF Going, Jobs
  <2> QED BY <2>2, <2>3
<1>3. Going([j EXCEPT !.at = "book"]) BY DEF Going, Jobs
<1>4. CASE Len(j.to) = 1
  <2>1. Onward(j) = NoJob BY <1>4 DEF Onward
  <2> QED BY <1>1, <1>2, <1>3, <2>1 DEF Range
<1>5. CASE Len(j.to) # 1
  <2>1. Onward(j) = [j EXCEPT !.to = Tail(@), !.attempt = 1, !.at = "send"]
        BY <1>5 DEF Onward
  <2>2. Tail(j.to) \in Seq(Recipients) /\ Tail(j.to) # <<>>
    <3> DEFINE s == j.to
    <3>1. s \in Seq(Recipients) /\ s # <<>> /\ Len(s) # 1 BY <1>1, <1>5
    <3> HIDE DEF s
    <3>2. Tail(s) \in Seq(Recipients) /\ Tail(s) # <<>> BY <3>1, LongTail
    <3> QED BY <3>2 DEF s
  <2>3. j \in Jobs /\ 1 \in 1..MaxAttempts BY <1>1 DEF Going
  <2> DEFINE t == Tail(j.to)
  <2>4. Onward(j) = [j EXCEPT !.to = t, !.attempt = 1, !.at = "send"] BY <2>1
  <2>5. t \in Seq(Recipients) /\ t # <<>> BY <2>2
  <2> HIDE DEF t
  <2>6. Going(Onward(j)) /\ Onward(j).id = j.id /\ Onward(j).to = t
        BY <1>1, <2>3, <2>4, <2>5 DEF Going, Jobs
  <2>7. t = Tail(j.to) BY DEF t
  <2> QED BY <1>1, <1>2, <1>3, <2>6, <2>7 DEF Range
<1> QED BY <1>4, <1>5

LEMMA NoJobType == NoJob \in Jobs /\ NoJob.id = 0 /\ NoJob.at = "send"
  BY SizeAssumption DEF NoJob, Jobs

(* A step that leaves all but the delivery alone.                          *)
LEMMA JobTypes ==
  ASSUME PanelInv, UNCHANGED <<monitoring, bus, handling, queue, published>>,
         job' = NoJob \/ Going(job'),
         inbox' \in [Recipients -> Seq(Nat)], lost' \in SUBSET (Nat \X Recipients)
  PROVE  PanelInv'
<1>1. job' \in Jobs /\ (job' # NoJob => job'.id > 0 /\ job'.to # <<>>)
      BY NoJobType DEF Going
<1>2. TypeOK' BY <1>1 DEF PanelInv, TypeOK, monitoring
<1>3. Ids' BY <1>1 DEF PanelInv, Ids, Addressed
<1> QED BY <1>2, <1>3 DEF PanelInv

LEMMA TakeMessageStep ==
  ASSUME PanelInv, TakeMessage
  PROVE  /\ Going(job') /\ job'.id = queue[1] /\ job'.to = Addressees(published[queue[1]])
         /\ queue' \in Seq(Nat) /\ Len(queue') < Len(queue) /\ 1 \in DOMAIN queue
         /\ \A n \in DOMAIN queue' : n + 1 \in DOMAIN queue /\ queue'[n] = queue[n + 1]
<1>1. /\ queue \in Seq(Nat) /\ queue # <<>> /\ queue' = Tail(queue)
      /\ job' = [NoJob EXCEPT !.id = Head(queue), !.to = Addressees(published[Head(queue)])]
      BY DEF TakeMessage, PanelInv, TypeOK
<1>2. /\ Head(queue) = queue[1] /\ 1 \in DOMAIN queue /\ queue[1] \in Nat
      /\ queue' \in Seq(Nat) /\ Len(queue') = Len(queue) - 1
      /\ \A n \in DOMAIN queue' : n + 1 \in DOMAIN queue /\ queue'[n] = queue[n + 1]
      BY <1>1, QueueHead
<1>3. Addressed(queue[1]) /\ queue[1] > 0
  <2>1. Addressed(queue[1]) BY <1>2 DEF PanelInv, Ids
  <2>2. published \in Seq(Events) BY DEF PanelInv, TypeOK
  <2> QED BY <2>1, <2>2 DEF Addressed
<1>4. Addressees(published[queue[1]]) \in Seq(Recipients) BY AddresseesType
<1>5. Addressees(published[queue[1]]) # <<>> BY <1>3 DEF Addressed
<1>6. job' = [id |-> queue[1], to |-> Addressees(published[queue[1]]),
              attempt |-> 1, at |-> "send"]
      BY <1>1, <1>2 DEF NoJob
<1>7. Going(job') BY <1>2, <1>3, <1>4, <1>5, <1>6, SizeAssumption DEF Going, Jobs
<1>8. Len(queue') < Len(queue) BY <1>1, <1>2
<1> QED BY <1>2, <1>6, <1>7, <1>8

LEMMA UnderWayGoing == PanelInv /\ job # NoJob => Going(job)
  BY DEF PanelInv, TypeOK, Ids, Going

LEMMA DeliverType ==
  ASSUME inbox \in [Recipients -> Seq(Nat)], NEW r \in Recipients, NEW i \in Nat
  PROVE  Deliver(r, i) \in [Recipients -> Seq(Nat)]
<1>1. Append(inbox[r], i) \in Seq(Nat) OBVIOUS
<1> QED BY <1>1 DEF Deliver

LEMMA DeliveryTypes == PanelInv /\ (TakeMessage \/ Send \/ Book \/ GiveUp) => PanelInv'
<1> SUFFICES ASSUME PanelInv PROVE (TakeMessage \/ Send \/ Book \/ GiveUp) => PanelInv'
    OBVIOUS
<1>1. CASE TakeMessage
  <2>1. /\ Going(job') /\ queue' \in Seq(Nat) /\ Len(queue') < Len(queue)
        /\ \A n \in DOMAIN queue' : n + 1 \in DOMAIN queue /\ queue'[n] = queue[n + 1]
        BY <1>1, TakeMessageStep
  <2>2. UNCHANGED <<monitoring, bus, handling, published, inbox, lost>>
        BY <1>1 DEF TakeMessage
  <2>3. Len(queue') <= QueueSize BY <2>1, SizeAssumption DEF PanelInv, TypeOK
  <2>4. TypeOK' BY <2>1, <2>2, <2>3 DEF PanelInv, TypeOK, monitoring, Going
  <2>5. Ids' BY <2>1, <2>2 DEF PanelInv, Ids, Addressed, Going
  <2> QED BY <2>4, <2>5 DEF PanelInv
<1>2. CASE Send
  <2>1. job # NoJob /\ UNCHANGED <<monitoring, bus, handling, queue, published, lost>>
        BY <1>2 DEF Send
  <2>2. Going(job) BY <2>1, UnderWayGoing
  <2>3. Going(job') BY <1>2, <2>2, GoingStep DEF Send
  <2>4. inbox' = inbox \/ inbox' = Deliver(Head(job.to), job.id) BY <1>2 DEF Send
  <2>5. job.id \in Nat /\ inbox \in [Recipients -> Seq(Nat)]
        BY <2>2 DEF Going, Jobs, PanelInv, TypeOK
  <2>6. Head(job.to) \in Recipients BY <2>2, GoingStep
  <2>7. Deliver(Head(job.to), job.id) \in [Recipients -> Seq(Nat)]
        BY <2>5, <2>6, DeliverType
  <2>8. inbox' \in [Recipients -> Seq(Nat)] BY <2>4, <2>5, <2>7
  <2> QED BY <2>1, <2>3, <2>8, JobTypes DEF PanelInv, TypeOK
<1>3. CASE Book
  <2>1. /\ job.at = "book" /\ job' \in {Onward(job), AfterError(job)}
        /\ UNCHANGED <<monitoring, bus, handling, queue, published, inbox, lost>>
        BY <1>3 DEF Book
  <2>2. Going(job) BY <2>1, NoJobType, UnderWayGoing
  <2>3. job' = NoJob \/ Going(job') BY <2>1, <2>2, GoingStep
  <2> QED BY <2>1, <2>3, JobTypes DEF PanelInv, TypeOK
<1>4. CASE GiveUp
  <2>1. /\ job.at = "giveup"
        /\ \/ job' = Onward(job) /\ lost' = lost \cup {<<job.id, Head(job.to)>>}
           \/ job' = NoJob /\ lost' = lost \cup ({job.id} \X Range(job.to))
        /\ UNCHANGED <<monitoring, bus, handling, queue, published, inbox>>
        BY <1>4 DEF GiveUp
  <2>2. Going(job) BY <2>1, NoJobType, UnderWayGoing
  <2>3. job' = NoJob \/ Going(job') BY <2>1, <2>2, GoingStep
  <2>4. job.id \in Nat /\ Head(job.to) \in Recipients /\ Range(job.to) \subseteq Recipients
        BY <2>2, GoingStep DEF Going, Jobs
  <2>5. lost' \in SUBSET (Nat \X Recipients) BY <2>1, <2>4 DEF PanelInv, TypeOK
  <2> QED BY <2>1, <2>3, <2>5, JobTypes DEF PanelInv, TypeOK
<1> QED BY <1>1, <1>2, <1>3, <1>4

LEMMA PanelKept == PanelInv /\ [Next]_vars => PanelInv'
<1> SUFFICES ASSUME PanelInv, [Next]_vars PROVE PanelInv' OBVIOUS
<1>1. CASE Next
      BY <1>1, JudgeStatusTypes, LookAtRowsTypes, MonitorTypes, BusTypes, DeliveryTypes
      DEF Next
<1>2. CASE UNCHANGED vars
      BY <1>2 DEF vars, monitoring, PanelInv, TypeOK, Ids, Addressed
<1> QED BY <1>1, <1>2

LEMMA PanelInvariant == Spec => []PanelInv
  BY PanelInit, PanelKept, PTL DEF Spec

(* The types of heartbeat.py, event_bus.py and notification_service.py:    *)
(* the queues never outgrow their capacities, whatever is dropped.         *)
THEOREM PanelTypes == Spec => []TypeOK
<1>1. PanelInv => TypeOK BY DEF PanelInv
<1> QED BY <1>1, PanelInvariant, PTL

(***************************************************************************)
(* AnnouncedOnce.  A published trade is known and was not in the first     *)
(* poll; before that poll nothing is known.                                *)
(***************************************************************************)
OnceInv ==
  /\ \A i \in DOMAIN published : published[i] \in Tickets => published[i] \in known
  /\ baseline \subseteq known
  /\ ~polled => known = {}
  /\ AnnouncedOnce

(* Publishing new tickets, each once, none of them known before.           *)
LEMMA OnceNewTickets ==
  ASSUME PanelInv, OnceInv, NEW seen \in SUBSET Tickets,
         NEW order \in Orders(seen \ known), Publish(order),
         known' = known \cup seen, baseline' = baseline, polled' = TRUE
  PROVE  OnceInv'
<1>1. order \in Seq(seen \ known) /\ IsInjective(order) /\ order \in Seq(Events)
      BY OrdersType
<1>2. /\ published \in Seq(Events) /\ published' \in Seq(Events)
      /\ Len(published') = Len(published) + Len(order)
      /\ \A i \in DOMAIN published : i \in DOMAIN published' /\ published'[i] = published[i]
      /\ \A i \in DOMAIN published' : i > Len(published) =>
           /\ i - Len(published) \in DOMAIN order
           /\ published'[i] = order[i - Len(published)]
      BY <1>1, PublishStep DEF PanelInv, TypeOK
<1>3. \A i \in DOMAIN published' :
        \/ i \in DOMAIN published /\ published'[i] = published[i]
        \/ /\ i \in Nat /\ i > Len(published) /\ i - Len(published) \in DOMAIN order
           /\ published'[i] = order[i - Len(published)]
           /\ published'[i] \in seen /\ published'[i] \notin known
  <2> TAKE i \in DOMAIN published'
  <2>1. i \in Nat /\ (i \in DOMAIN published \/ i > Len(published)) BY <1>2
  <2>2. CASE i > Len(published)
    <3>1. i - Len(published) \in DOMAIN order /\ published'[i] = order[i - Len(published)]
          BY <1>2, <2>2
    <3>2. order[i - Len(published)] \in seen \ known BY <1>1, <3>1
    <3> QED BY <2>1, <2>2, <3>1, <3>2
  <2> QED BY <1>2, <2>1, <2>2
<1>4. \A i \in DOMAIN published' : published'[i] \in Tickets => published'[i] \in known'
      BY <1>3 DEF OnceInv
<1>5. \A i \in DOMAIN published' : published'[i] \in Tickets => published'[i] \notin baseline'
      BY <1>3 DEF OnceInv, AnnouncedOnce
<1>6. ASSUME NEW i \in DOMAIN published', NEW j \in DOMAIN published',
             published'[i] \in Tickets, published'[i] = published'[j]
      PROVE  i = j
  <2>1. CASE i \in DOMAIN published /\ published'[i] = published[i]
    <3>1. published'[j] \in known BY <1>6, <2>1 DEF OnceInv
    <3>2. j \in DOMAIN published /\ published'[j] = published[j] BY <1>3, <3>1
    <3> QED BY <1>6, <2>1, <3>2 DEF OnceInv, AnnouncedOnce
  <2>2. CASE i \in Nat /\ i > Len(published) /\ i - Len(published) \in DOMAIN order
             /\ published'[i] = order[i - Len(published)] /\ published'[i] \notin known
    <3>1. ~(j \in DOMAIN published /\ published'[j] = published[j])
          BY <1>6, <2>2 DEF OnceInv
    <3>2. /\ j \in Nat /\ j - Len(published) \in DOMAIN order
          /\ published'[j] = order[j - Len(published)]
          BY <1>3, <3>1
    <3>3. i - Len(published) = j - Len(published)
          BY <1>1, <1>6, <2>2, <3>2 DEF IsInjective
    <3>4. Len(published) \in Nat BY <1>2
    <3> QED BY <2>2, <3>2, <3>3, <3>4
  <2> QED BY <1>3, <2>1, <2>2
<1>7. AnnouncedOnce' BY <1>5, <1>6 DEF AnnouncedOnce
<1>8. baseline' \subseteq known' BY DEF OnceInv
<1> QED BY <1>4, <1>7, <1>8 DEF OnceInv

(* Publishing events that are no trades.                                   *)
LEMMA OnceKinds ==
  ASSUME PanelInv, OnceInv, NEW events \in Seq(Kinds), Publish(events),
         UNCHANGED <<known, baseline, polled>>
  PROVE  OnceInv'
<1>1. events \in Seq(Events) BY KindsAreEvents
<1>2. /\ published \in Seq(Events) /\ published' \in Seq(Events)
      /\ \A i \in DOMAIN published : i \in DOMAIN published' /\ published'[i] = published[i]
      /\ \A i \in DOMAIN published' : i > Len(published) =>
           /\ i - Len(published) \in DOMAIN events
           /\ published'[i] = events[i - Len(published)]
      BY <1>1, PublishStep DEF PanelInv, TypeOK
<1>3. \A i \in DOMAIN published' : published'[i] \in Tickets =>
        i \in DOMAIN published /\ published'[i] = published[i]
  <2> TAKE i \in DOMAIN published'
  <2> HAVE published'[i] \in Tickets
  <2>1. i \in DOMAIN published \/ i > Len(published) BY <1>2
  <2>2. ~(i > Len(published))
    <3> SUFFICES ASSUME i > Len(published) PROVE FALSE OBVIOUS
    <3>1. i - Len(published) \in DOMAIN events /\ published'[i] = events[i - Len(published)]
          BY <1>2
    <3>2. published'[i] \in Kinds BY <3>1
    <3> QED BY <3>2, NameAssumption
  <2> QED BY <1>2, <2>1, <2>2
<1> QED BY <1>3 DEF OnceInv, AnnouncedOnce

LEMMA OnceKept == PanelInv /\ OnceInv /\ [Next]_vars => OnceInv'
<1> SUFFICES ASSUME PanelInv, OnceInv, [Next]_vars PROVE OnceInv' OBVIOUS
<1>1. CASE JudgeStatus
  <2>1. /\ UNCHANGED <<known, baseline, polled>>
        /\ \E conn \in Connections : \E beats \in BOOLEAN :
             Publish(StatusEvents(lastStatus, status) \o ConnEvents(lastConn, conn)
                       \o (IF beats THEN <<"beat">> ELSE <<>>))
        BY <1>1 DEF JudgeStatus
  <2>2. PICK conn \in Connections, beats \in BOOLEAN :
             Publish(StatusEvents(lastStatus, status) \o ConnEvents(lastConn, conn)
                       \o (IF beats THEN <<"beat">> ELSE <<>>))
        BY <2>1
  <2> QED BY <2>1, <2>2, KindsOnly, OnceKinds
<1>2. CASE LookAtRows
  <2>1. PICK seen \in SUBSET Tickets :
        /\ polled' = TRUE /\ known' = known \cup seen
        /\ \/ ~polled /\ baseline' = seen /\ UNCHANGED <<bus, published, lost>>
           \/ polled /\ baseline' = baseline
                /\ \E order \in Orders(seen \ known) : Publish(order)
      BY <1>2 DEF LookAtRows, KnownAfter
  <2>2. CASE ~polled /\ baseline' = seen /\ UNCHANGED published
        BY <2>1, <2>2 DEF OnceInv, AnnouncedOnce
  <2>3. CASE baseline' = baseline /\ \E order \in Orders(seen \ known) : Publish(order)
        BY <2>1, <2>3, OnceNewTickets
  <2> QED BY <2>1, <2>2, <2>3
<1>3. CASE UNCHANGED <<known, baseline, polled, published>>
      BY <1>3 DEF OnceInv, AnnouncedOnce
<1> QED BY <1>1, <1>2, <1>3
        DEF Next, LookAtStatus, CheckFails, TimerRuns, TakeEvent, Notify, NotifySkips,
            TakeMessage, Send, Book, GiveUp, vars, monitoring

(* heartbeat.py:33 and 152-188: no trade is announced twice, and none that *)
(* the first poll showed, however the later polls come back.               *)
THEOREM TradesAnnouncedOnce == Spec => []AnnouncedOnce
<1>1. Init => OnceInv BY DEF Init, OnceInv, AnnouncedOnce
<1>2. OnceInv => AnnouncedOnce BY DEF OnceInv
<1> QED BY <1>1, <1>2, OnceKept, PanelInvariant, PTL DEF Spec

(***************************************************************************)
(* InOrder.  From the bus over the handler, the queue and the delivery to  *)
(* the inboxes the ids only fall, and each of the sequences rises.         *)
(***************************************************************************)
Rising(s) == \A m, n \in DOMAIN s : m < n => s[m] < s[n]

(* All that waits to be delivered is newer than i.                         *)
Below(i) ==
  /\ i <= Len(published)
  /\ \A n \in DOMAIN bus : i < bus[n]
  /\ handling # 0 => i < handling
  /\ \A n \in DOMAIN queue : i < queue[n]

Lined ==
  /\ Rising(bus) /\ Rising(queue)
  /\ handling # 0 => \A n \in DOMAIN bus : handling < bus[n]
  /\ \A n \in DOMAIN queue :
       /\ handling # 0 => queue[n] < handling
       /\ \A m \in DOMAIN bus : queue[n] < bus[m]

ReadSoFar ==
  \A r \in Recipients : \A n \in DOMAIN inbox[r] :
    /\ Below(inbox[r][n])
    /\ job # NoJob => inbox[r][n] <= job.id

OrderInv == Lined /\ (job # NoJob => Below(job.id)) /\ ReadSoFar /\ InOrder

(* A step that leaves the delivery and the inboxes alone.                  *)
LEMMA OrderUpstream ==
  ASSUME PanelInv, OrderInv, UNCHANGED <<job, inbox>>, Lined',
         \A i \in Nat : Below(i) => Below(i)'
  PROVE  OrderInv'
<1>1. job # NoJob => job.id \in Nat BY UnderWayGoing DEF Going, Jobs
<1>2. \A r \in Recipients : \A n \in DOMAIN inbox[r] : inbox[r][n] \in Nat
      BY DEF PanelInv, TypeOK
<1>3. job' # NoJob => Below(job.id)' BY <1>1 DEF OrderInv
<1>4. ReadSoFar' BY <1>2 DEF OrderInv, ReadSoFar
<1>5. InOrder' BY DEF OrderInv, InOrder
<1> QED BY <1>3, <1>4, <1>5 DEF OrderInv

(* A published event goes to the end of the bus, behind all the others.    *)
LEMMA OrderPublish ==
  ASSUME PanelInv, OrderInv, NEW events \in Seq(Events), Publish(events),
         UNCHANGED <<handling, queue, job, inbox>>
  PROVE  OrderInv'
<1>1. /\ published \in Seq(Events) /\ published' \in Seq(Events)
      /\ bus \in Seq(Nat) /\ bus' \in Seq(Nat) /\ Len(bus') >= Len(bus)
      /\ Len(published') = Len(published) + Len(events)
      BY PublishStep DEF PanelInv, TypeOK
<1>2. \A n \in DOMAIN bus' :
        \/ n \in DOMAIN bus /\ bus'[n] = bus[n]
        \/ n > Len(bus) /\ bus'[n] = Len(published) + (n - Len(bus))
      BY <1>1, PublishStep
<1>3. /\ \A n \in DOMAIN bus : bus[n] \in 1..Len(published)
      /\ handling # 0 => handling \in 1..Len(published)
      /\ \A n \in DOMAIN queue : queue[n] \in 1..Len(published)
      BY <1>1 DEF PanelInv, Ids, Addressed
<1>4. \A n \in DOMAIN bus' : n \in Nat /\ Len(bus) \in Nat /\ Len(published) \in Nat
      BY <1>1
<1>5. Rising(bus')
  <2> SUFFICES ASSUME NEW m \in DOMAIN bus', NEW n \in DOMAIN bus', m < n
               PROVE  bus'[m] < bus'[n]
      BY DEF Rising
  <2>1. CASE n \in DOMAIN bus /\ bus'[n] = bus[n]
    <3>1. m \in DOMAIN bus /\ bus'[m] = bus[m] BY <1>1, <1>2, <2>1
    <3> QED BY <2>1, <3>1 DEF OrderInv, Lined, Rising
  <2>2. CASE n > Len(bus) /\ bus'[n] = Len(published) + (n - Len(bus))
    <3>1. CASE m \in DOMAIN bus /\ bus'[m] = bus[m]
          BY <1>3, <1>4, <2>2, <3>1
    <3>2. CASE m > Len(bus) /\ bus'[m] = Len(published) + (m - Len(bus))
          BY <1>4, <2>2, <3>2
    <3> QED BY <1>2, <3>1, <3>2
  <2> QED BY <1>2, <2>1, <2>2
<1>6. \A i \in Nat : i <= Len(published) /\ (\A n \in DOMAIN bus : i < bus[n])
                       => \A n \in DOMAIN bus' : i < bus'[n]
      BY <1>2, <1>4
<1>7. Len(published') >= Len(published) BY <1>1
<1>8. \A i \in Nat : Below(i) => Below(i)'
  <2> SUFFICES ASSUME NEW i \in Nat, Below(i) PROVE Below(i)' OBVIOUS
  <2>1. i <= Len(published') BY <1>1, <1>7 DEF Below
  <2>2. \A n \in DOMAIN bus' : i < bus'[n] BY <1>6 DEF Below
  <2> QED BY <2>1, <2>2 DEF Below
<1>9. Lined'
  <2>1. Rising(queue') BY DEF OrderInv, Lined, Rising
  <2>2. handling # 0 => \A n \in DOMAIN bus' : handling < bus'[n]
        BY <1>3, <1>6 DEF OrderInv, Lined
  <2>3. \A n \in DOMAIN queue : \A m \in DOMAIN bus' : queue[n] < bus'[m]
        BY <1>3, <1>6 DEF OrderInv, Lined
  <2> QED BY <1>5, <2>1, <2>2, <2>3 DEF OrderInv, Lined
<1> QED BY <1>8, <1>9, OrderUpstream

(* One event leaves the bus, is queued or is dropped.                      *)
LEMMA OrderBus ==
  PanelInv /\ OrderInv /\ (TakeEvent \/ Notify \/ NotifySkips) => OrderInv'
<1> SUFFICES ASSUME PanelInv, OrderInv
             PROVE  (TakeEvent \/ Notify \/ NotifySkips) => OrderInv'
    OBVIOUS
<1>0. bus \in Seq(Nat) /\ queue \in Seq(Nat) /\ handling \in Nat BY DEF PanelInv, TypeOK
<1>1. CASE TakeEvent
  <2>1. /\ handling = 0 /\ bus # <<>> /\ bus' = Tail(bus)
        /\ handling' = 0 \/ handling' = Head(bus)
        /\ UNCHANGED <<queue, job, published, inbox>>
        BY <1>1 DEF TakeEvent
  <2>2. /\ Head(bus) = bus[1] /\ 1 \in DOMAIN bus
        /\ \A n \in DOMAIN bus' : n + 1 \in DOMAIN bus /\ bus'[n] = bus[n + 1] /\ n \in 1..Len(bus)
        BY <1>0, <2>1, QueueHead
  <2>3. \A n \in DOMAIN bus' : bus[1] < bus'[n]
        BY <2>2 DEF OrderInv, Lined, Rising
  <2>4. Rising(bus') BY <2>2 DEF OrderInv, Lined, Rising
  <2>5. Lined' BY <2>1, <2>2, <2>3, <2>4 DEF OrderInv, Lined
  <2>6. \A i \in Nat : Below(i) => Below(i)' BY <2>1, <2>2 DEF Below
  <2> QED BY <2>1, <2>5, <2>6, OrderUpstream
<1>2. CASE Notify
  <2>1. /\ handling # 0 /\ handling' = 0 /\ queue' = Append(queue, handling)
        /\ UNCHANGED <<bus, job, published, inbox>>
        BY <1>2 DEF Notify, Queued
  <2>2. /\ DOMAIN queue' = 1..(Len(queue) + 1) /\ DOMAIN queue = 1..Len(queue)
        /\ \A n \in DOMAIN queue : queue'[n] = queue[n]
        /\ queue'[Len(queue) + 1] = handling /\ Len(queue) \in Nat
        BY <1>0, <2>1
  <2>3. \A n \in DOMAIN queue' :
          \/ n \in DOMAIN queue /\ queue'[n] = queue[n]
          \/ n = Len(queue) + 1 /\ queue'[n] = handling
        BY <2>2
  <2>4. Rising(queue')
    <3> SUFFICES ASSUME NEW m \in DOMAIN queue', NEW n \in DOMAIN queue', m < n
                 PROVE  queue'[m] < queue'[n]
        BY DEF Rising
    <3>1. m \in DOMAIN queue /\ queue'[m] = queue[m] BY <2>2
    <3> QED BY <2>1, <2>3, <3>1 DEF OrderInv, Lined, Rising
  <2>5. Lined' BY <2>1, <2>3, <2>4 DEF OrderInv, Lined
  <2>6. \A i \in Nat : Below(i) => Below(i)' BY <2>1, <2>3 DEF Below
  <2> QED BY <2>1, <2>5, <2>6, OrderUpstream
<1>3. CASE NotifySkips
  <2>1. handling' = 0 /\ UNCHANGED <<bus, queue, job, published, inbox>>
        BY <1>3 DEF NotifySkips
  <2>2. Lined' BY <2>1 DEF OrderInv, Lined
  <2>3. \A i \in Nat : Below(i) => Below(i)' BY <2>1 DEF Below
  <2> QED BY <2>1, <2>2, <2>3, OrderUpstream
<1> QED BY <1>1, <1>2, <1>3

(* Delivering the id under way again, or as the newest one so far.         *)
LEMMA DeliverAtEnd ==
  ASSUME inbox \in [Recipients -> Seq(Nat)], NEW r \in Recipients, NEW i \in Nat
  PROVE  /\ \A s \in Recipients \ {r} : Deliver(r, i)[s] = inbox[s]
         /\ i \in Range(Deliver(r, i)[r])
         /\ \A n \in DOMAIN inbox[r] :
              n \in DOMAIN Deliver(r, i)[r] /\ Deliver(r, i)[r][n] = inbox[r][n]
         /\ \A n \in DOMAIN Deliver(r, i)[r] :
              \/ n \in DOMAIN inbox[r]
              \/ /\ n = Len(inbox[r]) + 1 /\ Deliver(r, i)[r][n] = i
                 /\ inbox[r] # <<>> => inbox[r][Len(inbox[r])] # i
<1>1. CASE inbox[r] # <<>> /\ inbox[r][Len(inbox[r])] = i
  <2>1. Deliver(r, i) = inbox BY <1>1 DEF Deliver
  <2>2. Len(inbox[r]) \in DOMAIN inbox[r] BY <1>1
  <2> QED BY <1>1, <2>1, <2>2 DEF Range
<1>2. CASE ~(inbox[r] # <<>> /\ inbox[r][Len(inbox[r])] = i)
  <2> DEFINE s == inbox[r]
             t == Append(s, i)
  <2>1. Deliver(r, i) = [inbox EXCEPT ![r] = t] BY <1>2 DEF Deliver
  <2>2. Deliver(r, i)[r] = t /\ \A q \in Recipients \ {r} : Deliver(r, i)[q] = inbox[q]
        BY <2>1
  <2>3. s \in Seq(Nat) OBVIOUS
  <2> HIDE DEF s
  <2>4. /\ DOMAIN t = 1..(Len(s) + 1) /\ DOMAIN s = 1..Len(s) /\ Len(s) \in Nat
        /\ \A n \in DOMAIN s : t[n] = s[n]
        /\ t[Len(s) + 1] = i
        BY <2>3
  <2> HIDE DEF t
  <2>5. i \in Range(t)
    <3>1. Len(s) + 1 \in DOMAIN t BY <2>4
    <3> QED BY <2>4, <3>1 DEF Range
  <2>6. s = inbox[r] BY DEF s
  <2> QED BY <1>2, <2>2, <2>4, <2>5, <2>6
<1> QED BY <1>1, <1>2

LEMMA OrderDelivery ==
  PanelInv /\ OrderInv /\ (TakeMessage \/ Send \/ Book \/ GiveUp) => OrderInv'
<1> SUFFICES ASSUME PanelInv, OrderInv
             PROVE  (TakeMessage \/ Send \/ Book \/ GiveUp) => OrderInv'
    OBVIOUS
<1>0. /\ published \in Seq(Events) /\ inbox \in [Recipients -> Seq(Nat)]
      /\ \A r \in Recipients : \A n \in DOMAIN inbox[r] : inbox[r][n] \in Nat
      BY DEF PanelInv, TypeOK
<1>1. CASE TakeMessage
  <2>1. /\ job'.id = queue[1] /\ 1 \in DOMAIN queue /\ queue \in Seq(Nat)
        /\ \A n \in DOMAIN queue' : n + 1 \in DOMAIN queue /\ queue'[n] = queue[n + 1]
        BY <1>1, TakeMessageStep DEF PanelInv, TypeOK
  <2>2. queue' \in Seq(Nat) /\ \A n \in DOMAIN queue' : n \in Nat /\ n > 0
        BY <1>1, TakeMessageStep
  <2>3. UNCHANGED <<bus, handling, published, inbox>> BY <1>1 DEF TakeMessage
  <2>4. \A n \in DOMAIN queue' : queue[1] < queue'[n]
        BY <2>1, <2>2 DEF OrderInv, Lined, Rising
  <2>5. Rising(queue') BY <2>1, <2>2 DEF OrderInv, Lined, Rising
  <2>6. Lined' BY <2>1, <2>3, <2>5 DEF OrderInv, Lined
  <2>7. \A i \in Nat : Below(i) => Below(i)' BY <2>1, <2>3 DEF Below
  <2>8. queue[1] <= Len(published) BY <2>1, <1>0 DEF PanelInv, Ids, Addressed
  <2>9. Below(job.id)' BY <2>1, <2>3, <2>4, <2>8 DEF Below, OrderInv, Lined
  <2>10. \A i \in Nat : Below(i) => i <= queue[1] BY <2>1 DEF Below
  <2>11. ReadSoFar' BY <1>0, <2>1, <2>3, <2>7, <2>10 DEF OrderInv, ReadSoFar
  <2>12. InOrder' BY <2>3 DEF OrderInv, InOrder
  <2> QED BY <2>6, <2>9, <2>11, <2>12 DEF OrderInv
<1>2. ASSUME job # NoJob, job' = NoJob \/ job'.id = job.id,
             UNCHANGED <<bus, handling, queue, published>>
      PROVE  /\ Lined' /\ (job' # NoJob => Below(job.id)')
             /\ \A i : Below(i) => Below(i)'
      BY <1>2 DEF OrderInv, Lined, Below
<1>3. CASE Send
  <2>1. /\ job # NoJob /\ UNCHANGED <<bus, handling, queue, published>>
        /\ inbox' = inbox \/ inbox' = Deliver(Head(job.to), job.id)
        BY <1>3 DEF Send
  <2>2. Going(job) /\ job.id \in Nat /\ Head(job.to) \in Recipients
        BY <2>1, UnderWayGoing, GoingStep DEF Going, Jobs
  <2>3. job'.id = job.id
    <3>1. job' \in {[job EXCEPT !.at = "book"], AfterError(job)} BY <1>3 DEF Send
    <3>2. AfterError(job).id = job.id BY <2>2, GoingStep
    <3>3. [job EXCEPT !.at = "book"].id = job.id BY <2>2 DEF Going, Jobs
    <3> QED BY <3>1, <3>2, <3>3
  <2>4. Lined' /\ (job' # NoJob => Below(job.id)') /\ \A i : Below(i) => Below(i)'
        BY <1>2, <2>1, <2>3
  <2>5. CASE inbox' = inbox
    <3>1. ReadSoFar' BY <2>1, <2>3, <2>4, <2>5 DEF OrderInv, ReadSoFar
    <3>2. InOrder' BY <2>5 DEF OrderInv, InOrder
    <3> QED BY <2>4, <3>1, <3>2 DEF OrderInv
  <2>6. CASE inbox' = Deliver(Head(job.to), job.id)
    <3> DEFINE q == Head(job.to)
               i == job.id
    <3>0. q \in Recipients /\ i \in Nat /\ inbox' = Deliver(q, i) BY <2>2, <2>6
    <3>1. /\ Below(i) /\ \A r \in Recipients : \A n \in DOMAIN inbox[r] :
               Below(inbox[r][n]) /\ inbox[r][n] <= i
          BY <2>1 DEF OrderInv, ReadSoFar
    <3> HIDE DEF q, i
    <3>2. /\ \A s \in Recipients \ {q} : inbox'[s] = inbox[s]
          /\ \A n \in DOMAIN inbox[q] : n \in DOMAIN inbox'[q] /\ inbox'[q][n] = inbox[q][n]
          /\ \A n \in DOMAIN inbox'[q] :
               \/ n \in DOMAIN inbox[q]
               \/ /\ n = Len(inbox[q]) + 1 /\ inbox'[q][n] = i
                  /\ inbox[q] # <<>> => inbox[q][Len(inbox[q])] # i
          BY <1>0, <3>0, DeliverAtEnd
    <3>3. \A r \in Recipients : \A n \in DOMAIN inbox'[r] :
            \/ n \in DOMAIN inbox[r] /\ inbox'[r][n] = inbox[r][n]
            \/ inbox'[r][n] = i
          BY <3>2
    <3>4. \A r \in Recipients : \A n \in DOMAIN inbox'[r] :
            Below(inbox'[r][n]) /\ inbox'[r][n] <= i
          BY <3>0, <3>1, <3>3
    <3>5. ReadSoFar' BY <2>3, <2>4, <3>4 DEF ReadSoFar, i
    <3>6. Rising(inbox[q]) BY <3>0 DEF OrderInv, InOrder, Rising
    <3>7. Rising(inbox'[q])
      <4> SUFFICES ASSUME NEW m \in DOMAIN inbox'[q], NEW n \in DOMAIN inbox'[q], m < n
                   PROVE  inbox'[q][m] < inbox'[q][n]
          BY DEF Rising
      <4> DEFINE s == inbox[q]
      <4>1. s \in Seq(Nat) /\ \A k \in DOMAIN s : s[k] <= i /\ s[k] \in Nat
            BY <1>0, <3>0, <3>1
      <4>2. Rising(s) BY <3>6
      <4>3. /\ \A k \in DOMAIN s : inbox'[q][k] = s[k]
            /\ \A k \in DOMAIN inbox'[q] :
                 \/ k \in DOMAIN s
                 \/ k = Len(s) + 1 /\ inbox'[q][k] = i /\ (s # <<>> => s[Len(s)] # i)
            BY <3>2
      <4> HIDE DEF s
      <4>4. DOMAIN s = 1..Len(s) /\ Len(s) \in Nat BY <4>1
      <4>5. CASE n \in DOMAIN s
        <5>1. m \in DOMAIN s BY <4>3, <4>4, <4>5
        <5> QED BY <4>2, <4>3, <4>5, <5>1 DEF Rising
      <4>6. CASE n = Len(s) + 1 /\ inbox'[q][n] = i /\ (s # <<>> => s[Len(s)] # i)
        <5>1. m \in DOMAIN s /\ Len(s) \in DOMAIN s BY <4>3, <4>4, <4>6
        <5>2. s # <<>> BY <4>1, <5>1
        <5>3. s[Len(s)] < i BY <3>0, <4>1, <4>6, <5>1, <5>2
        <5>4. s[m] <= s[Len(s)]
          <6>1. m = Len(s) \/ m < Len(s) BY <4>4, <5>1
          <6> QED BY <4>1, <4>2, <5>1, <6>1 DEF Rising
        <5>5. s[m] < i BY <3>0, <4>1, <5>1, <5>3, <5>4
        <5> QED BY <4>3, <4>6, <5>1, <5>5
      <4> QED BY <4>3, <4>5, <4>6
    <3>8. \A r \in Recipients : Rising(inbox'[r])
          BY <3>2, <3>7 DEF OrderInv, InOrder, Rising
    <3>9. InOrder' BY <3>8 DEF InOrder, Rising
    <3> QED BY <2>4, <3>5, <3>9 DEF OrderInv
  <2> QED BY <2>1, <2>5, <2>6
<1>4. CASE Book \/ GiveUp
  <2>1. /\ job # NoJob /\ UNCHANGED <<bus, handling, queue, published, inbox>>
        /\ job' \in {Onward(job), AfterError(job), NoJob}
        BY <1>4, NoJobType DEF Book, GiveUp
  <2>2. job' = NoJob \/ job'.id = job.id BY <2>1, UnderWayGoing, GoingStep
  <2>3. Lined' /\ (job' # NoJob => Below(job.id)') /\ \A i : Below(i) => Below(i)'
        BY <1>2, <2>1, <2>2
  <2>4. ReadSoFar' BY <2>1, <2>2, <2>3 DEF OrderInv, ReadSoFar
  <2>5. InOrder' BY <2>1 DEF OrderInv, InOrder
  <2> QED BY <2>3, <2>4, <2>5 DEF OrderInv
<1> QED BY <1>1, <1>3, <1>4

LEMMA OrderKept == PanelInv /\ OrderInv /\ [Next]_vars => OrderInv'
<1> SUFFICES ASSUME PanelInv, OrderInv, [Next]_vars PROVE OrderInv' OBVIOUS
<1>1. CASE JudgeStatus
  <2>1. PICK conn \in Connections, beats \in BOOLEAN :
          /\ Publish(StatusEvents(lastStatus, status) \o ConnEvents(lastConn, conn)
                       \o (IF beats THEN <<"beat">> ELSE <<>>))
          /\ UNCHANGED <<handling, queue, job, inbox>>
        BY <1>1 DEF JudgeStatus
  <2> QED BY <2>1, KindsOnly, KindsAreEvents, OrderPublish
<1>2. CASE \E seen \in SUBSET Tickets : \E order \in Orders(seen \ known) :
             Publish(order) /\ UNCHANGED <<handling, queue, job, inbox>>
  <2>1. PICK seen \in SUBSET Tickets : \E order \in Orders(seen \ known) :
             Publish(order) /\ UNCHANGED <<handling, queue, job, inbox>>
        BY <1>2
  <2>2. PICK order \in Orders(seen \ known) :
             Publish(order) /\ UNCHANGED <<handling, queue, job, inbox>>
        BY <2>1
  <2>3. order \in Seq(Events) BY OrdersType
  <2> QED BY <2>2, <2>3, OrderPublish
<1>3. CASE UNCHANGED <<bus, handling, queue, job, published, inbox>>
      BY <1>3 DEF OrderInv, Lined, Below, ReadSoFar, InOrder
<1>4. LookAtRows => \/ UNCHANGED <<bus, handling, queue, job, published, inbox>>
                    \/ \E seen \in SUBSET Tickets : \E order \in Orders(seen \ known) :
                         Publish(order) /\ UNCHANGED <<handling, queue, job, inbox>>
      BY DEF LookAtRows
<1>5. CASE LookAtStatus \/ CheckFails \/ TimerRuns \/ UNCHANGED vars
      BY <1>3, <1>5 DEF LookAtStatus, CheckFails, TimerRuns, vars
<1> QED BY <1>1, <1>2, <1>3, <1>4, <1>5, OrderBus, OrderDelivery DEF Next

(* event_bus.py and notification_service.py: with two queues, retries and  *)
(* recipients given up on, nobody reads a newer alert before an older one. *)
THEOREM AlertsInOrder == Spec => []InOrder
<1>1. Init => OrderInv
  <2> SUFFICES ASSUME Init PROVE OrderInv OBVIOUS
  <2>1. /\ bus = <<>> /\ queue = <<>> /\ handling = 0 /\ job = NoJob
        /\ \A r \in Recipients : inbox[r] = <<>>
        BY DEF Init
  <2> QED BY <2>1 DEF OrderInv, Lined, Rising, ReadSoFar, InOrder
<1>2. OrderInv => InOrder BY DEF OrderInv
<1> QED BY <1>1, <1>2, OrderKept, PanelInvariant, PTL DEF Spec

(***************************************************************************)
(* Accounted.  A message is booked only after it has gone out, and nothing *)
(* is known before the first poll.                                         *)
(***************************************************************************)
EventsAccounted ==
  \A i \in DOMAIN published : \A r \in Range(Addressees(published[i])) :
    UnderWay(i, r) \/ Settled(i, r)

SettledInv ==
  /\ job.at = "book" => job.id \in Range(inbox[Head(job.to)])
  /\ ~polled => known = {}
  /\ Accounted

(* Every one of the new tickets is in the order they are published in.     *)
LEMMA OrdersCover ==
  ASSUME NEW S \in SUBSET Tickets, NEW order \in Orders(S)
  PROVE  \A t \in S : \E k \in DOMAIN order : order[k] = t
<1>1. IsFiniteSet(S) BY NameAssumption, FS_Subset
<1>2. Cardinality(S) \in Nat BY <1>1, FS_CardinalityType
<1> DEFINE n == Cardinality(S)
<1>3. order \in [1..n -> S] /\ IsInjective(order) BY DEF Orders
<1>4. order \in Injection(1..n, S) BY <1>3 DEF Injection, IsInjective
<1>5. IsFiniteSet(1..n) /\ Cardinality(1..n) = n
      BY <1>2, FS_Interval
<1>6. order \in Surjection(1..n, S) BY <1>1, <1>4, <1>5, FS_Injection
<1> QED BY <1>3, <1>6 DEF Surjection

(* What is published reaches the bus, or is lost for all its addressees.   *)
LEMMA PublishFate ==
  ASSUME NEW events \in Seq(Events), Publish(events), PanelInv
  PROVE  /\ lost \subseteq lost'
         /\ Range(bus) \subseteq Range(bus')
         /\ \A i \in DOMAIN published' : i > Len(published) =>
              \/ i \in Range(bus')
              \/ \A r \in Range(Addressees(published'[i])) : <<i, r>> \in lost'
         /\ \A k \in DOMAIN events :
              /\ Len(published) + k \in DOMAIN published'
              /\ published'[Len(published) + k] = events[k]
<1> DEFINE room == BusSize - Len(bus)
           kept == IF Len(events) <= room THEN Len(events) ELSE room
           new  == [k \in 1..kept |-> Len(published) + k]
<1>1. /\ published \in Seq(Events) /\ bus \in Seq(Nat) /\ Len(bus) <= BusSize
      /\ BusSize \in Nat
      BY SizeAssumption DEF PanelInv, TypeOK
<1>2. kept \in Nat /\ kept <= Len(events) BY <1>1
<1>3. new \in Seq(Nat) /\ Len(new) = kept /\ \A k \in 1..kept : new[k] = Len(published) + k
      BY <1>1, <1>2
<1>4. /\ published' = published \o events /\ bus' = bus \o new
      /\ lost' = lost \cup Unsent((Len(published) + kept + 1)..Len(published'), published')
      BY DEF Publish
<1>5. /\ Len(published') = Len(published) + Len(events)
      /\ published' \in Seq(Events)
      /\ \A k \in DOMAIN events : /\ Len(published) + k \in DOMAIN published'
                                  /\ published'[Len(published) + k] = events[k]
      BY <1>1, <1>4
<1> HIDE DEF kept, new
<1>6. /\ \A n \in DOMAIN bus : n \in DOMAIN bus' /\ bus'[n] = bus[n]
      /\ \A k \in 1..kept : Len(bus) + k \in DOMAIN bus' /\ bus'[Len(bus) + k] = new[k]
      BY <1>1, <1>2, <1>3, <1>4
<1>7. Range(bus) \subseteq Range(bus') BY <1>6 DEF Range
<1>8. ASSUME NEW i \in DOMAIN published', i > Len(published)
      PROVE  \/ i \in Range(bus')
             \/ \A r \in Range(Addressees(published'[i])) : <<i, r>> \in lost'
  <2>1. /\ i \in 1..Len(published') /\ Len(published) \in Nat /\ Len(published') \in Nat
        BY <1>1, <1>5
  <2>2. CASE i <= Len(published) + kept
    <3>1. i - Len(published) \in 1..kept BY <1>2, <1>8, <2>1, <2>2
    <3>2. bus'[Len(bus) + (i - Len(published))] = Len(published) + (i - Len(published))
          BY <1>3, <1>6, <3>1
    <3>3. bus'[Len(bus) + (i - Len(published))] = i BY <2>1, <3>2
    <3>4. Len(bus) + (i - Len(published)) \in DOMAIN bus' BY <1>6, <3>1
    <3> QED BY <3>3, <3>4 DEF Range
  <2>3. CASE i > Len(published) + kept
    <3>1. i \in (Len(published) + kept + 1)..Len(published') BY <1>2, <2>1, <2>3
    <3> QED BY <1>4, <3>1 DEF Unsent
  <2> QED BY <1>2, <2>1, <2>2, <2>3
<1> QED BY <1>4, <1>5, <1>7, <1>8

LEMMA EventsPublish ==
  ASSUME PanelInv, EventsAccounted, NEW events \in Seq(Events), Publish(events),
         UNCHANGED <<handling, queue, job, inbox>>
  PROVE  EventsAccounted'
<1> SUFFICES ASSUME NEW i \in DOMAIN published',
                    NEW r \in Range(Addressees(published'[i]))
             PROVE  UnderWay(i, r)' \/ Settled(i, r)'
    BY DEF EventsAccounted
<1>1. published \in Seq(Events) /\ published' \in Seq(Events)
      BY PublishStep DEF PanelInv, TypeOK
<1>2. i \in DOMAIN published \/ i > Len(published) BY <1>1
<1>3. CASE i \in DOMAIN published
  <2>1. published'[i] = published[i] BY <1>3, PublishStep
  <2>2. UnderWay(i, r) \/ Settled(i, r) BY <1>3, <2>1 DEF EventsAccounted
  <2> QED BY <2>2, PublishFate DEF UnderWay, Settled
<1>4. CASE i > Len(published) BY <1>4, PublishFate DEF UnderWay, Settled
<1> QED BY <1>2, <1>3, <1>4

(* The same events as before, each where it was or further on.             *)
LEMMA EventsMove ==
  ASSUME EventsAccounted, UNCHANGED published,
         \A i \in DOMAIN published : \A r \in Range(Addressees(published[i])) :
           UnderWay(i, r) \/ Settled(i, r) => UnderWay(i, r)' \/ Settled(i, r)'
  PROVE  EventsAccounted'
  BY DEF EventsAccounted

LEMMA RangeQueue ==
  ASSUME NEW s \in Seq(Nat)
  PROVE  /\ s # <<>> => Range(s) = {Head(s)} \cup Range(Tail(s))
         /\ \A i \in Nat : Range(Append(s, i)) = Range(s) \cup {i}
<1>1. ASSUME s # <<>> PROVE Range(s) = {Head(s)} \cup Range(Tail(s))
  <2>1. /\ DOMAIN s = 1..Len(s) /\ Len(s) \in Nat \ {0} /\ Head(s) = s[1]
        /\ DOMAIN Tail(s) = 1..(Len(s) - 1)
        /\ \A n \in 1..(Len(s) - 1) : Tail(s)[n] = s[n + 1]
        BY <1>1
  <2>2. \A n \in DOMAIN s : n = 1 \/ (n - 1 \in DOMAIN Tail(s) /\ s[n] = Tail(s)[n - 1])
        BY <2>1
  <2>3. \A n \in DOMAIN Tail(s) : n + 1 \in DOMAIN s /\ Tail(s)[n] = s[n + 1] BY <2>1
  <2>4. 1 \in DOMAIN s BY <2>1
  <2> DEFINE u == Tail(s)
  <2>5. /\ \A n \in DOMAIN s : n = 1 \/ (n - 1 \in DOMAIN u /\ s[n] = u[n - 1])
        /\ \A n \in DOMAIN u : n + 1 \in DOMAIN s /\ u[n] = s[n + 1]
        BY <2>2, <2>3
  <2> HIDE DEF u
  <2>6. Range(s) \subseteq {s[1]} \cup Range(u) BY <2>5 DEF Range
  <2>7. {s[1]} \cup Range(u) \subseteq Range(s) BY <2>4, <2>5 DEF Range
  <2> QED BY <2>1, <2>6, <2>7 DEF u
<1>2. ASSUME NEW i \in Nat PROVE Range(Append(s, i)) = Range(s) \cup {i}
  <2> DEFINE t == Append(s, i)
  <2>1. /\ DOMAIN t = 1..(Len(s) + 1) /\ DOMAIN s = 1..Len(s) /\ Len(s) \in Nat
        /\ \A n \in DOMAIN s : t[n] = s[n]
        /\ t[Len(s) + 1] = i
        OBVIOUS
  <2> HIDE DEF t
  <2>2. Len(s) + 1 \in DOMAIN t /\ \A n \in DOMAIN t : n \in DOMAIN s \/ n = Len(s) + 1
        BY <2>1
  <2>3. \A n \in DOMAIN s : n \in DOMAIN t BY <2>1
  <2> QED BY <2>1, <2>2, <2>3 DEF Range, t
<1> QED BY <1>1, <1>2

LEMMA RangeTo ==
  ASSUME NEW s \in Seq(Recipients), s # <<>>
  PROVE  /\ Range(s) = {Head(s)} \cup Range(Tail(s))
         /\ Len(s) = 1 => Range(s) = {Head(s)}
<1>1. /\ DOMAIN s = 1..Len(s) /\ Len(s) \in Nat \ {0} /\ Head(s) = s[1]
      /\ DOMAIN Tail(s) = 1..(Len(s) - 1)
      /\ \A n \in 1..(Len(s) - 1) : Tail(s)[n] = s[n + 1]
      OBVIOUS
<1>2. \A n \in DOMAIN s : n = 1 \/ (n - 1 \in DOMAIN Tail(s) /\ s[n] = Tail(s)[n - 1])
      BY <1>1
<1>3. \A n \in DOMAIN Tail(s) : n + 1 \in DOMAIN s /\ Tail(s)[n] = s[n + 1] BY <1>1
<1>4. 1 \in DOMAIN s /\ (Len(s) = 1 => DOMAIN s = {1}) BY <1>1
<1> DEFINE u == Tail(s)
<1>5. /\ \A n \in DOMAIN s : n = 1 \/ (n - 1 \in DOMAIN u /\ s[n] = u[n - 1])
      /\ \A n \in DOMAIN u : n + 1 \in DOMAIN s /\ u[n] = s[n + 1]
      BY <1>2, <1>3
<1> HIDE DEF u
<1>6. Range(s) \subseteq {s[1]} \cup Range(u) BY <1>5 DEF Range
<1>7. {s[1]} \cup Range(u) \subseteq Range(s) BY <1>4, <1>5 DEF Range
<1>8. Len(s) = 1 => Range(s) = {s[1]} BY <1>4 DEF Range
<1> QED BY <1>1, <1>6, <1>7, <1>8 DEF u

(* After the recipient at the head, the delivery is under way for the rest. *)
LEMMA OnwardTo ==
  ASSUME NEW j, Going(j)
  PROVE  /\ Head(j.to) \in Range(j.to)
         /\ \A r \in Range(j.to) : r = Head(j.to)
              \/ (r \in Range(Onward(j).to) /\ Onward(j).id = j.id)
         /\ Onward(j).at # "book"
<1>1. j.to \in Seq(Recipients) /\ j.to # <<>> BY DEF Going, Jobs
<1> DEFINE s == j.to
<1>2. s \in Seq(Recipients) /\ s # <<>> BY <1>1
<1> HIDE DEF s
<1>3. Range(s) = {Head(s)} \cup Range(Tail(s)) /\ (Len(s) = 1 => Range(s) = {Head(s)})
      BY <1>2, RangeTo
<1>4. CASE Len(j.to) = 1 BY <1>3, <1>4 DEF Onward, NoJob, s
<1>5. CASE Len(j.to) # 1
  <2>1. /\ Onward(j) = [j EXCEPT !.to = Tail(@), !.attempt = 1, !.at = "send"]
        BY <1>5 DEF Onward
  <2>2. Onward(j).to = Tail(j.to) /\ Onward(j).id = j.id /\ Onward(j).at = "send"
        BY <2>1 DEF Going, Jobs
  <2> QED BY <1>3, <2>2 DEF s
<1> QED BY <1>4, <1>5

LEMMA EventsBus ==
  PanelInv /\ EventsAccounted /\ (TakeEvent \/ Notify \/ NotifySkips)
    => EventsAccounted'
<1> SUFFICES ASSUME PanelInv, EventsAccounted
             PROVE  (TakeEvent \/ Notify \/ NotifySkips) => EventsAccounted'
    OBVIOUS
<1>0. /\ bus \in Seq(Nat) /\ queue \in Seq(Nat) /\ handling \in Nat
      /\ published \in Seq(Events) /\ DOMAIN published = 1..Len(published)
      BY DEF PanelInv, TypeOK
<1>1. CASE TakeEvent
  <2>1. /\ handling = 0 /\ bus # <<>> /\ bus' = Tail(bus)
        /\ handling' = IF Addressees(published[Head(bus)]) = <<>> THEN 0 ELSE Head(bus)
        /\ UNCHANGED <<queue, job, published, inbox, lost>>
        BY <1>1 DEF TakeEvent
  <2>2. Range(bus) = {Head(bus)} \cup Range(bus') BY <1>0, <2>1, RangeQueue
  <2>3. \A i \in DOMAIN published : \A r \in Range(Addressees(published[i])) :
          i = Head(bus) => handling' = i
        BY <2>1 DEF Range
  <2>4. \A i \in DOMAIN published : i # 0 BY <1>0
  <2>5. \A i \in DOMAIN published : \A r \in Range(Addressees(published[i])) :
           UnderWay(i, r) \/ Settled(i, r) => UnderWay(i, r)' \/ Settled(i, r)'
        BY <2>1, <2>2, <2>3, <2>4 DEF UnderWay, Settled
  <2> QED BY <2>1, <2>5, EventsMove
<1>2. CASE Notify
  <2>1. /\ handling' = 0 /\ queue' = Append(queue, handling)
        /\ UNCHANGED <<bus, job, published, inbox, lost>>
        BY <1>2 DEF Notify, Queued
  <2>2. Range(queue') = Range(queue) \cup {handling} BY <1>0, <2>1, RangeQueue
  <2>3. \A i, r : UnderWay(i, r) \/ Settled(i, r) => UnderWay(i, r)' \/ Settled(i, r)'
        BY <2>1, <2>2 DEF UnderWay, Settled
  <2> QED BY <2>1, <2>3, EventsMove
<1>3. CASE NotifySkips
  <2>1. /\ handling' = 0 /\ lost' = lost \cup Unsent({handling}, published)
        /\ UNCHANGED <<bus, queue, job, published, inbox>>
        BY <1>3 DEF NotifySkips
  <2>2. \A r \in Range(Addressees(published[handling])) : <<handling, r>> \in lost'
        BY <2>1 DEF Unsent
  <2>3. \A i \in DOMAIN published : \A r \in Range(Addressees(published[i])) :
           UnderWay(i, r) \/ Settled(i, r) => UnderWay(i, r)' \/ Settled(i, r)'
        BY <2>1, <2>2 DEF UnderWay, Settled
  <2> QED BY <2>1, <2>3, EventsMove
<1> QED BY <1>1, <1>2, <1>3

(* The delivery goes on to the next message, attempt or recipient.         *)
LEMMA DeliverySettles ==
  ASSUME PanelInv, EventsAccounted, TakeMessage \/ Send \/ Book \/ GiveUp,
         job.at = "book" => job.id \in Range(inbox[Head(job.to)])
  PROVE  /\ EventsAccounted'
         /\ job'.at = "book" => job'.id \in Range(inbox'[Head(job'.to)])
<1>0. /\ queue \in Seq(Nat) /\ published \in Seq(Events)
      /\ DOMAIN published = 1..Len(published) /\ inbox \in [Recipients -> Seq(Nat)]
      BY DEF PanelInv, TypeOK
<1>1. CASE TakeMessage
  <2>1. /\ job = NoJob /\ queue # <<>> /\ queue' = Tail(queue)
        /\ job'.id = Head(queue) /\ job'.to = Addressees(published[Head(queue)])
        /\ job'.at = "send"
        /\ UNCHANGED <<bus, handling, published, inbox, lost>>
        BY <1>1 DEF TakeMessage, NoJob
  <2>2. Range(queue) = {Head(queue)} \cup Range(queue') BY <1>0, <2>1, RangeQueue
  <2>3. job.id = 0 BY <2>1, NoJobType
  <2>4. \A i \in DOMAIN published : i # 0 BY <1>0
  <2>5. \A i \in DOMAIN published : \A r \in Range(Addressees(published[i])) :
           UnderWay(i, r) \/ Settled(i, r) => UnderWay(i, r)' \/ Settled(i, r)'
        BY <2>1, <2>2, <2>3, <2>4 DEF UnderWay, Settled
  <2> QED BY <2>1, <2>5, EventsMove
<1>2. CASE Send
  <2>1. /\ job # NoJob /\ UNCHANGED <<bus, handling, queue, published, lost>>
        /\ \/ /\ inbox' = Deliver(Head(job.to), job.id)
              /\ job' \in {[job EXCEPT !.at = "book"], AfterError(job)}
           \/ /\ inbox' = inbox /\ job' = AfterError(job)
        BY <1>2 DEF Send
  <2>2. /\ Going(job) /\ job.id \in Nat /\ Head(job.to) \in Recipients
        /\ AfterError(job).id = job.id /\ AfterError(job).to = job.to
        BY <2>1, UnderWayGoing, GoingStep DEF Going, Jobs
  <2>3. AfterError(job).at # "book" BY <2>2 DEF AfterError, Going, Jobs
  <2>4. /\ [job EXCEPT !.at = "book"].id = job.id
        /\ [job EXCEPT !.at = "book"].to = job.to
        BY <2>2 DEF Going, Jobs
  <2>5. job'.id = job.id /\ job'.to = job.to BY <2>1, <2>2, <2>4
  <2>6. /\ \A r \in Recipients : Range(inbox[r]) \subseteq Range(inbox'[r])
        /\ inbox' = inbox \/ job.id \in Range(inbox'[Head(job.to)])
    <3>1. CASE inbox' = inbox BY <3>1
    <3>2. CASE inbox' = Deliver(Head(job.to), job.id)
      <4> DEFINE q == Head(job.to)
                 i == job.id
      <4>1. q \in Recipients /\ i \in Nat /\ inbox' = Deliver(q, i) BY <2>2, <3>2
      <4> HIDE DEF q, i
      <4>2. /\ \A s \in Recipients \ {q} : inbox'[s] = inbox[s]
            /\ i \in Range(inbox'[q])
            /\ \A n \in DOMAIN inbox[q] : n \in DOMAIN inbox'[q] /\ inbox'[q][n] = inbox[q][n]
            BY <1>0, <4>1, DeliverAtEnd
      <4>3. Range(inbox[q]) \subseteq Range(inbox'[q]) BY <4>2 DEF Range
      <4>4. \A r \in Recipients : Range(inbox[r]) \subseteq Range(inbox'[r])
            BY <4>2, <4>3
      <4> QED BY <4>2, <4>4 DEF q, i
    <3> QED BY <2>1, <3>1, <3>2
  <2>7. job'.at = "book" => job'.id \in Range(inbox'[Head(job'.to)])
    <3> SUFFICES ASSUME job'.at = "book" PROVE job.id \in Range(inbox'[Head(job.to)])
        BY <2>5
    <3>1. job' # AfterError(job) BY <2>3
    <3>2. inbox' = Deliver(Head(job.to), job.id) BY <2>1, <3>1
    <3> QED BY <1>0, <2>2, <3>2, DeliverAtEnd
  <2>8. \A i \in DOMAIN published : \A r \in Range(Addressees(published[i])) :
           UnderWay(i, r) \/ Settled(i, r) => UnderWay(i, r)' \/ Settled(i, r)'
        BY <2>1, <2>5, <2>6, SomeoneType DEF UnderWay, Settled
  <2> QED BY <2>1, <2>7, <2>8, EventsMove
<1>3. CASE Book
  <2>1. /\ job.at = "book" /\ job' \in {Onward(job), AfterError(job)}
        /\ UNCHANGED <<bus, handling, queue, published, inbox, lost>>
        BY <1>3 DEF Book
  <2>2. /\ Going(job) /\ AfterError(job).id = job.id /\ AfterError(job).to = job.to
        /\ AfterError(job).at # "book"
    <3>1. Going(job) BY <2>1, NoJobType, UnderWayGoing
    <3> QED BY <3>1, GoingStep DEF AfterError, Going, Jobs
  <2>3. job.id \in Range(inbox[Head(job.to)]) BY <2>1
  <2>4. /\ \A r \in Range(job.to) : r = Head(job.to) \/ (r \in Range(job'.to) /\ job'.id = job.id)
        /\ job'.at # "book"
        BY <2>1, <2>2, OnwardTo
  <2>5. \A i \in DOMAIN published : \A r \in Range(Addressees(published[i])) :
           UnderWay(i, r) \/ Settled(i, r) => UnderWay(i, r)' \/ Settled(i, r)'
        BY <2>1, <2>3, <2>4 DEF UnderWay, Settled
  <2> QED BY <2>1, <2>4, <2>5, EventsMove
<1>4. CASE GiveUp
  <2>1. /\ job.at = "giveup"
        /\ \/ job' = Onward(job) /\ lost' = lost \cup {<<job.id, Head(job.to)>>}
           \/ job' = NoJob /\ lost' = lost \cup ({job.id} \X Range(job.to))
        /\ UNCHANGED <<bus, handling, queue, published, inbox>>
        BY <1>4 DEF GiveUp
  <2>2. Going(job) BY <2>1, NoJobType, UnderWayGoing
  <2>3. /\ \A r \in Range(job.to) :
             <<job.id, r>> \in lost' \/ (r \in Range(job'.to) /\ job'.id = job.id)
        /\ job'.at # "book"
        BY <2>1, <2>2, OnwardTo, NoJobType
  <2>4. lost \subseteq lost' BY <2>1
  <2>5. \A i \in DOMAIN published : \A r \in Range(Addressees(published[i])) :
           UnderWay(i, r) \/ Settled(i, r) => UnderWay(i, r)' \/ Settled(i, r)'
        BY <2>1, <2>3, <2>4 DEF UnderWay, Settled
  <2> QED BY <2>1, <2>3, <2>5, EventsMove
<1> QED BY <1>1, <1>2, <1>3, <1>4

LEMMA SettledKept == PanelInv /\ SettledInv /\ [Next]_vars => SettledInv'
<1> SUFFICES ASSUME PanelInv, SettledInv, [Next]_vars PROVE SettledInv' OBVIOUS
<1> DEFINE New  == \A t \in known \ baseline : t \in Range(published)
           Book1 == job.at = "book" => job.id \in Range(inbox[Head(job.to)])
           First == ~polled => known = {}
<1>0. EventsAccounted /\ New /\ Book1 /\ First
      BY DEF SettledInv, Accounted, EventsAccounted
<1>1. ASSUME EventsAccounted', New', Book1', First' PROVE SettledInv'
      BY <1>1 DEF SettledInv, Accounted, EventsAccounted
<1>2. ASSUME NEW events \in Seq(Events), Publish(events),
             UNCHANGED <<handling, queue, job, inbox>>
      PROVE  /\ EventsAccounted' /\ Book1' /\ Range(published) \subseteq Range(published')
             /\ \A k \in DOMAIN events : events[k] \in Range(published')
  <2>1. EventsAccounted' BY <1>0, <1>2, EventsPublish
  <2>2. \A i \in DOMAIN published : i \in DOMAIN published' /\ published'[i] = published[i]
        BY <1>2, PublishStep
  <2>3. \A k \in DOMAIN events : Len(published) + k \in DOMAIN published'
                                   /\ published'[Len(published) + k] = events[k]
        BY <1>2, PublishFate
  <2>4. Range(published) \subseteq Range(published') BY <2>2 DEF Range
  <2>5. \A k \in DOMAIN events : events[k] \in Range(published') BY <2>3 DEF Range
  <2>6. Book1' BY <1>0, <1>2
  <2> QED BY <2>1, <2>4, <2>5, <2>6
<1>3. CASE JudgeStatus
  <2>1. PICK conn \in Connections, beats \in BOOLEAN :
          /\ Publish(StatusEvents(lastStatus, status) \o ConnEvents(lastConn, conn)
                       \o (IF beats THEN <<"beat">> ELSE <<>>))
          /\ UNCHANGED <<handling, queue, job, inbox, polled, known, baseline>>
        BY <1>3 DEF JudgeStatus
  <2>2. StatusEvents(lastStatus, status) \o ConnEvents(lastConn, conn)
          \o (IF beats THEN <<"beat">> ELSE <<>>) \in Seq(Events)
        BY KindsOnly, KindsAreEvents
  <2>3. EventsAccounted' /\ Book1' /\ Range(published) \subseteq Range(published')
        BY <1>2, <2>1, <2>2
  <2>4. New' /\ First' BY <1>0, <2>1, <2>3
  <2> QED BY <1>1, <2>3, <2>4
<1>4. CASE LookAtRows
  <2>1. PICK seen \in SUBSET Tickets :
        /\ polled' = TRUE /\ known' = known \cup seen
        /\ \/ ~polled /\ baseline' = seen /\ UNCHANGED <<bus, published, lost>>
           \/ polled /\ baseline' = baseline
                /\ \E order \in Orders(seen \ known) : Publish(order)
        /\ UNCHANGED <<handling, queue, job, inbox>>
      BY <1>4 DEF LookAtRows, KnownAfter
  <2>2. CASE ~polled /\ baseline' = seen /\ UNCHANGED <<bus, published, lost>>
    <3>1. EventsAccounted' BY <1>0, <2>1, <2>2 DEF EventsAccounted, UnderWay, Settled
    <3>2. New' /\ First' /\ Book1' BY <1>0, <2>1, <2>2
    <3> QED BY <1>1, <3>1, <3>2
  <2>3. CASE baseline' = baseline /\ \E order \in Orders(seen \ known) : Publish(order)
    <3>1. PICK order \in Orders(seen \ known) : Publish(order) BY <2>3
    <3>2. order \in Seq(Events) BY OrdersType
    <3>3. /\ EventsAccounted' /\ Book1' /\ Range(published) \subseteq Range(published')
          /\ \A k \in DOMAIN order : order[k] \in Range(published')
          BY <1>2, <2>1, <3>1, <3>2
    <3>4. \A t \in seen \ known : t \in Range(published') BY <3>3, OrdersCover
    <3>5. New' /\ First' BY <1>0, <2>1, <2>3, <3>3, <3>4
    <3> QED BY <1>1, <3>3, <3>5
  <2> QED BY <2>1, <2>2, <2>3
<1>5. CASE TakeEvent \/ Notify \/ NotifySkips
  <2>1. UNCHANGED <<polled, known, baseline, published, job, inbox>>
        BY <1>5 DEF TakeEvent, Notify, NotifySkips, monitoring
  <2>2. EventsAccounted' BY <1>0, <1>5, EventsBus
  <2>3. New' /\ First' /\ Book1' BY <1>0, <2>1
  <2> QED BY <1>1, <2>2, <2>3
<1>6. CASE TakeMessage \/ Send \/ Book \/ GiveUp
  <2>1. UNCHANGED <<polled, known, baseline, published>>
        BY <1>6 DEF TakeMessage, Send, Book, GiveUp, monitoring
  <2>2. EventsAccounted' /\ Book1' BY <1>0, <1>6, DeliverySettles
  <2>3. New' /\ First' BY <1>0, <2>1
  <2> QED BY <1>1, <2>2, <2>3
<1>7. CASE LookAtStatus \/ CheckFails \/ TimerRuns \/ UNCHANGED vars
  <2>1. UNCHANGED <<polled, known, baseline, bus, handling, queue, job, published, inbox, lost>>
        BY <1>7 DEF LookAtStatus, CheckFails, TimerRuns, vars, monitoring
  <2>2. EventsAccounted' BY <1>0, <2>1 DEF EventsAccounted, UnderWay, Settled
  <2>3. New' /\ First' /\ Book1' BY <1>0, <2>1
  <2> QED BY <1>1, <2>2, <2>3
<1> QED BY <1>3, <1>4, <1>5, <1>6, <1>7 DEF Next

LEMMA SettledInvariant == Spec => []SettledInv
<1>1. Init => SettledInv
  <2> SUFFICES ASSUME Init PROVE SettledInv OBVIOUS
  <2>1. job.at = "send" /\ known = {} /\ DOMAIN published = {} BY NoJobType DEF Init
  <2> QED BY <2>1 DEF SettledInv, Accounted
<1> QED BY <1>1, SettledKept, PanelInvariant, PTL DEF Spec

(* heartbeat.py, event_bus.py, notification_service.py: each trade seen    *)
(* after the first poll was published, and each alert is for each of its   *)
(* recipients under way, delivered or given up; one who cannot be reached  *)
(* takes it from nobody else.                                              *)
THEOREM AlertsAccounted == Spec => []Accounted
<1>1. SettledInv => Accounted BY DEF SettledInv
<1> QED BY <1>1, SettledInvariant, PTL

(***************************************************************************)
(* LastAlertTrue.  The newest alert about the connection says what         *)
(* _last_conn remembers.                                                   *)
(***************************************************************************)
ConnKinds == {"lost", "restored"}
Told(conn) == IF conn = "connected" THEN "restored" ELSE "lost"

ConnInv ==
  /\ lastConn = NoView => ConnAlerts = {}
  /\ ConnAlerts # {} =>
       \E i \in ConnAlerts :
         (\A k \in ConnAlerts : k <= i) /\ published[i] = Told(lastConn)

LEMMA Joined ==
  ASSUME NEW S, NEW a \in Seq(S), NEW b \in Seq(S), NEW e, e = a \o b
  PROVE  /\ DOMAIN e = 1..(Len(a) + Len(b)) /\ Len(a) \in Nat /\ Len(b) \in Nat
         /\ DOMAIN a = 1..Len(a) /\ DOMAIN b = 1..Len(b)
         /\ \A k \in DOMAIN e : e[k] = IF k <= Len(a) THEN a[k] ELSE b[k - Len(a)]
  OBVIOUS

OfOneCheck(events, s, conn, b) ==
  events = StatusEvents(lastStatus, s) \o ConnEvents(lastConn, conn)
             \o (IF b THEN <<"beat">> ELSE <<>>)

(* Among the events of one check, the connection's is the only one of its  *)
(* kind, and it is there when the connection has turned.                   *)
LEMMA OneConnEvent ==
  ASSUME NEW s, NEW conn \in Connections, NEW b \in BOOLEAN,
         NEW events, OfOneCheck(events, s, conn, b)
  PROVE  /\ ~Turned(lastConn, conn) => \A k \in DOMAIN events : events[k] \notin ConnKinds
         /\ Turned(lastConn, conn) =>
              \E k \in DOMAIN events : /\ events[k] = Told(conn)
                                       /\ \A n \in DOMAIN events \ {k} : events[n] \notin ConnKinds
<1> DEFINE x == StatusEvents(lastStatus, s)
           y == ConnEvents(lastConn, conn)
           z == IF b THEN <<"beat">> ELSE <<>>
<1>0. \A k \in Kinds : <<k>> \in Seq(Kinds) /\ Len(<<k>>) = 1 /\ DOMAIN <<k>> = 1..1
      OBVIOUS
<1>e. <<>> \in Seq(Kinds) /\ DOMAIN <<>> = {} OBVIOUS
<1>1. x \in Seq(Kinds) /\ \A k \in DOMAIN x : x[k] \in {"error", "noted"}
  <2>1. x = <<>> \/ x = <<"error">> \/ x = <<"noted">> BY DEF StatusEvents
  <2>2. "error" \in Kinds /\ "noted" \in Kinds BY DEF Kinds
  <2> HIDE DEF x
  <2>3. CASE x = <<>> BY <1>e, <2>3
  <2>4. CASE x = <<"error">> BY <1>0, <2>2, <2>4
  <2>5. CASE x = <<"noted">> BY <1>0, <2>2, <2>5
  <2> QED BY <2>1, <2>3, <2>4, <2>5
<1>2. z \in Seq(Kinds) /\ \A k \in DOMAIN z : z[k] = "beat"
  <2>1. z = <<>> \/ z = <<"beat">> OBVIOUS
  <2>2. "beat" \in Kinds BY DEF Kinds
  <2> QED BY <1>0, <1>e, <2>1, <2>2
<1>3. y = IF Turned(lastConn, conn) THEN <<Told(conn)>> ELSE <<>>
      BY DEF ConnEvents, Told, Connections
<1>4. Told(conn) \in Kinds BY DEF Told, Kinds
<1>5. events = (x \o y) \o z BY DEF OfOneCheck
<1> HIDE DEF x, y, z
<1>6. CASE ~Turned(lastConn, conn)
  <2>1. y = <<>> BY <1>3, <1>6
  <2>2. x \o y = x BY <1>1, <2>1
  <2>e. events = x \o z BY <1>5, <2>2
  <2>3. /\ DOMAIN events = 1..(Len(x) + Len(z)) /\ Len(x) \in Nat /\ Len(z) \in Nat
        /\ DOMAIN x = 1..Len(x) /\ DOMAIN z = 1..Len(z)
        /\ \A k \in DOMAIN events :
             events[k] = IF k <= Len(x) THEN x[k] ELSE z[k - Len(x)]
        BY <1>1, <1>2, <2>e, Joined
  <2>4. \A k \in DOMAIN events : k \in DOMAIN x \/ (~(k <= Len(x)) /\ k - Len(x) \in DOMAIN z)
        BY <2>3
  <2>5. \A k \in DOMAIN events : events[k] \in {"error", "noted", "beat"}
        BY <1>1, <1>2, <2>3, <2>4
  <2> QED BY <1>6, <2>5 DEF ConnKinds
<1>7. CASE Turned(lastConn, conn)
  <2>1. y = <<Told(conn)>> BY <1>3, <1>7
  <2> DEFINE w == x \o y
  <2>2. /\ w \in Seq(Kinds) /\ Len(w) = Len(x) + 1 /\ w[Len(x) + 1] = Told(conn)
        /\ \A k \in 1..Len(x) : w[k] = x[k]
        /\ Len(x) \in Nat /\ DOMAIN x = 1..Len(x)
        BY <1>1, <1>4, <2>1
  <2> HIDE DEF w
  <2>w. w \in Seq(Kinds) BY <2>2
  <2>e. events = w \o z BY <1>5 DEF w
  <2>3. /\ DOMAIN events = 1..(Len(w) + Len(z)) /\ Len(z) \in Nat /\ DOMAIN z = 1..Len(z)
        /\ \A k \in DOMAIN events :
             events[k] = IF k <= Len(w) THEN w[k] ELSE z[k - Len(w)]
        BY <1>2, <2>w, <2>e, Joined
  <2>4. Len(x) + 1 \in DOMAIN events /\ events[Len(x) + 1] = Told(conn) BY <2>2, <2>3
  <2>5. ASSUME NEW n \in DOMAIN events, n # Len(x) + 1
        PROVE  events[n] \in {"error", "noted", "beat"}
    <3>1. n \in DOMAIN x \/ (~(n <= Len(w)) /\ n - Len(w) \in DOMAIN z)
          BY <2>2, <2>3, <2>5
    <3>2. CASE n \in DOMAIN x
      <4>1. n <= Len(w) /\ n \in 1..Len(x) BY <2>2, <3>2
      <4>2. events[n] = x[n] BY <2>2, <2>3, <4>1
      <4> QED BY <1>1, <3>2, <4>2
    <3>3. CASE ~(n <= Len(w)) /\ n - Len(w) \in DOMAIN z BY <1>2, <2>3, <3>3
    <3> QED BY <3>1, <3>2, <3>3
  <2> QED BY <1>7, <2>4, <2>5 DEF ConnKinds
<1> QED BY <1>6, <1>7

(* Which alerts about the connection there are after a publication.        *)
LEMMA ConnPublish ==
  ASSUME PanelInv, NEW events \in Seq(Events), Publish(events)
  PROVE  /\ \A i \in ConnAlerts : i \in ConnAlerts' /\ published'[i] = published[i]
         /\ \A i \in ConnAlerts' : i \in ConnAlerts
              \/ (i - Len(published) \in DOMAIN events /\ i \in Nat
                    /\ published'[i] = events[i - Len(published)]
                    /\ events[i - Len(published)] \in ConnKinds)
         /\ \A k \in DOMAIN events :
              events[k] \in ConnKinds => /\ Len(published) + k \in ConnAlerts'
                                         /\ published'[Len(published) + k] = events[k]
<1>1. /\ published \in Seq(Events) /\ published' \in Seq(Events)
      /\ \A i \in DOMAIN published : i \in DOMAIN published' /\ published'[i] = published[i]
      /\ \A i \in DOMAIN published' : i > Len(published) =>
           /\ i - Len(published) \in DOMAIN events
           /\ published'[i] = events[i - Len(published)]
      BY PublishStep DEF PanelInv, TypeOK
<1>2. \A i \in DOMAIN published' : i \in Nat /\ (i \in DOMAIN published \/ i > Len(published))
      BY <1>1
<1>3. \A k \in DOMAIN events : Len(published) + k \in DOMAIN published'
                                 /\ published'[Len(published) + k] = events[k]
      BY PublishFate
<1>4. \A i \in ConnAlerts : i \in ConnAlerts' /\ published'[i] = published[i]
      BY <1>1 DEF ConnAlerts
<1>5. \A i \in ConnAlerts' : i \in DOMAIN published' /\ published'[i] \in ConnKinds
      BY DEF ConnAlerts, ConnKinds
<1>6. \A i \in ConnAlerts' : i \in DOMAIN published => i \in ConnAlerts
      BY <1>1 DEF ConnAlerts
<1>7. \A k \in DOMAIN events :
        events[k] \in ConnKinds => Len(published) + k \in ConnAlerts'
      BY <1>3 DEF ConnAlerts, ConnKinds
<1> QED BY <1>1, <1>2, <1>3, <1>4, <1>5, <1>6, <1>7

LEMMA ConnKept == PanelInv /\ ConnInv /\ [Next]_vars => ConnInv'
<1> SUFFICES ASSUME PanelInv, ConnInv, [Next]_vars PROVE ConnInv' OBVIOUS
<1>0. published \in Seq(Events) /\ lastConn \in Connections \cup {NoView}
      /\ NoView \notin Connections /\ \A i \in ConnAlerts : i \in 1..Len(published)
      BY NameAssumption DEF PanelInv, TypeOK, Connections, ConnAlerts
<1>1. CASE JudgeStatus
  <2>1. PICK conn \in Connections, beats \in BOOLEAN :
          /\ Publish(StatusEvents(lastStatus, status) \o ConnEvents(lastConn, conn)
                       \o (IF beats THEN <<"beat">> ELSE <<>>))
          /\ lastConn' = conn
        BY <1>1 DEF JudgeStatus
  <2> DEFINE events == StatusEvents(lastStatus, status) \o ConnEvents(lastConn, conn)
                         \o (IF beats THEN <<"beat">> ELSE <<>>)
  <2>2. events \in Seq(Events) BY KindsOnly, KindsAreEvents
  <2>3. /\ ~Turned(lastConn, conn) => \A k \in DOMAIN events : events[k] \notin ConnKinds
        /\ Turned(lastConn, conn) =>
              \E k \in DOMAIN events : /\ events[k] = Told(conn)
                                       /\ \A n \in DOMAIN events \ {k} : events[n] \notin ConnKinds
        BY OneConnEvent DEF OfOneCheck
  <2>4. Publish(events) BY <2>1
  <2> HIDE DEF events
  <2>5. /\ \A i \in ConnAlerts : i \in ConnAlerts' /\ published'[i] = published[i]
        /\ \A i \in ConnAlerts' : i \in ConnAlerts
              \/ (i - Len(published) \in DOMAIN events /\ i \in Nat
                    /\ events[i - Len(published)] \in ConnKinds)
        /\ \A k \in DOMAIN events :
              events[k] \in ConnKinds => /\ Len(published) + k \in ConnAlerts'
                                         /\ published'[Len(published) + k] = events[k]
        BY <2>2, <2>4, ConnPublish
  <2>6. lastConn' # NoView BY <1>0, <2>1
  <2>7. CASE ~Turned(lastConn, conn)
    <3>1. ConnAlerts' = ConnAlerts BY <2>3, <2>5, <2>7
    <3>2. lastConn = NoView \/ lastConn' = lastConn BY <2>1, <2>7 DEF Turned
    <3> QED BY <2>5, <2>6, <3>1, <3>2 DEF ConnInv
  <2>8. CASE Turned(lastConn, conn)
    <3>1. PICK k \in DOMAIN events : /\ events[k] = Told(conn)
                                     /\ \A n \in DOMAIN events \ {k} : events[n] \notin ConnKinds
          BY <2>3, <2>8
    <3>2. Told(conn) \in ConnKinds BY DEF Told, ConnKinds
    <3>3. k \in Nat /\ k > 0 /\ Len(published) \in Nat BY <1>0, <2>2
    <3>4. Len(published) + k \in ConnAlerts' /\ published'[Len(published) + k] = Told(conn)
          BY <2>5, <3>1, <3>2
    <3>5. \A i \in ConnAlerts' : i \in ConnAlerts \/ (i \in Nat /\ i - Len(published) = k)
          BY <2>5, <3>1
    <3>6. \A i \in ConnAlerts' : i <= Len(published) + k BY <1>0, <3>3, <3>5
    <3> QED BY <2>1, <2>6, <3>4, <3>6 DEF ConnInv
  <2> QED BY <2>7, <2>8
<1>2. ASSUME NEW seen \in SUBSET Tickets, NEW order \in Orders(seen \ known),
             Publish(order), lastConn' = lastConn
      PROVE  ConnInv'
  <2>1. order \in Seq(seen \ known) /\ order \in Seq(Events) BY OrdersType
  <2>2. \A k \in DOMAIN order : order[k] \notin ConnKinds
    <3>1. \A k \in DOMAIN order : order[k] \in Tickets BY <2>1
    <3>2. ConnKinds \subseteq Kinds BY DEF ConnKinds, Kinds
    <3> QED BY <3>1, <3>2, NameAssumption
  <2>3. /\ \A i \in ConnAlerts : i \in ConnAlerts' /\ published'[i] = published[i]
        /\ \A i \in ConnAlerts' : i \in ConnAlerts
        BY <1>2, <2>1, <2>2, ConnPublish
  <2> QED BY <1>2, <2>3 DEF ConnInv
<1>3. CASE UNCHANGED <<published, lastConn>>
      BY <1>3 DEF ConnInv, ConnAlerts
<1>4. CASE LookAtRows
  <2>1. PICK seen \in SUBSET Tickets :
          \/ UNCHANGED <<published, lastConn>>
          \/ lastConn' = lastConn /\ \E order \in Orders(seen \ known) : Publish(order)
        BY <1>4 DEF LookAtRows
  <2> QED BY <1>2, <1>3, <2>1
<1>5. CASE LookAtStatus \/ CheckFails \/ TimerRuns \/ UNCHANGED vars
      BY <1>3, <1>5 DEF LookAtStatus, CheckFails, TimerRuns, vars, monitoring
<1>6. CASE TakeEvent \/ Notify \/ NotifySkips \/ TakeMessage \/ Send \/ Book \/ GiveUp
      BY <1>3, <1>6
      DEF TakeEvent, Notify, NotifySkips, TakeMessage, Send, Book, GiveUp, monitoring
<1> QED BY <1>1, <1>4, <1>5, <1>6 DEF Next

(* What was delivered in order, and completely, ends with the newest.      *)
LEMMA LastIsNewest == PanelInv /\ InOrder /\ Accounted /\ ConnInv => LastAlertTrue
<1> SUFFICES ASSUME PanelInv, InOrder, Accounted, ConnInv,
                    NEW r \in Recipients, ConnAlerts # {},
                    \A i \in ConnAlerts : ~UnderWay(i, r) /\ <<i, r>> \notin lost
             PROVE  LET got  == {n \in DOMAIN inbox[r] : inbox[r][n] \in ConnAlerts}
                        last == CHOOSE n \in got : \A k \in got : k <= n
                    IN  published[inbox[r][last]]
                          = IF lastConn = "connected" THEN "restored" ELSE "lost"
    BY DEF LastAlertTrue
<1> DEFINE got  == {n \in DOMAIN inbox[r] : inbox[r][n] \in ConnAlerts}
           last == CHOOSE n \in got : \A k \in got : k <= n
<1>1. \A i \in ConnAlerts : i \in Nat /\ i \in DOMAIN published
      BY DEF ConnAlerts, PanelInv, TypeOK
<1>2. Range(<<Owner>> \o Admins) = Recipients
  <2>1. Admins \in Seq(Range(Admins)) BY NameAssumption
  <2> DEFINE a == <<Owner>> \o Admins
  <2>2. /\ DOMAIN a = 1..(Len(Admins) + 1) /\ DOMAIN Admins = 1..Len(Admins)
        /\ a[1] = Owner /\ Len(Admins) \in Nat
        /\ \A n \in 1..Len(Admins) : a[n + 1] = Admins[n]
        BY <2>1
  <2> HIDE DEF a
  <2>3. \A n \in DOMAIN a : n = 1 \/ (n - 1 \in DOMAIN Admins /\ a[n] = Admins[n - 1])
        BY <2>2
  <2>4. 1 \in DOMAIN a /\ \A n \in DOMAIN Admins : n + 1 \in DOMAIN a /\ a[n + 1] = Admins[n]
        BY <2>2
  <2>5. Range(a) \subseteq Recipients BY <2>2, <2>3 DEF Range, Recipients
  <2>6. Recipients \subseteq Range(a) BY <2>2, <2>4 DEF Range, Recipients
  <2> QED BY <2>5, <2>6 DEF a
<1>3. \A i \in ConnAlerts : r \in Range(Addressees(published[i]))
  <2>1. \A i \in ConnAlerts : Addressees(published[i]) = <<Owner>> \o Admins
        BY DEF ConnAlerts, Addressees
  <2> QED BY <1>2, <2>1
<1>4. \A i \in ConnAlerts : i \in Range(inbox[r])
      BY <1>1, <1>3 DEF Accounted, Settled
<1>5. \A i \in ConnAlerts : \E n \in got : inbox[r][n] = i
      BY <1>4 DEF Range
<1>6. PICK i \in ConnAlerts :
        (\A k \in ConnAlerts : k <= i) /\ published[i] = Told(lastConn)
      BY DEF ConnInv
<1>7. PICK n \in got : inbox[r][n] = i BY <1>5, <1>6
<1>8. got \subseteq Nat BY DEF PanelInv, TypeOK
<1>9. \A k \in got : k <= n
  <2> SUFFICES ASSUME NEW k \in got, n < k PROVE FALSE BY <1>8
  <2>1. inbox[r][n] < inbox[r][k] BY DEF InOrder
  <2>2. inbox[r][k] <= i /\ inbox[r][k] \in Nat /\ i \in Nat BY <1>1, <1>6
  <2> QED BY <1>7, <2>1, <2>2
<1>10. \E m \in got : \A k \in got : k <= m BY <1>9
<1> HIDE DEF got
<1>11. last \in got /\ \A k \in got : k <= last BY <1>10
<1>12. last = n
  <2>1. last \in Nat /\ n \in Nat BY <1>8, <1>11
  <2>2. n <= last /\ last <= n BY <1>7, <1>9, <1>11
  <2> HIDE DEF last
  <2> QED BY <2>1, <2>2
<1> HIDE DEF last
<1>13. published[inbox[r][last]] = Told(lastConn) BY <1>6, <1>7, <1>12
<1> QED BY <1>13 DEF got, last, Told

(* heartbeat.py, "fire ONCE on each transition": the newest alert about    *)
(* the connection that reached a recipient, who missed none of them, says  *)
(* what the panel last saw.                                                *)
THEOREM LastAlertAlwaysTrue == Spec => []LastAlertTrue
<1>1. Init => ConnInv
  <2> SUFFICES ASSUME Init PROVE ConnInv OBVIOUS
  <2>1. DOMAIN published = {} BY DEF Init
  <2> QED BY <2>1 DEF ConnInv, ConnAlerts
<1>2. SettledInv => Accounted BY DEF SettledInv
<1> QED BY <1>1, <1>2, ConnKept, LastIsNewest, AlertsInOrder, SettledInvariant,
           PanelInvariant, PTL DEF Spec

-----------------------------------------------------------------------------
(***************************************************************************)
(* PanelAccess.                                                            *)
(***************************************************************************)
(***************************************************************************)
(* The inductive invariant, request by request.                            *)
(***************************************************************************)
Unread   == {"free", "read"}
Deciding == {"upsert", "insert", "enforce", "cache", "decide"}
Carrying == {"passed", "refused", "audit", "added", "told"} \cup Editing
Ats      == Unread \cup Deciding \cup Carrying \cup {"invalidate"}

(* A user object has the permissions of its role.                          *)
Sound(u) == u \in Users /\ u.perms = u.role

SlotTyped(x) ==
  /\ x = [at |-> x.at, op |-> x.op, arg |-> x.arg, user |-> x.user, age |-> x.age,
          ok |-> x.ok, crossed |-> x.crossed, cfg |-> x.cfg, alone |-> x.alone]
  /\ x.at \in Ats /\ x.age \in 0..TTL /\ x.ok \in BOOLEAN /\ x.crossed \in BOOLEAN
  /\ x.at \in Deciding => Sound(x.user)

(* A request that will cache user u: the table held his role since the     *)
(* request began or shortly before, and holds it still unless it was       *)
(* overwritten.                                                            *)
Holds(x, u) ==
  /\ Allows(u.role, x.op) => x.ok
  /\ since[u.role] <= x.age
  /\ x.crossed \/ u.role = role

(* Without a row nobody has come further than to the insert of one.        *)
Unregistered(x) ==
  role = None => /\ x.at \in {"free", "read", "upsert", "insert"}
                 /\ x.at \in {"upsert", "insert"} => x.user.role = AutoRole

(* What the table says now was said during the request.                    *)
Noticed(x) == x.at # "free" /\ role # None /\ Allows(role, x.op) => x.ok

Vouched(x) ==
  /\ x.at \in {"upsert", "insert", "enforce"} /\ role # None => Holds(x, x.user)
  /\ x.at = "cache" => Holds(x, Enforced(x.user))
  /\ x.at = "decide" => /\ Allows(x.user.role, x.op) => x.ok
                        /\ identity = "owner" => x.user.role = "owner"
  /\ x.at = "passed" => x.ok
  /\ x.at = "refused" => identity # "owner"

SlotInv(x) == SlotTyped(x) /\ Unregistered(x) /\ Noticed(x) /\ Vouched(x)

CacheInv ==
  cache # None =>
    /\ cache \in [user : Users, age : 0..TTL, crossed : BOOLEAN] /\ Sound(cache.user)
    /\ role # None
    /\ since[cache.user.role] <= cache.age
    /\ identity = "owner" => cache.user.role = "owner"

TableInv ==
  /\ identity \in Identities /\ role \in Roles \cup {None} /\ setter \in {"idle", "written"}
  /\ since \in [Roles -> 0..TTL]
  /\ role # None => since[role] = 0

SlotsInv == slot = [s \in Slots |-> slot[s]] /\ \A s \in Slots : SlotInv(slot[s])

AccessInv == TableInv /\ SlotsInv /\ CacheInv /\ CacheTracksRole

-----------------------------------------------------------------------------
(* The owner's permissions are all there are.                              *)
LEMMA OwnerMay == ASSUME NEW op PROVE Allows("owner", op)
  BY DEF Allows, Need, PermissionsOf

LEMMA OlderKeepsOrder ==
  ASSUME NEW a \in 0..TTL, NEW b \in 0..TTL, a <= b
  PROVE  Older(a) \in 0..TTL /\ Older(a) <= Older(b) /\ 0 <= Older(a)
  BY TTLAssumption DEF Older

LEMMA AutoIsRole == identity \in Identities => AutoRole \in Roles
  BY DEF AutoRole, Identities, Roles

LEMMA EnforcedSound ==
  ASSUME NEW u, Sound(u)
  PROVE  /\ Sound(Enforced(u))
         /\ identity = "owner" => Enforced(u).role = "owner"
         /\ Enforced(u) = u \/ Enforced(u).role = "owner"
         /\ ~ (identity = "owner" /\ u.role # "owner") => Enforced(u) = u
         /\ identity = "owner" /\ u.role # "owner" => Enforced(u).role = "owner"
  BY DEF Enforced, OwnerAgain, Sound, Users, Roles

(***************************************************************************)
(* Steps behind the permission check.  A request there keeps what it was   *)
(* allowed, and the table and the cache stay.                              *)
(***************************************************************************)
Later(x, y) ==
  \/ y = x
  \/ y = Free /\ x.at # "invalidate"
  \/ /\ x.at \in Carrying /\ y.at \in Carrying \ {"passed", "refused"}
     /\ SlotTyped(y) /\ y.op = x.op /\ y.ok = x.ok

LEMMA FreeHolds ==
  ASSUME TableInv PROVE SlotInv(Free)
<1>1. SlotTyped(Free)
  BY TTLAssumption DEF SlotTyped, Free, Ats, Unread, Deciding
<1>2. QED BY <1>1 DEF SlotInv, Unregistered, Noticed, Vouched, Free

LEMMA LaterKeeps ==
  ASSUME AccessInv, UNCHANGED people,
         slot' = [s \in Slots |-> slot'[s]],
         \A s \in Slots : Later(slot[s], slot'[s])
  PROVE  AccessInv'
<1>1. TableInv' /\ CacheInv'
  BY DEF people, AccessInv, TableInv, CacheInv, Sound
<1>2. ASSUME NEW s \in Slots PROVE SlotInv(slot[s])'
  <2> DEFINE x == slot[s]
             y == slot'[s]
  <2>1. SlotInv(x) /\ SlotInv(Free)
    BY FreeHolds DEF AccessInv, SlotsInv
  <2>2. SlotInv(y) => SlotInv(slot[s])'
    BY DEF people, SlotInv, SlotTyped, Unregistered, Noticed, Vouched, Holds,
         AutoRole, Enforced, OwnerAgain, Sound
  <2>3. CASE y = x
    BY <2>1, <2>2, <2>3
  <2>4. CASE y = Free
    BY <2>1, <2>2, <2>4
  <2>5. CASE /\ x.at \in Carrying /\ y.at \in Carrying \ {"passed", "refused"}
             /\ SlotTyped(y) /\ y.op = x.op /\ y.ok = x.ok
    <3>1. role # None /\ x.at # "free"
      BY <2>1, <2>5 DEF SlotInv, Unregistered, Carrying, Editing
    <3>2. Noticed(x)
      BY <2>1 DEF SlotInv
    <3>3. Unregistered(y) /\ Noticed(y)
      BY <3>1, <3>2, <2>5 DEF Unregistered, Noticed
    <3>4. Vouched(y)
      BY <2>5 DEF Vouched, Carrying, Editing
    <3>5. SlotInv(y)
      BY <2>5, <3>3, <3>4 DEF SlotInv
    <3>6. QED BY <3>5, <2>2
  <2>6. QED BY <2>3, <2>4, <2>5 DEF Later
<1>3. CacheTracksRole'
  <2>1. CacheTracksRole
    BY DEF AccessInv
  <2>2. ASSUME NEW s \in Slots, slot[s].at = "invalidate" PROVE slot'[s].at = "invalidate"
    BY <2>2 DEF Later, Carrying, Editing
  <2>3. QED BY <2>1, <2>2 DEF CacheTracksRole, people
<1>4. QED BY <1>1, <1>2, <1>3 DEF AccessInv, SlotsInv

(* One request changes.                                                    *)
LEMMA OneLater ==
  ASSUME AccessInv, NEW s \in Slots, NEW y, Later(slot[s], y),
         slot' = [slot EXCEPT ![s] = y]
  PROVE  /\ slot' = [t \in Slots |-> slot'[t]]
         /\ \A t \in Slots : Later(slot[t], slot'[t])
<1>1. slot = [t \in Slots |-> slot[t]]
  BY DEF AccessInv, SlotsInv
<1>2. \A t \in Slots : slot'[t] = IF t = s THEN y ELSE slot[t]
  BY <1>1
<1>3. slot' = [t \in Slots |-> slot'[t]]
  BY <1>1
<1>4. ASSUME NEW t \in Slots PROVE Later(slot[t], slot'[t])
  BY <1>2 DEF Later
<1>5. QED BY <1>3, <1>4

LEMMA EndsLater ==
  ASSUME AccessInv, NEW s \in Slots, slot[s].at # "invalidate", Ends(s)
  PROVE  /\ slot' = [t \in Slots |-> slot'[t]]
         /\ \A t \in Slots : Later(slot[t], slot'[t])
<1>1. Later(slot[s], Free)
  BY DEF Later
<1>2. QED BY <1>1, OneLater DEF Ends

LEMMA GoLater ==
  ASSUME AccessInv, NEW s \in Slots, slot[s].at \in Carrying,
         NEW a \in Carrying \ {"passed", "refused"}, Go(s, a)
  PROVE  /\ slot' = [t \in Slots |-> slot'[t]]
         /\ \A t \in Slots : Later(slot[t], slot'[t])
<1> DEFINE y == [slot[s] EXCEPT !.at = a]
<1>1. SlotTyped(slot[s])
  BY DEF AccessInv, SlotsInv, SlotInv
<1>2. SlotTyped(y) /\ y.at = a /\ y.op = slot[s].op /\ y.ok = slot[s].ok
  BY <1>1 DEF SlotTyped, Ats, Carrying, Deciding, Editing
<1>3. Later(slot[s], y)
  BY <1>2 DEF Later
<1>4. slot' = [slot EXCEPT ![s] = y]
  BY DEF Go
<1> HIDE DEF y
<1>5. QED BY <1>3, <1>4, OneLater

LEMMA StartsLater ==
  ASSUME AccessInv, NEW s \in Slots, slot[s].at \in Carrying,
         NEW new, new.at \in Carrying \ {"passed", "refused"}, Starts(s, new)
  PROVE  /\ slot' = [t \in Slots |-> slot'[t]]
         /\ \A t \in Slots : Later(slot[t], slot'[t])
<1>1. ASSUME NEW t \in Slots PROVE SlotTyped(slot[t])
  BY DEF AccessInv, SlotsInv, SlotInv
<1>2. slot' = [t \in Slots |-> slot'[t]]
  BY DEF Starts
<1>3. ASSUME NEW t \in Slots PROVE Later(slot[t], slot'[t])
  <2>1. CASE t = s
    <3>1. slot'[t] = [slot[s] EXCEPT !.at = new.at, !.arg = new.arg, !.cfg = new.cfg,
                                     !.alone = ~Overlapping]
      BY <2>1 DEF Starts
    <3>2. SlotTyped(slot[s])
      BY <1>1
    <3> DEFINE free == ~Overlapping
    <3> HIDE DEF free
    <3>3. slot'[t] = [slot[s] EXCEPT !.at = new.at, !.arg = new.arg, !.cfg = new.cfg,
                                     !.alone = free]
      BY <3>1 DEF free
    <3>4. SlotTyped(slot'[t])
      BY <3>2, <3>3 DEF SlotTyped, Ats, Carrying, Deciding, Editing
    <3>5. slot'[t].at = new.at /\ slot'[t].op = slot[s].op /\ slot'[t].ok = slot[s].ok
      BY <3>2, <3>3 DEF SlotTyped
    <3>6. QED BY <2>1, <3>4, <3>5 DEF Later
  <2>2. CASE t # s /\ slot[t].at \in Editing
    <3>1. slot'[t] = [slot[t] EXCEPT !.alone = FALSE]
      BY <2>2 DEF Starts
    <3>2. SlotTyped(slot[t])
      BY <1>1
    <3>3. SlotTyped(slot'[t])
      BY <3>1, <3>2 DEF SlotTyped
    <3>4. slot'[t].at = slot[t].at /\ slot'[t].op = slot[t].op /\ slot'[t].ok = slot[t].ok
      BY <3>1, <3>2 DEF SlotTyped
    <3>5. QED BY <2>2, <3>3, <3>4 DEF Later, Carrying, Editing
  <2>3. CASE t # s /\ slot[t].at \notin Editing
    BY <2>3 DEF Starts, Later
  <2>4. QED BY <2>1, <2>2, <2>3
<1>4. QED BY <1>2, <1>3

(* Looking, commanding and trading, and what is refused.                   *)
LEMMA ManagesLater ==
  ASSUME AccessInv, NEW s \in Slots,
         Refuse(s) \/ Shows(s) \/ RobotControl(s) \/ TradeCommand(s) \/ RecordAction(s)
  PROVE  AccessInv'
<1>1. UNCHANGED people
  BY DEF Refuse, Shows, RobotControl, TradeCommand, RecordAction
<1>2. slot[s].at \in {"refused", "passed", "audit"}
  BY DEF Refuse, Shows, RobotControl, TradeCommand, RecordAction
<1>3. Ends(s) \/ Go(s, "audit")
  BY DEF Refuse, Shows, RobotControl, TradeCommand, RecordAction
<1>4. QED BY <1>1, <1>2, <1>3, EndsLater, GoLater, LaterKeeps DEF Carrying

(* The configuration.                                                      *)
LEMMA EditsLater ==
  ASSUME AccessInv, NEW s \in Slots, Edits(s)
  PROVE  AccessInv'
<1>1. UNCHANGED people
  BY DEF Edits, ToggleComponent, ToggleAll, StartEdit, ReceiveValue, UpdateParameter,
         LooksForRow, Saves, Pushes, EditEnds
<1>2. slot[s].at \in Carrying
  BY DEF Edits, ToggleComponent, ToggleAll, StartEdit, ReceiveValue, UpdateParameter,
         LooksForRow, Saves, Pushes, EditEnds, Carrying, Editing
<1>3. slot[s].at # "invalidate"
  BY <1>2 DEF Carrying, Editing
<1>4. CASE ToggleComponent(s)
  <2>1. PICK new : new.at = "service" /\ Starts(s, new)
    BY <1>4 DEF ToggleComponent
  <2>2. QED BY <1>1, <1>2, <2>1, StartsLater, LaterKeeps DEF Carrying, Editing
<1>5. CASE ToggleAll(s)
  <2>1. PICK new : new.at = "save" /\ Starts(s, new)
    BY <1>5 DEF ToggleAll
  <2>2. QED BY <1>1, <1>2, <2>1, StartsLater, LaterKeeps DEF Carrying, Editing
<1>6. CASE StartEdit(s) \/ EditEnds(s)
  <2>1. Ends(s)
    BY <1>6 DEF StartEdit, EditEnds
  <2>2. QED BY <1>1, <1>3, <2>1, EndsLater, LaterKeeps
<1>7. CASE ReceiveValue(s)
  <2>1. Ends(s) \/ \E new : new.at = "service" /\ Starts(s, new)
    BY <1>7 DEF ReceiveValue
  <2>2. CASE Ends(s)
    BY <1>1, <1>3, <2>2, EndsLater, LaterKeeps
  <2>3. CASE \E new : new.at = "service" /\ Starts(s, new)
    BY <1>1, <1>2, <2>3, StartsLater, LaterKeeps DEF Carrying, Editing
  <2>4. QED BY <2>1, <2>2, <2>3
<1>8. CASE UpdateParameter(s)
  <2>1. CASE Go(s, "told")
    BY <1>1, <1>2, <2>1, GoLater, LaterKeeps DEF Carrying
  <2>2. CASE Set(s, [slot[s] EXCEPT !.at = "save", !.cfg = Merge(Current, slot[s].arg)])
    <3>1. PICK cfg, y : y = [slot[s] EXCEPT !.at = "save", !.cfg = cfg]
                        /\ slot' = [slot EXCEPT ![s] = y]
      BY <2>2 DEF Set
    <3>2. SlotTyped(slot[s])
      BY DEF AccessInv, SlotsInv, SlotInv
    <3>3. SlotTyped(y) /\ y.at = "save" /\ y.op = slot[s].op /\ y.ok = slot[s].ok
      BY <3>1, <3>2 DEF SlotTyped, Ats, Carrying, Deciding, Editing
    <3>4. Later(slot[s], y)
      BY <1>2, <3>3 DEF Later, Carrying, Editing
    <3>5. QED BY <1>1, <3>1, <3>4, OneLater, LaterKeeps
  <2>3. QED BY <1>8, <2>1, <2>2 DEF UpdateParameter
<1>9. CASE LooksForRow(s)
  <2>1. Go(s, "create") \/ Go(s, "update")
    BY <1>9 DEF LooksForRow
  <2>2. QED BY <1>1, <1>2, <2>1, GoLater, LaterKeeps DEF Carrying, Editing
<1>10. CASE Saves(s) \/ Pushes(s)
  <2>1. Go(s, "push") \/ Go(s, "told")
    BY <1>10 DEF Saves, Pushes
  <2>2. QED BY <1>1, <1>2, <2>1, GoLater, LaterKeeps DEF Carrying, Editing
<1>11. QED BY <1>4, <1>5, <1>6, <1>7, <1>8, <1>9, <1>10 DEF Edits

(* The accounts.                                                           *)
LEMMA BrokersLater ==
  ASSUME AccessInv, NEW s \in Slots, Brokers(s)
  PROVE  AccessInv'
<1>1. UNCHANGED people
  BY DEF Brokers, StartAdd, ConfirmAdd, AddEnds, DeleteAccount, SwitchAccount, ToggleAccount
<1>2. slot[s].at \in {"passed", "added"}
  BY DEF Brokers, StartAdd, ConfirmAdd, AddEnds, DeleteAccount, SwitchAccount, ToggleAccount
<1>3. Ends(s) \/ Go(s, "added") \/ Go(s, "audit")
  BY DEF Brokers, StartAdd, ConfirmAdd, AddEnds, DeleteAccount, SwitchAccount, ToggleAccount
<1>4. QED BY <1>1, <1>2, <1>3, EndsLater, GoLater, LaterKeeps DEF Carrying

(* What is no request's step.                                              *)
LEMMA RestLater ==
  ASSUME AccessInv, UNCHANGED accessVars \/ CancelEdit \/ Answers \/ CancelAdd \/ NewDay
  PROVE  AccessInv'
<1>1. UNCHANGED people /\ UNCHANGED slot
  BY DEF accessVars, CancelEdit, Answers, CancelAdd, NewDay
<1>2. slot' = [t \in Slots |-> slot'[t]]
  BY <1>1 DEF AccessInv, SlotsInv
<1>3. \A t \in Slots : Later(slot[t], slot'[t])
  BY <1>1 DEF Later
<1>4. QED BY <1>1, <1>2, <1>3, LaterKeeps

(***************************************************************************)
(* The permission check itself.                                            *)
(***************************************************************************)
SameTable == UNCHANGED <<identity, role, since>>

LEMMA SlotAfter ==
  ASSUME SameTable, NEW t \in Slots, SlotInv(slot'[t])
  PROVE  SlotInv(slot[t])'
  BY DEF SameTable, SlotInv, SlotTyped, Unregistered, Noticed, Vouched, Holds,
     AutoRole, Enforced, OwnerAgain, Sound

LEMMA OneSteps ==
  ASSUME AccessInv, SameTable, setter' \in {"idle", "written"},
         NEW s \in Slots, NEW y, SlotInv(y), slot' = [slot EXCEPT ![s] = y]
  PROVE  /\ TableInv' /\ SlotsInv'
         /\ slot'[s] = y /\ \A t \in Slots \ {s} : slot'[t] = slot[t]
<1>1. TableInv'
  BY DEF AccessInv, TableInv, SameTable
<1>2. slot = [t \in Slots |-> slot[t]] /\ \A t \in Slots : SlotInv(slot[t])
  BY DEF AccessInv, SlotsInv
<1>3. slot'[s] = y /\ \A t \in Slots \ {s} : slot'[t] = slot[t]
  BY <1>2
<1>4. slot' = [t \in Slots |-> slot'[t]]
  BY <1>2
<1>5. \A t \in Slots : SlotInv(slot[t])'
  BY <1>2, <1>3, SlotAfter
<1>6. QED BY <1>1, <1>3, <1>4, <1>5 DEF SlotsInv

(* The cache stays, and so does what is still to drop it.                  *)
LEMMA CacheStays ==
  ASSUME AccessInv, UNCHANGED people,
         \A t \in Slots : slot[t].at = "invalidate" => slot'[t].at = "invalidate"
  PROVE  CacheInv' /\ CacheTracksRole'
<1>1. CacheInv'
  BY DEF people, AccessInv, CacheInv, Sound
<1>2. CacheTracksRole'
  BY DEF people, AccessInv, CacheTracksRole
<1>3. QED BY <1>1, <1>2

LEMMA OneLooks ==
  ASSUME AccessInv, UNCHANGED people,
         NEW s \in Slots, slot[s].at # "invalidate",
         NEW y, SlotInv(y), slot' = [slot EXCEPT ![s] = y]
  PROVE  AccessInv'
<1>1. SameTable /\ setter' \in {"idle", "written"}
  BY DEF people, SameTable, AccessInv, TableInv
<1>2. /\ TableInv' /\ SlotsInv'
      /\ slot'[s] = y /\ \A t \in Slots \ {s} : slot'[t] = slot[t]
  BY <1>1, OneSteps
<1>3. CacheInv' /\ CacheTracksRole'
  BY <1>2, CacheStays
<1>4. QED BY <1>2, <1>3 DEF AccessInv

(* A request begins: the row's role is younger than the cache's life, and  *)
(* so is what a fresh entry says.                                          *)
LEMMA RequestKeeps ==
  ASSUME AccessInv, NEW s \in Slots, NEW op, NEW arg, Request(s, op, arg)
  PROVE  AccessInv'
<1>1. PICK y : y = [Free EXCEPT !.at = IF Fresh THEN "decide" ELSE "read",
                                !.op = op, !.arg = arg,
                                !.user = IF Fresh THEN cache.user ELSE None,
                                !.ok = AllowedLately(op)]
               /\ slot' = [slot EXCEPT ![s] = y]
  BY DEF Request
<1>2. /\ y.at = IF Fresh THEN "decide" ELSE "read"
      /\ y.op = op /\ y.user = IF Fresh THEN cache.user ELSE None
      /\ y.ok = AllowedLately(op)
      /\ y = [at |-> y.at, op |-> y.op, arg |-> y.arg, user |-> y.user, age |-> y.age,
              ok |-> y.ok, crossed |-> y.crossed, cfg |-> y.cfg, alone |-> y.alone]
      /\ y.age = 0 /\ y.crossed = FALSE
  BY <1>1 DEF Free
<1>3. y.ok \in BOOLEAN
  BY <1>2 DEF AllowedLately
<1>4. TableInv /\ CacheInv
  BY DEF AccessInv
<1>5. role # None /\ Allows(role, op) => AllowedLately(op)
  <2>1. role # None => role \in Roles /\ since[role] < TTL
    BY <1>4, TTLAssumption DEF TableInv
  <2>2. QED BY <2>1 DEF AllowedLately
<1>6. Fresh => /\ role # None /\ Sound(cache.user)
               /\ identity = "owner" => cache.user.role = "owner"
               /\ Allows(cache.user.role, op) => AllowedLately(op)
  <2>1. Fresh => /\ cache \in [user : Users, age : 0..TTL, crossed : BOOLEAN]
                 /\ Sound(cache.user) /\ since[cache.user.role] <= cache.age /\ cache.age < TTL
                 /\ role # None
                 /\ identity = "owner" => cache.user.role = "owner"
    BY <1>4 DEF Fresh, CacheInv
  <2>2. Fresh => cache.user.role \in Roles /\ since[cache.user.role] < TTL
    BY <2>1, <1>4, TTLAssumption DEF TableInv, Users
  <2>3. QED BY <2>1, <2>2 DEF AllowedLately
<1>7. SlotTyped(y)
  <2>1. y.age \in 0..TTL
    BY <1>2, TTLAssumption
  <2>2. y.at \in {"decide", "read"} /\ (y.at = "decide" => Sound(y.user))
    BY <1>2, <1>6
  <2>3. QED BY <1>2, <1>3, <2>1, <2>2 DEF SlotTyped, Ats, Unread, Deciding
<1>8. Unregistered(y) /\ Noticed(y)
  BY <1>2, <1>5, <1>6 DEF Unregistered, Noticed
<1>9. Vouched(y)
  BY <1>2, <1>6 DEF Vouched
<1>10. SlotInv(y)
  BY <1>7, <1>8, <1>9 DEF SlotInv
<1>11. UNCHANGED people /\ slot[s].at # "invalidate"
  BY DEF Request
<1>12. QED BY <1>1, <1>10, <1>11, OneLooks

(* The row is read, or a user object made.                                 *)
LEMMA ReadKeeps ==
  ASSUME AccessInv, NEW s \in Slots, ReadUser(s)
  PROVE  AccessInv'
<1> DEFINE x == slot[s]
           r == IF role = None THEN AutoRole ELSE role
<1>1. TableInv /\ SlotInv(x)
  BY DEF AccessInv, SlotsInv
<1>2. r \in Roles
  BY <1>1, AutoIsRole DEF TableInv
<1>3. PICK y : y = [x EXCEPT !.at = "upsert", !.user = NewUser(r)]
               /\ slot' = [slot EXCEPT ![s] = y]
  BY DEF ReadUser, Set
<1> HIDE DEF r
<1>4. x.at = "read" /\ SlotTyped(x) /\ Noticed(x)
  BY <1>1 DEF ReadUser, SlotInv
<1>5. /\ y.at = "upsert" /\ y.user = NewUser(r)
      /\ y.op = x.op /\ y.ok = x.ok /\ y.age = x.age /\ y.crossed = x.crossed
      /\ y = [at |-> y.at, op |-> y.op, arg |-> y.arg, user |-> y.user, age |-> y.age,
              ok |-> y.ok, crossed |-> y.crossed, cfg |-> y.cfg, alone |-> y.alone]
  BY <1>3, <1>4 DEF SlotTyped
<1>6. Sound(NewUser(r)) /\ NewUser(r).role = r
  BY <1>2 DEF Sound, NewUser, Users
<1>7. SlotTyped(y)
  BY <1>4, <1>5, <1>6 DEF SlotTyped, Ats, Deciding
<1>8. Unregistered(y) /\ Noticed(y)
  BY <1>4, <1>5, <1>6 DEF Unregistered, Noticed, r
<1>9. role # None => Holds(y, y.user)
  <2>1. role # None => r = role /\ since[role] = 0 /\ (Allows(role, x.op) => x.ok)
    BY <1>1, <1>4 DEF r, TableInv, Noticed
  <2>2. x.age \in 0..TTL /\ TTL \in Nat
    BY <1>4, TTLAssumption DEF SlotTyped
  <2>3. QED BY <1>5, <1>6, <2>1, <2>2 DEF Holds
<1>10. SlotInv(y)
  BY <1>5, <1>7, <1>8, <1>9 DEF SlotInv, Vouched
<1>11. UNCHANGED people
  BY DEF ReadUser
<1>12. QED BY <1>3, <1>4, <1>10, <1>11, OneLooks

(* The second look at the table.                                           *)
LEMMA UpsertKeeps ==
  ASSUME AccessInv, NEW s \in Slots, Upsert(s)
  PROVE  AccessInv'
<1> DEFINE x == slot[s]
<1>1. SlotInv(x) /\ x.at = "upsert"
  BY DEF AccessInv, SlotsInv, Upsert
<1>2. PICK y : y = [x EXCEPT !.at = IF role = None THEN "insert" ELSE "enforce"]
               /\ slot' = [slot EXCEPT ![s] = y]
  BY DEF Upsert, Go
<1>3. /\ y.at = IF role = None THEN "insert" ELSE "enforce"
      /\ y.user = x.user /\ y.op = x.op /\ y.ok = x.ok /\ y.age = x.age /\ y.crossed = x.crossed
      /\ y = [at |-> y.at, op |-> y.op, arg |-> y.arg, user |-> y.user, age |-> y.age,
              ok |-> y.ok, crossed |-> y.crossed, cfg |-> y.cfg, alone |-> y.alone]
  BY <1>1, <1>2 DEF SlotInv, SlotTyped
<1>4. SlotTyped(y)
  BY <1>1, <1>3 DEF SlotInv, SlotTyped, Ats, Deciding
<1>5. Unregistered(y) /\ Noticed(y)
  BY <1>1, <1>3 DEF SlotInv, Unregistered, Noticed
<1>6. Vouched(y)
  BY <1>1, <1>3 DEF SlotInv, Vouched, Holds
<1>7. UNCHANGED people
  BY DEF Upsert
<1>8. QED BY <1>1, <1>2, <1>4, <1>5, <1>6, <1>7, OneLooks DEF SlotInv

(* The decision.  An owner is never refused, and whom the object allows    *)
(* the table has allowed.                                                  *)
LEMMA DecideKeeps ==
  ASSUME AccessInv, NEW s \in Slots, Decide(s)
  PROVE  AccessInv'
<1> DEFINE x == slot[s]
<1>1. SlotInv(x) /\ x.at = "decide"
  BY DEF AccessInv, SlotsInv, Decide
<1>2. PICK y : y = [x EXCEPT !.at = IF Granted(s) THEN "passed" ELSE "refused", !.user = None]
               /\ slot' = [slot EXCEPT ![s] = y]
  BY DEF Decide, Set
<1>3. /\ y.at = IF Granted(s) THEN "passed" ELSE "refused"
      /\ y.op = x.op /\ y.ok = x.ok /\ y.age = x.age /\ y.crossed = x.crossed
      /\ y = [at |-> y.at, op |-> y.op, arg |-> y.arg, user |-> y.user, age |-> y.age,
              ok |-> y.ok, crossed |-> y.crossed, cfg |-> y.cfg, alone |-> y.alone]
  BY <1>1, <1>2 DEF SlotInv, SlotTyped
<1>4. role # None /\ Sound(x.user)
  BY <1>1 DEF SlotInv, SlotTyped, Unregistered, Deciding
<1>5. SlotTyped(y)
  BY <1>1, <1>3 DEF SlotInv, SlotTyped, Ats, Deciding, Carrying
<1>6. Unregistered(y) /\ Noticed(y)
  BY <1>1, <1>3, <1>4 DEF SlotInv, Unregistered, Noticed
<1>7. Granted(s) => y.ok
  BY <1>1, <1>3, <1>4 DEF Granted, SlotInv, Vouched, Sound
<1>8. ~Granted(s) => identity # "owner"
  <2>1. identity = "owner" => x.user.role = "owner"
    BY <1>1 DEF SlotInv, Vouched
  <2>2. x.user.role = "owner" => Granted(s)
    BY <1>4, OwnerMay DEF Granted, Sound
  <2>3. QED BY <2>1, <2>2
<1>9. Vouched(y)
  BY <1>3, <1>7, <1>8 DEF Vouched
<1>10. UNCHANGED people
  BY DEF Decide
<1>11. QED BY <1>1, <1>2, <1>5, <1>6, <1>9, <1>10, OneLooks DEF SlotInv

(* A request fills the entry with what it holds.                           *)
LEMMA CacheKeeps ==
  ASSUME AccessInv, NEW s \in Slots, CacheUser(s)
  PROVE  AccessInv'
<1> DEFINE x == slot[s]
           u == Enforced(x.user)
<1>1. SlotInv(x) /\ x.at = "cache" /\ TableInv
  BY DEF AccessInv, SlotsInv, CacheUser
<1>2. PICK y : y = [x EXCEPT !.at = "decide", !.user = u, !.age = 0, !.crossed = FALSE]
               /\ slot' = [slot EXCEPT ![s] = y]
  BY DEF CacheUser, Set
<1>3. cache' = [user |-> u, age |-> x.age, crossed |-> x.crossed]
  BY DEF CacheUser, Entry
<1>4. Holds(x, u) /\ role # None
  BY <1>1, EnforcedSound DEF SlotInv, SlotTyped, Vouched, Unregistered, Deciding
<1>5. identity = "owner" => u.role = "owner"
  BY <1>1, EnforcedSound DEF SlotInv, SlotTyped, Deciding
<1>6. Sound(u)
  BY <1>1, EnforcedSound DEF SlotInv, SlotTyped, Deciding
<1> HIDE DEF u
<1>7. /\ y.at = "decide" /\ y.user = u
      /\ y.op = x.op /\ y.ok = x.ok /\ y.age = 0 /\ y.crossed = FALSE
      /\ y = [at |-> y.at, op |-> y.op, arg |-> y.arg, user |-> y.user, age |-> y.age,
              ok |-> y.ok, crossed |-> y.crossed, cfg |-> y.cfg, alone |-> y.alone]
  BY <1>1, <1>2 DEF SlotInv, SlotTyped
<1>8. SlotTyped(y)
  <2>1. y.age \in 0..TTL /\ y.ok \in BOOLEAN
    BY <1>1, <1>7, TTLAssumption DEF SlotInv, SlotTyped
  <2>2. QED BY <1>6, <1>7, <2>1 DEF SlotTyped, Ats, Deciding
<1>9. Unregistered(y) /\ Noticed(y)
  BY <1>1, <1>4, <1>7 DEF SlotInv, Unregistered, Noticed
<1>10. Vouched(y)
  BY <1>4, <1>5, <1>7 DEF Vouched, Holds
<1>11. SameTable /\ setter' = setter
  BY DEF CacheUser, SameTable
<1>12. TableInv' /\ SlotsInv'
  BY <1>1, <1>2, <1>8, <1>9, <1>10, <1>11, OneSteps DEF SlotInv, TableInv
<1>13. CacheInv'
  <2>1. x.age \in 0..TTL /\ x.crossed \in BOOLEAN /\ u \in Users
    BY <1>1, <1>6 DEF SlotInv, SlotTyped, Sound
  <2>2. QED BY <1>3, <1>4, <1>5, <1>6, <1>11, <2>1 DEF CacheInv, Holds, SameTable, Sound
<1>14. CacheTracksRole'
  BY <1>3, <1>4, <1>11 DEF CacheTracksRole, Holds, SameTable
<1>15. QED BY <1>12, <1>13, <1>14 DEF AccessInv

(***************************************************************************)
(* The table changes.                                                      *)
(***************************************************************************)
LEMMA TableAfter ==
  ASSUME TableInv, NEW r \in Roles, role' = r, since' = [since EXCEPT ![r] = 0],
         identity' = identity, setter' \in {"idle", "written"}
  PROVE  /\ TableInv' /\ since'[r] = 0 /\ role' # None
         /\ \A q \in Roles : q # r => since'[q] = since[q]
         /\ \A q \in Roles, age \in 0..TTL : since[q] <= age => since'[q] <= age
<1>1. 0 \in 0..TTL
  BY TTLAssumption
<1>2. since \in [Roles -> 0..TTL] /\ since' \in [Roles -> 0..TTL]
  BY <1>1 DEF TableInv
<1>3. since'[r] = 0 /\ \A q \in Roles : q # r => since'[q] = since[q]
  BY <1>2
<1>4. role' # None
  BY NoneAssumption
<1>5. TableInv'
  BY <1>2, <1>3 DEF TableInv
<1>6. ASSUME NEW q \in Roles, NEW age \in 0..TTL, since[q] <= age PROVE since'[q] <= age
  BY <1>3, <1>6, TTLAssumption
<1>7. QED BY <1>3, <1>4, <1>5, <1>6

(* A request that only watches a role being written is told so.            *)
LEMMA WatchesWrite ==
  ASSUME AccessInv, role # None, NEW r \in Roles, NEW by, NEW at, WriteRole(r, by, at),
         identity' = identity, setter' \in {"idle", "written"},
         NEW t \in Slots \ by
  PROVE  SlotInv(slot[t])'
<1> DEFINE x == slot[t]
<1>1. TableInv /\ SlotInv(x)
  BY DEF AccessInv, SlotsInv
<1>2. role' = r /\ since' = [since EXCEPT ![r] = 0]
  BY DEF WriteRole
<1>3. /\ role' # None /\ since'[r] = 0
      /\ \A q \in Roles, age \in 0..TTL : since[q] <= age => since'[q] <= age
  BY <1>1, <1>2, TableAfter
<1>4. CASE x.at = "free"
  <2>1. slot'[t] = x
    BY <1>4 DEF WriteRole
  <2>2. QED BY <1>1, <1>3, <1>4, <2>1
        DEF SlotInv, SlotTyped, Unregistered, Noticed, Vouched, Deciding
<1>5. CASE x.at # "free"
  <2>1. PICK y : y = [x EXCEPT !.ok = @ \/ Allows(r, x.op), !.at = @,
                               !.crossed = @ \/ x.at \in Reading]
                 /\ slot'[t] = y
    BY <1>5 DEF WriteRole, Noted
  <2>2. /\ y.at = x.at /\ y.op = x.op /\ y.user = x.user /\ y.age = x.age
        /\ y.ok = (x.ok \/ Allows(r, x.op)) /\ y.crossed = (x.crossed \/ x.at \in Reading)
        /\ y = [at |-> y.at, op |-> y.op, arg |-> y.arg, user |-> y.user, age |-> y.age,
                ok |-> y.ok, crossed |-> y.crossed, cfg |-> y.cfg, alone |-> y.alone]
    BY <1>1, <2>1 DEF SlotInv, SlotTyped
  <2>3. SlotTyped(y)
    BY <1>1, <2>2 DEF SlotInv, SlotTyped
  <2>4. ASSUME NEW u, Sound(u), Holds(x, u), x.at \in Reading
        PROVE  /\ Allows(u.role, y.op) => y.ok
               /\ since'[u.role] <= y.age
               /\ y.crossed
    <3>1. u.role \in Roles /\ x.age \in 0..TTL
      BY <1>1, <2>4 DEF Sound, Users, SlotInv, SlotTyped
    <3>2. QED BY <1>3, <2>2, <2>4, <3>1 DEF Holds
  <2>5. x.at \in {"upsert", "insert", "enforce"} => Sound(x.user) /\ Holds(x, x.user)
    BY <1>1 DEF SlotInv, SlotTyped, Vouched, Deciding
  <2>6. x.at = "cache" => Sound(Enforced(x.user)) /\ Holds(x, Enforced(x.user))
    BY <1>1, EnforcedSound DEF SlotInv, SlotTyped, Vouched, Deciding
  <2>7. SlotTyped(slot[t])' /\ Unregistered(slot[t])'
    BY <1>3, <2>1, <2>3 DEF SlotTyped, Unregistered, Sound
  <2>8. Noticed(slot[t])'
    BY <1>2, <2>1, <2>2 DEF Noticed
  <2>9. y.at \in {"upsert", "insert", "enforce"} => Holds(slot[t], slot[t].user)'
    BY <2>1, <2>2, <2>4, <2>5 DEF Holds, Reading
  <2>10. y.at = "cache" => Holds(slot[t], Enforced(slot[t].user))'
    <3>1. y.at = "cache" => /\ Allows(Enforced(x.user).role, y.op) => y.ok
                            /\ since'[Enforced(x.user).role] <= y.age
                            /\ y.crossed
      BY <2>2, <2>4, <2>6 DEF Reading
    <3>2. Enforced(slot[t].user)' = Enforced(x.user)
      BY <2>1, <2>2 DEF Enforced, OwnerAgain
    <3>3. QED BY <2>1, <3>1, <3>2 DEF Holds
  <2>11. /\ y.at = "decide" => /\ Allows(y.user.role, y.op) => y.ok
                               /\ identity' = "owner" => y.user.role = "owner"
         /\ y.at = "passed" => y.ok
         /\ y.at = "refused" => identity' # "owner"
    BY <1>1, <2>2 DEF SlotInv, Vouched
  <2>12. Vouched(slot[t])'
    BY <2>1, <2>9, <2>10, <2>11 DEF Vouched
  <2>13. QED BY <2>7, <2>8, <2>12 DEF SlotInv
<1>6. QED BY <1>4, <1>5

LEMMA WriteKeeps ==
  ASSUME AccessInv, role # None, NEW r \in Roles, NEW by \in SUBSET Slots, NEW at,
         WriteRole(r, by, at), identity' = identity, setter' \in {"idle", "written"},
         \A t \in by : SlotInv(slot[t])', UNCHANGED cache
  PROVE  /\ TableInv' /\ SlotsInv' /\ CacheInv'
<1>1. TableInv /\ CacheInv /\ role' = r /\ since' = [since EXCEPT ![r] = 0]
  BY DEF AccessInv, WriteRole
<1>2. /\ TableInv' /\ role' # None
      /\ \A q \in Roles, age \in 0..TTL : since[q] <= age => since'[q] <= age
  BY <1>1, TableAfter
<1>3. SlotsInv'
  <2>1. \A t \in Slots : SlotInv(slot[t])'
    BY WatchesWrite
  <2>2. slot' = [t \in Slots |-> slot'[t]]
    BY DEF WriteRole
  <2>3. QED BY <2>1, <2>2 DEF SlotsInv
<1>4. CacheInv'
  BY <1>1, <1>2 DEF CacheInv, Sound, Users
<1>5. QED BY <1>2, <1>3, <1>4

(* The configured owner's row is repaired, or needs no repair.             *)
LEMMA EnforceKeeps ==
  ASSUME AccessInv, NEW s \in Slots, Enforce(s)
  PROVE  AccessInv'
<1> DEFINE x == slot[s]
<1>1. SlotInv(x) /\ x.at = "enforce" /\ TableInv
  BY DEF AccessInv, SlotsInv, Enforce
<1>2. role # None /\ Sound(x.user) /\ Holds(x, x.user) /\ Noticed(x)
  BY <1>1 DEF SlotInv, SlotTyped, Unregistered, Vouched, Deciding
<1>3. CASE identity = "owner" /\ x.user.role # "owner"
  <2>1. WriteRole("owner", {s}, "cache") /\ "owner" \in Roles
    BY <1>3 DEF Enforce, Roles
  <2>2. identity' = identity /\ setter' = setter /\ UNCHANGED cache
    BY DEF Enforce
  <2>3. SlotInv(slot[s])'
    <3>1. PICK y : y = [x EXCEPT !.ok = @ \/ Allows("owner", x.op), !.at = "cache",
                                 !.crossed = @ \/ FALSE]
                   /\ slot'[s] = y
      BY <1>1, <2>1 DEF WriteRole, Noted
    <3>2. /\ y.at = "cache" /\ y.op = x.op /\ y.user = x.user /\ y.age = x.age
          /\ y.ok = TRUE /\ y.crossed = x.crossed
          /\ y = [at |-> y.at, op |-> y.op, arg |-> y.arg, user |-> y.user, age |-> y.age,
                  ok |-> y.ok, crossed |-> y.crossed, cfg |-> y.cfg, alone |-> y.alone]
      BY <1>1, <3>1, OwnerMay DEF SlotInv, SlotTyped
    <3>3. SlotTyped(y)
      BY <1>1, <1>2, <3>2 DEF SlotInv, SlotTyped, Ats, Deciding
    <3>4. role' = "owner" /\ role' # None /\ since'["owner"] = 0
      BY <1>1, <2>1, <2>2, TableAfter DEF WriteRole, TableInv
    <3>5. Enforced(slot[s].user)'.role = "owner"
      BY <1>3, <2>2, <3>1, <3>2, EnforcedSound, <1>2 DEF Enforced, OwnerAgain, Sound, Users
    <3>6. Holds(slot[s], Enforced(slot[s].user))'
      <4>1. y.age \in 0..TTL /\ TTL \in Nat
        BY <3>3, TTLAssumption DEF SlotTyped
      <4>2. QED BY <3>1, <3>2, <3>4, <3>5, <4>1 DEF Holds
    <3>7. QED BY <3>1, <3>2, <3>3, <3>4, <3>6
          DEF SlotInv, SlotTyped, Unregistered, Noticed, Vouched, Sound
  <2>4. TableInv' /\ SlotsInv' /\ CacheInv'
    BY <1>1, <1>2, <2>1, <2>2, <2>3, WriteKeeps DEF TableInv
  <2>5. CacheTracksRole'
    <3>1. cache # None => cache.user.role = "owner"
      BY <1>3 DEF AccessInv, CacheInv
    <3>2. QED BY <2>1, <2>2, <3>1 DEF WriteRole, CacheTracksRole
  <2>6. QED BY <2>4, <2>5 DEF AccessInv
<1>4. CASE ~(identity = "owner" /\ x.user.role # "owner")
  <2>1. PICK y : y = [x EXCEPT !.at = "cache"] /\ slot' = [slot EXCEPT ![s] = y]
    BY <1>4 DEF Enforce, Go
  <2>2. /\ y.at = "cache" /\ y.op = x.op /\ y.user = x.user /\ y.age = x.age
        /\ y.ok = x.ok /\ y.crossed = x.crossed
        /\ y = [at |-> y.at, op |-> y.op, arg |-> y.arg, user |-> y.user, age |-> y.age,
                ok |-> y.ok, crossed |-> y.crossed, cfg |-> y.cfg, alone |-> y.alone]
    BY <1>1, <2>1 DEF SlotInv, SlotTyped
  <2>3. SlotTyped(y)
    BY <1>1, <1>2, <2>2 DEF SlotInv, SlotTyped, Ats, Deciding
  <2>4. Unregistered(y) /\ Noticed(y)
    BY <1>1, <1>2, <2>2 DEF Unregistered, Noticed
  <2>5. Vouched(y)
    <3>1. Enforced(y.user) = x.user
      BY <1>4, <2>2 DEF Enforced
    <3>2. QED BY <1>2, <2>2, <3>1 DEF Vouched, Holds
  <2>6. UNCHANGED people
    BY <1>4 DEF Enforce, people
  <2>7. QED BY <1>1, <2>1, <2>3, <2>4, <2>5, <2>6, OneLooks DEF SlotInv
<1>5. QED BY <1>3, <1>4

(* The first request of a new user leaves the row every other such request *)
(* would have left.                                                        *)
LEMMA InsertKeeps ==
  ASSUME AccessInv, NEW s \in Slots, Insert(s)
  PROVE  AccessInv'
<1>1. TableInv /\ CacheInv /\ \A t \in Slots : SlotInv(slot[t])
  BY DEF AccessInv, SlotsInv
<1>2. slot[s].at = "insert" /\ identity' = identity /\ setter' = setter /\ UNCHANGED cache
  BY DEF Insert
<1>3. CASE role = None
  <2> DEFINE r == AutoRole
  <2>1. slot[s].user.role = r
    BY <1>1, <1>2, <1>3 DEF SlotInv, Unregistered
  <2>2. r \in Roles
    BY <1>1, AutoIsRole DEF TableInv
  <2>3. /\ role' = r /\ since' = [since EXCEPT ![r] = 0]
        /\ slot' = [t \in Slots |->
             IF slot[t].at = "free" THEN slot[t]
             ELSE [Noted(t, r) EXCEPT !.at = IF t = s THEN "enforce" ELSE @]]
    BY <1>3, <2>1 DEF Insert
  <2> HIDE DEF r
  <2>4. TableInv' /\ since'[r] = 0 /\ role' # None
    BY <1>1, <1>2, <2>2, <2>3, TableAfter DEF TableInv
  <2>5. ASSUME NEW t \in Slots PROVE SlotInv(slot[t])'
    <3> DEFINE x == slot[t]
    <3>1. /\ SlotTyped(x) /\ x.at \in {"free", "read", "upsert", "insert"}
          /\ x.at \in {"upsert", "insert"} => x.user.role = r
      BY <1>1, <1>3 DEF SlotInv, Unregistered, r
    <3>2. CASE x.at = "free"
      <4>1. slot'[t] = x
        BY <2>3, <3>2
      <4>2. QED BY <2>4, <3>1, <3>2, <4>1
            DEF SlotInv, SlotTyped, Unregistered, Noticed, Vouched, Deciding
    <3>3. CASE x.at # "free"
      <4>1. PICK y : y = [x EXCEPT !.ok = @ \/ Allows(r, x.op),
                                   !.at = IF t = s THEN "enforce" ELSE @]
                     /\ slot'[t] = y
        BY <2>3, <3>3 DEF Noted
      <4>2. /\ y.at = IF t = s THEN "enforce" ELSE x.at
            /\ y.op = x.op /\ y.user = x.user /\ y.age = x.age
            /\ y.ok = (x.ok \/ Allows(r, x.op)) /\ y.crossed = x.crossed
            /\ y = [at |-> y.at, op |-> y.op, arg |-> y.arg, user |-> y.user, age |-> y.age,
                    ok |-> y.ok, crossed |-> y.crossed, cfg |-> y.cfg, alone |-> y.alone]
        BY <3>1, <4>1 DEF SlotTyped
      <4>3. SlotTyped(y) /\ y.at \in {"read", "upsert", "insert", "enforce"}
        BY <1>2, <3>1, <3>3, <4>2 DEF SlotTyped, Ats, Deciding
      <4>4. y.at # "read" => y.user.role = r
        BY <1>2, <3>1, <3>3, <4>2
      <4>5. y.at # "read" => Holds(slot[t], slot[t].user)'
        <5>1. y.age \in 0..TTL /\ TTL \in Nat
          BY <4>3, TTLAssumption DEF SlotTyped
        <5>2. Allows(r, y.op) => y.ok
          BY <4>2
        <5>3. since'[r] <= y.age /\ role' = r
          BY <2>3, <2>4, <5>1
        <5>4. y.at # "read" => /\ Allows(y.user.role, y.op) => y.ok
                               /\ since'[y.user.role] <= y.age
                               /\ y.user.role = role'
          BY <4>4, <5>2, <5>3
        <5>5. QED BY <4>1, <5>4 DEF Holds
      <4>6. SlotTyped(slot[t])' /\ Unregistered(slot[t])' /\ Noticed(slot[t])'
        BY <2>3, <2>4, <4>1, <4>2, <4>3 DEF SlotTyped, Unregistered, Noticed, Sound
      <4>7. Vouched(slot[t])'
        BY <4>1, <4>3, <4>5 DEF Vouched
      <4>8. QED BY <4>6, <4>7 DEF SlotInv
    <3>4. QED BY <3>2, <3>3
  <2>6. SlotsInv'
    <3>1. slot' = [t \in Slots |-> slot'[t]]
      BY <2>3
    <3>2. QED BY <2>5, <3>1 DEF SlotsInv
  <2>7. cache = None
    BY <1>1, <1>3 DEF CacheInv
  <2>8. QED BY <1>2, <2>4, <2>6, <2>7 DEF AccessInv, CacheInv, CacheTracksRole
<1>4. CASE role # None
  <2>1. Ends(s) /\ UNCHANGED people
    BY <1>4 DEF Insert, people
  <2>2. QED BY <1>2, <2>1, EndsLater, LaterKeeps
<1>5. QED BY <1>3, <1>4

(* set_user_role, by another owner and by the subject himself.             *)
LEMMA OtherSetsKeeps ==
  ASSUME AccessInv, NEW r \in Roles, OtherSetsRole(r)
  PROVE  AccessInv'
<1>1. /\ role # None /\ WriteRole(r, {}, None) /\ identity' = identity
      /\ setter' = "written" /\ UNCHANGED cache
  BY DEF OtherSetsRole
<1>2. TableInv' /\ SlotsInv' /\ CacheInv'
  BY <1>1, WriteKeeps
<1>3. QED BY <1>1, <1>2 DEF AccessInv, CacheTracksRole

LEMMA OwnSetsKeeps ==
  ASSUME AccessInv, NEW s \in Slots, SetsOwnRole(s)
  PROVE  AccessInv'
<1> DEFINE x == slot[s]
<1>1. SlotInv(x) /\ TableInv /\ x.at = "passed"
  BY DEF AccessInv, SlotsInv, SetsOwnRole
<1>2. CASE x.arg = "owner"
  <2>1. /\ WriteRole("owner", {s}, "invalidate") /\ "owner" \in Roles
        /\ identity' = identity /\ setter' = setter /\ UNCHANGED cache
    BY <1>2 DEF SetsOwnRole, Roles
  <2>2. role # None
    BY <1>1 DEF SlotInv, Unregistered
  <2>3. PICK y : y = [x EXCEPT !.ok = @ \/ Allows("owner", x.op), !.at = "invalidate",
                               !.crossed = @ \/ FALSE]
                 /\ slot'[s] = y
    BY <1>1, <2>1 DEF WriteRole, Noted
  <2>4. /\ y.at = "invalidate" /\ y.ok = TRUE /\ y.age = x.age /\ y.crossed = x.crossed
        /\ y = [at |-> y.at, op |-> y.op, arg |-> y.arg, user |-> y.user, age |-> y.age,
                ok |-> y.ok, crossed |-> y.crossed, cfg |-> y.cfg, alone |-> y.alone]
    BY <1>1, <2>3, OwnerMay DEF SlotInv, SlotTyped
  <2>5. SlotTyped(y)
    BY <1>1, <2>4 DEF SlotInv, SlotTyped, Ats, Deciding
  <2>6. role' # None
    BY <2>1, NoneAssumption DEF WriteRole
  <2>7. SlotInv(slot[s])'
    BY <2>3, <2>4, <2>5, <2>6 DEF SlotInv, SlotTyped, Unregistered, Noticed, Vouched, Sound
  <2>8. TableInv' /\ SlotsInv' /\ CacheInv'
    BY <1>1, <2>1, <2>2, <2>7, WriteKeeps DEF TableInv
  <2>9. CacheTracksRole'
    BY <2>3, <2>4 DEF CacheTracksRole
  <2>10. QED BY <2>8, <2>9 DEF AccessInv
<1>3. CASE x.arg # "owner"
  <2>1. Ends(s) /\ UNCHANGED people
    BY <1>3 DEF SetsOwnRole, people
  <2>2. QED BY <1>1, <2>1, EndsLater, LaterKeeps
<1>4. QED BY <1>2, <1>3

LEMMA InvalidatesKeeps ==
  ASSUME AccessInv, OtherInvalidates \/ \E s \in Slots : InvalidatesOwn(s)
  PROVE  AccessInv'
<1>1. cache' = None /\ SameTable /\ setter' \in {"idle", "written"}
  BY DEF OtherInvalidates, InvalidatesOwn, Invalidated, SameTable, AccessInv, TableInv
<1>2. TableInv' /\ SlotsInv'
  <2>1. CASE OtherInvalidates
    <3>1. slot' = slot
      BY <2>1 DEF OtherInvalidates
    <3>2. \A t \in Slots : SlotInv(slot[t])'
      BY <1>1, <3>1, SlotAfter DEF AccessInv, SlotsInv
    <3>3. QED BY <1>1, <3>1, <3>2 DEF AccessInv, TableInv, SlotsInv, SameTable
  <2>2. ASSUME NEW s \in Slots, InvalidatesOwn(s) PROVE TableInv' /\ SlotsInv'
    <3>1. SlotInv(Free) /\ slot' = [slot EXCEPT ![s] = Free]
      BY <2>2, FreeHolds DEF AccessInv, InvalidatesOwn, Ends
    <3>2. QED BY <1>1, <3>1, OneSteps
  <2>3. QED BY <2>1, <2>2
<1>3. QED BY <1>1, <1>2 DEF AccessInv, CacheInv, CacheTracksRole

(***************************************************************************)
(* Time passes: what a request or the entry holds ages no faster than the  *)
(* role it holds.                                                          *)
(***************************************************************************)
LEMMA TickKeeps ==
  ASSUME AccessInv, Tick
  PROVE  AccessInv'
<1>1. /\ TableInv /\ CacheInv /\ CacheTracksRole /\ \A t \in Slots : SlotInv(slot[t])
      /\ identity' = identity /\ role' = role /\ setter' = setter
      /\ since' = [r \in Roles |-> IF r = role THEN 0 ELSE Older(since[r])]
      /\ cache' = IF cache = None THEN None ELSE [cache EXCEPT !.age = Older(@)]
      /\ slot' = [s \in Slots |-> IF slot[s].at \in {"read"} \cup Reading
                                  THEN [slot[s] EXCEPT !.age = Older(@)] ELSE slot[s]]
  BY DEF AccessInv, SlotsInv, Tick
<1>2. ASSUME NEW r \in Roles
      PROVE  /\ since'[r] \in 0..TTL /\ (r = role => since'[r] = 0)
             /\ \A age \in 0..TTL : since[r] <= age => since'[r] <= Older(age)
  <2>1. since[r] \in 0..TTL
    BY <1>1 DEF TableInv
  <2>2. since'[r] = IF r = role THEN 0 ELSE Older(since[r])
    BY <1>1
  <2>3. 0 \in 0..TTL
    BY TTLAssumption
  <2>4. QED BY <2>1, <2>2, <2>3, OlderKeepsOrder
<1>3. \A age \in 0..TTL : Older(age) \in 0..TTL /\ (Older(age) < TTL => age < TTL)
  BY TTLAssumption DEF Older
<1>4. TableInv'
  BY <1>1, <1>2 DEF TableInv
<1>5. ASSUME NEW t \in Slots PROVE SlotInv(slot[t])'
  <2> DEFINE x == slot[t]
             timed == x.at \in {"read"} \cup Reading
  <2>1. SlotTyped(x) /\ Unregistered(x) /\ Noticed(x) /\ Vouched(x)
    BY <1>1 DEF SlotInv
  <2>2. PICK y : y = (IF timed THEN [x EXCEPT !.age = Older(@)] ELSE x) /\ slot'[t] = y
    BY <1>1
  <2>3. /\ y.at = x.at /\ y.op = x.op /\ y.user = x.user /\ y.ok = x.ok
        /\ y.crossed = x.crossed /\ y.age = IF timed THEN Older(x.age) ELSE x.age
        /\ y = [at |-> y.at, op |-> y.op, arg |-> y.arg, user |-> y.user, age |-> y.age,
                ok |-> y.ok, crossed |-> y.crossed, cfg |-> y.cfg, alone |-> y.alone]
    BY <2>1, <2>2 DEF SlotTyped
  <2>4. y.age \in 0..TTL
    BY <1>3, <2>1, <2>3 DEF SlotTyped
  <2>5. SlotTyped(slot[t])'
    BY <2>1, <2>2, <2>3, <2>4 DEF SlotTyped, Sound
  <2>6. Unregistered(slot[t])' /\ Noticed(slot[t])'
    BY <1>1, <2>1, <2>2, <2>3 DEF Unregistered, Noticed, AutoRole
  <2>7. ASSUME NEW u, Sound(u), Holds(x, u), timed
        PROVE  /\ Allows(u.role, y.op) => y.ok
               /\ since'[u.role] <= y.age
               /\ y.crossed \/ u.role = role'
    <3>1. u.role \in Roles /\ x.age \in 0..TTL
      BY <2>1, <2>7 DEF Sound, Users, SlotTyped
    <3>2. since'[u.role] <= Older(x.age)
      BY <1>2, <2>7, <3>1 DEF Holds
    <3>3. QED BY <1>1, <2>3, <2>7, <3>2 DEF Holds
  <2>8. y.at \in {"upsert", "insert", "enforce"} /\ role' # None => Holds(slot[t], slot[t].user)'
    <3>1. SUFFICES ASSUME y.at \in {"upsert", "insert", "enforce"}, role' # None
                   PROVE  Holds(slot[t], slot[t].user)'
      OBVIOUS
    <3>2. Sound(x.user) /\ Holds(x, x.user) /\ timed
      BY <1>1, <2>1, <2>3, <3>1 DEF SlotTyped, Deciding, Vouched, Reading
    <3>3. QED BY <2>2, <2>3, <2>7, <3>2 DEF Holds
  <2>9. y.at = "cache" => Holds(slot[t], Enforced(slot[t].user))'
    <3>1. SUFFICES ASSUME y.at = "cache" PROVE Holds(slot[t], Enforced(slot[t].user))'
      OBVIOUS
    <3>2. Sound(Enforced(x.user)) /\ Holds(x, Enforced(x.user)) /\ timed
      BY <2>1, <2>3, <3>1, EnforcedSound DEF SlotTyped, Deciding, Vouched, Reading
    <3>3. Enforced(slot[t].user)' = Enforced(x.user)
      BY <1>1, <2>2, <2>3 DEF Enforced, OwnerAgain
    <3>4. QED BY <2>2, <2>7, <3>2, <3>3 DEF Holds
  <2>10. Vouched(slot[t])'
    <3>1. /\ y.at = "decide" => /\ Allows(y.user.role, y.op) => y.ok
                                /\ identity' = "owner" => y.user.role = "owner"
          /\ y.at = "passed" => y.ok
          /\ y.at = "refused" => identity' # "owner"
      BY <1>1, <2>1, <2>3 DEF Vouched
    <3>2. QED BY <2>2, <2>8, <2>9, <3>1 DEF Vouched
  <2>11. QED BY <2>5, <2>6, <2>10 DEF SlotInv
<1>6. SlotsInv'
  <2>1. slot' = [t \in Slots |-> slot'[t]]
    BY <1>1
  <2>2. QED BY <1>5, <2>1 DEF SlotsInv
<1>7. cache # None =>
        /\ cache' = [user |-> cache.user, age |-> Older(cache.age), crossed |-> cache.crossed]
        /\ cache \in [user : Users, age : 0..TTL, crossed : BOOLEAN] /\ Sound(cache.user)
        /\ cache.user.role \in Roles /\ cache.age \in 0..TTL
  BY <1>1 DEF CacheInv, Users
<1>8. CacheInv'
  <2>1. cache # None => since'[cache.user.role] <= Older(cache.age)
    BY <1>1, <1>2, <1>7 DEF CacheInv
  <2>2. QED BY <1>1, <1>3, <1>7, <2>1 DEF CacheInv, Sound
<1>9. CacheTracksRole'
  <2>1. \A t \in Slots : slot[t].at = "invalidate" => slot'[t].at = "invalidate"
    BY <1>1 DEF Reading
  <2>2. QED BY <1>1, <1>3, <1>7, <2>1 DEF CacheTracksRole
<1>10. QED BY <1>4, <1>6, <1>8, <1>9 DEF AccessInv

-----------------------------------------------------------------------------
LEMMA AccessStarts == AccessInit => AccessInv
<1> SUFFICES ASSUME AccessInit PROVE AccessInv
  OBVIOUS
<1>1. TableInv
  <2>1. identity \in Identities /\ role \in Roles \cup {None}
    BY ScenesAssumption DEF AccessInit
  <2>2. since \in [Roles -> 0..TTL] /\ (role # None => since[role] = 0)
    BY <2>1, TTLAssumption DEF AccessInit
  <2>3. QED BY <2>1, <2>2 DEF TableInv, AccessInit
<1>2. SlotsInv
  BY <1>1, FreeHolds DEF SlotsInv, AccessInit
<1>3. QED BY <1>1, <1>2 DEF AccessInv, CacheInv, CacheTracksRole, AccessInit

LEMMA AccessStep == AccessInv /\ [AccessNext]_accessVars => AccessInv'
<1> SUFFICES ASSUME AccessInv, [AccessNext]_accessVars PROVE AccessInv'
  OBVIOUS
<1>1. CASE Arrives
  BY <1>1, RequestKeeps DEF Arrives
<1>2. ASSUME NEW s \in Slots, Checks(s) PROVE AccessInv'
  BY <1>2, ReadKeeps, UpsertKeeps, InsertKeeps, EnforceKeeps, CacheKeeps, DecideKeeps,
     ManagesLater DEF Checks
<1>3. ASSUME NEW s \in Slots, Manages(s) PROVE AccessInv'
  BY <1>3, OwnSetsKeeps, InvalidatesKeeps, ManagesLater DEF Manages
<1>4. ASSUME NEW s \in Slots, Edits(s) \/ Brokers(s) PROVE AccessInv'
  BY <1>4, EditsLater, BrokersLater
<1>5. CASE (\E r \in Roles : OtherSetsRole(r)) \/ OtherInvalidates
  BY <1>5, OtherSetsKeeps, InvalidatesKeeps
<1>6. CASE UNCHANGED accessVars \/ CancelEdit \/ Answers \/ CancelAdd \/ NewDay
  BY <1>6, RestLater
<1>7. CASE Tick
  BY <1>7, TickKeeps
<1>8. QED BY <1>1, <1>2, <1>3, <1>4, <1>5, <1>6, <1>7 DEF AccessNext

LEMMA AccessAlways == AccessSpec => []AccessInv
BY AccessStarts, AccessStep, PTL DEF AccessSpec

(* A request is let through only if the table allowed it while it was      *)
(* under way or less than the cache's life before, however many requests   *)
(* fill the cache (check_permission over get_user's 30 seconds).           *)
THEOREM LetThroughLately == AccessSpec => []GrantedLately
<1>1. AccessInv => GrantedLately
  BY DEF AccessInv, SlotsInv, SlotInv, Vouched, GrantedLately
<1>2. QED BY <1>1, AccessAlways, PTL

(* The configured owner is never refused, whatever becomes of his row      *)
(* (get_user's repair of the owner's role and permissions).                *)
THEOREM OwnerNeverRefused == AccessSpec => []OwnerAllowed
<1>1. AccessInv => OwnerAllowed
  BY DEF AccessInv, SlotsInv, SlotInv, Vouched, OwnerAllowed
<1>2. QED BY <1>1, AccessAlways, PTL

(* The entry that answers requests carries the table's role, but for a     *)
(* change that crossed the request that filled it, or that is about to     *)
(* drop it (set_user_role).                                                *)
THEOREM CacheFollowsTable == AccessSpec => []CacheTracksRole
<1>1. AccessInv => CacheTracksRole
  BY DEF AccessInv
<1>2. QED BY <1>1, AccessAlways, PTL

(* What the types say beyond the table and the cache: the scene, and what  *)
(* is true or false.                                                       *)
RestTyped ==
  /\ scene \in Scenes /\ changes \in Nat
  /\ asking \in BOOLEAN /\ healed \in BOOLEAN /\ adding \in BOOLEAN

LEMMA RestKept == RestTyped /\ [AccessNext]_accessVars => RestTyped'
<1> SUFFICES ASSUME RestTyped, [AccessNext]_accessVars PROVE RestTyped'
  OBVIOUS
<1> USE DEF people, settings, broker
<1>1. CASE UNCHANGED accessVars
  BY <1>1 DEF RestTyped, accessVars
<1>2. CASE Arrives
  BY <1>2 DEF Arrives, Request, RestTyped
<1>3. ASSUME NEW s \in Slots, Checks(s) PROVE RestTyped'
  BY <1>3 DEF Checks, ReadUser, Upsert, Insert, Enforce, CacheUser, Decide, Refuse,
     RestTyped
<1>4. ASSUME NEW s \in Slots, Manages(s) PROVE RestTyped'
  BY <1>4 DEF Manages, SetsOwnRole, InvalidatesOwn, Shows, RobotControl, TradeCommand,
     RecordAction, RestTyped
<1>5. ASSUME NEW s \in Slots, Edits(s) PROVE RestTyped'
  <2>1. CASE Pushes(s)
    <3>1. healed' \in BOOLEAN
      BY <2>1 DEF Pushes
    <3> QED BY <2>1, <3>1 DEF Pushes, RestTyped
  <2>2. CASE ReceiveValue(s)
    BY <2>2 DEF ReceiveValue, RestTyped
  <2> QED BY <1>5, <2>1, <2>2 DEF Edits, ToggleComponent, ToggleAll, StartEdit,
          UpdateParameter, LooksForRow, Saves, EditEnds, RestTyped
<1>6. ASSUME NEW s \in Slots, Brokers(s) PROVE RestTyped'
  BY <1>6 DEF Brokers, StartAdd, ConfirmAdd, AddEnds, DeleteAccount, SwitchAccount,
     ToggleAccount, RestTyped
<1>7. ASSUME NEW r \in Roles, OtherSetsRole(r) PROVE RestTyped'
  BY <1>7 DEF OtherSetsRole, RestTyped
<1>8. CASE OtherInvalidates \/ CancelEdit \/ Answers \/ CancelAdd \/ NewDay \/ Tick
  BY <1>8 DEF OtherInvalidates, CancelEdit, Answers, CancelAdd, NewDay, Tick, RestTyped
<1>9. QED BY <1>1, <1>2, <1>3, <1>4, <1>5, <1>6, <1>7, <1>8 DEF AccessNext

(* Types: a role is one of the four, the cache holds a user or nothing,    *)
(* and no age is more than the cache's life, in every scene.               *)
THEOREM AccessTypes == AccessSpec => []AccessTypeOK
<1>1. AccessInit => RestTyped
  BY ScenesAssumption DEF AccessInit, RestTyped
<1>2. AccessInv /\ RestTyped => AccessTypeOK
  BY DEF AccessInv, TableInv, CacheInv, RestTyped, AccessTypeOK
<1>3. QED BY <1>1, <1>2, RestKept, AccessAlways, PTL DEF AccessSpec

(***************************************************************************)
(* LoneEditHeals.  A request carries what its button sent until it starts  *)
(* an edit; an edit that is still alone has found the rows as they are,    *)
(* and what it wrote is what it is about to send.                          *)
(***************************************************************************)
Waiting == {"read"} \cup Deciding \cup {"passed"}
Configs == [Fields -> Values]

EditTyped(x) ==
  /\ x.at \in Waiting => x.arg \in Arguments(x.op)
  /\ x.at = "service" => x.arg \in Fields \X (Values \cup {"bad"})
  /\ x.at \in Editing \ {"service", "load"} => x.cfg \in Configs

RowFits(x) ==
  /\ x.at = "update" => rows # <<>>
  /\ x.alone /\ x.at = "create" => rows = <<>>
  /\ x.alone /\ x.at = "push" => rows # <<>> /\ x.cfg = rows[1]

Alone ==
  \A s \in Slots : slot[s].at \in Editing /\ slot[s].alone =>
    \A t \in Slots \ {s} : slot[t].at \notin Editing

EditInv ==
  /\ rows \in Seq(Configs) /\ robot \in Configs /\ editing \in Fields \cup {None}
  /\ \A s \in Slots : EditTyped(slot[s]) /\ RowFits(slot[s])
  /\ Alone /\ LoneEditHeals

(* A request that no edit comes nearer by.                                 *)
Still(x, y) ==
  \/ y.at \notin Editing \cup Waiting
  \/ y.at \in Waiting /\ y.arg \in Arguments(y.op)
  \/ /\ y.at = x.at /\ y.op = x.op /\ y.arg = x.arg /\ y.cfg = x.cfg
     /\ y.alone = x.alone

LEMMA WaitingNotEditing == Waiting \cap Editing = {}
  BY DEF Waiting, Deciding, Editing

LEMMA StillKeeps ==
  ASSUME EditInv, UNCHANGED <<rows, robot, healed>>, editing' \in Fields \cup {None},
         \A s \in Slots : Still(slot[s], slot'[s])
  PROVE  EditInv'
<1>1. ASSUME NEW s \in Slots PROVE EditTyped(slot[s])' /\ RowFits(slot[s])'
  <2> DEFINE x == slot[s]
             y == slot'[s]
  <2>1. EditTyped(x) /\ RowFits(x) /\ Still(x, y)
    BY DEF EditInv
  <2> HIDE DEF x, y
  <2>2. EditTyped(y)
    BY <2>1, WaitingNotEditing DEF EditTyped, Still, Editing
  <2>3. RowFits(y)
    BY <2>1, WaitingNotEditing DEF RowFits, Still, Editing
  <2>4. QED BY <2>2, <2>3 DEF y, EditTyped, RowFits
<1>2. \A s \in Slots : slot'[s].at \in Editing =>
        slot'[s].at = slot[s].at /\ slot'[s].alone = slot[s].alone
  BY WaitingNotEditing DEF Still
<1>3. Alone'
  BY <1>2 DEF Alone, EditInv
<1>4. LoneEditHeals'
  BY DEF EditInv, LoneEditHeals, Current
<1>5. QED BY <1>1, <1>3, <1>4 DEF EditInv

(* One request changes.                                                    *)
LEMMA OneStill ==
  ASSUME AccessInv, EditInv, UNCHANGED <<rows, robot, healed>>,
         editing' \in Fields \cup {None},
         NEW s \in Slots, NEW y, Still(slot[s], y), slot' = [slot EXCEPT ![s] = y]
  PROVE  EditInv'
<1>1. slot = [t \in Slots |-> slot[t]]
  BY DEF AccessInv, SlotsInv
<1>2. \A t \in Slots : slot'[t] = IF t = s THEN y ELSE slot[t]
  BY <1>1
<1>3. \A t \in Slots : Still(slot[t], slot'[t])
  BY <1>2 DEF Still
<1>4. QED BY <1>3, StillKeeps

LEMMA EndsStill ==
  ASSUME AccessInv, EditInv, UNCHANGED <<rows, robot, healed>>,
         editing' \in Fields \cup {None}, NEW s \in Slots, Ends(s)
  PROVE  EditInv'
<1>1. Still(slot[s], Free)
  BY DEF Still, Free, Editing, Waiting, Deciding
<1>2. QED BY <1>1, OneStill DEF Ends

(* The request goes on to where nothing is asked of it any more.           *)
LEMMA GoStill ==
  ASSUME AccessInv, EditInv, UNCHANGED <<rows, robot, healed>>,
         editing' \in Fields \cup {None}, NEW s \in Slots,
         NEW a, Go(s, a), a \in {"audit", "added", "told", "invalidate", "refused"}
                          \/ (a \in Waiting /\ slot[s].at \in Waiting)
  PROVE  EditInv'
<1> DEFINE y == [slot[s] EXCEPT !.at = a]
<1>1. SlotTyped(slot[s]) /\ EditTyped(slot[s])
  BY DEF AccessInv, SlotsInv, SlotInv, EditInv
<1>2. y.at = a /\ y.arg = slot[s].arg /\ y.op = slot[s].op
  BY <1>1 DEF SlotTyped
<1>3. Still(slot[s], y)
  BY <1>1, <1>2 DEF Still, EditTyped, Editing, Waiting, Deciding
<1>4. slot' = [slot EXCEPT ![s] = y]
  BY DEF Go
<1> HIDE DEF y
<1>5. QED BY <1>3, <1>4, OneStill

Marked(r, by, at) ==
  \A t \in Slots :
    \/ slot'[t] = slot[t]
    \/ \E y : y = [Noted(t, r) EXCEPT !.at = IF t \in by THEN at ELSE @] /\ slot'[t] = y
    \/ \E y, b : /\ y = [Noted(t, r) EXCEPT !.at = IF t \in by THEN at ELSE @,
                                            !.crossed = b]
                 /\ slot'[t] = y

(* A role is written, or a row inserted: some requests go on to at.        *)
LEMMA NotedStill ==
  ASSUME AccessInv, EditInv, UNCHANGED <<rows, robot, healed>>,
         editing' \in Fields \cup {None},
         NEW r, NEW by, NEW at,
         at = "invalidate" \/ (at \in Waiting /\ \A t \in by : slot[t].at \in Waiting),
         Marked(r, by, at)
  PROVE  EditInv'
<1>1. ASSUME NEW t \in Slots PROVE Still(slot[t], slot'[t])
  <2> DEFINE x == slot[t]
             o == x.ok \/ Allows(r, x.op)
             in == t \in by
  <2>1. SlotTyped(x) /\ EditTyped(x)
    BY DEF AccessInv, SlotsInv, SlotInv, EditInv
  <2>2. [x EXCEPT !.ok = o] = Noted(t, r)
    BY DEF Noted
  <2> HIDE DEF o
  <2> DEFINE m == [x EXCEPT !.ok = o]
  <2>3. /\ m.at = x.at /\ m.op = x.op /\ m.arg = x.arg /\ m.cfg = x.cfg
        /\ m.alone = x.alone
        /\ m = [at |-> m.at, op |-> m.op, arg |-> m.arg, user |-> m.user, age |-> m.age,
                ok |-> m.ok, crossed |-> m.crossed, cfg |-> m.cfg, alone |-> m.alone]
    BY <2>1 DEF SlotTyped
  <2> HIDE DEF m, in
  <2>6. \/ slot'[t] = x
        \/ /\ slot'[t].at = (IF in THEN at ELSE x.at)
           /\ slot'[t].op = x.op /\ slot'[t].arg = x.arg
           /\ slot'[t].cfg = x.cfg /\ slot'[t].alone = x.alone
    <3>1. \/ slot'[t] = x
          \/ \E y : y = [m EXCEPT !.at = IF in THEN at ELSE @] /\ slot'[t] = y
          \/ \E y, b : /\ y = [m EXCEPT !.at = IF in THEN at ELSE @, !.crossed = b]
                       /\ slot'[t] = y
      BY <2>2, Zenon DEF in, m, Marked
    <3>2. CASE \E y : y = [m EXCEPT !.at = IF in THEN at ELSE @] /\ slot'[t] = y
      BY <2>3, <3>2
    <3>3. CASE \E y, b : /\ y = [m EXCEPT !.at = IF in THEN at ELSE @, !.crossed = b]
                         /\ slot'[t] = y
      BY <2>3, <3>3
    <3>4. QED BY <3>1, <3>2, <3>3
  <2>7. in => at = "invalidate" \/ (at \in Waiting /\ x.at \in Waiting)
    BY DEF in
  <2>8. "invalidate" \notin Editing \cup Waiting
    BY DEF Editing, Waiting, Deciding
  <2>9. QED BY <2>1, <2>6, <2>7, <2>8 DEF Still, EditTyped
<1>2. QED BY <1>1, StillKeeps

LEMMA WriteStill ==
  ASSUME AccessInv, EditInv, UNCHANGED <<rows, robot, healed>>,
         editing' \in Fields \cup {None},
         NEW r, NEW by, NEW at, WriteRole(r, by, at),
         at = "invalidate" \/ (at \in Waiting /\ \A t \in by : slot[t].at \in Waiting)
           \/ by = {}
  PROVE  EditInv'
<1>1. ASSUME NEW t \in Slots
      PROVE  slot'[t] = slot[t] \/ \E y, b :
               /\ y = [Noted(t, r) EXCEPT !.at = IF t \in by THEN at ELSE @, !.crossed = b]
               /\ slot'[t] = y
  <2>1. slot'[t] = IF slot[t].at = "free" THEN slot[t]
          ELSE [Noted(t, r) EXCEPT !.at = IF t \in by THEN at ELSE @,
                  !.crossed = @ \/ (slot[t].at \in Reading /\ t \notin by)]
    BY DEF WriteRole
  <2>2. SlotTyped(slot[t])
    BY DEF AccessInv, SlotsInv, SlotInv
  <2>3. Noted(t, r).crossed = slot[t].crossed
    BY <2>2 DEF Noted, SlotTyped
  <2>4. QED BY <2>1, <2>3
<1>2. Marked(r, by, at)
  BY <1>1, Zenon DEF Marked
<1>3. by = {} => Marked(r, by, "invalidate")
  BY <1>2 DEF Marked
<1>4. QED BY <1>2, <1>3, NotedStill

(* The permission check carries the button's argument along.               *)
LEMMA ChecksStill ==
  ASSUME AccessInv, EditInv, NEW s \in Slots, Checks(s)
  PROVE  EditInv'
<1>1. UNCHANGED settings /\ editing' \in Fields \cup {None}
  BY DEF Checks, ReadUser, Upsert, Insert, Enforce, CacheUser, Decide, Refuse, settings,
     EditInv
<1>2. UNCHANGED <<rows, robot, healed>>
  BY <1>1 DEF settings
<1>3. SlotTyped(slot[s]) /\ EditTyped(slot[s])
  BY DEF AccessInv, SlotsInv, SlotInv, EditInv
<1>4. CASE ReadUser(s) \/ CacheUser(s) \/ Decide(s)
  <2>1. PICK y : /\ slot' = [slot EXCEPT ![s] = y] /\ y.op = slot[s].op /\ y.arg = slot[s].arg
                 /\ y.at \in {"upsert", "decide", "passed", "refused"}
                 /\ slot[s].at \in Waiting
    <3>1. CASE ReadUser(s)
      <4> DEFINE y == [slot[s] EXCEPT !.at = "upsert",
                          !.user = NewUser(IF role = None THEN AutoRole ELSE role)]
      <4>1. y.op = slot[s].op /\ y.arg = slot[s].arg /\ y.at = "upsert"
        BY <1>3 DEF SlotTyped
      <4>2. slot' = [slot EXCEPT ![s] = y] /\ slot[s].at \in Waiting
        BY <3>1 DEF ReadUser, Set, Waiting, Deciding
      <4> HIDE DEF y
      <4>3. QED BY <4>1, <4>2
    <3>2. CASE CacheUser(s)
      <4> DEFINE y == [slot[s] EXCEPT !.at = "decide", !.user = Enforced(slot[s].user),
                                      !.age = 0, !.crossed = FALSE]
      <4>1. y.op = slot[s].op /\ y.arg = slot[s].arg /\ y.at = "decide"
        BY <1>3 DEF SlotTyped
      <4>2. slot' = [slot EXCEPT ![s] = y] /\ slot[s].at \in Waiting
        BY <3>2 DEF CacheUser, Set, Waiting, Deciding
      <4> HIDE DEF y
      <4>3. QED BY <4>1, <4>2
    <3>3. CASE Decide(s)
      <4> DEFINE a == IF Granted(s) THEN "passed" ELSE "refused"
                 y == [slot[s] EXCEPT !.at = a, !.user = None]
      <4>0. a \in {"passed", "refused"}
        OBVIOUS
      <4>1. y.op = slot[s].op /\ y.arg = slot[s].arg /\ y.at = a
        BY <1>3 DEF SlotTyped
      <4>2. slot' = [slot EXCEPT ![s] = y] /\ slot[s].at \in Waiting
        BY <3>3 DEF Decide, Set, Waiting, Deciding
      <4> HIDE DEF y, a
      <4>3. QED BY <4>0, <4>1, <4>2
    <3>4. QED BY <1>4, <3>1, <3>2, <3>3
  <2>2. Still(slot[s], y)
    BY <1>3, <2>1 DEF Still, EditTyped, Waiting, Deciding, Editing
  <2>3. QED BY <1>1, <1>2, <2>1, <2>2, OneStill
<1>5. CASE Upsert(s)
  <2>1. PICK a \in {"insert", "enforce"} : Go(s, a)
    BY <1>5 DEF Upsert
  <2>2. slot[s].at \in Waiting /\ a \in Waiting
    BY <1>5, <2>1 DEF Upsert, Waiting, Deciding
  <2>3. QED BY <1>1, <1>2, <2>1, <2>2, GoStill
<1>6. CASE Insert(s)
  <2>1. slot[s].at \in Waiting /\ "enforce" \in Waiting
    BY <1>6 DEF Insert, Waiting, Deciding
  <2>2. CASE role = None
    <3>1. \A t \in Slots : slot'[t] = IF slot[t].at = "free" THEN slot[t]
             ELSE [Noted(t, slot[s].user.role) EXCEPT !.at = IF t = s THEN "enforce" ELSE @]
      BY <1>6, <2>2 DEF Insert
    <3>2. Marked(slot[s].user.role, {s}, "enforce")
      BY <3>1 DEF Marked
    <3>3. QED BY <1>1, <1>2, <2>1, <3>2, NotedStill
  <2>3. CASE role # None
    <3>1. Ends(s)
      BY <1>6, <2>3 DEF Insert
    <3>2. QED BY <1>1, <1>2, <3>1, EndsStill
  <2>4. QED BY <2>2, <2>3
<1>9. CASE Enforce(s)
  <2>1. slot[s].at \in Waiting /\ "cache" \in Waiting
    BY <1>9 DEF Enforce, Waiting, Deciding
  <2>2. CASE WriteRole("owner", {s}, "cache")
    BY <1>1, <1>2, <2>1, <2>2, WriteStill
  <2>3. CASE Go(s, "cache")
    BY <1>1, <1>2, <2>1, <2>3, GoStill
  <2>4. QED BY <1>9, <2>2, <2>3 DEF Enforce
<1>7. CASE Refuse(s)
  <2>1. Ends(s)
    BY <1>7 DEF Refuse
  <2>2. QED BY <1>1, <1>2, <2>1, EndsStill
<1>8. QED BY <1>4, <1>5, <1>6, <1>7, <1>9 DEF Checks

(* A request begins with what its button or text carries.                  *)
LEMMA RequestStill ==
  ASSUME AccessInv, EditInv, Arrives
  PROVE  EditInv'
<1>1. PICK s \in Slots, op \in scene.ops :
        Offered(op) /\ \E arg \in Arguments(op) : Request(s, op, arg)
  BY DEF Arrives
<1>2. PICK arg \in Arguments(op) : Request(s, op, arg)
  BY <1>1
<1>3. PICK y : y = [Free EXCEPT !.at = IF Fresh THEN "decide" ELSE "read",
                                !.op = op, !.arg = arg,
                                !.user = IF Fresh THEN cache.user ELSE None,
                                !.ok = AllowedLately(op)]
               /\ slot' = [slot EXCEPT ![s] = y]
  BY <1>2 DEF Request
<1>4. y.at \in Waiting /\ y.op = op /\ y.arg = arg
  BY <1>3 DEF Free, Waiting, Deciding
<1>5. Still(slot[s], y)
  BY <1>2, <1>4 DEF Still
<1>6. UNCHANGED <<rows, robot, healed>> /\ editing' \in Fields \cup {None}
  BY <1>2 DEF Request, settings, EditInv
<1>7. QED BY <1>3, <1>5, <1>6, OneStill

(* Everything that is no edit of the configuration.                        *)
LEMMA OthersStill ==
  ASSUME AccessInv, EditInv,
         \/ \E s \in Slots : Manages(s) \/ Brokers(s)
         \/ \E r \in Roles : OtherSetsRole(r)
         \/ OtherInvalidates \/ CancelEdit \/ Answers \/ CancelAdd \/ NewDay \/ UNCHANGED accessVars
  PROVE  EditInv'
<1>1. /\ UNCHANGED <<rows, robot, healed>> /\ editing' \in Fields \cup {None}
  BY DEF Manages, Brokers, SetsOwnRole, InvalidatesOwn, Shows, RobotControl, TradeCommand,
     RecordAction, StartAdd, ConfirmAdd, AddEnds, DeleteAccount, SwitchAccount,
     ToggleAccount, OtherSetsRole, OtherInvalidates, CancelEdit, Answers, CancelAdd, NewDay,
     accessVars, settings, EditInv
<1>2. ASSUME NEW s \in Slots, Manages(s) \/ Brokers(s) PROVE EditInv'
  <2>1. \/ WriteRole("owner", {s}, "invalidate")
        \/ Ends(s) \/ Go(s, "audit") \/ Go(s, "added")
    BY <1>2 DEF Manages, Brokers, SetsOwnRole, InvalidatesOwn, Shows, RobotControl,
       TradeCommand, RecordAction, StartAdd, ConfirmAdd, AddEnds, DeleteAccount,
       SwitchAccount, ToggleAccount
  <2>2. QED BY <1>1, <2>1, WriteStill, EndsStill, GoStill
<1>3. ASSUME NEW r \in Roles, OtherSetsRole(r) PROVE EditInv'
  <2>1. WriteRole(r, {}, None)
    BY <1>3 DEF OtherSetsRole
  <2>2. QED BY <1>1, <2>1, WriteStill
<1>4. CASE OtherInvalidates \/ CancelEdit \/ Answers \/ CancelAdd \/ NewDay \/ UNCHANGED accessVars
  <2>1. slot' = slot
    BY <1>4 DEF OtherInvalidates, CancelEdit, Answers, CancelAdd, NewDay, accessVars
  <2>2. \A s \in Slots : Still(slot[s], slot'[s])
    BY <2>1 DEF Still
  <2>3. QED BY <1>1, <2>2, StillKeeps
<1>5. QED BY <1>2, <1>3, <1>4

LEMMA TickStill ==
  ASSUME AccessInv, EditInv, Tick
  PROVE  EditInv'
<1>1. UNCHANGED <<rows, robot, healed>> /\ editing' \in Fields \cup {None}
  BY DEF Tick, settings, EditInv
<1>2. ASSUME NEW s \in Slots PROVE Still(slot[s], slot'[s])
  <2>1. SlotTyped(slot[s])
    BY DEF AccessInv, SlotsInv, SlotInv
  <2> DEFINE older == Older(slot[s].age)
  <2>2. slot'[s] = slot[s] \/ slot'[s] = [slot[s] EXCEPT !.age = older]
    BY DEF Tick
  <2> HIDE DEF older
  <2>3. QED BY <2>1, <2>2 DEF Still, SlotTyped
<1>3. QED BY <1>1, <1>2, StillKeeps

(* The configuration as it is read.                                        *)
LEMMA CurrentTyped ==
  EditInv => Current \in Configs
<1>1. Default \in Configs
  BY DEF Default, Configs, Values
<1>2. ASSUME EditInv, rows # <<>> PROVE rows[1] \in Configs
  BY <1>2 DEF EditInv
<1>3. QED BY <1>1, <1>2 DEF Current

(* An edit begins, and every edit in progress stops being alone.           *)
LEMMA StartsEdits ==
  ASSUME AccessInv, EditInv, NEW s \in Slots, slot[s].at = "passed",
         NEW new, Starts(s, new), UNCHANGED <<rows, robot, healed, editing>>,
         \/ new.at = "service" /\ new.arg \in Fields \X (Values \cup {"bad"})
         \/ new.at = "save" /\ new.cfg \in Configs
  PROVE  EditInv'
<1>1. ASSUME NEW t \in Slots PROVE SlotTyped(slot[t])
  BY DEF AccessInv, SlotsInv, SlotInv
<1> DEFINE free == ~Overlapping
<1>2. slot'[s] = [slot[s] EXCEPT !.at = new.at, !.arg = new.arg, !.cfg = new.cfg,
                                 !.alone = free]
  BY DEF Starts
<1>3. free => \A t \in Slots : slot[t].at \notin Editing
  BY DEF Overlapping
<1> HIDE DEF free
<1>4. /\ slot'[s].at = new.at /\ slot'[s].arg = new.arg /\ slot'[s].cfg = new.cfg
      /\ slot'[s].alone = free
  BY <1>1, <1>2 DEF SlotTyped
<1>5. ASSUME NEW t \in Slots \ {s}
      PROVE  /\ slot'[t].at = slot[t].at /\ slot'[t].arg = slot[t].arg
             /\ slot'[t].cfg = slot[t].cfg /\ slot'[t].op = slot[t].op
             /\ slot'[t].at \in Editing => slot'[t].alone = FALSE
  <2>1. CASE slot[t].at \in Editing
    <3>1. slot'[t] = [slot[t] EXCEPT !.alone = FALSE]
      BY <2>1 DEF Starts
    <3>2. QED BY <1>1, <3>1 DEF SlotTyped
  <2>2. CASE slot[t].at \notin Editing
    <3>1. slot'[t] = slot[t]
      BY <2>2 DEF Starts
    <3>2. QED BY <2>2, <3>1
  <2>3. QED BY <2>1, <2>2
<1>6. EditTyped(slot[s])' /\ RowFits(slot[s])'
  BY <1>4 DEF EditTyped, RowFits, Editing, Waiting, Deciding
<1>7. ASSUME NEW t \in Slots \ {s} PROVE EditTyped(slot[t])' /\ RowFits(slot[t])'
  <2>1. EditTyped(slot[t]) /\ RowFits(slot[t])
    BY DEF EditInv
  <2>2. EditTyped(slot[t])'
    BY <1>5, <2>1 DEF EditTyped
  <2>3. RowFits(slot[t])'
    BY <1>5, <2>1 DEF RowFits, Editing
  <2>4. QED BY <2>2, <2>3
<1>8. Alone'
  BY <1>3, <1>4, <1>5 DEF Alone
<1>9. LoneEditHeals'
  BY DEF EditInv, LoneEditHeals, Current
<1>10. QED BY <1>6, <1>7, <1>8, <1>9 DEF EditInv

(* One edit goes on, and the others stay where they are.                   *)
LEMMA GoesOn ==
  ASSUME AccessInv, EditInv, NEW s \in Slots, slot[s].at \in Editing,
         NEW y, slot' = [slot EXCEPT ![s] = y],
         y.alone = slot[s].alone, EditTyped(y), RowFits(slot[s])',
         rows' \in Seq(Configs), robot' \in Configs, UNCHANGED editing, LoneEditHeals',
         rows' # <<>> \/ UNCHANGED rows, rows' = rows \/ slot[s].at \in {"create", "update"}
  PROVE  EditInv'
<1>1. slot = [t \in Slots |-> slot[t]]
  BY DEF AccessInv, SlotsInv
<1>2. slot'[s] = y /\ \A t \in Slots \ {s} : slot'[t] = slot[t]
  BY <1>1
<1>3. Alone'
  BY <1>2 DEF Alone, EditInv
<1>4. ASSUME NEW t \in Slots \ {s} PROVE EditTyped(slot[t])' /\ RowFits(slot[t])'
  <2>1. EditTyped(slot[t]) /\ RowFits(slot[t])
    BY DEF EditInv
  <2>2. slot[t].at \in Editing => ~slot[t].alone
    BY DEF EditInv, Alone
  <2>3. EditTyped(slot[t])'
    BY <1>2, <2>1 DEF EditTyped
  <2>4. RowFits(slot[t])'
    BY <1>2, <2>1, <2>2 DEF RowFits, Editing
  <2>5. QED BY <2>3, <2>4
<1>5. EditTyped(slot[s])'
  BY <1>2 DEF EditTyped
<1>6. QED BY <1>3, <1>4, <1>5 DEF EditInv

LEMMA EditsKeep ==
  ASSUME AccessInv, EditInv, NEW s \in Slots, Edits(s)
  PROVE  EditInv'
<1> DEFINE x == slot[s]
<1>1. SlotTyped(x) /\ EditTyped(x) /\ RowFits(x)
  BY DEF AccessInv, SlotsInv, SlotInv, EditInv
<1>2. Current \in Configs /\ rows \in Seq(Configs) /\ robot \in Configs
      /\ editing \in Fields \cup {None}
  BY CurrentTyped DEF EditInv
<1>3. CASE ToggleComponent(s)
  <2>1. x.at = "passed" /\ x.arg \in Fields
    BY <1>1, <1>3 DEF ToggleComponent, EditTyped, Waiting, Arguments
  <2>2. Not(Current[x.arg]) \in Values
    BY <1>2, <2>1 DEF Not, Values, Configs
  <2>3. PICK new : /\ new = [at |-> "service", cfg |-> None,
                             arg |-> <<x.arg, Not(Current[x.arg])>>]
                   /\ Starts(s, new) /\ UNCHANGED <<rows, robot, healed, editing>>
    BY <1>3 DEF ToggleComponent, settings
  <2>4. new.at = "service" /\ new.arg \in Fields \X (Values \cup {"bad"})
    BY <2>1, <2>2, <2>3
  <2>5. QED BY <2>1, <2>3, <2>4, StartsEdits
<1>4. CASE ToggleAll(s)
  <2>1. x.at = "passed" /\ x.arg \in Values
    BY <1>1, <1>4 DEF ToggleAll, EditTyped, Waiting, Arguments
  <2>2. PICK new : /\ new = [at |-> "save", cfg |-> [f \in Fields |-> x.arg], arg |-> None]
                   /\ Starts(s, new) /\ UNCHANGED <<rows, robot, healed, editing>>
    BY <1>4 DEF ToggleAll, settings
  <2>3. new.at = "save" /\ new.cfg \in Configs
    BY <2>1, <2>2 DEF Configs
  <2>4. QED BY <2>1, <2>2, <2>3, StartsEdits
<1>5. CASE StartEdit(s)
  <2>1. x.arg \in Fields /\ editing' = x.arg /\ Ends(s) /\ UNCHANGED <<rows, robot, healed>>
    BY <1>1, <1>5 DEF StartEdit, EditTyped, Waiting, Arguments
  <2>2. QED BY <2>1, EndsStill
<1>6. CASE ReceiveValue(s)
  <2>1. /\ x.at = "passed" /\ x.arg \in Values \cup {"bad", "nonsense"}
        /\ UNCHANGED <<rows, robot, healed, editing>>
    BY <1>1, <1>6 DEF ReceiveValue, EditTyped, Waiting, Arguments, settings
  <2>2. \/ Ends(s)
        \/ /\ editing # None /\ x.arg # "nonsense"
           /\ Starts(s, [at |-> "service", cfg |-> None, arg |-> <<editing, x.arg>>])
    BY <1>6 DEF ReceiveValue
  <2>3. CASE Ends(s)
    BY <1>2, <2>1, <2>3, EndsStill
  <2>4. CASE /\ editing # None /\ x.arg # "nonsense"
             /\ Starts(s, [at |-> "service", cfg |-> None, arg |-> <<editing, x.arg>>])
    <3>1. PICK new : /\ new = [at |-> "service", cfg |-> None, arg |-> <<editing, x.arg>>]
                     /\ Starts(s, new)
      BY <2>4
    <3>2. new.at = "service" /\ new.arg \in Fields \X (Values \cup {"bad"})
      BY <1>2, <2>1, <2>4, <3>1
    <3>3. QED BY <2>1, <3>1, <3>2, StartsEdits
  <2>5. QED BY <2>2, <2>3, <2>4
<1>7. CASE UpdateParameter(s)
  <2>1. x.at = "service" /\ UNCHANGED <<rows, robot, healed, editing>>
    BY <1>7 DEF UpdateParameter, settings
  <2>2. CASE Go(s, "told")
    BY <1>2, <2>1, <2>2, GoStill
  <2>3. CASE Valid(x.arg[2]) /\ Set(s, [x EXCEPT !.at = "save", !.cfg = Merge(Current, x.arg)])
    <3> DEFINE cfg == Merge(Current, x.arg)
    <3>1. x.arg[1] \in Fields /\ x.arg[2] \in Values
      BY <1>1, <2>1, <2>3 DEF EditTyped, Valid
    <3>2. cfg \in Configs
      BY <1>2, <3>1 DEF Merge, Configs
    <3> HIDE DEF cfg
    <3>3. PICK y : y = [x EXCEPT !.at = "save", !.cfg = cfg] /\ slot' = [slot EXCEPT ![s] = y]
      BY <2>3 DEF Set, cfg
    <3>4. y.at = "save" /\ y.cfg = cfg /\ y.alone = x.alone
      BY <1>1, <3>3 DEF SlotTyped
    <3>5. EditTyped(y)
      BY <3>2, <3>4 DEF EditTyped, Editing, Waiting, Deciding
    <3>6. slot'[s] = y
      BY <3>3 DEF AccessInv, SlotsInv
    <3>7. RowFits(slot[s])'
      BY <3>4, <3>6 DEF RowFits
    <3>8. LoneEditHeals'
      BY <2>1 DEF EditInv, LoneEditHeals, Current
    <3>9. x.at \in Editing
      BY <2>1 DEF Editing
    <3>10. QED BY <1>2, <2>1, <3>3, <3>4, <3>5, <3>7, <3>8, <3>9, GoesOn
  <2>4. QED BY <1>7, <2>2, <2>3 DEF UpdateParameter
<1>8. ASSUME NEW a \in Editing \ {"service", "load"}, Go(s, a), x.at \in Editing \ {"service", "load"}
      PROVE  \E y : /\ slot' = [slot EXCEPT ![s] = y] /\ slot'[s] = y
                    /\ y.at = a /\ y.cfg = x.cfg /\ y.alone = x.alone /\ EditTyped(y)
  <2> DEFINE y == [x EXCEPT !.at = a]
  <2>1. y.at = a /\ y.cfg = x.cfg /\ y.alone = x.alone
    BY <1>1 DEF SlotTyped
  <2>2. slot' = [slot EXCEPT ![s] = y]
    BY <1>8 DEF Go
  <2> HIDE DEF y
  <2>3. EditTyped(y)
    BY <1>1, <1>8, <2>1, WaitingNotEditing DEF EditTyped
  <2>4. slot'[s] = y
    BY <2>2 DEF AccessInv, SlotsInv
  <2>5. QED BY <2>1, <2>2, <2>3, <2>4
<1>9. CASE LooksForRow(s)
  <2>1. /\ x.at = "save" /\ UNCHANGED <<rows, robot, healed, editing>>
        /\ Go(s, IF rows = <<>> THEN "create" ELSE "update")
    BY <1>9 DEF LooksForRow, settings
  <2>2. PICK a \in {"create", "update"} : Go(s, a) /\ (a = "create" <=> rows = <<>>)
    BY <2>1
  <2>3. a \in Editing \ {"service", "load"} /\ x.at \in Editing \ {"service", "load"}
    BY <2>1 DEF Editing
  <2>4. PICK y : /\ slot' = [slot EXCEPT ![s] = y] /\ slot'[s] = y
                 /\ y.at = a /\ y.cfg = x.cfg /\ y.alone = x.alone /\ EditTyped(y)
    BY <1>8, <2>2, <2>3
  <2>5. RowFits(slot[s])'
    BY <2>1, <2>2, <2>4 DEF RowFits
  <2>6. LoneEditHeals'
    BY <2>1 DEF EditInv, LoneEditHeals, Current
  <2>7. QED BY <1>2, <2>1, <2>3, <2>4, <2>5, <2>6, GoesOn
<1>10. CASE Saves(s)
  <2>1. /\ x.at \in {"create", "update"} /\ healed' = FALSE /\ Go(s, "push")
        /\ rows' = IF x.at = "create" THEN Append(rows, x.cfg) ELSE [rows EXCEPT ![1] = x.cfg]
        /\ UNCHANGED <<robot, editing>>
    BY <1>10 DEF Saves
  <2>2. x.at \in Editing \ {"service", "load"} /\ "push" \in Editing \ {"service", "load"}
    BY <2>1 DEF Editing
  <2>3. PICK y : /\ slot' = [slot EXCEPT ![s] = y] /\ slot'[s] = y
                 /\ y.at = "push" /\ y.cfg = x.cfg /\ y.alone = x.alone /\ EditTyped(y)
    BY <1>8, <2>1, <2>2
  <2>4. x.cfg \in Configs
    BY <1>1, <2>2 DEF EditTyped
  <2>5. rows' \in Seq(Configs) /\ rows' # <<>> /\ (x.alone => rows'[1] = x.cfg)
    <3> DEFINE c == x.cfg
    <3>0. c \in Configs
      BY <2>4
    <3>1. CASE x.at = "create"
      <4>1. rows' = Append(rows, c) /\ (x.alone => rows = <<>>)
        BY <1>1, <2>1, <3>1 DEF RowFits
      <4> HIDE DEF c
      <4>2. rows' \in Seq(Configs) /\ rows' # <<>>
        BY <1>2, <3>0, <4>1
      <4>3. rows = <<>> => rows'[1] = c
        BY <3>0, <4>1
      <4>4. QED BY <4>1, <4>2, <4>3 DEF c
    <3>2. CASE x.at = "update"
      <4>1. rows' = [rows EXCEPT ![1] = c] /\ rows # <<>>
        BY <1>1, <2>1, <3>2 DEF RowFits
      <4> HIDE DEF c
      <4>2. rows' \in Seq(Configs) /\ rows' # <<>> /\ rows'[1] = c
        BY <1>2, <3>0, <4>1
      <4>3. QED BY <4>2 DEF c
    <3>3. QED BY <2>1, <3>1, <3>2
  <2>6. RowFits(slot[s])'
    BY <2>3, <2>5 DEF RowFits
  <2>7. LoneEditHeals'
    BY <2>1 DEF LoneEditHeals
  <2>8. QED BY <1>2, <2>1, <2>2, <2>3, <2>5, <2>6, <2>7, GoesOn
<1>11. CASE Pushes(s)
  <2>1. PICK arrives \in BOOLEAN :
          /\ robot' = IF arrives THEN x.cfg ELSE robot
          /\ healed' = (arrives /\ x.alone)
    BY <1>11 DEF Pushes, Sent
  <2>2. x.at = "push" /\ Go(s, "told") /\ UNCHANGED <<rows, editing>>
    BY <1>11 DEF Pushes
  <2>3. x.cfg \in Configs
    BY <1>1, <2>2 DEF EditTyped, Editing
  <2>4. LoneEditHeals'
    <3>1. healed' => robot' = x.cfg /\ rows # <<>> /\ x.cfg = rows[1]
      BY <1>1, <2>1, <2>2 DEF RowFits
    <3>2. QED BY <2>2, <3>1 DEF LoneEditHeals, Current
  <2> DEFINE y == [x EXCEPT !.at = "told"]
  <2>5. y.at = "told" /\ slot' = [slot EXCEPT ![s] = y]
    BY <1>1, <2>2 DEF Go, SlotTyped
  <2> HIDE DEF y
  <2>6. slot'[s] = y /\ \A t \in Slots \ {s} : slot'[t] = slot[t]
    BY <2>5 DEF AccessInv, SlotsInv
  <2>7. \A t \in Slots : EditTyped(slot[t])' /\ RowFits(slot[t])'
    <3>1. EditTyped(slot[s])' /\ RowFits(slot[s])'
      BY <2>5, <2>6 DEF EditTyped, RowFits, Editing, Waiting, Deciding
    <3>2. ASSUME NEW t \in Slots \ {s} PROVE EditTyped(slot[t])' /\ RowFits(slot[t])'
      BY <2>2, <2>6 DEF EditInv, EditTyped, RowFits
    <3>3. QED BY <3>1, <3>2
  <2>8. Alone'
    BY <2>5, <2>6 DEF EditInv, Alone, Editing
  <2>9. QED BY <1>2, <2>1, <2>2, <2>3, <2>4, <2>7, <2>8 DEF EditInv
<1>12. CASE EditEnds(s)
  <2>1. Ends(s) /\ UNCHANGED <<rows, robot, healed>> /\ editing' \in {editing, None}
    BY <1>12 DEF EditEnds
  <2>2. QED BY <1>2, <2>1, EndsStill
<1>13. QED BY <1>3, <1>4, <1>5, <1>6, <1>7, <1>9, <1>10, <1>11, <1>12 DEF Edits

LEMMA EditStep == AccessInv /\ EditInv /\ [AccessNext]_accessVars => EditInv'
<1> SUFFICES ASSUME AccessInv, EditInv, [AccessNext]_accessVars PROVE EditInv'
  OBVIOUS
<1>1. CASE AccessNext
  BY <1>1, RequestStill, ChecksStill, EditsKeep, OthersStill, TickStill DEF AccessNext
<1>2. CASE UNCHANGED accessVars
  BY <1>2, OthersStill
<1>3. QED BY <1>1, <1>2

LEMMA EditAlways == AccessSpec => []EditInv
<1>1. AccessInit => EditInv
  <2> SUFFICES ASSUME AccessInit PROVE EditInv
    OBVIOUS
  <2>1. Default \in Configs
    BY DEF Default, Configs, Values
  <2>2. \A s \in Slots : slot[s].at = "free"
    BY DEF AccessInit, Free
  <2>3. rows \in Seq(Configs) /\ robot \in Configs /\ editing \in Fields \cup {None}
    BY <2>1 DEF AccessInit
  <2>4. healed = FALSE
    BY DEF AccessInit
  <2>5. QED BY <2>2, <2>3, <2>4
        DEF EditInv, EditTyped, RowFits, Alone, LoneEditHeals, Editing, Waiting, Deciding
<1>2. QED BY <1>1, EditStep, AccessAlways, PTL DEF AccessSpec

(* _push_config and the handlers of the strategy and risk menus: whatever  *)
(* was lost or overtaken before, an edit that ran alone and whose push     *)
(* arrived leaves the robot with the row, all of it.                       *)
THEOREM LoneEditAlwaysHeals == AccessSpec => []LoneEditHeals
<1>1. EditInv => LoneEditHeals
  BY DEF EditInv
<1>2. QED BY <1>1, EditAlways, PTL

(***************************************************************************)
(* SwitchHolds.  Since the last switch no other account carries the mark;  *)
(* the rest keeps the list of the accounts a list.                         *)
(***************************************************************************)
AccountsInv ==
  /\ accounts = [active |-> accounts.active, enabled |-> accounts.enabled,
                 order |-> accounts.order, today |-> accounts.today]
  /\ accounts.order \in Seq(Accounts)
  /\ accounts.today \in Nat /\ accounts.today <= Len(accounts.order)
  /\ chosen # None => accounts.active \subseteq {chosen}

(* Every nonempty set of naturals has a least element.                     *)
LEMMA LeastNatural ==
  ASSUME NEW T, T \subseteq Nat, T # {}
  PROVE  \E x \in T : \A y \in T : x <= y
<1> DEFINE F == {0 .. k : k \in T}
<1>1. F \subseteq FiniteSubsetsOf(Nat) /\ F # {}
  <2>1. \A k \in Nat : 0 .. k \in FiniteSubsetsOf(Nat)
    BY FS_Interval DEF FiniteSubsetsOf
  <2>2. QED BY <2>1
<1>2. PICK s \in F : \A t \in F : ~ (<<t, s>> \in StrictSubsetOrdering(Nat))
  BY <1>1, FS_StrictSubsetOrderingWellFounded, WFMin, Zenon
<1>3. PICK x \in T : s = 0 .. x
  BY <1>2
<1>4. ASSUME NEW y \in T, y < x PROVE FALSE
  <2>1. 0 .. y \in F /\ 0 .. y \subseteq 0 .. x /\ x \notin 0 .. y /\ x \in 0 .. x
    BY <1>4
  <2>2. 0 .. y # s /\ 0 .. y \in SUBSET Nat /\ s \in SUBSET Nat
    BY <2>1, <1>3
  <2> HIDE DEF F
  <2>3. <<0 .. y, s>> \in StrictSubsetOrdering(Nat)
    BY <2>1, <2>2, <1>3 DEF StrictSubsetOrdering
  <2>4. QED BY <2>1, <2>3, <1>2
<1>5. QED BY <1>4

(* A nonempty set of positions has a last one.                             *)
LEMMA LastPosition ==
  ASSUME NEW n \in Nat, NEW T, T \subseteq 1..n, T # {}
  PROVE  \E i \in T : \A j \in T : j <= i
<1> DEFINE D == {n - i : i \in T}
<1>1. D \subseteq Nat /\ D # {}
  <2>1. \A i \in T : i \in Nat /\ n - i \in Nat
    OBVIOUS
  <2>2. PICK i \in T : TRUE
    OBVIOUS
  <2>3. n - i \in D
    OBVIOUS
  <2>4. QED BY <2>1, <2>3
<1> HIDE DEF D
<1>2. PICK d \in D : \A e \in D : d <= e
  BY <1>1, LeastNatural
<1>3. PICK i \in T : d = n - i
  BY <1>2 DEF D
<1>4. ASSUME NEW j \in T PROVE j <= i
  <2>1. n - j \in D
    BY DEF D
  <2>2. d <= n - j /\ i \in Nat /\ j \in Nat
    BY <1>2, <2>1
  <2>3. QED BY <1>3, <2>2
<1>5. QED BY <1>4

LEMMA ActiveIsUsable ==
  AccountsInv => \/ ActiveAccount = None
                 \/ ActiveAccount \in accounts.active \cap accounts.enabled
<1> SUFFICES ASSUME AccountsInv, Usable # {}
             PROVE  ActiveAccount \in accounts.active \cap accounts.enabled
  BY DEF ActiveAccount
<1>1. Len(accounts.order) \in Nat
  BY DEF AccountsInv
<1>2. \E i \in Usable : \A j \in Usable : j <= i
  <2>1. Usable \subseteq 1..Len(accounts.order)
    BY DEF Usable
  <2>2. QED BY <1>1, <2>1, LastPosition
<1> DEFINE last == CHOOSE i \in Usable : \A j \in Usable : j <= i
<1>3. last \in Usable
  BY <1>2
<1>4. ActiveAccount = accounts.order[last]
  BY DEF ActiveAccount
<1> HIDE DEF last
<1>5. QED BY <1>3, <1>4 DEF Usable

(* No more accounts in a list than positions.                              *)
LEMMA ImageBound ==
  ASSUME NEW f, NEW J, IsFiniteSet(J), NEW T, \A t \in T : \E i \in J : f[i] = t
  PROVE  Cardinality(T) \in Nat /\ Cardinality(T) <= Cardinality(J)
<1> DEFINE I == {i \in J : f[i] \in T}
           g == [i \in I |-> f[i]]
<1>1. IsFiniteSet(I) /\ Cardinality(I) <= Cardinality(J)
  <2>1. I \subseteq J
    OBVIOUS
  <2>2. QED BY <2>1, FS_Subset
<1>2. g \in Surjection(I, T)
  BY DEF Surjection
<1>3. IsFiniteSet(T) /\ Cardinality(T) <= Cardinality(I)
  BY <1>1, <1>2, FS_Surjection
<1>4. Cardinality(T) \in Nat /\ Cardinality(I) \in Nat /\ Cardinality(J) \in Nat
  BY <1>1, <1>3, FS_CardinalityType
<1>5. QED BY <1>1, <1>3, <1>4

(* The list without one of its accounts is one shorter.                    *)
LEMMA WithoutOne ==
  ASSUME AccountsInv, NEW a
  PROVE  /\ Without(a) \in Seq(Accounts)
         /\ a \in Known => Len(Without(a)) = Len(accounts.order) - 1
         /\ a \notin Known => Without(a) = accounts.order
         /\ Cardinality(ChangedToday \ {a}) \in Nat
         /\ Cardinality(ChangedToday \ {a}) <= Len(Without(a))
<1> DEFINE o == accounts.order
           n == Len(o)
<1>1. o \in Seq(Accounts) /\ n \in Nat
      /\ accounts.today \in Nat /\ accounts.today <= n
  BY DEF AccountsInv
<1>2. ChangedToday = {o[i] : i \in (n - accounts.today + 1)..n}
  BY DEF ChangedToday
<1>3. Known = {o[i] : i \in 1..n}
  BY DEF Known
<1>4. CASE a \in Known
  <2> DEFINE p == CHOOSE k \in 1..n : o[k] = a
  <2>1. p \in 1..n /\ o[p] = a
    BY <1>3, <1>4
  <2>2. Without(a) = SubSeq(o, 1, p - 1) \o SubSeq(o, p + 1, n)
    BY <1>4 DEF Without
  <2> HIDE DEF p, o, n
  <2>3. /\ SubSeq(o, 1, p - 1) \in Seq(Accounts) /\ Len(SubSeq(o, 1, p - 1)) = p - 1
        /\ SubSeq(o, p + 1, n) \in Seq(Accounts) /\ Len(SubSeq(o, p + 1, n)) = n - p
    BY <1>1, <2>1, SubSeqProperties DEF n
  <2>4. Without(a) \in Seq(Accounts) /\ Len(Without(a)) = n - 1
    BY <1>1, <2>1, <2>2, <2>3, ConcatProperties
  <2> DEFINE J == (1..n) \ {p}
  <2>5. IsFiniteSet(J) /\ Cardinality(J) = n - 1
    <3>1. IsFiniteSet(1..n) /\ Cardinality(1..n) = n
      BY <1>1, FS_Interval
    <3>2. QED BY <2>1, <3>1, FS_RemoveElement
  <2>6. \A t \in ChangedToday \ {a} : \E i \in J : o[i] = t
    <3> SUFFICES ASSUME NEW t \in ChangedToday \ {a} PROVE \E i \in J : o[i] = t
      OBVIOUS
    <3>1. PICK i \in (n - accounts.today + 1)..n : t = o[i]
      BY <1>2
    <3>2. i \in 1..n /\ i # p
      BY <1>1, <2>1, <3>1
    <3>3. QED BY <3>1, <3>2
  <2> HIDE DEF J
  <2>7. Cardinality(ChangedToday \ {a}) \in Nat /\ Cardinality(ChangedToday \ {a}) <= n - 1
    BY <2>5, <2>6, ImageBound
  <2>8. QED BY <1>4, <2>4, <2>7 DEF n, o
<1>5. CASE a \notin Known
  <2>1. Without(a) = o
    BY <1>5 DEF Without
  <2>2. IsFiniteSet(1..n) /\ Cardinality(1..n) = n
    BY <1>1, FS_Interval
  <2>3. \A t \in ChangedToday \ {a} : \E i \in 1..n : o[i] = t
    BY <1>1, <1>2
  <2>4. Cardinality(ChangedToday \ {a}) \in Nat /\ Cardinality(ChangedToday \ {a}) <= n
    <3> HIDE DEF o, n
    <3>1. QED BY <2>2, <2>3, ImageBound
  <2>5. QED BY <1>1, <1>5, <2>1, <2>4
<1>6. QED BY <1>4, <1>5

(* The accounts that were changed today, and one of the list.              *)
LEMMA WithOne ==
  ASSUME AccountsInv, NEW a \in Known
  PROVE  /\ Cardinality(ChangedToday \cup {a}) \in Nat
         /\ Cardinality(ChangedToday \cup {a}) <= Len(accounts.order)
<1> DEFINE o == accounts.order
           n == Len(o)
<1>1. n \in Nat /\ accounts.today \in Nat /\ accounts.today <= n
  BY DEF AccountsInv
<1>2. IsFiniteSet(1..n) /\ Cardinality(1..n) = n
  <2> HIDE DEF o, n
  <2>1. 1 \in Int /\ n \in Int
    BY <1>1
  <2>2. /\ IsFiniteSet(1..n)
        /\ Cardinality(1..n) = IF 1 > n THEN 0 ELSE n - 1 + 1
    BY <2>1, FS_Interval
  <2>3. QED BY <1>1, <2>2
<1>3. \A t \in ChangedToday \cup {a} : \E i \in 1..n : o[i] = t
  <2>1. \A t \in ChangedToday : \E i \in (n - accounts.today + 1)..n : o[i] = t
    BY DEF ChangedToday
  <2>2. \A i \in (n - accounts.today + 1)..n : i \in 1..n
    BY <1>1
  <2>3. \E i \in 1..n : o[i] = a
    BY DEF Known
  <2>4. QED BY <2>1, <2>2, <2>3
<1> HIDE DEF o, n
<1>4. Cardinality(ChangedToday \cup {a}) \in Nat /\ Cardinality(ChangedToday \cup {a}) <= n
  BY <1>2, <1>3, ImageBound
<1>5. QED BY <1>4 DEF n, o

LEMMA BrokersKeep ==
  ASSUME AccountsInv, EditInv, NEW s \in Slots, Brokers(s)
  PROVE  AccountsInv'
<1> DEFINE o == accounts.order
           a == slot[s].arg
<1>1. o \in Seq(Accounts) /\ Len(o) \in Nat /\ accounts.today \in Nat /\ accounts.today <= Len(o)
  BY DEF AccountsInv
<1>2. slot[s].at = "passed" /\ slot[s].op \in {"confirm", "switch", "enable", "disable", "delete"}
        => a \in Accounts
  BY DEF EditInv, EditTyped, Waiting, Arguments
<1>3. CASE UNCHANGED <<accounts, chosen>>
  BY <1>3 DEF AccountsInv
<1>4. CASE ConfirmAdd(s) /\ accounts' = Created(a) /\ chosen' = None
  <2>1. a \in Accounts
    BY <1>2, <1>4 DEF ConfirmAdd
  <2> DEFINE old == Len(o) - accounts.today
             new == SubSeq(o, 1, old) \o <<a>> \o SubSeq(o, old + 1, Len(o))
  <2>2. /\ accounts' = [active |-> accounts.active \cup {a}, enabled |-> accounts.enabled \cup {a},
                        order |-> new, today |-> accounts.today]
    BY <1>4 DEF Created, AccountsInv
  <2>3. new \in Seq(Accounts) /\ Len(new) = Len(o) + 1
    <3> HIDE DEF o, a
    <3>1. old \in 0..Len(o)
      BY <1>1
    <3> HIDE DEF old
    <3> DEFINE u == SubSeq(o, 1, old)
               v == SubSeq(o, old + 1, Len(o))
    <3>2. u \in Seq(Accounts) /\ Len(u) = old /\ v \in Seq(Accounts) /\ Len(v) = Len(o) - old
      BY <1>1, <3>1, SubSeqProperties
    <3> HIDE DEF u, v
    <3>3. <<a>> \in Seq(Accounts) /\ Len(<<a>>) = 1
      BY <2>1
    <3>4. u \o <<a>> \in Seq(Accounts) /\ Len(u \o <<a>>) = old + 1
      BY <3>1, <3>2, <3>3, ConcatProperties
    <3> DEFINE w == u \o <<a>>
    <3>5. w \in Seq(Accounts) /\ Len(w) = old + 1
      BY <3>4
    <3> HIDE DEF w
    <3>6. w \o v \in Seq(Accounts) /\ Len(w \o v) = Len(w) + Len(v)
      BY <3>2, <3>5, ConcatProperties
    <3>7. Len(w \o v) = Len(o) + 1
      BY <1>1, <3>1, <3>2, <3>5, <3>6
    <3>8. QED BY <3>6, <3>7 DEF u, v, w
  <2> HIDE DEF new
  <2>4. QED BY <1>1, <1>4, <2>2, <2>3 DEF AccountsInv
<1>5. CASE DeleteAccount(s)
  <2>1. /\ accounts' = [active |-> accounts.active \ {a}, enabled |-> accounts.enabled \ {a},
                        order |-> Without(a), today |-> Cardinality(ChangedToday \ {a})]
        /\ UNCHANGED chosen
    BY <1>5 DEF DeleteAccount
  <2>2. /\ Without(a) \in Seq(Accounts) /\ Cardinality(ChangedToday \ {a}) \in Nat
        /\ Cardinality(ChangedToday \ {a}) <= Len(Without(a))
    BY WithoutOne
  <2>3. QED BY <2>1, <2>2 DEF AccountsInv
<1>6. ASSUME a \in Known, a \in Accounts
      PROVE  Append(Without(a), a) \in Seq(Accounts) /\ Len(Append(Without(a), a)) = Len(o)
  <2> DEFINE w == Without(a)
  <2>1. w \in Seq(Accounts) /\ Len(w) = Len(o) - 1
    BY <1>6, WithoutOne
  <2> HIDE DEF w
  <2>2. Append(w, a) \in Seq(Accounts) /\ Len(Append(w, a)) = Len(w) + 1
    BY <1>6, <2>1
  <2>3. QED BY <1>1, <2>1, <2>2 DEF w
<1>7. CASE SwitchAccount(s)
  <2>1. a \in Accounts
    BY <1>2, <1>7 DEF SwitchAccount
  <2> DEFINE new == IF a \in Known THEN Append(Without(a), a) ELSE o
  <2>2. /\ accounts' = [active |-> {a} \cap Known, enabled |-> accounts.enabled,
                        order |-> new, today |-> Len(o)]
        /\ chosen' = a
    BY <1>7 DEF SwitchAccount, Unmarked, AccountsInv
  <2>3. new \in Seq(Accounts) /\ Len(new) = Len(o)
    BY <1>1, <1>6, <2>1
  <2> HIDE DEF new
  <2>4. QED BY <1>1, <2>2, <2>3 DEF AccountsInv
<1>8. CASE ToggleAccount(s)
  <2>1. a \in Accounts /\ UNCHANGED chosen
    BY <1>2, <1>8 DEF ToggleAccount
  <2>2. accounts' = Enabled(a, slot[s].op = "enable")
    BY <1>8 DEF ToggleAccount
  <2>3. CASE a \notin Known
    BY <2>1, <2>2, <2>3 DEF Enabled, AccountsInv
  <2>4. CASE a \in Known
    <3>1. PICK en : accounts' = [active |-> accounts.active, enabled |-> en,
                                 order |-> Append(Without(a), a),
                                 today |-> Cardinality(ChangedToday \cup {a})]
      BY <2>2, <2>4 DEF Enabled, AccountsInv
    <3>2. /\ Cardinality(ChangedToday \cup {a}) \in Nat
          /\ Cardinality(ChangedToday \cup {a}) <= Len(o)
      BY <2>4, WithOne
    <3>3. QED BY <1>6, <2>1, <2>4, <3>1, <3>2 DEF AccountsInv
  <2>5. QED BY <2>3, <2>4
<1>9. QED BY <1>3, <1>4, <1>5, <1>7, <1>8
      DEF Brokers, StartAdd, ConfirmAdd, AddEnds

LEMMA AccountsStep == AccountsInv /\ EditInv /\ [AccessNext]_accessVars => AccountsInv'
<1> SUFFICES ASSUME AccountsInv, EditInv, [AccessNext]_accessVars PROVE AccountsInv'
  OBVIOUS
<1>1. ASSUME NEW s \in Slots, Brokers(s) PROVE AccountsInv'
  BY <1>1, BrokersKeep
<1>2. CASE NewDay
  <2>1. accounts' = [accounts EXCEPT !.today = 0] /\ UNCHANGED chosen
    BY <1>2 DEF NewDay
  <2>2. accounts' = [active |-> accounts.active, enabled |-> accounts.enabled,
                     order |-> accounts.order, today |-> 0]
    BY <2>1 DEF AccountsInv
  <2>3. QED BY <2>1, <2>2 DEF AccountsInv
<1>3. CASE UNCHANGED <<accounts, chosen>>
  BY <1>3 DEF AccountsInv
<1>4. ASSUME NEW s \in Slots, Checks(s) \/ Manages(s) \/ Edits(s)
      PROVE  UNCHANGED <<accounts, chosen>>
  BY <1>4 DEF Checks, ReadUser, Upsert, Insert, Enforce, CacheUser, Decide, Refuse,
     Manages, SetsOwnRole, InvalidatesOwn, Shows, RobotControl, TradeCommand, RecordAction,
     Edits, ToggleComponent, ToggleAll, StartEdit, ReceiveValue, UpdateParameter,
     LooksForRow, Saves, Pushes, EditEnds, broker
<1>5. CASE \/ Arrives \/ (\E r \in Roles : OtherSetsRole(r)) \/ OtherInvalidates
           \/ CancelEdit \/ Answers \/ CancelAdd \/ Tick \/ UNCHANGED accessVars
  <2>1. UNCHANGED <<accounts, chosen>>
    BY <1>5 DEF Arrives, Request, OtherSetsRole, OtherInvalidates, CancelEdit, Answers,
       CancelAdd, Tick, accessVars, broker
  <2>2. QED BY <1>3, <2>1
<1>6. QED BY <1>1, <1>2, <1>3, <1>4, <1>5 DEF AccessNext

(* AccountRepository.switch_active: until another account is added, no     *)
(* other than the one switched to answers for the active one, through any  *)
(* deletions, pauses and midnights.                                        *)
THEOREM SwitchAlwaysHolds == AccessSpec => []SwitchHolds
<1>1. AccessInit => AccountsInv
  BY DEF AccessInit, AccountsInv
<1>2. AccountsInv => SwitchHolds
  BY ActiveIsUsable DEF SwitchHolds, AccountsInv
<1>3. QED BY <1>1, <1>2, AccountsStep, EditAlways, PTL DEF AccessSpec
=============================================================================
