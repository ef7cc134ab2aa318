------------------------------ MODULE PanelAccess ------------------------------
(***************************************************************************)
(* Who may do what in the Telegram panel, and what the permitted requests  *)
(* do to its database: api/middleware/auth.py, the handlers behind it, the *)
(* services they call and the repositories those write through.            *)
(*                                                                         *)
(* The module follows one user, the subject.  The application runs with    *)
(* concurrent_updates(True) (core/bot.py), so several of his requests are  *)
(* in progress at once, each waiting at some await: a slot is one request. *)
(* Another owner changes the subject's role meanwhile.  A user object is   *)
(* its role and its permissions (a role whose permission set it carries):  *)
(* the code assigns them separately.                                       *)
(*                                                                         *)
(* A scene is a usage of the panel: the requests made in it, who makes     *)
(* them, how often his role changes, how many requests are in progress at  *)
(* once and whether time passes.  It is chosen at the start.               *)
(***************************************************************************)
EXTENDS Integers, FiniteSets, Sequences

CONSTANTS
  Slots,        \* requests in progress at once
  TTL,          \* AuthMiddleware._cache_ttl
  Scenes,       \* records [ops, who, roles, changes, slots, time] to explore
  Fields,       \* settings of a configuration row
  Accounts,     \* broker accounts
  Questions,    \* steps of the add-account conversation before its confirmation
  None

Roles == {"owner", "admin", "viewer", "blocked"}

ASSUME TTLAssumption == TTL \in Nat \ {0}
ASSUME NoneAssumption == None \notin Fields \cup Accounts \cup Roles

Identities == {"owner", "admin", "other"}   \* what the environment names him

\* Each operation and the permission its handler asks for.
Looking  == {"look"}
Settings == {"toggle", "all", "edit", "value"}
Managing == {"command", "trade"} \cup Settings
              \cup {"add", "confirm", "switch", "enable", "disable", "delete"}
Owning   == {"setrole"}
Ops      == Looking \cup Managing \cup Owning
Need(op) == IF op \in Looking THEN "view"
            ELSE IF op \in Managing THEN "manage" ELSE "users"

ASSUME ScenesAssumption ==
  \A sc \in Scenes : /\ sc.ops \subseteq Ops /\ sc.who \subseteq Identities
                     /\ sc.roles \subseteq Roles \cup {None}
                     /\ sc.changes \in Nat /\ sc.slots \in Nat /\ sc.time \in BOOLEAN

VARIABLES
  scene, identity,
  role,         \* of the subject's row; None before there is one
  changes,      \* role changes still to come
  setter,       \* what the other owner's set_user_role has still to do
  cache,        \* the middleware's entry for the subject, or None
  slot,         \* the requests in progress
  rows,         \* the configuration rows without an account
  robot,        \* the configuration the robot was sent last
  asking,       \* the risk conversation waits for a value
  editing,      \* user_data["editing_risk"]
  accounts,     \* the accounts table: [active, enabled, order, today]
  draft,        \* user_data["new_account"]: the questions answered, or None
  adding,       \* the add-account conversation is open
  since,        \* history: time since the row last held each role
  healed,       \* history: the last edit ran alone and reached the robot
  chosen        \* history: the account switched to, until one is added

people     == <<scene, identity, role, changes, setter, cache, since>>
settings   == <<rows, robot, asking, editing, healed>>
broker     == <<accounts, draft, adding, chosen>>
accessVars == <<people, slot, settings, broker>>

\* UserPermission.for_role, as far as the handlers tell permissions apart.
PermissionsOf(r) ==
  CASE r = "owner" -> {"view", "manage", "users"}
    [] r = "admin" -> {"view", "manage"}
    [] r = "viewer" -> {"view"}
    [] OTHER -> {}

\* _auto_role: the role a first contact is given.
AutoRole == CASE identity = "owner" -> "owner"
              [] identity = "admin" -> "admin"
              [] OTHER -> "viewer"

NewUser(r) == [role |-> r, perms |-> r]     \* __post_init__ sets both

Free == [at |-> "free", op |-> None, arg |-> None, user |-> None, age |-> 0,
         ok |-> FALSE, crossed |-> FALSE, cfg |-> None, alone |-> FALSE]

\* Where a request holds a row it read before its last await.
Reading == {"upsert", "insert", "enforce", "cache"}
Editing == {"service", "load", "save", "update", "create", "push"}

InUse == {s \in Slots : slot[s].at # "free"}

Go(s, at) == slot' = [slot EXCEPT ![s].at = at]
Set(s, r) == slot' = [slot EXCEPT ![s] = r]
Ends(s)   == slot' = [slot EXCEPT ![s] = Free]

(***************************************************************************)
(* get_user and check_permission.                                          *)
(***************************************************************************)
Allows(r, op) == Need(op) \in PermissionsOf(r)
AllowedLately(op) == \E r \in Roles : since[r] < TTL /\ Allows(r, op)

\* The row changes: ok remembers that it allowed what a request is for.
Noted(t, r) == [slot[t] EXCEPT !.ok = @ \/ Allows(r, slot[t].op)]

\* An update arrives.  A fresh cache entry answers it without an await.
Fresh == cache # None /\ cache.age < TTL
Request(s, op, arg) ==
  /\ slot[s].at = "free" /\ Cardinality(InUse) < scene.slots
  /\ slot' = [slot EXCEPT ![s] =
       [Free EXCEPT !.at = IF Fresh THEN "decide" ELSE "read", !.op = op, !.arg = arg,
                    !.user = IF Fresh THEN cache.user ELSE None, !.ok = AllowedLately(op)]]
  /\ UNCHANGED <<people, settings, broker>>

\* get_by_telegram_id; without a row the object is made from the environment.
ReadUser(s) ==
  /\ slot[s].at = "read"
  /\ Set(s, [slot[s] EXCEPT !.at = "upsert",
                            !.user = NewUser(IF role = None THEN AutoRole ELSE role)])
  /\ UNCHANGED <<people, settings, broker>>

\* upsert looks again: the update of a row there is leaves its role alone.
Upsert(s) ==
  /\ slot[s].at = "upsert"
  /\ Go(s, IF role = None THEN "insert" ELSE "enforce")
  /\ UNCHANGED <<people, settings, broker>>

\* The row became someone's meanwhile: the insert raises and the request ends.
Insert(s) ==
  /\ slot[s].at = "insert"
  /\ IF role = None
     THEN /\ role' = slot[s].user.role
          /\ since' = [since EXCEPT ![slot[s].user.role] = 0]
          /\ slot' = [t \in Slots |->
               IF slot[t].at = "free" THEN slot[t]
               ELSE [Noted(t, slot[s].user.role) EXCEPT !.at = IF t = s THEN "enforce" ELSE @]]
     ELSE Ends(s) /\ UNCHANGED <<role, since>>
  /\ UNCHANGED <<scene, identity, changes, setter, cache, settings, broker>>

\* A role is written: every request that holds the older row has crossed it.
WriteRole(r, by, at) ==
  /\ role' = r
  /\ since' = [since EXCEPT ![r] = 0]
  /\ slot' = [t \in Slots |->
       IF slot[t].at = "free" THEN slot[t]
       ELSE [Noted(t, r) EXCEPT
                            !.at = IF t \in by THEN at ELSE @,
                            !.crossed = @ \/ (slot[t].at \in Reading /\ t \notin by)]]

\* Faulty variant: assigning the role does not recompute the permissions.
OwnerInNameOnly(user) == [user EXCEPT !.role = "owner"]

\* The configured owner is made the owner again, permissions included.
OwnerAgain(user) == [user EXCEPT !.role = "owner", !.perms = "owner"]
Enforce(s) ==
  /\ slot[s].at = "enforce"
  /\ IF identity = "owner" /\ slot[s].user.role # "owner"
     THEN WriteRole("owner", {s}, "cache")
     ELSE Go(s, "cache") /\ UNCHANGED <<role, since>>
  /\ UNCHANGED <<scene, identity, changes, setter, cache, settings, broker>>

Enforced(user) == IF identity = "owner" /\ user.role # "owner"
                  THEN OwnerAgain(user) ELSE user

\* Faulty variant: the entry's time is taken when it is made.
EntryOfNow(s) == [user |-> Enforced(slot[s].user), age |-> 0, crossed |-> slot[s].crossed]

\* The entry is as old as the request that fills it; update_last_seen follows.
Entry(s) == [user |-> Enforced(slot[s].user), age |-> slot[s].age,
             crossed |-> slot[s].crossed]
CacheUser(s) ==
  /\ slot[s].at = "cache"
  /\ cache' = Entry(s)
  /\ Set(s, [slot[s] EXCEPT !.at = "decide", !.user = Enforced(slot[s].user),
                            !.age = 0, !.crossed = FALSE])
  /\ UNCHANGED <<scene, identity, role, changes, setter, since, settings, broker>>

\* check_permission: blocked first, then the permission the handler asked for.
Granted(s) == /\ slot[s].user.role # "blocked"
              /\ Allows(slot[s].user.perms, slot[s].op)
Decide(s) ==
  /\ slot[s].at = "decide"
  /\ Set(s, [slot[s] EXCEPT !.at = IF Granted(s) THEN "passed" ELSE "refused",
                            !.user = None])
  /\ UNCHANGED <<people, settings, broker>>

\* _handle_unauthorized: an audit row, whose failure is swallowed, and an answer.
Refuse(s) ==
  /\ slot[s].at = "refused" /\ Ends(s)
  /\ UNCHANGED <<people, settings, broker>>

(***************************************************************************)
(* set_user_role: the row first, the cache entry after that await.         *)
(***************************************************************************)
OtherSetsRole(r) ==
  /\ setter = "idle" /\ changes > 0 /\ role # None
  /\ WriteRole(r, {}, None)
  /\ setter' = "written" /\ changes' = changes - 1
  /\ UNCHANGED <<scene, identity, cache, settings, broker>>

\* Faulty variant: the entry is left to expire.
LeftToExpire == cache

Invalidated == None
OtherInvalidates ==
  /\ setter = "written"
  /\ setter' = "idle" /\ cache' = Invalidated
  /\ UNCHANGED <<scene, identity, role, changes, since, slot, settings, broker>>

\* The subject at the same menu: of his own role he may only set the owner's.
SetsOwnRole(s) ==
  /\ slot[s].at = "passed" /\ slot[s].op = "setrole"
  /\ IF slot[s].arg = "owner"
     THEN WriteRole("owner", {s}, "invalidate")
     ELSE Ends(s) /\ UNCHANGED <<role, since>>
  /\ UNCHANGED <<scene, identity, changes, setter, cache, settings, broker>>

InvalidatesOwn(s) ==
  /\ slot[s].at = "invalidate"
  /\ cache' = Invalidated /\ Ends(s)
  /\ UNCHANGED <<scene, identity, role, changes, setter, since, settings, broker>>

\* show_*: nothing but an answer.
Shows(s) ==
  /\ slot[s].at = "passed" /\ slot[s].op \in Looking /\ Ends(s)
  /\ UNCHANGED <<people, settings, broker>>

\* A button that asks for confirmation does nothing yet; the confirmed one is
\* checked anew, hands its command over and is audited whatever came of it.
RobotControl(s) ==
  /\ slot[s].at = "passed" /\ slot[s].op = "command"
  /\ IF slot[s].arg = "ask" THEN Ends(s) ELSE Go(s, "audit")
  /\ UNCHANGED <<people, settings, broker>>

\* A trade's buttons: the handler of the confirmed one checks anew as well.
TradeCommand(s) ==
  /\ slot[s].at = "passed" /\ slot[s].op = "trade" /\ Go(s, "audit")
  /\ UNCHANGED <<people, settings, broker>>

\* record_action swallows a failure to write; then the answer is given.
RecordAction(s) ==
  /\ slot[s].at = "audit" /\ Ends(s)
  /\ UNCHANGED <<people, settings, broker>>

(***************************************************************************)
(* The configuration: every edit reads the row, changes it in memory and   *)
(* writes all of it back, with an await between any two of these.  The     *)
(* strategy's and the risk's rows are handled alike; a scene uses one.     *)
(***************************************************************************)
Values == {"on", "off"}
Not(v) == IF v = "on" THEN "off" ELSE "on"
Default == [f \in Fields |-> "on"]
Current == IF rows = <<>> THEN Default ELSE rows[1]    \* LIMIT 1

\* An edit starts: it and every edit in progress are no longer alone.
Overlapping == \E t \in Slots : slot[t].at \in Editing
Starts(s, new) ==
  slot' = [t \in Slots |->
    IF t = s THEN [slot[s] EXCEPT !.at = new.at, !.arg = new.arg, !.cfg = new.cfg,
                                  !.alone = ~Overlapping]
    ELSE IF slot[t].at \in Editing THEN [slot[t] EXCEPT !.alone = FALSE]
    ELSE slot[t]]

\* A toggle negates the value it reads first; the service reads again.
ToggleComponent(s) ==
  /\ slot[s].at = "passed" /\ slot[s].op = "toggle"
  /\ Starts(s, [at |-> "service", cfg |-> None,
                arg |-> <<slot[s].arg, Not(Current[slot[s].arg])>>])
  /\ UNCHANGED <<people, settings, broker>>

ToggleAll(s) ==
  /\ slot[s].at = "passed" /\ slot[s].op = "all"
  /\ Starts(s, [at |-> "save", cfg |-> [f \in Fields |-> slot[s].arg], arg |-> None])
  /\ UNCHANGED <<people, settings, broker>>

\* The edit button opens the conversation; the next text is the value.
StartEdit(s) ==
  /\ slot[s].at = "passed" /\ slot[s].op = "edit"
  /\ editing' = slot[s].arg /\ asking' = TRUE /\ Ends(s)
  /\ UNCHANGED <<people, rows, robot, healed, broker>>

\* No number: the conversation goes on.  No parameter: it ends.
ReceiveValue(s) ==
  /\ slot[s].at = "passed" /\ slot[s].op = "value"
  /\ CASE editing = None -> asking' = FALSE /\ Ends(s)
       [] editing # None /\ slot[s].arg = "nonsense" -> Ends(s) /\ UNCHANGED asking
       [] OTHER -> /\ Starts(s, [at |-> "service", cfg |-> None,
                                 arg |-> <<editing, slot[s].arg>>])
                   /\ UNCHANGED asking
  /\ UNCHANGED <<people, rows, robot, editing, healed, broker>>

\* /cancel leaves the parameter behind.
CancelEdit ==
  /\ asking /\ asking' = FALSE
  /\ UNCHANGED <<people, slot, rows, robot, editing, healed, broker>>

\* update_parameter and toggle_component: read, set, validate.
Valid(v) == v # "bad"
Merge(cfg, change) == [cfg EXCEPT ![change[1]] = change[2]]
UpdateParameter(s) ==
  /\ slot[s].at = "service"
  /\ IF Valid(slot[s].arg[2])
     THEN Set(s, [slot[s] EXCEPT !.at = "save", !.cfg = Merge(Current, slot[s].arg)])
     ELSE Go(s, "told")
  /\ UNCHANGED <<people, settings, broker>>

\* save_*_config: is there a row?  Then all its columns, else a new row.
LooksForRow(s) ==
  /\ slot[s].at = "save"
  /\ Go(s, IF rows = <<>> THEN "create" ELSE "update")
  /\ UNCHANGED <<people, settings, broker>>

Saves(s) ==
  /\ slot[s].at \in {"create", "update"}
  /\ rows' = IF slot[s].at = "create" THEN Append(rows, slot[s].cfg)
             ELSE [rows EXCEPT ![1] = slot[s].cfg]
  /\ healed' = FALSE
  /\ Go(s, "push")
  /\ UNCHANGED <<people, robot, asking, editing, broker>>

\* Faulty variant: only the setting that was changed is sent.
SentAlone(s) == IF slot[s].arg = None THEN slot[s].cfg ELSE Merge(robot, slot[s].arg)

\* The robot is sent the whole configuration; a failure is logged and forgotten.
Sent(s) == slot[s].cfg
Pushes(s) ==
  /\ slot[s].at = "push"
  /\ \E arrives \in BOOLEAN :
       /\ robot' = IF arrives THEN Sent(s) ELSE robot
       /\ healed' = (arrives /\ slot[s].alone)
  /\ Go(s, "told")
  /\ UNCHANGED <<people, rows, asking, editing, broker>>

\* Audited and answered; a value ends its conversation.
EditEnds(s) ==
  /\ slot[s].at = "told" /\ Ends(s)
  /\ IF slot[s].op = "value" THEN editing' = None /\ asking' = FALSE
                             ELSE UNCHANGED <<editing, asking>>
  /\ UNCHANGED <<people, rows, robot, healed, broker>>

(***************************************************************************)
(* The accounts.  order lists them by updated_at; a change stamps them     *)
(* with the time, and a new row gets SQLite's default stamp, which sorts   *)
(* before every change of the same day (today of them): it has a blank     *)
(* where isoformat has a T.                                                *)
(***************************************************************************)
Known == {accounts.order[i] : i \in 1..Len(accounts.order)}
Without(a) ==
  LET n == Len(accounts.order)
      i == CHOOSE k \in 1..n : accounts.order[k] = a
  IN IF a \in Known THEN SubSeq(accounts.order, 1, i - 1) \o SubSeq(accounts.order, i + 1, n)
                    ELSE accounts.order
ChangedToday == {accounts.order[i] : i \in (Len(accounts.order) - accounts.today + 1)
                                             ..Len(accounts.order)}

\* The newest account that is active and enabled, or None.
Usable == {i \in 1..Len(accounts.order) :
             accounts.order[i] \in accounts.active \cap accounts.enabled}
ActiveAccount ==
  IF Usable = {} THEN None
  ELSE accounts.order[CHOOSE i \in Usable : \A j \in Usable : j <= i]

StartAdd(s) ==
  /\ slot[s].at = "passed" /\ slot[s].op = "add"
  /\ draft' = 0 /\ adding' = TRUE /\ Ends(s)
  /\ UNCHANGED <<people, settings, accounts, chosen>>

\* receive_name to receive_password: nobody's role is asked for.
Answers ==
  /\ adding /\ draft # None /\ draft < Questions
  /\ draft' = draft + 1
  /\ UNCHANGED <<people, slot, settings, accounts, adding, chosen>>

\* A new row is active and enabled, and older than today's changes.
Created(a) ==
  LET old == Len(accounts.order) - accounts.today
  IN [accounts EXCEPT
        !.active = @ \cup {a}, !.enabled = @ \cup {a},
        !.order = SubSeq(@, 1, old) \o <<a>> \o SubSeq(@, old + 1, Len(@))]

\* confirm_add reads the draft, awaits the insert and drops the draft last.
ConfirmAdd(s) ==
  /\ slot[s].at = "passed" /\ slot[s].op = "confirm"
  /\ IF draft = Questions /\ slot[s].arg \notin Known
     THEN accounts' = Created(slot[s].arg) /\ chosen' = None
     ELSE UNCHANGED <<accounts, chosen>>
  /\ Go(s, "added")
  /\ UNCHANGED <<people, settings, draft, adding>>

AddEnds(s) ==
  /\ slot[s].at = "added" /\ Ends(s)
  /\ draft' = None /\ adding' = FALSE
  /\ UNCHANGED <<people, settings, accounts, chosen>>

CancelAdd ==
  /\ adding
  /\ draft' = None /\ adding' = FALSE
  /\ UNCHANGED <<people, slot, settings, accounts, chosen>>

DeleteAccount(s) ==
  /\ slot[s].at = "passed" /\ slot[s].op = "delete"
  /\ LET a == slot[s].arg IN
     accounts' = [active |-> accounts.active \ {a}, enabled |-> accounts.enabled \ {a},
                  order |-> Without(a),
                  today |-> Cardinality(ChangedToday \ {a})]
  /\ Go(s, "audit")
  /\ UNCHANGED <<people, settings, draft, adding, chosen>>

\* Faulty variant: the other rows keep the mark.
KeepMark == accounts.active

\* switch_active: every row loses the mark and is stamped, one gets it back.
Unmarked == {}
SwitchAccount(s) ==
  /\ slot[s].at = "passed" /\ slot[s].op = "switch"
  /\ LET a == slot[s].arg IN
     /\ accounts' = [accounts EXCEPT
          !.active = Unmarked \cup ({a} \cap Known),
          !.order = IF a \in Known THEN Append(Without(a), a) ELSE @,
          !.today = Len(accounts.order)]
     /\ chosen' = a
  /\ Go(s, "audit")
  /\ UNCHANGED <<people, settings, draft, adding>>

Enabled(a, on) ==
  IF a \notin Known THEN accounts
  ELSE [accounts EXCEPT !.enabled = IF on THEN @ \cup {a} ELSE @ \ {a},
                        !.order = Append(Without(a), a),
                        !.today = Cardinality(ChangedToday \cup {a})]
ToggleAccount(s) ==
  /\ slot[s].at = "passed" /\ slot[s].op \in {"enable", "disable"}
  /\ accounts' = Enabled(slot[s].arg, slot[s].op = "enable")
  /\ Go(s, "audit")
  /\ UNCHANGED <<people, settings, draft, adding, chosen>>

\* Midnight: every stamp is now older than a row made from here on.
NewDay ==
  /\ accounts.today > 0
  /\ accounts' = [accounts EXCEPT !.today = 0]
  /\ UNCHANGED <<people, slot, settings, draft, adding, chosen>>

(***************************************************************************)
(* The specification.                                                      *)
(***************************************************************************)
Older(age) == IF age < TTL THEN age + 1 ELSE TTL
Tick ==
  /\ scene.time
  /\ cache' = IF cache = None THEN None ELSE [cache EXCEPT !.age = Older(@)]
  /\ since' = [r \in Roles |-> IF r = role THEN 0 ELSE Older(since[r])]
  /\ slot' = [s \in Slots |-> IF slot[s].at \in {"read"} \cup Reading
                              THEN [slot[s] EXCEPT !.age = Older(@)] ELSE slot[s]]
  /\ UNCHANGED <<scene, identity, role, changes, setter, settings, broker>>

AccessInit ==
  /\ scene \in Scenes /\ identity \in scene.who /\ role \in scene.roles
  /\ changes = scene.changes
  /\ setter = "idle" /\ cache = None /\ slot = [s \in Slots |-> Free]
  /\ since = [r \in Roles |-> IF r = role THEN 0 ELSE TTL]
  /\ rows = <<>> /\ robot = Default /\ asking = FALSE /\ editing = None /\ healed = FALSE
  /\ accounts = [active |-> {}, enabled |-> {}, order |-> <<>>, today |-> 0]
  /\ draft = None /\ adding = FALSE /\ chosen = None

\* What a button or a text carries, and the conversation it belongs to.
Arguments(op) ==
  CASE op = "setrole" -> Roles
    [] op = "command" -> {"ask", "confirmed"}
    [] op \in {"toggle", "edit"} -> Fields
    [] op = "all" -> Values
    [] op = "value" -> Values \cup {"bad", "nonsense"}
    [] op \in {"confirm", "switch", "enable", "disable", "delete"} -> Accounts
    [] OTHER -> {None}
Offered(op) ==
  CASE op = "edit" -> ~asking
    [] op = "value" -> asking
    [] op = "add" -> ~adding
    [] op = "confirm" -> adding /\ draft = Questions
    [] OTHER -> TRUE

Arrives == \E s \in Slots, op \in scene.ops :
             Offered(op) /\ \E arg \in Arguments(op) : Request(s, op, arg)
Checks(s) == ReadUser(s) \/ Upsert(s) \/ Insert(s) \/ Enforce(s) \/ CacheUser(s)
               \/ Decide(s) \/ Refuse(s)
Manages(s) == SetsOwnRole(s) \/ InvalidatesOwn(s) \/ Shows(s) \/ RobotControl(s)
               \/ TradeCommand(s) \/ RecordAction(s)
Edits(s) == ToggleComponent(s) \/ ToggleAll(s) \/ StartEdit(s) \/ ReceiveValue(s)
               \/ UpdateParameter(s) \/ LooksForRow(s) \/ Saves(s) \/ Pushes(s) \/ EditEnds(s)
Brokers(s) == StartAdd(s) \/ ConfirmAdd(s) \/ AddEnds(s) \/ DeleteAccount(s)
               \/ SwitchAccount(s) \/ ToggleAccount(s)

AccessNext ==
  \/ Arrives
  \/ \E s \in Slots : Checks(s) \/ Manages(s) \/ Edits(s) \/ Brokers(s)
  \/ \E r \in Roles : OtherSetsRole(r)
  \/ OtherInvalidates
  \/ CancelEdit \/ Answers \/ CancelAdd \/ NewDay \/ Tick

AccessSpec == AccessInit /\ [][AccessNext]_accessVars

(***************************************************************************)
(* Properties.                                                             *)
(***************************************************************************)
Users == [role : Roles, perms : Roles]

\* The variables keep to their types.
AccessTypeOK ==
  /\ scene \in Scenes /\ identity \in Identities /\ role \in Roles \cup {None}
  /\ changes \in Nat /\ setter \in {"idle", "written"}
  /\ cache \in {None} \cup [user : Users, age : 0..TTL, crossed : BOOLEAN]
  /\ since \in [Roles -> 0..TTL]
  /\ asking \in BOOLEAN /\ healed \in BOOLEAN /\ adding \in BOOLEAN

\* auth.py:41 caches a user for "session performance" for 30 s and
\* set_user_role drops the entry.  While the entry answers requests, it carries
\* the role in the table - unless a request that fills it had read the row
\* before the role was changed, or the change has not dropped it yet.
CacheTracksRole ==
  cache # None /\ cache.age < TTL =>
    \/ cache.user.role = role
    \/ cache.crossed
    \/ setter = "written"
    \/ \E s \in Slots : slot[s].at = "invalidate"

\* check_permission decides on an object that may have been read for another
\* request.  Whatever was cached, crossed or slow, a request is let through only
\* if the table allowed it during the request or less than the cache's TTL
\* before it.
GrantedLately ==
  \A s \in Slots : slot[s].at = "passed" => slot[s].ok

\* auth.py:27: "Owner ID is always granted".  No request of the configured owner
\* is ever refused, whatever another owner makes of his row meanwhile.
OwnerAllowed == identity = "owner" => \A s \in Slots : slot[s].at # "refused"

\* Pushes to the robot may fail or arrive in another order than the rows were
\* written, and overlapping edits lose one another's changes; but an edit that
\* ran alone and reached the robot leaves it with the row as it is, all of it.
LoneEditHeals == healed => robot = Current

\* switch_active: "Make one account the primary active account".  Until an
\* account is added, no other answers for the active one, whatever is enabled,
\* disabled or deleted, and on whichever day.
SwitchHolds == chosen # None => ActiveAccount \in {chosen, None}
=============================================================================
