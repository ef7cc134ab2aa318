----------------------------- MODULE RiskWindow -----------------------------
(***************************************************************************)
(* What the circuit breaker promises of its risk window, for a robot that  *)
(* never restarts: the window is opened once per account, every check      *)
(* carries it forward, a halt ends by an operator's reset or, if it is the *)
(* daily one, by a new day, and entries happen only under a window that    *)
(* was checked and is not halted.  A window nobody wrote to for FreshFor   *)
(* may be dropped.  RobotHalt implements this with an engine that crashes  *)
(* and restarts: its restarts are invisible here.                          *)
(***************************************************************************)
EXTENDS RiskGuardian

CONSTANTS Reports, Limits, DayLength, FreshFor, MaxTime, NoWindow

VARIABLES
  window,   \* NoWindow, or a guardian's state without its limits, with its age
  entering, \* the path to an order is open
  account, now

vars == <<window, entering, account, now>>

Today == now \div DayLength

(* A guardian under the window and some limits, and back.                  *)
GuardianOf(w, l) ==
  [init |-> TRUE, halt |-> w.halt, peak |-> w.peak, sessionOpen |-> w.sessionOpen,
   dayOpen |-> w.dayOpen, lastDay |-> w.lastDay, limits |-> l, id |-> w.id]

WindowOf(g, at) ==
  [halt |-> g.halt, peak |-> g.peak, sessionOpen |-> g.sessionOpen,
   dayOpen |-> g.dayOpen, lastDay |-> g.lastDay, id |-> g.id, at |-> at]

Valid(w) == w.peak > 0 /\ w.dayOpen > 0 /\ w.sessionOpen

MayDrop ==
  \/ window = NoWindow
  \/ ~Valid(window)
  \/ now - window.at > FreshFor
  \/ window.id \notin {account, NoId}

(* An engine that knows its account never carries on another's window; one *)
(* that does not know it leaves the window without an owner.               *)
Owner == {NoId} \cup (IF window.id \in {account, NoId} THEN {account} ELSE {})

Init ==
  /\ window = NoWindow /\ entering = FALSE
  /\ account \in Accounts /\ now = 0

Open(a, id) ==
  window' = WindowOf(Initialize([Fresh(CHOOSE l \in Limits : TRUE) EXCEPT !.id = id],
                                a.bal, a.eq, Today), now)

ColdStart ==
  /\ MayDrop
  /\ \E a \in Reports, id \in {account, NoId} : Open(a, id)
  /\ entering' \in BOOLEAN
  /\ UNCHANGED <<account, now>>

(* The operator's /force-resume with a new baseline.                       *)
Rebase ==
  /\ \E a \in Reports, id \in {account, NoId} : a.bal > 0 /\ Open(a, id)
  /\ UNCHANGED <<entering, account, now>>

CheckWindow ==
  /\ window # NoWindow
  /\ \E a \in Reports, l \in Limits, id \in Owner :
       LET g == Check(GuardianOf(window, l), a.bal, a.eq, Today)
       IN  /\ window' = IF g = GuardianOf(window, l) THEN window
                        ELSE WindowOf([g EXCEPT !.id = id], now)
           /\ entering' = ~Halted(g)
  /\ UNCHANGED <<account, now>>

Leave ==
  /\ entering /\ entering' = FALSE
  /\ UNCHANGED <<window, account, now>>

(* The operator's reset: the peak stays.                                   *)
Reset ==
  /\ window # NoWindow
  /\ \E rebase \in BOOLEAN, a \in Reports, id \in Owner :
       /\ ~ResetRefused(rebase, a.bal)
       /\ LET g == ResetHalt(GuardianOf(window, CHOOSE l \in Limits : TRUE),
                             rebase, a.bal, Today)
          IN  window' = WindowOf([g EXCEPT !.id = id], now)
  /\ UNCHANGED <<entering, account, now>>

(* The operator's reset of an engine that has no baseline yet: what it     *)
(* leaves is no window at all and the next start drops it.                 *)
Discard ==
  /\ \E a \in Reports \cup {[bal |-> 0, eq |-> 0]}, id \in {account, NoId},
        day \in {NoDay, Today} :
       window' = [halt |-> "none", peak |-> 0, sessionOpen |-> FALSE,
                  dayOpen |-> a.bal, lastDay |-> day, id |-> id, at |-> now]
  /\ UNCHANGED <<entering, account, now>>

SwitchAccount ==
  /\ account' \in Accounts
  /\ entering' = FALSE
  /\ UNCHANGED <<window, now>>

Clock ==
  /\ now < MaxTime /\ now' = now + 1
  /\ UNCHANGED <<window, entering, account>>

Next ==
  \/ ColdStart \/ Rebase \/ CheckWindow \/ Leave \/ Reset \/ Discard
  \/ SwitchAccount \/ Clock

Spec == Init /\ [][Next]_vars
=============================================================================
