------------------------------ MODULE CommandBox ------------------------------
(***************************************************************************)
(* What the command channel promises, without its stores: a sender puts    *)
(* keys into a box; the engine takes some of them at once, none of those   *)
(* a pause shields from being taken with it, applies what it took in the   *)
(* order of the keys, and applying a key uses it up until somebody puts it *)
(* in again.  Only a failure that leaves in doubt what was applied may     *)
(* bring every key back.  CommandChannel implements this with a dictionary *)
(* and a file that are read and written back without a lock.               *)
(***************************************************************************)
EXTENDS Integers

CONSTANTS
  Keys,
  Rank     \* the order in which keys are applied

VARIABLES
  owed,    \* the keys written since they were last applied
  batch    \* what the engine took and has still to apply

vars == <<owed, batch>>

Init == owed = {} /\ batch = {}

Put ==
  /\ \E keys \in SUBSET Keys : owed' = owed \cup keys
  /\ UNCHANGED batch

Shielded == {"resume", "start"}

Take ==
  /\ batch = {}
  /\ batch' \subseteq owed
  /\ "pause" \in batch' => batch' \cap Shielded = {}
  /\ UNCHANGED owed

Apply(k) ==
  /\ \A j \in batch : Rank[k] <= Rank[j]
  /\ batch' = batch \ {k} /\ owed' = owed \ {k}

(* The engine ends in the middle of a batch, whose keys stay owed.         *)
Abandon == batch' = {} /\ UNCHANGED owed

(* The process dies between applying a key and clearing it, or Redis comes *)
(* or goes: what the other store holds may have been applied before.       *)
Doubt == owed' = Keys /\ batch' \in {batch, {}}

Next ==
  \/ Put \/ Take \/ Abandon \/ Doubt
  \/ \E k \in batch : Apply(k)

Spec == Init /\ [][Next]_vars
=============================================================================
