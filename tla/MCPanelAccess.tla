---------------------------- MODULE MCPanelAccess ----------------------------
(* Scenes for PanelAccess: access under role changes, the strategy's and    *)
(* the risk's configuration edited by an admin, and his broker accounts.    *)
EXTENDS PanelAccess, TLC

Scene(ops, who, roles, n, slots, time) ==
  [ops |-> ops, who |-> who, roles |-> roles, changes |-> n,
   slots |-> slots, time |-> time]

SmallScenes == {
  Scene({"command"}, Identities, {None, "admin"}, 2, 2, TRUE),
  Scene({"look", "trade", "setrole"}, {"other"}, {"owner"}, 1, 2, TRUE),
  Scene({"toggle", "all"}, {"other"}, {"admin"}, 0, 2, FALSE),
  Scene({"edit", "value"}, {"other"}, {"admin"}, 0, 2, FALSE),
  Scene({"add", "confirm", "switch", "enable", "disable", "delete"},
        {"other"}, {"admin"}, 0, 1, FALSE) }

Symmetry == Permutations(Slots)
=============================================================================
