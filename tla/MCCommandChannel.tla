--------------------------- MODULE MCCommandChannel ---------------------------
(* Values for the constants of CommandChannel: Redis reachable by both      *)
(* processes, by one, or by none.                                           *)
EXTENDS CommandChannel

AnyReach  == SUBSET {"robot", "panel"}
BothReach == {{"robot", "panel"}}
=============================================================================
