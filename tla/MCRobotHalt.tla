----------------------------- MODULE MCRobotHalt -----------------------------
(* Values for the constants of RobotHalt: a healthy report, one that trips  *)
(* the daily limit, one that trips the drawdown limit, and an empty one.    *)
EXTENDS RobotHalt, TLC

Report(b, e) == [bal |-> b, eq |-> e]
MCReports == {Report(100, 100), Report(90, 90), Report(100, 80), Report(0, 0)}
Tight == "daily" :> 5 @@ "drawdown" :> 15
Loose == "daily" :> 20 @@ "drawdown" :> 15
MCLimits  == {Tight, Loose}
MCUpdates == {"daily" :> 20}
TightOnly == {Tight}
NoUpdates == {}
FewReports == {Report(100, 100), Report(90, 80)}
ReportsAndZero == FewReports \cup {Report(0, 0)}
MCEnvPins == {}
=============================================================================
