---------------------------- MODULE MCTrailingStop ----------------------------
(* A BUY and a SELL of the same risk, four price steps, in one market.     *)
EXTENDS TrailingStop

MCPlan == [t \in Tickets |->
  IF t = 1 THEN [dir |-> "BUY", entry |-> 4, risk |-> 4]
           ELSE [dir |-> "SELL", entry |-> 9, risk |-> 4]]
=============================================================================
