----------------------------- MODULE MCEntryGate -----------------------------
(* Values for the constants of EntryGate: two timeframes, one twice the     *)
(* other; a bridge that lags or loses answers, but not both.                *)
EXTENDS EntryGate

TwoTimeframes == <<2, 1>>
OneFault == {{"lag"}, {"lost"}}
NoFault  == {{}}
=============================================================================
