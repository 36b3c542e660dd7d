------------------------------- MODULE MCDxPanel -------------------------------
(* A small machine for TLC: a setting of two keys, whose values are        *)
(* checked, and one of a single key, whose value is not.                   *)
EXTENDS DxPanel

SomeCommands == {"id", "unlock", "lock", "flow_rate", "features"}
SomeKeys == [s \in {"flow_rate", "features"} |-> IF s = "flow_rate" THEN <<"p1", "p2">> ELSE <<"io">>]
WithCheck == {"flow_rate"}
LoadCfgs == <<"p1", "p2", "io">>
=============================================================================
