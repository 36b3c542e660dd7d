--------------------------- MODULE MCDxClientOutbox ---------------------------
(* Small instances of DxClientOutbox for TLC. *)
EXTENDS DxClientOutbox, TLC

OneId    == {1}
TwoIds   == 1 .. 2
ThreeIds == 1 .. 3

ButPower == AllFailures \ {"power"}
Calls == {"error", "stop", "power", "broker"}
StoreFailures == {"wifi", "error", "power", "broker"}

Alike == Permutations(Records)
=============================================================================
