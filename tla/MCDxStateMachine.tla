--------------------------- MODULE MCDxStateMachine ---------------------------
(***************************************************************************)
(* DxStateMachine on small instances: two dispensers, one tick = 100 ms,   *)
(* the waits shortened but in the order of the real ones.                  *)
(***************************************************************************)
EXTENDS DxStateMachine

\* price per ml falls with the amount, as in the default table of dispenser 1
TableA == [i \in Amounts |-> <<[ml |-> 2, tk |-> 2], [ml |-> 4, tk |-> 3], [ml |-> 5, tk |-> 3]>>[i + 1]]
TableB == [i \in Amounts |-> <<[ml |-> 3, tk |-> 4], [ml |-> 4, tk |-> 5], [ml |-> 6, tk |-> 6]>>[i + 1]]

MCTable   == [d \in DX |-> IF d = 1 THEN TableA ELSE TableB]
MCRate    == [d \in DX |-> 1]
MCProduct == [table |-> MCTable, ratio |-> MCTable, rate |-> MCRate]
\* a first volume below 1 ml, which the argument check lets through as 0
TableZ == [TableA EXCEPT ![0].ml = 0]
ZTables   == {TableA, TableZ}
MCTables  == {TableA, TableB}
MCRates   == {[d \in DX |-> r] : r \in {1, 2}}

\* small volumes, so that the commands can meet every moment of a session
TableC == [i \in Amounts |-> <<[ml |-> 1, tk |-> 2], [ml |-> 2, tk |-> 3], [ml |-> 3, tk |-> 3]>>[i + 1]]
TableD == [i \in Amounts |-> <<[ml |-> 0, tk |-> 1], [ml |-> 1, tk |-> 1], [ml |-> 2, tk |-> 3]>>[i + 1]]
SmallTable   == [d \in DX |-> TableC]
SmallProduct == [table |-> SmallTable, ratio |-> SmallTable, rate |-> MCRate]
SmallTables  == {TableD}
SmallRates   == {[d \in DX |-> 2]}

NoService     == {}
MotorService  == {"motors_runtime", "motors_stop"}
MCTests       == {1}
ConfigService == ConfigCommands
AllService    == AllCommands
NoTables      == {}
NoRates       == {}
NoTests       == {}
=============================================================================
