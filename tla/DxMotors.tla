------------------------------- MODULE DxMotors ------------------------------
(***************************************************************************)
(* DxMotors (dxmotors.cpp): one direction pair shared by the four pumps    *)
(* and one enable pin per pump.  A motor value is what the driver          *)
(* remembers, plus `on`, the set of pumps whose enable pin is driven: the  *)
(* driver itself never looks at it, the properties do.                     *)
(***************************************************************************)
EXTENDS Integers

CONSTANT NumDx          \* NUM_DX, the number of dispensers
ASSUME NumDxAssumption == NumDx \in Nat \ {0}

DX == 1 .. NumDx

MotorType == [running : BOOLEAN, fwd : BOOLEAN, dx : 0 .. NumDx, on : SUBSET DX]

MotorOff == [running |-> FALSE, fwd |-> TRUE, dx |-> 0, on |-> {}]

(* stop() *)
Stop(m) == [m EXCEPT !.running = FALSE, !.on = {}]

PumpUnchecked(dx) == dx        \* mutation: the index is not constrained

(* constrain(dx_index, 1, 4) *)
PumpOf(dx) == IF dx = 0 THEN 1 ELSE dx

\* mutation: a change of direction stops the motors, a change of pump does not
RunAlongside(m, dx, fwd) ==
  [running |-> TRUE, fwd |-> fwd, dx |-> PumpOf(dx),
   on |-> (IF m.running /\ m.fwd # fwd THEN {} ELSE m.on) \cup {PumpOf(dx)}]

(* run(): stop first on a change of direction or of pump, then drive *)
Run(m, dx, fwd) ==
  LET pump  == PumpOf(dx)
      stops == m.running /\ (m.fwd # fwd \/ m.dx # pump)
      rest  == IF stops THEN {} ELSE m.on
  IN  [running |-> TRUE, fwd |-> fwd, dx |-> pump, on |-> rest \cup {pump}]

DrawBackOn(m, dx) == Run(Stop(m), dx, FALSE)   \* mutation: no stop afterwards

(* stop(); reverse(dx); delay(100); stop(): draws product back into the tubing *)
DrawBack(m, dx) == Stop(Run(Stop(m), dx, FALSE))

(* What drives product out of a nozzle. *)
Pouring(m) == m.on # {} /\ m.fwd
=============================================================================
