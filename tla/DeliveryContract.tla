--------------------------- MODULE DeliveryContract ---------------------------
(***************************************************************************)
(* What the comms ESP promises for the record of a dispense: once it has   *)
(* been received it is kept until the broker has it.  It may be lost in    *)
(* four ways only: before the device is provisioned; on its way into a     *)
(* full box or a full flash; when the box is moved to a full flash; and    *)
(* when the power fails while it is in RAM.  The flash keeps what it       *)
(* stores over any restart.                                                *)
(***************************************************************************)
CONSTANT Records

VARIABLES
  status,     \* where each record is
  boxFull,    \* the box in RAM takes no more
  flashFull,  \* the flash takes no more
  up          \* the device is provisioned since it started

dvars == <<status, boxFull, flashFull, up>>

(* A record is in hand from its reception until it is in the box or in flash. *)
Ram    == {"hand", "box"}
Places == Ram \cup {"new", "flash", "delivered", "lost"}

DInit == /\ status = [m \in Records |-> "new"]
         /\ boxFull = FALSE /\ flashFull = FALSE /\ up = FALSE

(* The records of S go from the places `from` to the place `to`. *)
Move(S, from, to) ==
  /\ \A m \in S : status[m] \in from
  /\ status' = [m \in Records |-> IF m \in S THEN to ELSE status[m]]
  /\ boxFull' \in BOOLEAN /\ flashFull' \in BOOLEAN
  /\ up' = up

Accept(m)  == Move({m}, {"new"}, "hand")
Enqueue(m) == Move({m}, {"hand"}, "box")
Store(m)   == Move({m}, Ram, "flash")

(* The MQTT client may still send what the outbox has let go of. *)
Deliver(m) == Move({m}, Places \ {"new"}, "delivered")

Drop(m)    == (boxFull \/ flashFull \/ ~up) /\ Move({m}, {"hand"}, "lost")
DropBox(S) == flashFull /\ Move(S, {"box"}, "lost")

(* Room comes and goes, the device gets provisioned. *)
Go == /\ boxFull' \in BOOLEAN /\ flashFull' \in BOOLEAN /\ up' \in {up, TRUE}
      /\ UNCHANGED status

PowerFails ==
  /\ status' = [m \in Records |-> IF status[m] \in Ram THEN "lost" ELSE status[m]]
  /\ boxFull' \in BOOLEAN /\ flashFull' \in BOOLEAN
  /\ up' = FALSE

DNext == \/ \E m \in Records : Accept(m) \/ Enqueue(m) \/ Store(m) \/ Deliver(m) \/ Drop(m)
         \/ \E S \in SUBSET Records : DropBox(S)
         \/ Go
         \/ PowerFails

DSpec == DInit /\ [][DNext]_dvars
=============================================================================
