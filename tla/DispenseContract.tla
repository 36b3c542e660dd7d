--------------------------- MODULE DispenseContract ---------------------------
(***************************************************************************)
(* What a refill machine promises its customer, whatever the buttons,      *)
(* pages, timers and clocks that DxStateMachine does it with:              *)
(*   - product only flows for the dispenser being served, only after the   *)
(*     customer has chosen and armed it, and stops before anything else    *)
(*     can happen in the session;                                          *)
(*   - a session in which product was measured ends with exactly one       *)
(*     report of it, unless the machine is restarted;                      *)
(*   - a session that never poured ends without a report.                  *)
(***************************************************************************)
EXTENDS Naturals

CONSTANT Dispensers

VARIABLES
  phase,     \* where the session is
  serving,   \* the dispenser it is about, 0 if there is none
  pump,      \* the dispenser product flows from, 0 if none
  owed,      \* product has been measured that is not reported yet
  reports,   \* reports sent by the last step
  restarted  \* nothing has happened since the machine last restarted

cvars == <<phase, serving, pump, owed, reports, restarted>>

Phases == {"off", "free", "choosing", "armed", "pouring", "held"}

AtRest == serving = 0 /\ pump = 0 /\ ~owed /\ reports = 0 /\ restarted = TRUE

CInit == phase \in {"off", "free"} /\ AtRest

Go(from, to) == phase \in from /\ phase' = to /\ restarted' = FALSE

Choose(d) ==
  /\ Go({"free"}, "choosing")
  /\ serving' = d
  /\ reports' = 0
  /\ UNCHANGED <<pump, owed>>

Arm    == Go({"choosing"}, "armed") /\ reports' = 0 /\ UNCHANGED <<serving, pump, owed>>
Disarm == Go({"armed"}, "choosing") /\ reports' = 0 /\ UNCHANGED <<serving, pump, owed>>

Pour ==
  /\ Go({"armed", "held"}, "pouring")
  /\ pump' = serving
  /\ reports' = 0
  /\ UNCHANGED <<serving, owed>>

Measure ==
  /\ Go({"pouring"}, "pouring")
  /\ owed' = TRUE
  /\ reports' = 0
  /\ UNCHANGED <<serving, pump>>

Hold ==
  /\ Go({"pouring"}, "held")
  /\ pump' = 0
  /\ reports' = 0
  /\ UNCHANGED <<serving, owed>>

(* A full measure is reported; a part of one is if there is any. *)
Settle ==
  /\ Go({"pouring", "held"}, "free")
  /\ serving' = 0 /\ pump' = 0 /\ owed' = FALSE
  /\ reports' \in {0, 1}
  /\ owed \/ phase = "pouring" => reports' = 1

Abandon ==
  /\ Go({"choosing"}, "free")
  /\ serving' = 0
  /\ reports' = 0
  /\ UNCHANGED <<pump, owed>>

(* A report is one step's: the next steps do not repeat it. *)
Forget == reports' = 0 /\ restarted' = FALSE /\ UNCHANGED <<phase, serving, pump, owed>>

Restart ==
  /\ phase' \in {"off", "free"}
  /\ serving' = 0 /\ pump' = 0 /\ owed' = FALSE /\ reports' = 0
  /\ restarted' = TRUE

CNext ==
  \/ \E d \in Dispensers : Choose(d)
  \/ Arm \/ Disarm \/ Pour \/ Measure \/ Hold \/ Settle \/ Abandon
  \/ Forget \/ Restart

CSpec == CInit /\ [][CNext]_cvars
=============================================================================
