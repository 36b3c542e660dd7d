-------------------------------- MODULE DxPanel --------------------------------
(***************************************************************************)
(* What people do to a machine: a technician types at the terminal, or     *)
(* customers press the buttons of one that was set up.  process() looks at *)
(* the serial port and then at the buttons; the two share no state but the *)
(* voltage ranges, so one of them at a time is at the machine.             *)
(***************************************************************************)
EXTENDS DxTerminal, MultiButtons

VARIABLE user   \* who is at the machine

panelVars == <<terminalVars, btnVars, user>>

PanelTypeOK ==
  /\ ParserTypeOK /\ ConfigTypeOK /\ ButtonsTypeOK
  /\ user \in {"technician", "customers"}

(* The machine as it runs once it was unlocked and has stored what was
   compiled in. *)
SetUp ==
  /\ nvm = [k \in Keys |-> 0] /\ ram = nvm
  /\ lock = "id" /\ mode = "run" /\ job = NoJob
  /\ pin = TRUE /\ torn = {}

PanelInit ==
  /\ ParserInit /\ ButtonsInit
  /\ \/ user = "technician" /\ ConfigInit
     \/ user = "customers" /\ SetUp

Customers(A) == user = "customers" /\ A /\ UNCHANGED <<terminalVars, user>>

PanelNext ==
  \/ user = "technician" /\ TerminalNext /\ UNCHANGED <<btnVars, user>>
  \/ Customers(ButtonsNext)

(* loop() is called for ever. *)
PanelSpec == PanelInit /\ [][PanelNext]_panelVars /\ WF_panelVars(Customers(Loops))
=============================================================================
