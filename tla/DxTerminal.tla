------------------------------ MODULE DxTerminal ------------------------------
(***************************************************************************)
(* The technician's terminal: DxStateMachine::_doCheckSerial() between the *)
(* parser and the settings in flash, with power failures at any step.  The *)
(* commands that touch the motors and a session are in DxStateMachine.     *)
(***************************************************************************)
EXTENDS SerialParser, DxConfigNVM

CONSTANT Checked   \* the settings whose values _checkCmdArgs() looks at

(* A line has room for the values of each setting.                         *)
ASSUME TerminalAssumption ==
  /\ \A s \in Settings : Len(KeysOf[s]) <= ArgsCmds
  /\ Checked \subseteq Settings

terminalVars == <<parserVars, nvmVars>>

TerminalInit == ParserInit /\ ConfigInit

(* Nothing is parsed before doInit() is done, nor while a command runs. *)
Idle == mode \in {"locked", "run"} /\ job.keys = <<>>

Receive == Idle /\ checkSerial /\ UNCHANGED nvmVars

(* esp_restart() takes the memory of the parser with it. *)
ParserLost ==
  /\ chars' = [i \in Cells |-> "zero"] /\ ndx' = 0 /\ value_ix' = 0
  /\ rx_cmd' = "id" /\ rx_vals' = NoValues /\ rx_strs' = NoStrings /\ rx_index' = 0
  /\ new_data' = FALSE /\ params' = 0 /\ clean' = TRUE

AfterCommand == IF mode' = "off" THEN ParserLost ELSE clear

(* A locked device knows one command; whether the string is the PIN is up to
   the technician, but an empty one is not. *)
WhenLocked ==
  /\ Idle /\ mode = "locked" /\ new_data
  /\ IF rx_cmd = "unlock"
     THEN \E pin_ok \in BOOLEAN : (pin_ok => rx_strs[0] # 0) /\ cfgUnlock(pin_ok)
     ELSE UNCHANGED nvmVars
  /\ AfterCommand

(* _checkCmdArgs() refuses a value of 0, where it looks at the values: those
   of CMD_DX_SET_FEATURES are taken as they come. *)
AllGiven(s) == \A i \in 1 .. Len(KeysOf[s]) : rx_vals[i - 1] # 0
ArgsOk(s) == s \in Checked => AllGiven(s)

(* What the keys of a setting become: v was typed, or nothing was, and the
   highest value stands for what leftovers were converted to. *)
NewValues(s, v) ==
  [k \in KeysIn(s) |-> LET i == CHOOSE i \in DOMAIN KeysOf[s] : KeysOf[s][i] = k
                       IN  CASE rx_vals[i - 1] = 0   -> 0
                             [] rx_vals[i - 1] = Old -> MaxValue
                             [] OTHER                -> v]

WhenRunning ==
  /\ Idle /\ mode = "run" /\ new_data
  /\ \/ rx_cmd = "lock" /\ cfgLock
     \/ /\ rx_cmd \in Settings /\ ArgsOk(rx_cmd)
        /\ \E v \in 1 .. MaxValue - 1 : SetSetting(rx_cmd, NewValues(rx_cmd, v), clean /\ AllGiven(rx_cmd))
     \/ rx_cmd \in Settings /\ ~ArgsOk(rx_cmd) /\ UNCHANGED nvmVars
     \/ rx_cmd \notin Settings \cup {"lock"} /\ UNCHANGED nvmVars
  /\ AfterCommand

TerminalNext ==
  \/ Receive \/ WhenLocked \/ WhenRunning
  \/ doInit /\ UNCHANGED parserVars
  \/ ProcessKey /\ UNCHANGED parserVars
  \/ PowerFails /\ ParserLost

TerminalSpec == TerminalInit /\ [][TerminalNext]_terminalVars
=============================================================================
