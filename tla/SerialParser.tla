----------------------------- MODULE SerialParser -----------------------------
(***************************************************************************)
(* The parser of the technician's command lines, serialparser.cpp (the     *)
(* comms ESP has a copy).  A line is "cmd,value,value,...\n"; one array    *)
(* receives the characters of every field, and what it still holds of an   *)
(* earlier field matters: a field without characters is converted from it. *)
(* A value is the number of the field it was typed in, 0 when there is     *)
(* none, or Old when it was made of leftovers.                             *)
(***************************************************************************)
EXTENDS Integers, FiniteSetsExt

CONSTANTS
  NumChars,    \* SERIAL_NUM_RX_CHARS
  CmdDigits,   \* longest command number: 4
  ArgsCmds,    \* ARGS_CMDS_SIZE
  ArgsStrings, \* ARGS_NUM_STRINGS
  MaxFields,   \* bound on the values of a line
  Commands     \* commands the technician sends

ASSUME ParserAssumption ==
  /\ NumChars \in Nat /\ CmdDigits \in 1 .. NumChars - 2
  /\ ArgsCmds \in Nat \ {0} /\ ArgsStrings \in 1 .. ArgsCmds
  /\ MaxFields \in Nat
  /\ {"id", "unlock"} \subseteq Commands

VARIABLES
  chars,     \* _received_chars: typed in this field, "old", a space or a zero
  ndx,       \* next character
  value_ix,  \* field of the line being received
  rx_cmd,    \* _rx_cmd; "id" is command 0
  rx_vals,   \* _rx_vals
  rx_strs,   \* _string_vals
  rx_index,  \* next value
  new_data,  \* _new_data: a line waits to be handled
  params,    \* history: values typed so far in this line
  clean      \* history: no field of this line was left empty

parserVars == <<chars, ndx, value_ix, rx_cmd, rx_vals, rx_strs, rx_index, new_data, params, clean>>
rxVars == <<rx_cmd, rx_vals, rx_strs, rx_index>>

Cells == 0 .. NumChars - 1
Old == MaxFields + 1   \* a value converted from leftovers

ParserTypeOK ==
  /\ chars \in [Cells -> {"typed", "old", "space", "zero"}]
  /\ ndx \in Cells
  /\ value_ix \in 0 .. ArgsCmds + 1
  /\ rx_cmd \in Commands
  /\ DOMAIN rx_vals = 0 .. ArgsCmds - 1 /\ DOMAIN rx_strs = 0 .. ArgsStrings - 1
  /\ \A i \in DOMAIN rx_vals : rx_vals[i] \in 0 .. Old
  /\ \A i \in DOMAIN rx_strs : rx_strs[i] \in 0 .. MaxFields
  /\ rx_index \in 0 .. ArgsCmds
  /\ new_data \in BOOLEAN /\ clean \in BOOLEAN
  /\ params \in 0 .. MaxFields

NoValues  == [i \in 0 .. ArgsCmds - 1 |-> 0]
NoStrings == [i \in 0 .. ArgsStrings - 1 |-> 0]

ParserInit ==
  /\ chars = [i \in Cells |-> "zero"] /\ ndx = 0 /\ value_ix = 0
  /\ rx_cmd = "id" /\ rx_vals = NoValues /\ rx_strs = NoStrings /\ rx_index = 0
  /\ new_data = FALSE /\ params = 0 /\ clean = TRUE

-----------------------------------------------------------------------------
(* _recvEndMarker(): one character of a field.                             *)
TypeCharNoLimit ==                                            \* a faulty variant
  /\ ~new_data /\ ndx \in Cells
  /\ chars' = [chars EXCEPT ![ndx] = "typed"]
  /\ ndx' = ndx + 1
  /\ UNCHANGED <<value_ix, rxVars, new_data, params, clean>>

TypeChar ==
  /\ ~new_data
  /\ chars' = [chars EXCEPT ![ndx] = "typed"]
  /\ ndx' = Min({ndx + 1, NumChars - 1})
  /\ UNCHANGED <<value_ix, rxVars, new_data, params, clean>>

(* atoi() and atof() skip spaces: a space written over the first character of
   an empty field uncovers what follows it. *)
Leftover ==
  LET ink == {i \in 1 .. NumChars - 1 : chars[i] # "space"}
  IN  ink # {} /\ chars[Min(ink)] = "old"

(* The end of the field overwrites one character with a space or a zero; the
   end of the line also the first, as ndx points there again. *)
Cut(mark, last) ==
  [i \in Cells |-> IF last /\ i = 0 THEN "zero" ELSE IF i = ndx THEN mark
                   ELSE IF chars[i] = "typed" THEN "old" ELSE chars[i]]

(* _parseDelimValues(), case 0: more than four digits are no command; an
   empty field is the command that the leftovers spell. *)
CommandField(last) ==
  /\ value_ix = 0
  /\ rx_cmd' \in IF ndx > CmdDigits \/ (ndx = 0 /\ ~Leftover) THEN {"id"} ELSE Commands
  /\ chars' = Cut("space", last)
  /\ UNCHANGED <<rx_vals, rx_strs, rx_index>>

(* A value goes to the next place, those too many to the last one. *)
ValueField(last) ==
  LET i == Min({rx_index, ArgsCmds - 1}) IN
  /\ value_ix \in 1 .. ArgsCmds /\ rx_cmd # "unlock"
  /\ rx_vals' = [rx_vals EXCEPT ![i] = IF ndx > 0 THEN params ELSE IF Leftover THEN Old ELSE 0]
  /\ rx_index' = i + 1
  /\ chars' = Cut("space", last)
  /\ UNCHANGED <<rx_cmd, rx_strs>>

StringField(last) ==
  LET i == Min({rx_index, ArgsStrings - 1}) IN
  /\ value_ix \in 1 .. ArgsCmds /\ rx_cmd = "unlock"
  /\ rx_strs' = [rx_strs EXCEPT ![i] = IF ndx > 0 THEN params ELSE 0]
  /\ rx_index' = i + 1
  /\ chars' = Cut("zero", last)
  /\ UNCHANGED <<rx_cmd, rx_vals>>

(* Every second field after the last value is dropped. *)
DroppedField(last) == value_ix > ArgsCmds /\ chars' = Cut("space", last) /\ UNCHANGED rxVars

ParseDelimValues(last) ==
  /\ CommandField(last) \/ ValueField(last) \/ StringField(last) \/ DroppedField(last)
  /\ ndx' = 0
  /\ clean' = (clean /\ ndx > 0)

Delimiter ==
  /\ ~new_data /\ params < MaxFields
  /\ ParseDelimValues(FALSE)
  /\ value_ix' = IF value_ix = ArgsCmds + 1 THEN ArgsCmds ELSE value_ix + 1
  /\ params' = params + 1
  /\ UNCHANGED new_data

EndOfLine ==
  /\ ~new_data
  /\ ParseDelimValues(TRUE)
  /\ value_ix' = 0
  /\ new_data' = TRUE
  /\ UNCHANGED params

(* Nothing more is read until the line has been handled. *)
checkSerial == TypeChar \/ Delimiter \/ EndOfLine

ClearKeepsIndex ==                                            \* a faulty variant
  /\ new_data' = FALSE
  /\ rx_cmd' = "id" /\ rx_vals' = NoValues /\ rx_strs' = NoStrings
  /\ params' = 0 /\ clean' = TRUE
  /\ UNCHANGED <<chars, ndx, value_ix, rx_index>>

(* clear(). *)
clear ==
  /\ new_data' = FALSE
  /\ rx_cmd' = "id" /\ rx_vals' = NoValues /\ rx_strs' = NoStrings /\ rx_index' = 0
  /\ params' = 0 /\ clean' = TRUE
  /\ UNCHANGED <<chars, ndx, value_ix>>

-----------------------------------------------------------------------------
(* A line without an empty field is handled with its own values, each in     *)
(* its place, whatever lines, how long and how many values came before it    *)
(* (_recvEndMarker, _parseDelimValues, _clearRx).                            *)
LineIsRead ==
  new_data /\ clean /\ params <= ArgsCmds =>
    \/ rx_cmd # "unlock" /\ \A i \in DOMAIN rx_vals : rx_vals[i] = IF i < params THEN i + 1 ELSE 0
    \/ rx_cmd = "unlock" /\ (params \in 1 .. ArgsStrings => rx_strs[params - 1] = params)
=============================================================================
