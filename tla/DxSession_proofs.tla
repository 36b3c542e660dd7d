--------------------------- MODULE DxSession_proofs ---------------------------
(***************************************************************************)
(* What a customer sees and pays, for every number of dispensers, every    *)
(* table, rate and period, as long as the technician keeps to              *)
(* configuration commands.                                                 *)
(***************************************************************************)
EXTENDS DxStateMachine_proofs

-----------------------------------------------------------------------------
(* The page.                                                               *)

(* The pages, state by state.                                              *)
LEMMA Pages ==
  /\ PagesFor("IDLE") = {"finished"} /\ PagesFor("ACTIVE") = {"selection"}
  /\ PagesFor("WAIT_BTN_GREEN") = {"press green"}
  /\ PagesFor("WAIT_BEFORE_START") = {"push bottle"}
  /\ PagesFor("WAIT_TRIGGER") = {"push bottle"} /\ PagesFor("PAUSED") = {"push bottle"}
  /\ PagesFor("CANCEL") = {"cancel"} /\ PagesFor("CANCEL_IN_DX") = {"cancel"}
  /\ PagesFor("DISPENSING") = {"dispensing", "push bottle"}
  /\ PagesFor("LOCKED") = {"none"}
BY DEF PagesFor

(* Every handler that changes the state shows its page.                    *)
LEMMA PageStep ==
  ASSUME OnlyConfig, Inv, ScreenMatchesState, [Next]_vars
  PROVE  ScreenMatchesState'
<1>0. queued = state /\ (motor.running => state = "DISPENSING")
  BY DEF Inv, SessionMatchesState, MotorMatchesState
<1>1. ASSUME NEW lock \in BOOLEAN, Reboot(lock) PROVE ScreenMatchesState'
  BY <1>1, Pages DEF Reboot, ScreenMatchesState
<1>2. ASSUME state' = state, screen' = screen PROVE ScreenMatchesState'
  BY <1>2 DEF ScreenMatchesState
<1>3. CASE DoCheckSerial
  <2>1. ~Command("raw_stream") /\ ~Command("sim_dx") /\ ~Command("motors_runtime")
        /\ ~Command("motors_stop")
    BY DEF OnlyConfig, ConfigCommands, Command
  <2>2. CASE CmdReset \/ CmdLock \/ CmdUnlock
    BY <2>2, <1>1 DEF CmdReset, CmdLock, CmdUnlock, Inv, TypeOK
  <2>3. CASE CmdWithoutEffect \/ (\E r \in Rates : CmdFlowRate(r))
             \/ \E d \in DX, t \in Tables : CmdProductTable(d, t)
    BY <2>3, <1>2 DEF CmdWithoutEffect, CmdFlowRate, CmdProductTable, outVars
  <2> QED
    BY <1>3, <2>1, <2>2, <2>3 DEF DoCheckSerial, CmdPrintRaw, CmdPrintSimDx,
       CmdMotorsRuntime, CmdMotorsStop
<1>4. CASE Process
  <2>1. CASE DispensePanic
    BY <2>1, <1>1 DEF DispensePanic, Inv, TypeOK
  <2>2. CASE TooEarly \/ IgnoredButton \/ NothingToDo
    BY <2>2, <1>0, <1>2 DEF TooEarly, IgnoredButton, NothingToDo, Stay, Enter, outVars
  <2>3. CASE EndMotorTest
    BY <2>3, <1>0 DEF EndMotorTest, MotorTestOver, Switch
  <2>4. CASE Abandon \/ PauseTimeOut \/ StopInDx \/ DispenseComplete
    <3>1. state' = "IDLE" /\ screen' = "finished"
      BY <2>4 DEF Abandon, GotoIdle, PauseTimeOut, StopInDx, DispenseComplete,
                  PrintAndFinish, ResetSession, Enter
    <3> QED BY <3>1, Pages DEF ScreenMatchesState
  <2>5. CASE ResumeSelection \/ \E d \in DX : DoIdleState(d)
    BY <2>5, Pages DEF ResumeSelection, DoIdleState, GotoActivated, Enter, ScreenMatchesState
  <2>6. CASE \E b \in Buttons : ChangeAmount(b)
    BY <2>6, <1>0, Pages DEF ChangeAmount, Switch, Stay, Enter, ScreenMatchesState
  <2>7. CASE DispenseProgress
    BY <2>7, <1>0, Pages DEF DispenseProgress, Dispensing, Switch, Stay, Enter, ScreenMatchesState
  <2>8. CASE Cancel \/ CancelInDx
    BY <2>8, Pages DEF Cancel, CancelInDx, GotoCancel, Enter, ScreenMatchesState
  <2>9. CASE ConfirmAmount \/ ConfirmStart \/ BackToPaused \/ PauseDispense \/ StartDispense
    BY <2>9, Pages DEF ConfirmAmount, ConfirmStart, BackToPaused, PauseDispense, StartDispense,
       Enter, ScreenMatchesState
  <2>10. CASE GotoWaitTrigger \/ ContinueDispense
    BY <2>10, Pages DEF GotoWaitTrigger, ContinueDispense, Switch, Enter, outVars,
       ScreenMatchesState
  <2> QED
    BY <1>4, <2>1, <2>2, <2>3, <2>4, <2>5, <2>6, <2>7, <2>8, <2>9, <2>10 DEF Process
<1>5. CASE PowerLoss
  BY <1>5, <1>1 DEF PowerLoss, Inv, TypeOK
<1>6. CASE (\E d \in 0 .. MaxLoop : Begin(d)) \/ UNCHANGED vars
  BY <1>6, <1>2 DEF Begin, vars, outVars
<1> QED
  BY <1>3, <1>4, <1>5, <1>6 DEF Next

(* Through every detour, time-out and restart the page asks the customer   *)
(* for what the state waits for.                                           *)
THEOREM PageAlways == OnlyConfig => (Spec => []ScreenMatchesState)
<1> SUFFICES ASSUME OnlyConfig PROVE Spec => []ScreenMatchesState
  OBVIOUS
<1>1. Init => Inv /\ ScreenMatchesState
  BY InitInv, Pages DEF Init, ScreenMatchesState
<1>2. Inv /\ ScreenMatchesState /\ [Next]_vars => Inv' /\ ScreenMatchesState'
  BY InvStep, PageStep
<1> QED
  BY <1>1, <1>2, PTL DEF Spec
-----------------------------------------------------------------------------
(* The selection.                                                          *)

(* A table is the initial one or one a command installed.                  *)
TablesOf(d) == {InitProduct.table[d]} \cup Tables

(* What an entry may have become: a volume of 0 is 1 ml once displayed.    *)
Entry(e) == {e, [e EXCEPT !.ml = IF e.ml = 0 THEN 1 ELSE e.ml]}

TableInv == \A d \in DX : prod.table[d] \in TablesOf(d)

ChosenInv == IF dx = 0 THEN selected = Zero /\ amount_index = 0
                       ELSE \E t \in TablesOf(dx) : selected \in Entry(t[amount_index])

(* Whoever activates a dispenser or moves its index selects an entry.      *)
LEMMA AmountIsEntry ==
  ASSUME TableInv, NEW d \in DX, NEW i \in Amounts
  PROVE  \E t \in TablesOf(d) : AmountOf(prod, d, i) \in Entry(t[i])
<1>1. AmountOf(prod, d, i) = prod.table[d][i] /\ prod.table[d] \in TablesOf(d)
  BY DEF AmountOf, Row, TableInv
<1> QED
  BY <1>1 DEF Entry

(* The display of an entry leaves it an entry.                             *)
LEMMA TargetIsEntry ==
  ASSUME TypeOK, dx \in DX, NEW t \in TablesOf(dx), selected \in Entry(t[amount_index])
  PROVE  Target \in Entry(t[amount_index])
<1>1. t[amount_index] \in Pair
  BY ConstantsAssumption DEF TablesOf, TypeOK, ProductType, TableType
<1> QED
  BY <1>1 DEF Target, TargetMl, Entry, Pair

(* Tables only change to one of the given ones.                            *)
LEMMA TableStep ==
  ASSUME TypeOK, TableInv, Next
  PROVE  TableInv'
<1>1. ASSUME prod' = prod PROVE TableInv'
  BY <1>1 DEF TableInv
<1>2. ASSUME NEW lock \in BOOLEAN, Reboot(lock) PROVE TableInv'
  <2>1. prod \in ProductType /\ prod'.table = prod.table
    BY <1>2 DEF Reboot, LoadTable, TypeOK, ProductType
  <2> QED BY <2>1 DEF TableInv
<1>3. CASE DoCheckSerial
  <2>1. ASSUME NEW d \in DX, NEW t \in Tables, CmdProductTable(d, t) PROVE TableInv'
    <3>1. prod'.table = [prod.table EXCEPT ![d] = t] /\ prod.table \in [DX -> [Amounts -> Pair]]
      BY <2>1 DEF CmdProductTable, SetTable, Row, TypeOK, ProductType, TableType
    <3> QED BY <3>1 DEF TableInv, TablesOf
  <2>2. ASSUME NEW r \in Rates, CmdFlowRate(r) PROVE TableInv'
    <3>1. prod'.table = prod.table
      BY <2>2 DEF CmdFlowRate, SetFlowRate, TypeOK, ProductType
    <3> QED BY <3>1 DEF TableInv
  <2>3. CASE CmdReset \/ CmdLock \/ CmdUnlock
    BY <2>3, <1>2 DEF CmdReset, CmdLock, CmdUnlock, TypeOK
  <2> QED
    BY <1>1, <1>3, <2>1, <2>2, <2>3 DEF DoCheckSerial, CmdWithoutEffect, CmdPrintRaw,
       CmdPrintSimDx, CmdMotorsRuntime, CmdMotorsStop, nvmVars
<1>4. CASE Process
  <2>1. CASE DispensePanic
    BY <2>1, <1>2 DEF DispensePanic, TypeOK
  <2> QED
    BY <1>1, <1>4, <2>1 DEF Process, DoIdleState, ChangeAmount, ConfirmAmount, ConfirmStart,
       GotoWaitTrigger, Cancel, ResumeSelection, Abandon, StartDispense, ContinueDispense,
       TooEarly, DispenseProgress, DispenseComplete, PauseDispense, PauseTimeOut,
       CancelInDx, BackToPaused, StopInDx, EndMotorTest, IgnoredButton, NothingToDo, nvmVars
<1>5. CASE PowerLoss
  BY <1>5, <1>2 DEF PowerLoss, TypeOK
<1>6. CASE \E d \in 0 .. MaxLoop : Begin(d)
  BY <1>6, <1>1 DEF Begin, nvmVars
<1> QED
  BY <1>3, <1>4, <1>5, <1>6 DEF Next

(* A session begins and changes its selection from the table; its end      *)
(* clears it.                                                              *)
LEMMA ChosenStep ==
  ASSUME OnlyConfig, Inv, TableInv, ChosenInv, [Next]_vars
  PROVE  ChosenInv'
<1>0. /\ TypeOK /\ amount_index \in Amounts /\ ((state \in {"IDLE", "LOCKED"}) <=> dx = 0)
      /\ dx \in 0 .. NumDx
  BY DEF Inv, SessionMatchesState, TypeOK
<1>1. ASSUME dx' = 0, selected' = Zero, amount_index' = 0 PROVE ChosenInv'
  BY <1>1 DEF ChosenInv
<1>2. ASSUME dx' = dx, selected' = selected, amount_index' = amount_index PROVE ChosenInv'
  BY <1>2 DEF ChosenInv
<1>3. ASSUME NEW d \in DX, NEW i \in Amounts, dx' = d, selected' = AmountOf(prod, d, i),
             amount_index' = i
      PROVE  ChosenInv'
  <2>1. d # 0
    BY DEF DX
  <2> QED BY <1>3, <2>1, AmountIsEntry DEF ChosenInv
<1>4. CASE DoCheckSerial
  <2>1. ~Command("raw_stream") /\ ~Command("sim_dx") /\ ~Command("motors_runtime")
        /\ ~Command("motors_stop")
    BY DEF OnlyConfig, ConfigCommands, Command
  <2>2. CASE CmdReset \/ CmdLock \/ CmdUnlock
    BY <2>2, <1>1 DEF CmdReset, CmdLock, CmdUnlock, Reboot
  <2>3. CASE CmdWithoutEffect \/ (\E r \in Rates : CmdFlowRate(r))
             \/ \E d \in DX, t \in Tables : CmdProductTable(d, t)
    BY <2>3, <1>2 DEF CmdWithoutEffect, CmdFlowRate, CmdProductTable, sessionVars
  <2> QED
    BY <1>4, <2>1, <2>2, <2>3 DEF DoCheckSerial, CmdPrintRaw, CmdPrintSimDx,
       CmdMotorsRuntime, CmdMotorsStop
<1>5. CASE Process
  <2>1. CASE DispensePanic
    BY <2>1, <1>1 DEF DispensePanic, Reboot
  <2>2. CASE Abandon \/ PauseTimeOut \/ StopInDx \/ DispenseComplete
    BY <2>2, <1>1 DEF Abandon, GotoIdle, PauseTimeOut, StopInDx, DispenseComplete,
       PrintAndFinish, ResetSession
  <2>3. CASE ResumeSelection \/ \E d \in DX : DoIdleState(d)
    BY <2>3, <1>0, <1>3 DEF ResumeSelection, DoIdleState, GotoActivated
  <2>4. ASSUME NEW b \in Buttons, ChangeAmount(b) PROVE ChosenInv'
    <3>1. amount_index' \in Amounts
      BY <2>4, <1>0 DEF ChangeAmount, Amounts, LeastOf
    <3>2. dx \in DX
      BY <2>4, <1>0 DEF ChangeAmount, Switch, DX
    <3> QED BY <2>4, <3>1, <3>2, <1>3 DEF ChangeAmount
  <2>5. CASE DispenseProgress
    <3>1. dx # 0 /\ dx \in DX
      BY <2>5, <1>0 DEF DispenseProgress, Dispensing, Switch, DX
    <3>2. PICK t \in TablesOf(dx) : selected \in Entry(t[amount_index])
      BY <3>1 DEF ChosenInv
    <3>3. Target \in Entry(t[amount_index])
      BY <1>0, <3>1, <3>2, TargetIsEntry
    <3> QED BY <2>5, <3>1, <3>3 DEF DispenseProgress, ChosenInv
  <2> QED
    BY <1>2, <1>5, <2>1, <2>2, <2>3, <2>4, <2>5 DEF Process, ConfirmAmount, ConfirmStart,
       GotoWaitTrigger, Cancel, StartDispense, ContinueDispense, TooEarly, PauseDispense,
       CancelInDx, BackToPaused, EndMotorTest, IgnoredButton, NothingToDo, sessionVars
<1>6. CASE PowerLoss
  BY <1>6, <1>1 DEF PowerLoss, Reboot
<1>7. CASE (\E d \in 0 .. MaxLoop : Begin(d)) \/ UNCHANGED vars
  BY <1>7, <1>2 DEF Begin, vars, sessionVars
<1> QED
  BY <1>4, <1>5, <1>6, <1>7 DEF Next
-----------------------------------------------------------------------------
(* The charge.                                                             *)

Poured == {"DISPENSING", "PAUSED", "CANCEL_IN_DX"}

ChargeInv == /\ dispensed.tk <= selected.tk
             /\ state \notin Poured => dispensed.tk = 0

(* A further event overcharges nobody if it does not.                      *)
LEMMA AppendIsFair ==
  ASSUME NEW s \in Seq(EventType), NEW e \in EventType,
         \A i \in Reported(s) : s[i].dispensed.tk <= s[i].selected.tk /\ s[i].product \in DX,
         e.event = "Finished" => e.dispensed.tk <= e.selected.tk /\ e.product \in DX
  PROVE  \A i \in Reported(Append(s, e)) :
           /\ Append(s, e)[i].dispensed.tk <= Append(s, e)[i].selected.tk
           /\ Append(s, e)[i].product \in DX
<1> SUFFICES ASSUME NEW i \in Reported(Append(s, e))
             PROVE  /\ Append(s, e)[i].dispensed.tk <= Append(s, e)[i].selected.tk
                    /\ Append(s, e)[i].product \in DX
  OBVIOUS
<1>1. i \in 1 .. Len(s) + 1 /\ Append(s, e)[i].event = "Finished"
  BY DEF Reported
<1>2. CASE i = Len(s) + 1
  BY <1>1, <1>2
<1>3. CASE i \in 1 .. Len(s)
  BY <1>1, <1>3 DEF Reported
<1> QED
  BY <1>1, <1>2, <1>3

(* Other events say nothing of a charge.                                   *)
LEMMA SendIsFair ==
  ASSUME TypeOK, NeverOverCharged, NEW name \in EventNames, name # "Finished",
         NEW p \in 0 .. NumDx, NEW sel \in Pair, NEW g \in Pair, NEW mine \in BOOLEAN,
         coms' = Append(coms, Event(name, p, sel, g, mine))
  PROVE  NeverOverCharged'
<1>1. Event(name, p, sel, g, mine) \in EventType
  BY DEF Event, EventType
<1>2. Event(name, p, sel, g, mine).event # "Finished"
  BY DEF Event
<1> HIDE DEF Event
<1> QED
  BY <1>1, <1>2, AppendIsFair DEF NeverOverCharged, TypeOK

(* A session ends without a charge left, and its report is within what was *)
(* selected.                                                               *)
LEMMA FinishIsFair ==
  ASSUME TypeOK, dx \in DX, product = dx, NEW m \in MotorType,
         NEW sel \in Pair, NEW g \in Pair, g.tk <= sel.tk,
         NEW sent \in Seq(EventType), NEW spent \in Nat, NEW mine \in BOOLEAN,
         \A i \in Reported(sent) : sent[i].dispensed.tk <= sent[i].selected.tk /\ sent[i].product \in DX,
         PrintAndFinish(sel, g, m, sent, spent, mine)
  PROVE  NeverOverCharged' /\ ChargeInv'
<1> DEFINE e == Event("Finished", product, sel, g, mine)
<1>1. e \in EventType
  BY DEF Event, EventType, EventNames, TypeOK
<1>2. e.dispensed.tk <= e.selected.tk /\ e.product \in DX
  BY DEF Event
<1>3. coms' = Append(sent, e) \/ coms' = sent
  BY DEF PrintAndFinish
<1>4. NeverOverCharged'
  <2> HIDE DEF e
  <2> QED BY <1>1, <1>2, <1>3, AppendIsFair DEF NeverOverCharged
<1>5. ChargeInv'
  BY DEF PrintAndFinish, ResetSession, Enter, ChargeInv, Poured, Zero
<1> QED
  BY <1>4, <1>5

(* What is charged stays below what was selected, measurement by           *)
(* measurement, and is gone when the session is.                           *)
LEMMA ChargeStep ==
  ASSUME OnlyConfig, Inv, ChargeInv, NeverOverCharged, [Next]_vars
  PROVE  ChargeInv' /\ NeverOverCharged'
<1>0. /\ TypeOK /\ queued = state /\ product = dx /\ ((state \in {"IDLE", "LOCKED"}) <=> dx = 0)
      /\ dx \in 0 .. NumDx /\ selected \in Pair /\ dispensed \in Pair /\ motor \in MotorType
      /\ coms \in Seq(EventType) /\ measured \in BOOLEAN /\ product \in 0 .. NumDx
      /\ (motor.running => state = "DISPENSING")
  BY DEF Inv, SessionMatchesState, MotorMatchesState, TypeOK
<1>1. ASSUME dispensed' = dispensed, selected' = selected, state \notin Poured \/ state' \in Poured
      PROVE  ChargeInv'
  BY <1>1 DEF ChargeInv
<1>2. ASSUME coms' = coms PROVE NeverOverCharged'
  BY <1>2 DEF NeverOverCharged
<1>3. ASSUME NEW name \in EventNames, name # "Finished", Send(name) PROVE NeverOverCharged'
  <2>1. Zero \in Pair
    BY DEF Zero, Pair
  <2> QED BY <1>0, <1>3, <2>1, SendIsFair DEF Send
<1>4. ASSUME NEW lock \in BOOLEAN, Reboot(lock) PROVE ChargeInv' /\ NeverOverCharged'
  <2>1. dispensed' = Zero /\ selected' = Zero /\ coms' = <<>>
    BY <1>4 DEF Reboot
  <2> QED BY <2>1 DEF ChargeInv, Zero, NeverOverCharged, Reported
<1>5. CASE DoCheckSerial
  <2>1. ~Command("raw_stream") /\ ~Command("sim_dx") /\ ~Command("motors_runtime")
        /\ ~Command("motors_stop")
    BY DEF OnlyConfig, ConfigCommands, Command
  <2>2. CASE CmdReset \/ CmdLock \/ CmdUnlock
    BY <2>2, <1>0, <1>4 DEF CmdReset, CmdLock, CmdUnlock, TypeOK
  <2>3. CASE CmdWithoutEffect \/ (\E r \in Rates : CmdFlowRate(r))
             \/ \E d \in DX, t \in Tables : CmdProductTable(d, t)
    <3>1. dispensed' = dispensed /\ selected' = selected /\ state' = state /\ coms' = coms
      BY <2>3 DEF CmdWithoutEffect, CmdFlowRate, CmdProductTable, sessionVars, pourVars, outVars
    <3> QED BY <3>1, <1>1, <1>2
  <2> QED
    BY <1>5, <2>1, <2>2, <2>3 DEF DoCheckSerial, CmdPrintRaw, CmdPrintSimDx,
       CmdMotorsRuntime, CmdMotorsStop
<1>6. CASE Process
  <2>1. CASE DispensePanic
    BY <2>1, <1>0, <1>4 DEF DispensePanic, TypeOK
  <2>2. CASE Abandon
    <3>1. dispensed'.tk = 0 /\ selected' = Zero /\ coms' = coms
      BY <2>2, <1>0 DEF Abandon, GotoIdle, ResetSession, Pair
    <3> QED BY <3>1, <1>2 DEF ChargeInv, Zero
  <2>3. CASE ResumeSelection \/ \E d \in DX : DoIdleState(d)
    <3>1. PICK d \in DX : GotoActivated(d)
      BY <2>3 DEF ResumeSelection, DoIdleState
    <3>2. dispensed' = dispensed /\ state \notin Poured /\ measured' \in BOOLEAN
      BY <2>3, <1>0 DEF ResumeSelection, DoIdleState, Switch, Poured
    <3>3. selected' \in Pair /\ d \in 0 .. NumDx /\ Zero \in Pair
      BY <3>1, <1>0, AmountTypes DEF GotoActivated, TypeOK, DX, Zero, Pair
    <3>4. NeverOverCharged'
      BY <3>1, <3>2, <3>3, <1>0, SendIsFair DEF GotoActivated, EventNames
    <3>5. selected'.tk >= 0
      BY <3>3 DEF Pair
    <3> QED BY <3>2, <3>4, <3>5 DEF ChargeInv
  <2>4. ASSUME NEW b \in Buttons, ChangeAmount(b) PROVE ChargeInv' /\ NeverOverCharged'
    <3>1. selected' \in Pair /\ coms' = coms /\ dispensed' = dispensed /\ state = "ACTIVE"
      BY <2>4, <1>0, AmountTypes DEF ChangeAmount, Switch, pourVars, TypeOK
    <3>2. dispensed.tk = 0 /\ selected'.tk >= 0
      BY <3>1 DEF ChargeInv, Poured, Pair
    <3> QED BY <3>1, <3>2, <1>2 DEF ChargeInv
  <2>5. CASE ConfirmAmount \/ Cancel \/ CancelInDx
    <3>1. \E name \in EventNames : name # "Finished" /\ Send(name)
      BY <2>5 DEF ConfirmAmount, Cancel, CancelInDx, GotoCancel, EventNames
    <3>2. /\ dispensed' = dispensed /\ selected' = selected
          /\ state \notin Poured \/ state' \in Poured
      BY <2>5 DEF ConfirmAmount, Cancel, CancelInDx, GotoCancel, Switch, Enter, Poured,
                  sessionVars, pourVars
    <3> QED BY <3>1, <3>2, <1>1, <1>3
  <2>6. CASE ConfirmStart \/ GotoWaitTrigger \/ StartDispense \/ ContinueDispense
             \/ PauseDispense \/ BackToPaused
    <3>1. /\ dispensed' = dispensed /\ selected' = selected /\ coms' = coms
          /\ state \notin Poured \/ state' \in Poured
      BY <2>6 DEF ConfirmStart, GotoWaitTrigger, StartDispense, ContinueDispense, PauseDispense,
                  BackToPaused, Switch, Enter, Poured, sessionVars, pourVars, outVars
    <3> QED BY <3>1, <1>1, <1>2
  <2>7. CASE TooEarly \/ IgnoredButton \/ NothingToDo
    <3>1. dispensed' = dispensed /\ selected' = selected /\ coms' = coms /\ state' = state
      BY <2>7, <1>0 DEF TooEarly, IgnoredButton, NothingToDo, Stay, Enter, sessionVars, pourVars,
                        outVars
    <3> QED BY <3>1, <1>1, <1>2
  <2>8. CASE EndMotorTest
    BY <2>8, <1>0 DEF EndMotorTest, MotorTestOver, Switch
  <2>9. CASE DispenseProgress
    <3>1. NewTk \in Nat /\ ~(NewTk >= selected.tk) /\ selected.tk \in Nat /\ state = "DISPENSING"
      BY <2>9, <1>0, MeasureTypes DEF DispenseProgress, Dispensing, DispenseDone, Switch, Pair
    <3>2. dispensed'.tk = NewTk /\ selected'.tk = selected.tk /\ state' = state /\ coms' = coms
      BY <2>9, <1>0 DEF DispenseProgress, Target, Stay, Enter, Pair
    <3> QED BY <3>1, <3>2, <1>2 DEF ChargeInv, Poured
  <2>10. CASE DispenseComplete
    <3>1. /\ dx \in DX /\ DrawBack(motor, dx) \in MotorType /\ Target \in Pair
          /\ ReverseDelay \in Nat /\ Target.tk <= Target.tk
      <4>1. dx \in DX
        BY <2>10, <1>0 DEF DispenseComplete, Dispensing, Switch, DX
      <4>2. Target \in Pair
        BY <1>0, MeasureTypes
      <4>3. DrawBack(motor, dx) \in MotorType
        BY <1>0, MotorTypes
      <4>4. Target.tk \in Nat /\ ReverseDelay \in Nat
        BY <4>2, ConstantTypes DEF Pair
      <4> QED BY <4>1, <4>2, <4>3, <4>4
    <3>2. PrintAndFinish(Target, Target, DrawBack(motor, dx), coms, ReverseDelay, TRUE)
      BY <2>10 DEF DispenseComplete, FullMeasure
    <3> QED BY <1>0, <3>1, <3>2, FinishIsFair DEF NeverOverCharged
  <2>11. CASE StopInDx
    <3>1. dx \in DX /\ dispensed.tk <= selected.tk
      BY <2>11, <1>0 DEF StopInDx, Switch, DX, ChargeInv
    <3>2. PrintAndFinish(selected, dispensed, motor, coms, 0, measured)
      BY <2>11 DEF StopInDx
    <3> QED BY <1>0, <3>1, <3>2, FinishIsFair DEF NeverOverCharged
  <2>12. CASE PauseTimeOut
    <3> DEFINE part == [ml |-> dispensed.ml, tk |-> 0]
               e    == Event("Time Out", product, selected, part, measured)
    <3>0. state = "PAUSED"
      BY <2>12 DEF PauseTimeOut, Switch
    <3>1. dx \in DX /\ dispensed.tk <= selected.tk
      BY <3>0, <1>0 DEF DX, ChargeInv
    <3>2. e \in EventType /\ e.event # "Finished"
      BY <1>0 DEF Event, EventType, EventNames, Pair
    <3>3. PrintAndFinish(selected, dispensed, motor, Append(coms, e), 0, measured)
      BY <2>12 DEF PauseTimeOut
    <3> HIDE DEF e
    <3>4. Append(coms, e) \in Seq(EventType)
      BY <1>0, <3>2
    <3>5. \A i \in Reported(Append(coms, e)) :
            /\ Append(coms, e)[i].dispensed.tk <= Append(coms, e)[i].selected.tk
            /\ Append(coms, e)[i].product \in DX
      BY <1>0, <3>2, AppendIsFair DEF NeverOverCharged
    <3> QED BY <1>0, <3>1, <3>3, <3>4, <3>5, FinishIsFair
  <2> QED
    BY <1>6, <2>1, <2>2, <2>3, <2>4, <2>5, <2>6, <2>7, <2>8, <2>9, <2>10, <2>11, <2>12 DEF Process
<1>7. CASE PowerLoss
  BY <1>7, <1>0, <1>4 DEF PowerLoss, TypeOK
<1>8. CASE \E d \in 0 .. MaxLoop : Begin(d)
  <2>1. dispensed' = dispensed /\ selected' = selected /\ state' = state /\ coms' = <<>>
    BY <1>8 DEF Begin, sessionVars
  <2>2. NeverOverCharged'
    BY <2>1 DEF NeverOverCharged, Reported
  <2> QED BY <2>1, <2>2, <1>1
<1>9. CASE UNCHANGED vars
  BY <1>9, <1>1, <1>2 DEF vars, sessionVars, pourVars, outVars
<1> QED
  BY <1>5, <1>6, <1>7, <1>8, <1>9 DEF Next

(* A start, with nothing selected, charged or reported.                    *)
LEMMA InitSession == Init => TableInv /\ ChosenInv /\ ChargeInv /\ NeverOverCharged
<1> SUFFICES ASSUME Init PROVE TableInv /\ ChosenInv /\ ChargeInv /\ NeverOverCharged
  OBVIOUS
<1>1. prod.table = InitProduct.table
  BY ConstantTypes DEF Init, LoadTable, ProductType
<1>2. dispensed = Zero /\ selected = Zero /\ dx = 0 /\ amount_index = 0 /\ coms = <<>>
  BY DEF Init
<1> QED
  BY <1>1, <1>2 DEF TableInv, TablesOf, ChosenInv, ChargeInv, Zero, NeverOverCharged, Reported

(* No customer is charged more than the price selected, whatever tables,   *)
(* rates and stale ratios the technician brings about in mid-session.      *)
THEOREM NeverOverChargedAlways == OnlyConfig => (Spec => []NeverOverCharged)
<1> SUFFICES ASSUME OnlyConfig PROVE Spec => []NeverOverCharged
  OBVIOUS
<1>1. Init => Inv /\ ChargeInv /\ NeverOverCharged
  BY InitInv, InitSession
<1>2. /\ Inv /\ ChargeInv /\ NeverOverCharged /\ [Next]_vars
      => Inv' /\ ChargeInv' /\ NeverOverCharged'
  BY InvStep, ChargeStep
<1> QED
  BY <1>1, <1>2, PTL DEF Spec

(* What is to be paid is an entry of the table, or of the table it was     *)
(* selected from, and nothing of it is left for the next customer.         *)
THEOREM SelectionFromTableAlways == OnlyConfig => (Spec => []SelectionFromTable)
<1> SUFFICES ASSUME OnlyConfig PROVE Spec => []SelectionFromTable
  OBVIOUS
<1> DEFINE J == Inv /\ TableInv /\ ChosenInv /\ ChargeInv /\ NeverOverCharged
<1>1. Init => J
  BY InitInv, InitSession
<1>2. J /\ [Next]_vars => J'
  <2>1. TypeOK /\ TableInv /\ UNCHANGED vars => TableInv'
    BY DEF vars, nvmVars, TableInv
  <2> QED BY <2>1, InvStep, TableStep, ChosenStep, ChargeStep DEF Inv
<1>3. J => SelectionFromTable
  <2> SUFFICES ASSUME J PROVE SelectionFromTable
    OBVIOUS
  <2>1. dx = 0 => state \in {"IDLE", "LOCKED"}
    BY DEF Inv, SessionMatchesState
  <2>2. CASE dx = 0
    BY <2>1, <2>2 DEF ChosenInv, ChargeInv, Poured, SelectionFromTable
  <2>3. CASE dx # 0
    BY <2>3 DEF ChosenInv, TablesOf, Entry, SelectionFromTable
  <2> QED BY <2>2, <2>3
<1> QED
  BY <1>1, <1>2, <1>3, PTL DEF Spec
-----------------------------------------------------------------------------
(* The uncounted pour.                                                     *)

(* A flow rate is an initial one or one a command installed.               *)
RatesOf(d) == {InitProduct.rate[d]} \cup {r[d] : r \in Rates}

(* The bound on time fills every volume of every table: the model then     *)
(* counts as the code does.                                                *)
CapFillsAll ==
  /\ PourCap >= MinDelta
  /\ \A d \in DX : \A r \in RatesOf(d), t \in TablesOf(d), i \in Amounts :
       VolumeOf(PourCap, r) >= t[i].ml /\ VolumeOf(PourCap, r) >= 1

RateInv ==
  /\ \A d \in DX : prod.rate[d] \in RatesOf(d)
  /\ state = "DISPENSING" => flow_rate \in RatesOf(dx)

(* What is counted only grows in a press, and a pause keeps it.            *)
CountedInv ==
  /\ pc # "start" => late = 0
  /\ 0 <= time_delta /\ time_delta <= PourCap
  /\ state \in {"PAUSED", "CANCEL_IN_DX"} => time_at_pause = time_delta
  /\ state = "DISPENSING" => 0 <= time_at_pause /\ time_at_pause <= time_delta

(* Each call of process() counts what flowed until it began.               *)
LoopOf == IF pc = "start" THEN 0 ELSE MaxLoop

FlowInv == state = "DISPENSING" /\ "dispense" \notin ahead
             => pour + late <= time_delta - time_at_pause + LoopOf

LEMMA RateStep ==
  ASSUME OnlyConfig, Inv, RateInv, [Next]_vars
  PROVE  RateInv'
<1>0. /\ TypeOK /\ queued = state /\ prod \in ProductType /\ prod.rate \in [DX -> Nat \ {0}]
      /\ (motor.running => state = "DISPENSING") /\ ((state \in {"IDLE", "LOCKED"}) <=> dx = 0)
  BY DEF Inv, SessionMatchesState, MotorMatchesState, TypeOK, ProductType, RateType
<1>1. ASSUME prod'.rate = prod.rate,
             state' = "DISPENSING" => state = "DISPENSING" /\ dx' = dx /\ flow_rate' = flow_rate
      PROVE  RateInv'
  BY <1>1 DEF RateInv
<1>2. ASSUME NEW lock \in BOOLEAN, Reboot(lock) PROVE RateInv'
  <2>1. prod'.rate = prod.rate /\ state' # "DISPENSING"
    BY <1>0, <1>2 DEF Reboot, LoadTable, ProductType
  <2> QED BY <2>1, <1>1
<1>3. CASE DoCheckSerial
  <2>1. ~Command("raw_stream") /\ ~Command("sim_dx") /\ ~Command("motors_runtime")
        /\ ~Command("motors_stop")
    BY DEF OnlyConfig, ConfigCommands, Command
  <2>2. CASE CmdReset \/ CmdLock \/ CmdUnlock
    BY <2>2, <1>0, <1>2 DEF CmdReset, CmdLock, CmdUnlock, TypeOK
  <2>3. ASSUME NEW r \in Rates, CmdFlowRate(r) PROVE RateInv'
    <3>1. prod'.rate = r /\ state' = state /\ dx' = dx /\ flow_rate' = flow_rate
      BY <1>0, <2>3 DEF CmdFlowRate, SetFlowRate, sessionVars, pourVars, ProductType
    <3>2. \A d \in DX : prod'.rate[d] \in RatesOf(d)
      BY <3>1 DEF RatesOf
    <3> QED BY <3>1, <3>2 DEF RateInv
  <2>4. CASE CmdWithoutEffect \/ \E d \in DX, t \in Tables : CmdProductTable(d, t)
    <3>1. prod'.rate = prod.rate /\ state' = state /\ dx' = dx /\ flow_rate' = flow_rate
      BY <1>0, <2>4 DEF CmdWithoutEffect, CmdProductTable, SetTable, sessionVars, pourVars,
         nvmVars, ProductType
    <3> QED BY <3>1, <1>1
  <2> QED
    BY <1>3, <2>1, <2>2, <2>3, <2>4 DEF DoCheckSerial, CmdPrintRaw, CmdPrintSimDx,
       CmdMotorsRuntime, CmdMotorsStop
<1>4. CASE Process
  <2>1. CASE DispensePanic
    BY <2>1, <1>0, <1>2 DEF DispensePanic, TypeOK
  <2>2. CASE StartDispense \/ ContinueDispense
    <3>1. dx \in DX /\ dx' = dx /\ prod' = prod /\ flow_rate' = FlowRate(prod, dx)
      <4>1. dx # 0 /\ dx \in 0 .. NumDx
        BY <2>2, <1>0 DEF StartDispense, ContinueDispense, Switch, TypeOK
      <4>2. dx \in DX
        BY <4>1, NumDxAssumption DEF DX
      <4>3. dx' = dx /\ prod' = prod /\ flow_rate' = FlowRate(prod, dx)
        BY <2>2 DEF StartDispense, ContinueDispense, sessionVars, nvmVars
      <4> QED BY <4>2, <4>3
    <3>2. FlowRate(prod, dx) = prod.rate[dx]
      BY <3>1 DEF FlowRate, Row
    <3> QED BY <3>1, <3>2 DEF RateInv
  <2>3. CASE EndMotorTest
    BY <2>3, <1>0 DEF EndMotorTest, MotorTestOver, Switch
  <2>4. CASE TooEarly \/ DispenseProgress \/ IgnoredButton \/ NothingToDo \/ \E b \in Buttons : ChangeAmount(b)
    <3>1. prod' = prod /\ state' = state /\ dx' = dx /\ flow_rate' = flow_rate
      BY <2>4, <1>0 DEF TooEarly, DispenseProgress, IgnoredButton, NothingToDo, ChangeAmount,
         Stay, Enter, sessionVars, pourVars, nvmVars
    <3> QED BY <3>1, <1>1
  <2>5. CASE \/ Abandon \/ PauseTimeOut \/ StopInDx \/ DispenseComplete \/ ConfirmAmount \/ ConfirmStart
             \/ GotoWaitTrigger \/ Cancel \/ ResumeSelection \/ PauseDispense \/ CancelInDx
             \/ BackToPaused \/ \E d \in DX : DoIdleState(d)
    <3>1. state' # "DISPENSING" /\ prod' = prod
      BY <2>5 DEF Abandon, GotoIdle, PauseTimeOut, StopInDx, DispenseComplete, PrintAndFinish,
         ConfirmAmount, ConfirmStart, GotoWaitTrigger, Cancel, GotoCancel, ResumeSelection,
         DoIdleState, GotoActivated, PauseDispense, CancelInDx, BackToPaused, Enter, nvmVars
    <3> QED BY <3>1, <1>1
  <2> QED
    BY <1>4, <2>1, <2>2, <2>3, <2>4, <2>5 DEF Process
<1>5. CASE PowerLoss
  BY <1>5, <1>0, <1>2 DEF PowerLoss, TypeOK
<1>6. CASE (\E d \in 0 .. MaxLoop : Begin(d)) \/ UNCHANGED vars
  BY <1>6, <1>1 DEF Begin, vars, sessionVars, pourVars, nvmVars
<1> QED
  BY <1>3, <1>4, <1>5, <1>6 DEF Next

(* A press that goes on after a measurement is shorter than the bound.     *)
LEMMA BelowCap ==
  ASSUME CapFillsAll, Inv, RateInv, ChosenInv, TooEarly \/ DispenseProgress, Measurable
  PROVE  pour + time_at_pause <= PourCap /\ Delta = pour + time_at_pause
<1>0. /\ TypeOK /\ pour \in Int /\ time_at_pause \in Int /\ PourCap \in Nat /\ MinDelta \in Nat
  BY ConstantTypes DEF Inv, TypeOK
<1>1. SUFFICES ASSUME pour + time_at_pause > PourCap PROVE FALSE
  BY <1>0 DEF Delta, LeastOf
<1>2. Delta = PourCap
  BY <1>0, <1>1 DEF Delta, LeastOf
<1>3. DispenseProgress
  BY <1>0, <1>2 DEF TooEarly, CapFillsAll
<1>4. state = "DISPENSING" /\ ~(NewMl >= TargetMl)
  BY <1>3 DEF DispenseProgress, Dispensing, Switch, DispenseDone
<1>5. dx \in DX /\ dx # 0 /\ flow_rate \in RatesOf(dx)
  BY <1>0, <1>4 DEF Inv, SessionMatchesState, TypeOK, RateInv, DX
<1>6. PICK t \in TablesOf(dx) : selected \in Entry(t[amount_index])
  BY <1>5 DEF ChosenInv
<1>7. amount_index \in Amounts /\ t[amount_index] \in Pair
  BY <1>0, <1>5, ConstantsAssumption DEF TablesOf, TypeOK, ProductType, TableType
<1>8. NewMl >= t[amount_index].ml /\ NewMl >= 1
  BY <1>2, <1>5, <1>7 DEF CapFillsAll, NewMl
<1>9. TargetMl \in {t[amount_index].ml, 1}
  BY <1>6, <1>7 DEF TargetMl, Entry, Pair
<1> QED
  BY <1>4, <1>8, <1>9

(* The times of a pour, step by step.                                      *)
LEMMA FlowStep ==
  ASSUME OnlyConfig, CapFillsAll, Inv, RateInv, ChosenInv, CountedInv, FlowInv, [Next]_vars
  PROVE  CountedInv' /\ FlowInv'
<1>0. /\ TypeOK /\ queued = state /\ (motor.running => state = "DISPENSING")
      /\ pour \in Int /\ time_delta \in Int /\ time_at_pause \in Int /\ late \in Nat
      /\ PourCap \in Nat /\ MaxLoop \in Nat /\ MinDelta \in Nat
  BY ConstantTypes DEF Inv, SessionMatchesState, MotorMatchesState, TypeOK
<1>1. ASSUME pc' = "start", time_delta' = time_delta, state' \notin Poured
      PROVE  CountedInv' /\ FlowInv'
  BY <1>1 DEF CountedInv, FlowInv, Poured
<1>2. ASSUME NEW lock \in BOOLEAN, Reboot(lock) PROVE CountedInv' /\ FlowInv'
  BY <1>0, <1>2 DEF Reboot, CountedInv, FlowInv
<1>3. ASSUME pc = "serial", pc' = "switch", late' = late, state' = state, ahead' = ahead,
             time_delta' = time_delta, time_at_pause' = time_at_pause, pour' = pour
      PROVE  CountedInv' /\ FlowInv'
  BY <1>3 DEF CountedInv, FlowInv, LoopOf
<1>4. CASE DoCheckSerial
  <2>1. ~Command("raw_stream") /\ ~Command("sim_dx") /\ ~Command("motors_runtime")
        /\ ~Command("motors_stop")
    BY DEF OnlyConfig, ConfigCommands, Command
  <2>2. CASE CmdReset \/ CmdLock \/ CmdUnlock
    BY <2>2, <1>0, <1>2 DEF CmdReset, CmdLock, CmdUnlock, TypeOK
  <2>3. CASE CmdWithoutEffect \/ (\E r \in Rates : CmdFlowRate(r))
             \/ \E d \in DX, t \in Tables : CmdProductTable(d, t)
    BY <2>3, <1>3 DEF CmdWithoutEffect, CmdFlowRate, CmdProductTable, Command, ToSwitch, pourVars
  <2> QED
    BY <1>4, <2>1, <2>2, <2>3 DEF DoCheckSerial, CmdPrintRaw, CmdPrintSimDx,
       CmdMotorsRuntime, CmdMotorsStop
<1>5. CASE Process
  <2>1. CASE DispensePanic
    BY <2>1, <1>0, <1>2 DEF DispensePanic, TypeOK
  <2>2. CASE \/ Abandon \/ PauseTimeOut \/ StopInDx \/ ConfirmAmount \/ ConfirmStart
             \/ GotoWaitTrigger \/ Cancel \/ ResumeSelection \/ \E d \in DX : DoIdleState(d)
    <3>1. pc' = "start" /\ time_delta' = time_delta /\ state' \notin Poured
      BY <2>2 DEF Abandon, GotoIdle, PauseTimeOut, StopInDx, PrintAndFinish,
         ConfirmAmount, ConfirmStart, GotoWaitTrigger, Cancel, GotoCancel, ResumeSelection,
         DoIdleState, GotoActivated, Enter, Poured, pourVars
    <3> QED BY <3>1, <1>1
  <2>3. CASE IgnoredButton \/ NothingToDo \/ \E b \in Buttons : ChangeAmount(b)
    <3>1. /\ pc' = "start" /\ time_delta' = time_delta /\ time_at_pause' = time_at_pause
          /\ state' = state /\ state # "DISPENSING"
      BY <2>3, <1>0 DEF IgnoredButton, NothingToDo, ChangeAmount, Switch, Stay, Enter, pourVars
    <3> QED BY <3>1 DEF CountedInv, FlowInv
  <2>4. CASE EndMotorTest
    BY <2>4, <1>0 DEF EndMotorTest, MotorTestOver, Switch
  <2>5. CASE CancelInDx \/ BackToPaused
    <3>1. /\ pc' = "start" /\ time_delta' = time_delta /\ time_at_pause' = time_at_pause
          /\ state \in {"PAUSED", "CANCEL_IN_DX"} /\ state' \in {"PAUSED", "CANCEL_IN_DX"}
      BY <2>5 DEF CancelInDx, BackToPaused, GotoCancel, Switch, Enter, pourVars
    <3> QED BY <3>1 DEF CountedInv, FlowInv
  <2>6. CASE PauseDispense
    BY <2>6 DEF PauseDispense, Enter, CountedInv, FlowInv
  <2>7. CASE StartDispense
    <3>1. /\ pc' = "start" /\ late' = late /\ pour' = 0 - late /\ time_delta' = time_delta
          /\ time_at_pause' = 0 /\ state' = "DISPENSING"
      BY <2>7 DEF StartDispense, Enter
    <3> QED BY <1>0, <3>1 DEF CountedInv, FlowInv, LoopOf
  <2>8. CASE ContinueDispense
    <3>1. /\ pc = "switch" /\ pc' = "start" /\ late' = late /\ pour' = 0 /\ time_delta' = time_delta
          /\ time_at_pause' = time_at_pause /\ state = "PAUSED" /\ state' = "DISPENSING"
      BY <2>8 DEF ContinueDispense, Switch, Enter
    <3> QED BY <1>0, <3>1 DEF CountedInv, FlowInv, LoopOf
  <2>9. CASE TooEarly \/ DispenseProgress
    <3>1. /\ pc = "switch" /\ pc' = "start" /\ late' = late /\ pour' = pour
          /\ time_at_pause' = time_at_pause /\ ahead' = ahead
          /\ state = "DISPENSING" /\ state' = "DISPENSING"
      BY <2>9, <1>0 DEF TooEarly, DispenseProgress, Dispensing, Switch, Stay, Enter
    <3>2. late = 0 /\ 0 <= time_at_pause /\ time_at_pause <= time_delta /\ time_delta <= PourCap
      BY <3>1 DEF CountedInv
    <3>3. CASE Measurable
      <4>1. pour + time_at_pause <= PourCap /\ Delta = pour + time_at_pause /\ pour > 0
        BY <2>9, <3>3, BelowCap DEF Measurable
      <4>2. time_delta' = Delta
        BY <2>9, <3>3 DEF TooEarly, DispenseProgress
      <4> QED BY <1>0, <3>1, <3>2, <4>1, <4>2 DEF CountedInv, FlowInv, LoopOf
    <3>4. CASE ~Measurable
      <4>1. time_delta' = time_delta /\ (pour <= 0 \/ "dispense" \in ahead)
        BY <1>0, <2>9, <3>4 DEF TooEarly, DispenseProgress, Measurable
      <4> QED BY <1>0, <3>1, <3>2, <4>1 DEF CountedInv, FlowInv, LoopOf
    <3> QED BY <3>3, <3>4
  <2>10. CASE DispenseComplete
    <3>1. /\ pc' = "start" /\ time_delta' = Delta /\ state' = "IDLE" /\ Delta >= MinDelta
      BY <2>10 DEF DispenseComplete, PrintAndFinish, Enter
    <3>2. Delta <= PourCap
      BY <1>0 DEF Delta, LeastOf
    <3> QED BY <1>0, <3>1, <3>2, MeasureTypes DEF CountedInv, FlowInv
  <2> QED
    BY <1>5, <2>1, <2>2, <2>3, <2>4, <2>5, <2>6, <2>7, <2>8, <2>9, <2>10 DEF Process
<1>6. CASE PowerLoss
  BY <1>6, <1>0, <1>2 DEF PowerLoss, TypeOK
<1>7. ASSUME NEW d \in 0 .. MaxLoop, Begin(d) PROVE CountedInv' /\ FlowInv'
  <2>1. /\ pc = "start" /\ pc' # "start" /\ late' = 0 /\ pour' = LeastOf(pour + late + d, PourCap)
        /\ time_delta' = time_delta /\ time_at_pause' = time_at_pause /\ state' = state
        /\ ahead' \in {ahead, Starts}
    BY <1>7 DEF Begin
  <2>2. pour' <= pour + late + d /\ pour' \in Int /\ d <= MaxLoop /\ d \in Nat
    BY <1>0, <2>1 DEF LeastOf
  <2>3. "dispense" \notin ahead' => "dispense" \notin ahead
    BY <2>1 DEF Starts
  <2> QED BY <1>0, <2>1, <2>2, <2>3 DEF CountedInv, FlowInv, LoopOf
<1>8. CASE UNCHANGED vars
  BY <1>8 DEF vars, loopVars, pourVars, CountedInv, FlowInv, LoopOf
<1> QED
  BY <1>4, <1>5, <1>6, <1>7, <1>8 DEF Next

(* Product flows uncounted for at most one loop per press of the trigger,  *)
(* if millis() does not overflow in it.                                    *)
THEOREM UncountedPourAlways ==
  OnlyConfig /\ CapFillsAll => (Spec => []UncountedPourBounded)
<1> SUFFICES ASSUME OnlyConfig, CapFillsAll PROVE Spec => []UncountedPourBounded
  OBVIOUS
<1> DEFINE J == Inv /\ TableInv /\ ChosenInv /\ RateInv /\ CountedInv /\ FlowInv
<1>1. Init => J
  <2> SUFFICES ASSUME Init PROVE J
    OBVIOUS
  <2>1. prod.rate = InitProduct.rate /\ state \in {"IDLE", "LOCKED"}
    BY ConstantTypes DEF Init, LoadTable, ProductType
  <2>2. RateInv
    BY <2>1 DEF RateInv, RatesOf
  <2>3. CountedInv /\ FlowInv
    BY <2>1, ConstantTypes DEF Init, CountedInv, FlowInv
  <2> QED BY <2>2, <2>3, InitInv, InitSession
<1>2. J /\ [Next]_vars => J'
  <2>1. TableInv /\ UNCHANGED vars => TableInv'
    BY DEF vars, nvmVars, TableInv
  <2> QED BY <2>1, InvStep, TableStep, ChosenStep, RateStep, FlowStep DEF Inv
<1>3. J => UncountedPourBounded
  <2> SUFFICES ASSUME J PROVE UncountedPourBounded
    OBVIOUS
  <2>1. /\ pour \in Int /\ late \in Nat /\ time_delta \in Int /\ time_at_pause \in Int
        /\ MaxLoop \in Nat
    BY ConstantTypes DEF Inv, TypeOK
  <2> QED BY <2>1 DEF FlowInv, LoopOf, UncountedPourBounded
<1> QED
  BY <1>1, <1>2, <1>3, PTL DEF Spec
=============================================================================
