-------------------------- MODULE DxContract_proofs --------------------------
(***************************************************************************)
(* The state machine implements DispenseContract, for every number of      *)
(* dispensers, every table, rate and period, as long as the technician     *)
(* keeps to configuration commands.                                        *)
(***************************************************************************)
EXTENDS DxStateMachine_proofs, FiniteSetTheorems

(* The strengthening: when the switch is reached, the events of the last   *)
(* call are forgotten and the restart is past; product is only measured in *)
(* a pour, and then there is some.                                         *)
Fresh == pc # "start" => coms = <<>> /\ rebooted = FALSE

Poured  == {"DISPENSING", "PAUSED", "CANCEL_IN_DX"}
Unmeasured == {"ACTIVE", "WAIT_BTN_GREEN", "WAIT_BEFORE_START", "WAIT_TRIGGER", "CANCEL"}

OwedInv == /\ state \in Unmeasured => measured = FALSE
           /\ state \in Poured /\ measured => dispensed.ml > 0

KInv == Inv /\ OnePumpAtATime /\ Fresh /\ OwedInv

-----------------------------------------------------------------------------
(* A measured volume is not 0.                                             *)
LEMMA SomeVolume ==
  ASSUME TypeOK, Delta >= MinDelta
  PROVE  NewMl > 0
<1>1. Delta \in Nat \ {0} /\ flow_rate \in Nat \ {0}
  BY MeasureTypes, ConstantsAssumption DEF TypeOK
<1>2. \A a, b \in Nat \ {0} : a * b \in Nat \ {0}
  OBVIOUS
<1>3. ASSUME NEW a \in Nat \ {0}, NEW b \in Nat \ {0} PROVE CeilDiv(a, b) > 0
  BY DEF CeilDiv
<1> QED
  BY <1>1, <1>2, <1>3, TickAssumption DEF NewMl, VolumeOf

(* An event adds its place to the reports if it is one.                    *)
LEMMA OneMore ==
  ASSUME NEW S, NEW s \in Seq(S), NEW e \in S
  PROVE  Reported(Append(s, e)) = IF e.event = "Finished" THEN Reported(s) \cup {Len(s) + 1}
                                                          ELSE Reported(s)
<1>1. /\ DOMAIN Append(s, e) = 1 .. Len(s) + 1 /\ DOMAIN s = 1 .. Len(s) /\ Len(s) \in Nat
      /\ Append(s, e)[Len(s) + 1] = e
      /\ \A i \in 1 .. Len(s) : Append(s, e)[i] = s[i]
  OBVIOUS
<1>2. \A i : i \in 1 .. Len(s) + 1 <=> i \in 1 .. Len(s) \/ i = Len(s) + 1
  BY <1>1
<1> QED
  BY <1>1, <1>2 DEF Reported

(* The reports among at most two events.                                   *)
LEMMA Reports ==
  /\ Cardinality(Reported(<<>>)) = 0
  /\ \A e : Cardinality(Reported(Append(<<>>, e))) = IF e.event = "Finished" THEN 1 ELSE 0
  /\ \A d, e : d.event # "Finished" /\ e.event = "Finished"
               => Cardinality(Reported(Append(Append(<<>>, d), e))) = 1
<1>1. Reported(<<>>) = {}
  BY DEF Reported
<1>2. ASSUME NEW S, NEW e \in S
      PROVE  /\ Reported(Append(<<>>, e)) = IF e.event = "Finished" THEN {1} ELSE {}
             /\ Append(<<>>, e) \in Seq(S) /\ Len(Append(<<>>, e)) = 1
  <2>1. <<>> \in Seq(S) /\ Len(<<>>) = 0
    OBVIOUS
  <2>2. Append(<<>>, e) \in Seq(S) /\ Len(Append(<<>>, e)) = 1
    BY <2>1
  <2>3. Reported(Append(<<>>, e)) = IF e.event = "Finished" THEN Reported(<<>>) \cup {Len(<<>>) + 1}
                                                            ELSE Reported(<<>>)
    BY <2>1, OneMore, Zenon
  <2>4. {} \cup {0 + 1} = {1}
    OBVIOUS
  <2> QED BY <1>1, <2>1, <2>2, <2>3, <2>4
<1>3. ASSUME NEW e
      PROVE  Cardinality(Reported(Append(<<>>, e))) = IF e.event = "Finished" THEN 1 ELSE 0
  <2>1. Reported(Append(<<>>, e)) = IF e.event = "Finished" THEN {1} ELSE {}
    BY <1>2, e \in {e}
  <2> QED BY <2>1, FS_EmptySet, FS_Singleton
<1>4. ASSUME NEW d, NEW e, d.event # "Finished", e.event = "Finished"
      PROVE  Cardinality(Reported(Append(Append(<<>>, d), e))) = 1
  <2> DEFINE s == Append(<<>>, d)
  <2>1. Reported(s) = {} /\ s \in Seq({d, e}) /\ Len(s) = 1
    BY <1>2, <1>4, d \in {d, e}
  <2> HIDE DEF s
  <2>2. Reported(Append(s, e)) = {2}
    <3>1. Reported(Append(s, e)) = Reported(s) \cup {Len(s) + 1}
      BY <1>4, <2>1, OneMore, e \in {d, e}, Zenon
    <3>2. {} \cup {1 + 1} = {2}
      OBVIOUS
    <3> QED BY <2>1, <3>1, <3>2
  <2>3. Cardinality(Reported(Append(s, e))) = 1
    BY <2>2, FS_Singleton
  <2> QED BY <2>3 DEF s
<1> QED
  BY <1>1, <1>3, <1>4, FS_EmptySet

(* The pump of the contract is the one of the dispenser that dispenses.    *)
Nozzle(m) == IF Pouring(m) THEN m.dx ELSE 0

LEMMA NozzleServes ==
  ASSUME NEW m \in MotorType, Sane(m), NEW d \in 0 .. NumDx, NEW s,
         m.on = IF s = "DISPENSING" THEN {d} ELSE {},
         s = "DISPENSING" => m.running /\ m.fwd
  PROVE  Nozzle(m) = IF s = "DISPENSING" THEN d ELSE 0
BY DEF Nozzle, Pouring, Sane, MotorType

(* What the states mean, one by one.                                       *)
LEMMA PhasesOf ==
  /\ PhaseOf("LOCKED") = "off" /\ PhaseOf("IDLE") = "free"
  /\ PhaseOf("ACTIVE") = "choosing" /\ PhaseOf("WAIT_BTN_GREEN") = "choosing"
  /\ PhaseOf("CANCEL") = "choosing"
  /\ PhaseOf("WAIT_BEFORE_START") = "armed" /\ PhaseOf("WAIT_TRIGGER") = "armed"
  /\ PhaseOf("DISPENSING") = "pouring"
  /\ PhaseOf("PAUSED") = "held" /\ PhaseOf("CANCEL_IN_DX") = "held"
BY DEF PhaseOf
-----------------------------------------------------------------------------
(* The strengthening is inductive.                                         *)
LEMMA FreshStep ==
  ASSUME OnlyConfig, Fresh, [Next]_vars
  PROVE  Fresh'
<1>1. CASE DoCheckSerial
  <2>1. ~Command("raw_stream") /\ ~Command("sim_dx") /\ ~Command("motors_runtime")
        /\ ~Command("motors_stop")
    BY DEF OnlyConfig, ConfigCommands, Command
  <2>2. CASE CmdReset \/ CmdLock \/ CmdUnlock
    BY <2>2 DEF CmdReset, CmdLock, CmdUnlock, Reboot, Fresh
  <2>3. CASE CmdWithoutEffect \/ (\E r \in Rates : CmdFlowRate(r))
             \/ \E d \in DX, t \in Tables : CmdProductTable(d, t)
    BY <2>3 DEF CmdWithoutEffect, CmdFlowRate, CmdProductTable, Command, ToSwitch, outVars, Fresh
  <2> QED
    BY <1>1, <2>1, <2>2, <2>3 DEF DoCheckSerial, CmdPrintRaw, CmdPrintSimDx,
       CmdMotorsRuntime, CmdMotorsStop
<1>2. CASE Process
  <2>1. pc' = "start"
    BY <1>2 DEF Process, DoIdleState, ChangeAmount, ConfirmAmount, ConfirmStart,
       GotoWaitTrigger, Cancel, ResumeSelection, Abandon, StartDispense, ContinueDispense,
       TooEarly, DispenseProgress, DispenseComplete, DispensePanic, PauseDispense, PauseTimeOut,
       CancelInDx, BackToPaused, StopInDx, EndMotorTest, IgnoredButton, NothingToDo,
       GotoActivated, GotoCancel, GotoIdle, PrintAndFinish, Stay, Enter, Reboot
  <2> QED BY <2>1 DEF Fresh
<1>3. CASE PowerLoss
  BY <1>3 DEF PowerLoss, Reboot, Fresh
<1>4. CASE \E d \in 0 .. MaxLoop : Begin(d)
  BY <1>4 DEF Begin, Fresh
<1>5. CASE UNCHANGED vars
  BY <1>5 DEF vars, loopVars, outVars, Fresh
<1> QED
  BY <1>1, <1>2, <1>3, <1>4, <1>5 DEF Next

LEMMA OwedStep ==
  ASSUME OnlyConfig, Inv, OwedInv, [Next]_vars
  PROVE  OwedInv'
<1>0. TypeOK /\ queued = state /\ (motor.running => state = "DISPENSING")
  BY DEF Inv, SessionMatchesState, MotorMatchesState
<1>1. ASSUME state' \in {"IDLE", "LOCKED"} PROVE OwedInv'
  BY <1>1 DEF OwedInv, Unmeasured, Poured
<1>2. ASSUME measured' = measured, dispensed' = dispensed,
             state' \in Unmeasured => state \in Unmeasured,
             state' \in Poured => state \in Poured \cup Unmeasured
      PROVE  OwedInv'
  BY <1>2 DEF OwedInv
<1>3. CASE DoCheckSerial
  <2>1. ~Command("raw_stream") /\ ~Command("sim_dx") /\ ~Command("motors_runtime")
        /\ ~Command("motors_stop")
    BY DEF OnlyConfig, ConfigCommands, Command
  <2>2. CASE CmdReset \/ CmdLock \/ CmdUnlock
    BY <2>2, <1>1 DEF CmdReset, CmdLock, CmdUnlock, Reboot
  <2>3. CASE CmdWithoutEffect \/ (\E r \in Rates : CmdFlowRate(r))
             \/ \E d \in DX, t \in Tables : CmdProductTable(d, t)
    BY <2>3, <1>2 DEF CmdWithoutEffect, CmdFlowRate, CmdProductTable, pourVars
  <2> QED
    BY <1>3, <2>1, <2>2, <2>3 DEF DoCheckSerial, CmdPrintRaw, CmdPrintSimDx,
       CmdMotorsRuntime, CmdMotorsStop
<1>4. CASE Process
  <2>1. CASE DispensePanic
    BY <2>1, <1>1 DEF DispensePanic, Reboot
  <2>2. CASE Abandon \/ PauseTimeOut \/ StopInDx \/ DispenseComplete
    BY <2>2, <1>1 DEF Abandon, GotoIdle, PauseTimeOut, StopInDx, DispenseComplete,
       PrintAndFinish, Enter
  <2>3. CASE \E d \in DX : DoIdleState(d)
    BY <2>3 DEF DoIdleState, GotoActivated, Enter, OwedInv, Poured
  <2>4. CASE DispenseProgress
    <3>1. state' = "DISPENSING" /\ dispensed'.ml = NewMl /\ Delta >= MinDelta
      BY <2>4, <1>0 DEF DispenseProgress, Dispensing, Switch, Stay, Enter
    <3> QED BY <3>1, <1>0, SomeVolume DEF OwedInv, Unmeasured
  <2>5. CASE EndMotorTest
    BY <2>5, <1>0 DEF EndMotorTest, MotorTestOver, Switch
  <2>6. CASE TooEarly \/ IgnoredButton \/ NothingToDo \/ \E b \in Buttons : ChangeAmount(b)
    BY <2>6, <1>0, <1>2 DEF TooEarly, IgnoredButton, NothingToDo, ChangeAmount, Stay, Enter, pourVars
  <2>7. CASE ConfirmAmount \/ ConfirmStart \/ GotoWaitTrigger \/ Cancel \/ ResumeSelection
             \/ StartDispense \/ ContinueDispense \/ PauseDispense \/ CancelInDx \/ BackToPaused
    <3>1. measured' = measured /\ dispensed' = dispensed
      BY <2>7 DEF ConfirmAmount, ConfirmStart, GotoWaitTrigger, Cancel, ResumeSelection,
         StartDispense, ContinueDispense, PauseDispense, CancelInDx, BackToPaused, pourVars
    <3>2. \/ state \in Unmeasured /\ state' \in Unmeasured \cup Poured
          \/ state \in Poured /\ state' \in Poured
      BY <2>7 DEF ConfirmAmount, ConfirmStart, GotoWaitTrigger, Cancel, ResumeSelection,
         StartDispense, ContinueDispense, PauseDispense, CancelInDx, BackToPaused,
         GotoActivated, GotoCancel, Switch, Enter, Unmeasured, Poured
    <3>3. Unmeasured \cap Poured = {}
      BY DEF Unmeasured, Poured
    <3> QED BY <3>1, <3>2, <3>3, <1>2
  <2> QED
    BY <1>4, <2>1, <2>2, <2>3, <2>4, <2>5, <2>6, <2>7 DEF Process
<1>5. CASE PowerLoss
  BY <1>5, <1>1 DEF PowerLoss, Reboot
<1>6. CASE (\E d \in 0 .. MaxLoop : Begin(d)) \/ UNCHANGED vars
  BY <1>6, <1>2 DEF Begin, vars, pourVars
<1> QED
  BY <1>3, <1>4, <1>5, <1>6 DEF Next

(* So the strengthening holds in every behaviour.                          *)
LEMMA KInvStep == OnlyConfig /\ KInv /\ [Next]_vars => KInv'
<1> SUFFICES ASSUME OnlyConfig, KInv, [Next]_vars PROVE KInv'
  OBVIOUS
<1>1. Inv' /\ Fresh' /\ OwedInv'
  BY InvStep, FreshStep, OwedStep DEF KInv
<1>2. OnePumpAtATime'
  BY OnePumpStep DEF KInv, Inv
<1> QED
  BY <1>1, <1>2 DEF KInv

LEMMA InitKInv == Init => KInv
<1> SUFFICES ASSUME Init PROVE KInv
  OBVIOUS
<1>1. Inv
  BY InitInv
<1>2. OnePumpAtATime /\ Fresh /\ OwedInv
  BY DEF Init, OnePumpAtATime, MotorOff, Fresh, OwedInv, Unmeasured, Poured
<1> QED
  BY <1>1, <1>2 DEF KInv
-----------------------------------------------------------------------------
(* The refinement.  Steps of the contract in terms of the machine.         *)
Owed == measured /\ dx # 0

Count == Cardinality(Reported(coms))

CStep == [Contract!CNext]_(Contract!cvars)

LEMMA Mapping ==
  ASSUME KInv
  PROVE  /\ Nozzle(motor) = IF state = "DISPENSING" THEN dx ELSE 0
         /\ state \in {"IDLE", "LOCKED"} <=> dx = 0
         /\ pc # "start" => Count = 0 /\ rebooted = FALSE
<1>1. Nozzle(motor) = IF state = "DISPENSING" THEN dx ELSE 0
  BY NozzleServes DEF KInv, Inv, TypeOK, MotorMatchesState, OnePumpAtATime, Sane
<1>2. pc # "start" => Count = 0 /\ rebooted = FALSE
  BY Reports DEF KInv, Fresh, Count
<1> QED
  BY <1>1, <1>2 DEF KInv, Inv, SessionMatchesState

(* A step the contract does not see.                                       *)
LEMMA Unseen ==
  ASSUME KInv, KInv', PhaseOf(state') = PhaseOf(state), dx' = dx, Nozzle(motor)' = Nozzle(motor),
         Owed' = Owed, Count' = Count, rebooted' = rebooted
  PROVE  CStep
BY DEF CStep, Contract!cvars, Nozzle, Owed, Count

(* A restart, in whatever state it happens.                                *)
LEMMA RestartMaps ==
  ASSUME NEW lock \in BOOLEAN, Reboot(lock)
  PROVE  CStep
<1>1. /\ state' \in {"IDLE", "LOCKED"} /\ dx' = 0 /\ motor' = MotorOff /\ measured' = FALSE
      /\ coms' = <<>> /\ rebooted' = TRUE
  BY DEF Reboot
<1>2. PhaseOf(state') \in {"off", "free"} /\ Nozzle(motor') = 0 /\ Count' = 0 /\ Owed' = FALSE
  BY <1>1, PhasesOf, Reports DEF Nozzle, Pouring, MotorOff, Count, Owed
<1>3. Contract!Restart
  BY <1>1, <1>2 DEF Contract!Restart, Nozzle, Count, Owed
<1> QED
  BY <1>3 DEF CStep, Contract!CNext

(* The handlers of the switch, which is only reached with no event of the  *)
(* last call left: each is a step of the contract, or nothing to it.       *)
LEMMA ProcessMaps ==
  ASSUME KInv, KInv', Process
  PROVE  CStep
<1> USE PhasesOf
<1>0. /\ pc = "switch" /\ Count = 0 /\ coms = <<>> /\ rebooted = FALSE
      /\ queued = state /\ product = dx /\ loop_dx = dx
      /\ state \in {"IDLE", "LOCKED"} <=> dx = 0
      /\ Nozzle(motor) = IF state = "DISPENSING" THEN dx ELSE 0
      /\ (motor.running => state = "DISPENSING") /\ measured \in BOOLEAN
  <2>1. pc = "switch"
    BY DEF Process, DoIdleState, ChangeAmount, ConfirmAmount, ConfirmStart,
       GotoWaitTrigger, Cancel, ResumeSelection, Abandon, StartDispense, ContinueDispense,
       TooEarly, DispenseProgress, DispenseComplete, DispensePanic, PauseDispense, PauseTimeOut,
       CancelInDx, BackToPaused, StopInDx, EndMotorTest, IgnoredButton, NothingToDo,
       Dispensing, Switch
  <2> QED
    BY <2>1, Mapping DEF KInv, Inv, Fresh, SessionMatchesState, MotorMatchesState, TypeOK
<1>1. /\ Nozzle(motor') = IF state' = "DISPENSING" THEN dx' ELSE 0
      /\ state' \in {"IDLE", "LOCKED"} <=> dx' = 0
  <2>1. Nozzle(motor') = IF state' = "DISPENSING" THEN dx' ELSE 0
    BY NozzleServes DEF KInv, Inv, TypeOK, MotorMatchesState, OnePumpAtATime, Sane
  <2> QED BY <2>1 DEF KInv, Inv, SessionMatchesState
<1>2. ASSUME PhaseOf(state') = PhaseOf(state), dx' = dx, Nozzle(motor') = Nozzle(motor), measured' = measured,
             Count' = 0, rebooted' = rebooted
      PROVE  CStep
  BY <1>0, <1>2, Unseen DEF Owed, Nozzle
<1>3. ASSUME coms' = coms PROVE Count' = 0
  BY <1>0, <1>3, Reports DEF Count
<1>4. ASSUME NEW name, name # "Finished", NEW p, NEW sel, NEW g, NEW mine,
             coms' = Append(coms, Event(name, p, sel, g, mine))
      PROVE  Count' = 0
  <2>1. coms' = Append(<<>>, Event(name, p, sel, g, mine)) /\ Event(name, p, sel, g, mine).event # "Finished"
    BY <1>0, <1>4 DEF Event
  <2> HIDE DEF Event
  <2> QED BY <2>1, Reports DEF Count
<1>5. CASE DispensePanic
  BY <1>5, RestartMaps DEF DispensePanic, KInv, Inv, TypeOK
<1>6. CASE TooEarly \/ IgnoredButton \/ NothingToDo \/ \E b \in Buttons : ChangeAmount(b)
  <2>1. /\ state' = state /\ dx' = dx /\ motor' = motor /\ measured' = measured /\ coms' = coms
        /\ rebooted' = rebooted
    BY <1>0, <1>6 DEF TooEarly, IgnoredButton, NothingToDo, ChangeAmount, Stay, Enter, pourVars,
       motorVars, sessionVars, outVars
  <2> QED BY <2>1, <1>2, <1>3
<1>7. CASE EndMotorTest
  BY <1>0, <1>7 DEF EndMotorTest, MotorTestOver, Switch
<1>8. ASSUME NEW d \in DX, DoIdleState(d) PROVE CStep
  <2>1. /\ state = "IDLE" /\ state' = "ACTIVE" /\ dx' = d /\ measured' = FALSE
        /\ rebooted' = FALSE
    BY <1>0, <1>8 DEF DoIdleState, GotoActivated, Switch, Enter
  <2>2. Count' = 0
    BY <1>4, <1>8 DEF DoIdleState, GotoActivated
  <2>3. Nozzle(motor) = 0 /\ Nozzle(motor') = 0 /\ Owed = FALSE /\ Owed' = FALSE
    BY <1>0, <1>1, <2>1 DEF Owed
  <2>4. Contract!Choose(d)
    BY <2>1, <2>2, <2>3 DEF Contract!Choose, Contract!Go, Owed, Count, Nozzle
  <2> QED BY <2>4 DEF CStep, Contract!CNext
<1>9. CASE ConfirmAmount \/ GotoWaitTrigger \/ ResumeSelection \/ CancelInDx \/ BackToPaused
           \/ (Cancel /\ state # "WAIT_TRIGGER")
  <2>1. /\ PhaseOf(state') = PhaseOf(state) /\ state # "DISPENSING" /\ state' # "DISPENSING"
        /\ dx' = dx /\ measured' = measured /\ rebooted' = rebooted
    BY <1>9 DEF ConfirmAmount, GotoWaitTrigger, ResumeSelection, CancelInDx, BackToPaused, Cancel,
       GotoCancel, GotoActivated, Switch, Enter, sessionVars, pourVars
  <2>2. Count' = 0
    BY <1>3, <1>4, <1>9 DEF ConfirmAmount, GotoWaitTrigger, ResumeSelection, CancelInDx,
       BackToPaused, Cancel, GotoCancel, GotoActivated, Send, outVars
  <2> QED BY <2>1, <2>2, <1>0, <1>1, <1>2
<1>10. CASE ConfirmStart
  <2>1. /\ state = "WAIT_BTN_GREEN" /\ state' = "WAIT_BEFORE_START" /\ dx' = dx
        /\ measured' = measured /\ coms' = coms /\ rebooted' = FALSE
    BY <1>0, <1>10 DEF ConfirmStart, Switch, Enter, sessionVars, pourVars
  <2>2. Count' = 0 /\ Nozzle(motor') = Nozzle(motor) /\ Owed' = Owed
    BY <1>0, <1>1, <1>3, <2>1 DEF Owed
  <2>3. Contract!Arm
    BY <2>1, <2>2 DEF Contract!Arm, Contract!Go, Owed, Count, Nozzle
  <2> QED BY <2>3 DEF CStep, Contract!CNext
<1>11. CASE Cancel /\ state = "WAIT_TRIGGER"
  <2>1. /\ state = "WAIT_TRIGGER" /\ state' = "CANCEL" /\ dx' = dx
        /\ measured' = measured /\ rebooted' = FALSE
    BY <1>0, <1>11 DEF Cancel, GotoCancel, Switch, Enter, sessionVars, pourVars
  <2>2. Count' = 0
    BY <1>4, <1>11 DEF Cancel, GotoCancel, Send
  <2>3. Nozzle(motor') = Nozzle(motor) /\ Owed' = Owed
    BY <1>0, <1>1, <2>1 DEF Owed
  <2>4. Contract!Disarm
    BY <2>1, <2>2, <2>3 DEF Contract!Disarm, Contract!Go, Owed, Count, Nozzle
  <2> QED BY <2>4 DEF CStep, Contract!CNext
<1>12. CASE Abandon
  <2>1. /\ state \in {"ACTIVE", "WAIT_BTN_GREEN", "CANCEL"} /\ state' = "IDLE" /\ dx' = 0
        /\ coms' = coms /\ rebooted' = FALSE
    BY <1>0, <1>12 DEF Abandon, GotoIdle, ResetSession, Switch, Enter
  <2>2. measured = FALSE
    BY <2>1 DEF KInv, OwedInv, Unmeasured
  <2>3. Count' = 0 /\ Nozzle(motor') = Nozzle(motor) /\ Owed = FALSE /\ Owed' = FALSE
    BY <1>0, <1>1, <1>3, <2>1, <2>2 DEF Owed
  <2>4. Contract!Abandon
    BY <2>1, <2>3 DEF Contract!Abandon, Contract!Go, Owed, Count, Nozzle
  <2> QED BY <2>4 DEF CStep, Contract!CNext
<1>13. CASE StartDispense \/ ContinueDispense
  <2>1. /\ state \in {"WAIT_TRIGGER", "PAUSED"} /\ state' = "DISPENSING" /\ dx' = dx
        /\ measured' = measured /\ coms' = coms /\ rebooted' = FALSE
    BY <1>0, <1>13 DEF StartDispense, ContinueDispense, Switch, Enter, sessionVars, outVars
  <2>2. Count' = 0 /\ Nozzle(motor') = dx /\ Owed' = Owed
    BY <1>0, <1>1, <1>3, <2>1 DEF Owed
  <2>3. Contract!Pour
    BY <2>1, <2>2 DEF Contract!Pour, Contract!Go, Owed, Count, Nozzle
  <2> QED BY <2>3 DEF CStep, Contract!CNext
<1>14. CASE DispenseProgress
  <2>1. /\ state = "DISPENSING" /\ state' = "DISPENSING" /\ dx' = dx /\ dx # 0
        /\ measured' = TRUE /\ coms' = coms /\ rebooted' = FALSE
    BY <1>0, <1>14 DEF DispenseProgress, Dispensing, Switch, Stay, Enter
  <2>2. Count' = 0 /\ Nozzle(motor') = Nozzle(motor) /\ Owed' = TRUE
    BY <1>0, <1>1, <1>3, <2>1 DEF Owed
  <2>3. Contract!Measure
    BY <2>1, <2>2 DEF Contract!Measure, Contract!Go, Owed, Count, Nozzle
  <2> QED BY <2>3 DEF CStep, Contract!CNext
<1>15. CASE PauseDispense
  <2>1. /\ state = "DISPENSING" /\ state' = "PAUSED" /\ dx' = dx
        /\ measured' = measured /\ coms' = coms /\ rebooted' = FALSE
    BY <1>0, <1>15 DEF PauseDispense, Switch, Enter, sessionVars
  <2>2. Count' = 0 /\ Nozzle(motor') = 0 /\ Owed' = Owed
    BY <1>0, <1>1, <1>3, <2>1 DEF Owed
  <2>3. Contract!Hold
    BY <2>1, <2>2 DEF Contract!Hold, Contract!Go, Owed, Count, Nozzle
  <2> QED BY <2>3 DEF CStep, Contract!CNext
<1>16. ASSUME state \in {"DISPENSING", "PAUSED", "CANCEL_IN_DX"}, state' = "IDLE", dx' = 0, rebooted' = FALSE,
              Count' \in {0, 1}, Owed \/ state = "DISPENSING" => Count' = 1
       PROVE  CStep
  <2>1. Nozzle(motor') = 0 /\ Owed' = FALSE
    BY <1>1, <1>16 DEF Owed
  <2>2. PhaseOf(state) = "pouring" => state = "DISPENSING"
    BY <1>16
  <2>3. Contract!Settle
    BY <1>16, <2>1, <2>2 DEF Contract!Settle, Contract!Go, Owed, Count, Nozzle
  <2> QED BY <2>3 DEF CStep, Contract!CNext
<1>17. ASSUME NEW sel, NEW g, NEW m, NEW sent, NEW spent, NEW mine,
              PrintAndFinish(sel, g, m, sent, spent, mine)
       PROVE  /\ state' = "IDLE" /\ dx' = 0 /\ rebooted' = FALSE
              /\ coms' = IF g.ml > 0 THEN Append(sent, Event("Finished", product, sel, g, mine)) ELSE sent
  BY <1>0, <1>17 DEF PrintAndFinish, ResetSession, Enter
<1>18. \A p, sel, g, mine : /\ Event("Finished", p, sel, g, mine).event = "Finished"
                            /\ Event("Time Out", p, sel, g, mine).event # "Finished"
  BY DEF Event
<1>19. CASE DispenseComplete
  <2>1. PrintAndFinish(Target, Target, DrawBack(motor, dx), coms, ReverseDelay, TRUE)
    BY <1>19 DEF DispenseComplete, FullMeasure
  <2>2. Target.ml > 0 /\ state = "DISPENSING"
    <3>1. TargetMl # 0 /\ state = "DISPENSING" /\ Target.ml = TargetMl /\ TargetMl \in Nat
      BY <1>19, MeasureTypes DEF DispenseComplete, Dispensing, Switch, Target, KInv, Inv, TypeOK, Pair
    <3> QED BY <3>1
  <2>3. coms' = Append(<<>>, Event("Finished", product, Target, Target, TRUE))
    BY <1>0, <1>17, <2>1, <2>2
  <2>4. Count' = 1
    BY <1>18, <2>3, Reports DEF Count
  <2> QED BY <1>16, <1>17, <2>1, <2>2, <2>4
<1>20. Owed /\ state \in Poured => dispensed.ml > 0
  BY DEF Owed, KInv, OwedInv
<1>21. CASE StopInDx
  <2>1. PrintAndFinish(selected, dispensed, motor, coms, 0, measured) /\ state = "CANCEL_IN_DX"
    BY <1>21 DEF StopInDx, Switch
  <2>2. coms' = IF dispensed.ml > 0
                THEN Append(<<>>, Event("Finished", product, selected, dispensed, measured))
                ELSE <<>>
    BY <1>0, <1>17, <2>1
  <2>3. Count' = IF dispensed.ml > 0 THEN 1 ELSE 0
    BY <1>18, <2>2, Reports DEF Count
  <2> QED BY <1>16, <1>17, <1>20, <2>1, <2>3 DEF Poured
<1>22. CASE PauseTimeOut
  <2> DEFINE part == [ml |-> dispensed.ml, tk |-> 0]
             out  == Event("Time Out", product, selected, part, measured)
             fin  == Event("Finished", product, selected, dispensed, measured)
  <2>1. PrintAndFinish(selected, dispensed, motor, Append(coms, out), 0, measured) /\ state = "PAUSED"
    BY <1>22 DEF PauseTimeOut, Switch
  <2>2. out.event # "Finished" /\ fin.event = "Finished"
    BY <1>18
  <2>3. coms' = IF dispensed.ml > 0 THEN Append(Append(coms, out), fin) ELSE Append(coms, out)
    BY <1>17, <2>1
  <2> HIDE DEF out, fin
  <2>4. coms' = IF dispensed.ml > 0 THEN Append(Append(<<>>, out), fin) ELSE Append(<<>>, out)
    BY <1>0, <2>3
  <2>5. Count' = IF dispensed.ml > 0 THEN 1 ELSE 0
    BY <2>2, <2>4, Reports DEF Count
  <2> QED BY <1>16, <1>17, <1>20, <2>1, <2>5 DEF Poured
<1> QED
  BY <1>5, <1>6, <1>7, <1>8, <1>9, <1>10, <1>11, <1>12, <1>13, <1>14, <1>15, <1>19, <1>21, <1>22
     DEF Process

(* Commands and the start of a call are nothing to the contract, or a      *)
(* restart, or forget the report of the call before.                       *)
LEMMA StepMaps ==
  ASSUME OnlyConfig, KInv, KInv', [Next]_vars
  PROVE  CStep
<1>1. CASE DoCheckSerial
  <2>1. ~Command("raw_stream") /\ ~Command("sim_dx") /\ ~Command("motors_runtime")
        /\ ~Command("motors_stop")
    BY DEF OnlyConfig, ConfigCommands, Command
  <2>2. CASE CmdReset \/ CmdLock \/ CmdUnlock
    BY <2>2, RestartMaps DEF CmdReset, CmdLock, CmdUnlock, KInv, Inv, TypeOK
  <2>3. CASE CmdWithoutEffect \/ (\E r \in Rates : CmdFlowRate(r))
             \/ \E d \in DX, t \in Tables : CmdProductTable(d, t)
    <3>1. /\ state' = state /\ dx' = dx /\ motor' = motor /\ measured' = measured /\ coms' = coms
          /\ rebooted' = rebooted
      BY <2>3 DEF CmdWithoutEffect, CmdFlowRate, CmdProductTable, ToSwitch, sessionVars, pourVars,
         motorVars, outVars
    <3> QED BY <3>1, Unseen DEF Owed, Count, Nozzle
  <2> QED
    BY <1>1, <2>1, <2>2, <2>3 DEF DoCheckSerial, CmdPrintRaw, CmdPrintSimDx,
       CmdMotorsRuntime, CmdMotorsStop
<1>2. CASE Process
  BY <1>2, ProcessMaps
<1>3. CASE PowerLoss
  BY <1>3, RestartMaps DEF PowerLoss, KInv, Inv, TypeOK
<1>4. CASE \E d \in 0 .. MaxLoop : Begin(d)
  <2>1. /\ state' = state /\ dx' = dx /\ motor' = motor /\ measured' = measured /\ coms' = <<>>
        /\ rebooted' = FALSE
    BY <1>4 DEF Begin, sessionVars
  <2>2. Count' = 0
    BY <2>1, Reports DEF Count
  <2>3. Contract!Forget
    BY <2>1, <2>2 DEF Contract!Forget, Count
  <2> QED BY <2>3 DEF CStep, Contract!CNext
<1>5. CASE UNCHANGED vars
  <2>1. /\ state' = state /\ dx' = dx /\ motor' = motor /\ measured' = measured /\ coms' = coms
        /\ rebooted' = rebooted
    BY <1>5 DEF vars, loopVars, sessionVars, pourVars, motorVars, outVars
  <2> QED BY <2>1, Unseen DEF Owed, Count, Nozzle
<1> QED
  BY <1>1, <1>2, <1>3, <1>4, <1>5 DEF Next

(* The state machine keeps the customer's contract: pumps run only in      *)
(* armed sessions, for the dispenser served, and what is measured is       *)
(* reported exactly once on every way a session can end.                   *)
THEOREM ContractKept == OnlyConfig => (Spec => KeepsContract)
<1> SUFFICES ASSUME OnlyConfig PROVE Spec => KeepsContract
  OBVIOUS
<1>1. Init => KInv /\ Contract!CInit
  <2> SUFFICES ASSUME Init PROVE KInv /\ Contract!CInit
    OBVIOUS
  <2>1. /\ state \in {"IDLE", "LOCKED"} /\ dx = 0 /\ motor = MotorOff /\ measured = FALSE
        /\ coms = <<>> /\ rebooted = TRUE
    BY DEF Init
  <2>2. PhaseOf(state) \in {"off", "free"} /\ Nozzle(motor) = 0 /\ Count = 0
    BY <2>1, PhasesOf, Reports DEF Nozzle, Pouring, MotorOff, Count
  <2>3. Contract!CInit
    BY <2>1, <2>2 DEF Contract!CInit, Contract!AtRest, Nozzle, Count
  <2> QED BY <2>3, InitKInv
<1>2. KInv /\ [Next]_vars => KInv'
  BY KInvStep
<1>3. KInv /\ KInv' /\ [Next]_vars => [Contract!CNext]_(Contract!cvars)
  BY StepMaps DEF CStep
<1> QED
  BY <1>1, <1>2, <1>3, PTL DEF Spec, KeepsContract, Contract!CSpec
=============================================================================
