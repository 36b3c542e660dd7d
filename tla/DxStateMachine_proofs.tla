------------------------ MODULE DxStateMachine_proofs ------------------------
(***************************************************************************)
(* Theorems about DxStateMachine, for every number of dispensers, every    *)
(* table, rate and period.                                                 *)
(***************************************************************************)
EXTENDS DxStateMachine, TLAPS

-----------------------------------------------------------------------------
(* What the operators of DxMotors, DxTimer and DxProduct return.           *)

(* Stopping, running and drawing back keep a motor value a motor value.    *)
LEMMA MotorTypes ==
  ASSUME NEW m \in MotorType, NEW d \in 0 .. NumDx, NEW fwd \in BOOLEAN
  PROVE  /\ MotorOff \in MotorType
         /\ Stop(m) \in MotorType
         /\ PumpOf(d) \in DX
         /\ Run(m, d, fwd) \in MotorType
         /\ DrawBack(m, d) \in MotorType
<1>1. MotorOff \in MotorType
  BY NumDxAssumption DEF MotorOff, MotorType
<1>2. PumpOf(d) \in DX
  BY NumDxAssumption DEF PumpOf, DX
<1>3. \A n \in MotorType : Stop(n) \in MotorType
  BY DEF Stop, MotorType
<1>4. \A n \in MotorType, g \in BOOLEAN : Run(n, d, g) \in MotorType
  BY <1>2, NumDxAssumption DEF Run, MotorType, DX
<1> QED
  BY <1>1, <1>2, <1>3, <1>4 DEF DrawBack

(* Every operation of a timer returns a timer. *)
LEMMA TimerTypes ==
  ASSUME NEW t \in TimerType, NEW p \in Nat, NEW n \in Nat
  PROVE  /\ StartTimer(p, n) \in TimerType
         /\ RestartTimer(t, n) \in TimerType
         /\ ConsumePeriod(t) \in TimerType
         /\ AgeTimer(t, n) \in TimerType
BY DEF TimerType, StartTimer, RestartTimer, ConsumePeriod, AgeTimer, LeastOf

(* A volume or price rounded up is a natural number. *)
LEMMA CeilDivType ==
  ASSUME NEW a \in Nat, NEW b \in Nat \ {0}
  PROVE  CeilDiv(a, b) \in Nat
BY DEF CeilDiv

(* The product of two naturals is one. *)
LEMMA TimesType == \A a, b \in Nat : a * b \in Nat
OBVIOUS

(* Any index reads the row of a dispenser, and an amount of it. *)
LEMMA AmountTypes ==
  ASSUME NEW p \in ProductType, NEW d, NEW i
  PROVE  Row(d) \in DX /\ AmountOf(p, d, i) \in Pair /\ FlowRate(p, d) \in Nat \ {0}
<1>1. Row(d) \in DX
  BY NumDxAssumption DEF Row, DX
<1>2. (IF i \in Amounts THEN i ELSE 2) \in Amounts
  BY DEF Amounts
<1> QED
  BY <1>1, <1>2 DEF AmountOf, FlowRate, ProductType, TableType, RateType

(* The volume of a time is a natural number. *)
LEMMA VolumeType ==
  ASSUME NEW t \in Nat, NEW r \in Nat \ {0}
  PROVE  VolumeOf(t, r) \in Nat
BY TimesType, CeilDivType, TickAssumption DEF VolumeOf

(* Some amount of the table brackets every volume, so its price is one the *)
(* table or a ratio gives.                                                 *)
LEMMA PriceType ==
  ASSUME NEW p \in ProductType, NEW d, NEW ml \in Nat
  PROVE  PriceOfVolume(p, d, ml) \in Nat
<1>1. Row(d) \in DX
  BY AmountTypes
<1>2. /\ p.table[Row(d)] \in [Amounts -> Pair]
      /\ p.ratio[Row(d)] \in [Amounts -> Ratio]
  BY <1>1 DEF ProductType, TableType
<1>3. Bracket(p, d, ml) \in Amounts
  <2> DEFINE tb == p.table[Row(d)]
             P(i) == ml <= tb[i].ml /\ \A j \in Amounts : j < i => ml > tb[j].ml
  <2>1. \A i \in Amounts : tb[i].ml \in Nat
    BY <1>2 DEF Pair
  <2>2. ASSUME \E i \in Amounts : ml <= tb[i].ml
        PROVE  \E i \in Amounts : P(i)
    <3>1. CASE ml <= tb[0].ml
      BY <3>1, P(0) DEF Amounts
    <3>2. CASE ml > tb[0].ml /\ ml <= tb[1].ml
      <4>1. 1 \in Amounts /\ \A j \in Amounts : j < 1 => j = 0
        BY DEF Amounts
      <4> QED BY <3>2, <4>1
    <3>3. CASE ml > tb[0].ml /\ ml > tb[1].ml /\ ml <= tb[2].ml
      <4>1. 2 \in Amounts /\ \A j \in Amounts : j < 2 => j \in {0, 1}
        BY DEF Amounts
      <4> QED BY <3>3, <4>1
    <3>4. Amounts = {0, 1, 2}
      BY DEF Amounts
    <3> QED BY <2>1, <2>2, <3>1, <3>2, <3>3, <3>4
  <2> HIDE DEF P
  <2>3. Bracket(p, d, ml) = IF \E i \in Amounts : ml <= tb[i].ml
                            THEN CHOOSE i \in Amounts : P(i) ELSE 2
    BY DEF Bracket, P
  <2>4. 2 \in Amounts
    BY DEF Amounts
  <2> QED BY <2>2, <2>3, <2>4
<1> DEFINE i == Bracket(p, d, ml)
<1>4. /\ p.table[Row(d)][i].tk \in Nat
      /\ p.ratio[Row(d)][i].tk \in Nat /\ p.ratio[Row(d)][i].ml \in Nat \ {0}
  BY <1>2, <1>3 DEF Pair, Ratio
<1>5. CeilDiv(p.ratio[Row(d)][i].tk * ml, p.ratio[Row(d)][i].ml) \in Nat
  BY <1>4, TimesType, CeilDivType
<1> QED
  BY <1>4, <1>5 DEF PriceOfVolume

(* Loading and configuring the product tables keeps them typed; a ratio is *)
(* never taken of a volume of 0.                                           *)
LEMMA ProductTypes ==
  ASSUME NEW p \in ProductType
  PROVE  /\ LoadTable(p) \in ProductType
         /\ \A d \in DX, t \in [Amounts -> Pair] : SetTable(p, d, t) \in ProductType
         /\ \A r \in RateType : SetFlowRate(p, r) \in ProductType
<1>1. CalcPriceRatios(p.table, p.ratio) \in [DX -> [Amounts -> Ratio]]
  <2>1. ASSUME NEW d \in DX, NEW i \in Amounts
        PROVE  p.table[d][i] \in Pair /\ p.ratio[d][i] \in Ratio
    BY DEF ProductType, TableType
  <2> QED BY <2>1 DEF CalcPriceRatios, Pair, Ratio
<1>2. LoadTable(p) \in ProductType
  BY <1>1 DEF LoadTable, ProductType
<1>3. ASSUME NEW d \in DX, NEW t \in [Amounts -> Pair]
      PROVE  SetTable(p, d, t) \in ProductType
  BY AmountTypes DEF SetTable, ProductType, TableType
<1>4. ASSUME NEW r \in RateType PROVE SetFlowRate(p, r) \in ProductType
  BY DEF SetFlowRate, ProductType
<1> QED BY <1>2, <1>3, <1>4
-----------------------------------------------------------------------------
(* Type correctness.                                                       *)

(* The constants that are periods, delays and configurations have the type *)
(* the operations above ask for, and so have the initial values.           *)
LEMMA ConstantTypes ==
  /\ PeriodBeforeStart \in Nat /\ PeriodPause \in Nat
  /\ PeriodWaitEvent \in Nat /\ PeriodUpdate \in Nat
  /\ MinDelta \in Nat /\ ReverseDelay \in Nat /\ CompletedDelay \in Nat
  /\ PourCap \in Nat /\ MaxLoop \in Nat /\ TicksPerSecond \in Nat \ {0}
  /\ Zero \in Pair /\ StartTimer(0, 0) \in TimerType /\ MotorOff \in MotorType
  /\ LoadTable(InitProduct) \in ProductType
  /\ 0 \in 0 .. NumDx /\ 0 \in Amounts
<1>1. Zero \in Pair /\ 0 \in Amounts /\ 0 \in 0 .. NumDx
  BY NumDxAssumption DEF Zero, Pair, Amounts
<1>2. StartTimer(0, 0) \in TimerType
  BY DEF StartTimer, TimerType
<1>3. MotorOff \in MotorType
  BY NumDxAssumption DEF MotorOff, MotorType
<1>4. LoadTable(InitProduct) \in ProductType
  BY ProductTypes, ConstantsAssumption
<1> QED
  BY <1>1, <1>2, <1>3, <1>4, ConstantsAssumption, TickAssumption

(* The typed values an event carries make it an event. *)
LEMMA EventTypes ==
  ASSUME NEW name \in EventNames, NEW p \in 0 .. NumDx, NEW s \in Pair, NEW g \in Pair,
         NEW b \in BOOLEAN, NEW q \in Seq(EventType)
  PROVE  Append(q, Event(name, p, s, g, b)) \in Seq(EventType)
BY DEF Event, EventType

(* The machine comes out of its initial state, and of every restart, typed. *)
LEMMA InitTypeOK == Init => TypeOK
<1> SUFFICES ASSUME Init PROVE TypeOK
  OBVIOUS
<1>1. state \in States /\ queued \in States /\ screen \in Screens
  BY DEF Init, States, Screens
<1>2. locked \in BOOLEAN /\ measured \in BOOLEAN /\ rebooted \in BOOLEAN
  BY DEF Init
<1>3. ahead \subseteq Starts /\ coms \in Seq(EventType)
  BY DEF Init
<1> QED
  BY <1>1, <1>2, <1>3, ConstantTypes DEF Init, TypeOK

LEMMA RebootTypeOK ==
  ASSUME TypeOK, NEW lock \in BOOLEAN, Reboot(lock)
  PROVE  TypeOK'
<1>1. state' \in States /\ queued' \in States /\ screen' \in Screens
  BY DEF Reboot, States, Screens
<1>2. locked' \in BOOLEAN /\ measured' \in BOOLEAN /\ rebooted' \in BOOLEAN
  BY DEF Reboot
<1>3. ahead' \subseteq Starts /\ coms' \in Seq(EventType)
  BY DEF Reboot
<1>4. prod' \in ProductType
  <2> DEFINE p == [prod EXCEPT !.ratio = InitProduct.ratio]
  <2>1. p \in ProductType
    BY ConstantsAssumption DEF ProductType, TypeOK
  <2>2. prod' = LoadTable(p)
    BY DEF Reboot
  <2> HIDE DEF p
  <2> QED BY <2>1, <2>2, ProductTypes
<1>5. /\ timer' \in TimerType /\ updateTimer' \in TimerType /\ test' \in TimerType
      /\ motor' \in MotorType
  BY ConstantTypes DEF Reboot
<1>6. /\ pc' \in {"start", "serial", "switch"} /\ late' \in Nat
      /\ loop_dx' \in 0 .. NumDx /\ dx' \in 0 .. NumDx /\ product' \in 0 .. NumDx
      /\ amount_index' \in Amounts /\ selected' \in Pair /\ dispensed' \in Pair
  BY ConstantTypes DEF Reboot
<1>7. /\ flow_rate' \in Nat \ {0}
      /\ time_delta' \in Int /\ time_at_pause' \in Int /\ pour' \in Int
  BY ConstantTypes DEF Reboot
<1> QED
  BY <1>1, <1>2, <1>3, <1>4, <1>5, <1>6, <1>7 DEF TypeOK

(* Starting a call of process() keeps the types. *)
LEMMA BeginTypeOK ==
  ASSUME TypeOK, NEW d \in 0 .. MaxLoop, Begin(d)
  PROVE  TypeOK'
<1>1. late + d \in Nat
  BY ConstantTypes DEF TypeOK
<1>2. /\ AgeTimer(timer, late + d) \in TimerType
      /\ AgeTimer(updateTimer, late + d) \in TimerType
      /\ AgeTimer(test, late + d) \in TimerType
  BY <1>1, TimerTypes DEF TypeOK
<1>3. LeastOf(pour + late + d, PourCap) \in Int
  BY ConstantTypes DEF TypeOK, LeastOf
<1>4. pc' \in {"start", "serial", "switch"} /\ late' \in Nat /\ loop_dx' \in 0 .. NumDx
  BY DEF TypeOK, Begin
<1>5. ahead' \subseteq Starts
  BY DEF TypeOK, Begin
<1>6. rebooted' \in BOOLEAN /\ measured' \in BOOLEAN /\ locked' \in BOOLEAN
  BY DEF TypeOK, Begin, nvmVars
<1>7. coms' \in Seq(EventType)
  BY DEF Begin
<1> QED
  BY <1>2, <1>3, <1>4, <1>5, <1>6, <1>7 DEF TypeOK, Begin, sessionVars, nvmVars

(* So does every serial command. *)
LEMMA SerialTypeOK ==
  ASSUME TypeOK, DoCheckSerial
  PROVE  TypeOK'
<1> USE DEF ToSwitch, sessionVars, pourVars, timerVars, motorVars, nvmVars, outVars
<1>1. CASE CmdWithoutEffect
  BY <1>1 DEF CmdWithoutEffect, TypeOK
<1>2. ASSUME NEW r \in Rates, CmdFlowRate(r) PROVE TypeOK'
  BY <1>2, ProductTypes, ConstantsAssumption DEF CmdFlowRate, TypeOK
<1>3. ASSUME NEW d \in DX, NEW t \in Tables, CmdProductTable(d, t) PROVE TypeOK'
  BY <1>3, ProductTypes, ConstantsAssumption DEF CmdProductTable, TypeOK
<1>4. ASSUME NEW on \in BOOLEAN, CmdPrintRaw(on) PROVE TypeOK'
  BY <1>4 DEF CmdPrintRaw, TypeOK, States
<1>5. ASSUME NEW d \in DX, NEW i \in Amounts, CmdPrintSimDx(d, i) PROVE TypeOK'
  <2> DEFINE g == AmountOf(prod, d, i)
  <2>1. g \in Pair /\ [ml |-> g.ml, tk |-> 0] \in Pair
    BY AmountTypes DEF TypeOK, Pair
  <2>2. Append(coms, Event("Finished", product, selected, g, FALSE)) \in Seq(EventType)
    BY <2>1, EventTypes DEF TypeOK, EventNames
  <2>3. Stop(motor) \in MotorType /\ late + CompletedDelay \in Nat
    BY MotorTypes, ConstantTypes DEF TypeOK
  <2> HIDE DEF g
  <2> QED
    BY <1>5, <2>1, <2>2, <2>3, ConstantTypes
    DEF CmdPrintSimDx, ResetSession, TypeOK, States, Screens, g
<1>6. ASSUME NEW d \in DX, NEW fwd \in BOOLEAN, NEW p \in TestPeriods, CmdMotorsRuntime(d, fwd, p)
      PROVE  TypeOK'
  <2>1. Run(motor, d, fwd) \in MotorType
    <3>1. motor \in MotorType /\ d \in 0 .. NumDx
      BY NumDxAssumption DEF TypeOK, DX
    <3> QED BY <3>1, MotorTypes
  <2>2. StartTimer(p, late) \in TimerType
    BY TimerTypes, ConstantsAssumption DEF TypeOK
  <2> QED
    BY <1>6, <2>1, <2>2 DEF CmdMotorsRuntime, TypeOK, States
<1>7. CASE CmdMotorsStop
  <2>1. Stop(motor) \in MotorType
    BY MotorTypes DEF TypeOK
  <2>2. [dispensed EXCEPT !.tk = 0] \in Pair
    BY DEF TypeOK, Pair
  <2>3. /\ motor' \in MotorType /\ queued' \in States /\ screen' \in Screens
        /\ dispensed' \in Pair
    BY <1>7, <2>1, <2>2 DEF CmdMotorsStop, ResetSession, TypeOK, States, Screens
  <2>4. /\ dx' \in 0 .. NumDx /\ product' \in 0 .. NumDx /\ amount_index' \in Amounts
        /\ selected' \in Pair
    BY <1>7, ConstantTypes DEF CmdMotorsStop, ResetSession, TypeOK
  <2> QED
    BY <1>7, <2>3, <2>4 DEF CmdMotorsStop, TypeOK
<1>8. CASE CmdReset
  BY <1>8, RebootTypeOK DEF CmdReset, TypeOK
<1>9. CASE CmdLock
  BY <1>9, RebootTypeOK DEF CmdLock
<1>10. CASE CmdUnlock
  BY <1>10, RebootTypeOK DEF CmdUnlock
<1> QED
  BY <1>1, <1>2, <1>3, <1>4, <1>5, <1>6, <1>7, <1>8, <1>9, <1>10 DEF DoCheckSerial

(* What every handler leaves of the control of process(), what a handler   *)
(* that ends a session leaves of the session, each typed.                  *)
ControlOK == /\ pc \in {"start", "serial", "switch"} /\ loop_dx \in 0 .. NumDx
             /\ state \in States /\ queued \in States /\ rebooted \in BOOLEAN

SessionOK == /\ dx \in 0 .. NumDx /\ product \in 0 .. NumDx
             /\ amount_index \in Amounts /\ selected \in Pair

OutOK == coms \in Seq(EventType) /\ screen \in Screens

(* The goto functions, and those that end a session, assign typed values.  *)
LEMMA EnterTypes == ASSUME TypeOK, NEW s \in States, Enter(s) PROVE ControlOK'
BY DEF Enter, TypeOK, ControlOK

LEMMA StayTypes == ASSUME TypeOK, Stay PROVE ControlOK'
BY EnterTypes DEF Stay, TypeOK

LEMMA SendTypes ==
  ASSUME TypeOK, NEW name \in EventNames, Send(name)
  PROVE  coms' \in Seq(EventType)
BY EventTypes, ConstantTypes DEF Send, TypeOK

LEMMA ResetTypes ==
  ASSUME NEW m \in MotorType, ResetSession(m)
  PROVE  motor' \in MotorType /\ SessionOK' /\ screen' \in Screens
<1>1. Stop(m) \in MotorType
  BY MotorTypes, ConstantTypes
<1> QED
  BY <1>1, ConstantTypes DEF ResetSession, SessionOK, Screens

LEMMA FinishTypes ==
  ASSUME TypeOK, NEW sel \in Pair, NEW g \in Pair, NEW m \in MotorType,
         NEW sent \in Seq(EventType), NEW spent \in Nat, NEW b \in BOOLEAN,
         PrintAndFinish(sel, g, m, sent, spent, b)
  PROVE  /\ ControlOK' /\ SessionOK' /\ OutOK'
         /\ late' \in Nat /\ dispensed' \in Pair /\ motor' \in MotorType
<1>1. coms' \in Seq(EventType)
  <2>1. Append(sent, Event("Finished", product, sel, g, b)) \in Seq(EventType)
    BY EventTypes DEF EventNames, TypeOK
  <2> QED BY <2>1 DEF PrintAndFinish
<1>2. late' \in Nat
  BY ConstantTypes DEF PrintAndFinish, TypeOK
<1>3. dispensed' \in Pair
  BY DEF PrintAndFinish, Pair
<1>4. "IDLE" \in States
  BY DEF States
<1>5. motor' \in MotorType /\ SessionOK' /\ screen' \in Screens
  BY ResetTypes DEF PrintAndFinish
<1>6. ControlOK'
  BY <1>4, EnterTypes DEF PrintAndFinish
<1> QED
  BY <1>1, <1>2, <1>3, <1>5, <1>6 DEF OutOK

LEMMA ActivateTypes ==
  ASSUME TypeOK, NEW d \in DX, measured' \in BOOLEAN, amount_index' = amount_index,
         GotoActivated(d)
  PROVE  ControlOK' /\ SessionOK' /\ OutOK'
<1>1. d \in 0 .. NumDx /\ coms \in Seq(EventType)
  BY NumDxAssumption DEF DX, TypeOK
<1>2. Append(coms, Event("Started", d, Zero, Zero, measured')) \in Seq(EventType)
  BY <1>1, EventTypes, ConstantTypes DEF EventNames
<1>3. selected' \in Pair
  BY AmountTypes DEF GotoActivated, TypeOK
<1>4. ControlOK'
  BY EnterTypes DEF States, GotoActivated
<1> QED
  BY <1>1, <1>2, <1>3, <1>4 DEF GotoActivated, Screens, SessionOK, OutOK, TypeOK

LEMMA CancelTypes ==
  ASSUME TypeOK, NEW s \in States, GotoCancel(s)
  PROVE  ControlOK' /\ timer' \in TimerType /\ OutOK'
<1>1. timer' \in TimerType
  BY TimerTypes, ConstantTypes DEF GotoCancel, TypeOK
<1>2. coms' \in Seq(EventType)
  BY SendTypes DEF GotoCancel, EventNames
<1>3. ControlOK'
  BY EnterTypes DEF GotoCancel
<1> QED
  BY <1>1, <1>2, <1>3 DEF GotoCancel, Screens, OutOK

(* What a measurement computes is typed as soon as the time counted is one *)
(* the code measures.                                                      *)
LEMMA MeasureTypes ==
  ASSUME TypeOK
  PROVE  /\ Delta \in Int
         /\ Delta >= MinDelta => NewMl \in Nat /\ NewTk \in Nat
         /\ TargetMl \in Nat /\ Target \in Pair /\ FullMeasure \in Pair
<1>1. Delta \in Int
  BY ConstantTypes DEF Delta, LeastOf, TypeOK
<1>2. ASSUME Delta >= MinDelta PROVE NewMl \in Nat /\ NewTk \in Nat
  <2>1. Delta \in Nat
    BY <1>1, <1>2, ConstantTypes
  <2>2. NewMl \in Nat
    BY <2>1, VolumeType DEF NewMl, TypeOK
  <2> QED BY <2>2, PriceType DEF NewTk, TypeOK
<1>3. TargetMl \in Nat
  BY DEF TargetMl, TypeOK, Pair
<1>4. Target \in Pair
  BY <1>3 DEF Target, TypeOK, Pair
<1> QED BY <1>1, <1>2, <1>3, <1>4 DEF FullMeasure

(* Every handler of the switch keeps the types.                            *)
LEMMA ProcessTypeOK ==
  ASSUME TypeOK, Process
  PROVE  TypeOK'
<1> USE DEF sessionVars, pourVars, timerVars, motorVars, nvmVars, outVars
<1>0. timer \in TimerType /\ updateTimer \in TimerType /\ late \in Nat /\ motor \in MotorType
  BY DEF TypeOK
<1>1. ASSUME NEW d \in DX, DoIdleState(d) PROVE TypeOK'
  <2>1. ControlOK' /\ SessionOK' /\ OutOK'
    BY <1>1, ActivateTypes DEF DoIdleState
  <2>2. timer' \in TimerType
    BY <1>0, <1>1, TimerTypes, ConstantTypes DEF DoIdleState
  <2> QED
    BY <1>1, <2>1, <2>2 DEF DoIdleState, TypeOK, ControlOK, SessionOK, OutOK
<1>2. ASSUME NEW b \in Buttons, ChangeAmount(b) PROVE TypeOK'
  <2>1. ControlOK'
    BY <1>2, StayTypes DEF ChangeAmount
  <2>2. amount_index' \in Amounts
    BY <1>2 DEF ChangeAmount, TypeOK, Amounts, LeastOf
  <2>3. selected' \in Pair
    BY <1>2, AmountTypes DEF ChangeAmount, TypeOK
  <2> QED
    BY <1>2, <2>1, <2>2, <2>3 DEF ChangeAmount, TypeOK, ControlOK, Screens
<1>3. CASE ConfirmAmount
  <2>1. ControlOK' /\ coms' \in Seq(EventType)
    BY <1>3, EnterTypes, SendTypes DEF ConfirmAmount, States, EventNames
  <2>2. timer' \in TimerType
    BY <1>0, <1>3, TimerTypes, ConstantTypes DEF ConfirmAmount
  <2> QED BY <1>3, <2>1, <2>2 DEF ConfirmAmount, TypeOK, ControlOK, Screens
<1>4. CASE ConfirmStart
  <2>1. ControlOK'
    BY <1>4, EnterTypes DEF ConfirmStart, States
  <2>2. timer' \in TimerType
    BY <1>0, <1>4, TimerTypes, ConstantTypes DEF ConfirmStart
  <2> QED BY <1>4, <2>1, <2>2 DEF ConfirmStart, TypeOK, ControlOK, Screens
<1>5. CASE GotoWaitTrigger
  <2>1. ControlOK'
    BY <1>5, EnterTypes DEF GotoWaitTrigger, States
  <2>2. timer' \in TimerType
    BY <1>0, <1>5, TimerTypes, ConstantTypes DEF GotoWaitTrigger
  <2> QED BY <1>5, <2>1, <2>2 DEF GotoWaitTrigger, TypeOK, ControlOK
<1>6. CASE Cancel
  <2>1. ControlOK' /\ timer' \in TimerType /\ OutOK'
    BY <1>6, CancelTypes DEF Cancel, States
  <2> QED BY <1>6, <2>1 DEF Cancel, TypeOK, ControlOK, OutOK
<1>7. CASE ResumeSelection
  <2>1. measured' \in BOOLEAN
    BY <1>7 DEF ResumeSelection, TypeOK
  <2>2. ControlOK' /\ SessionOK' /\ OutOK'
    BY <1>7, <2>1, ActivateTypes DEF ResumeSelection
  <2> QED BY <1>7, <2>1, <2>2 DEF ResumeSelection, TypeOK, ControlOK, SessionOK, OutOK
<1>8. CASE Abandon
  <2>1. GotoIdle /\ timer' \in {timer, ConsumePeriod(timer)}
    BY <1>8 DEF Abandon, TimedOut
  <2>2. ControlOK'
    BY <2>1, EnterTypes DEF GotoIdle, States
  <2>3. motor' \in MotorType /\ SessionOK' /\ screen' \in Screens
    BY <1>0, <2>1, ResetTypes DEF GotoIdle
  <2>4. dispensed' \in Pair
    BY <2>1 DEF GotoIdle, TypeOK, Pair
  <2>5. timer' \in TimerType
    BY <1>0, <2>1, TimerTypes
  <2> QED
    BY <1>8, <2>2, <2>3, <2>4, <2>5 DEF Abandon, TypeOK, ControlOK, SessionOK
<1>9. CASE StartDispense
  <2>1. ControlOK'
    BY <1>9, EnterTypes DEF StartDispense, States
  <2>2. updateTimer' \in TimerType /\ flow_rate' \in Nat \ {0}
    BY <1>0, <1>9, TimerTypes, AmountTypes, ConstantTypes DEF StartDispense, TypeOK
  <2>3. motor' \in MotorType
    BY <1>9, MotorTypes DEF StartDispense, TypeOK
  <2>4. pour' \in Int /\ time_at_pause' \in Int /\ ahead' \subseteq Starts
    BY <1>9 DEF StartDispense, TypeOK
  <2> QED
    BY <1>9, <2>1, <2>2, <2>3, <2>4 DEF StartDispense, TypeOK, ControlOK, Screens
<1>10. CASE ContinueDispense
  <2>1. ControlOK'
    BY <1>10, EnterTypes DEF ContinueDispense, States
  <2>2. updateTimer' \in TimerType /\ flow_rate' \in Nat \ {0}
    BY <1>0, <1>10, TimerTypes, AmountTypes, ConstantTypes DEF ContinueDispense, TypeOK
  <2>3. motor' \in MotorType
    BY <1>10, MotorTypes DEF ContinueDispense, TypeOK
  <2>4. pour' \in Int /\ ahead' \subseteq Starts
    BY <1>10 DEF ContinueDispense, TypeOK
  <2> QED
    BY <1>10, <2>1, <2>2, <2>3, <2>4 DEF ContinueDispense, TypeOK, ControlOK
<1>11. CASE TooEarly
  <2>1. ControlOK'
    BY <1>11, StayTypes DEF TooEarly
  <2>2. time_delta' \in Int
    BY <1>11, MeasureTypes DEF TooEarly, TypeOK
  <2> QED BY <1>11, <2>1, <2>2 DEF TooEarly, TypeOK, ControlOK
<1>12. CASE DispenseProgress
  <2>1. ControlOK'
    BY <1>12, StayTypes DEF DispenseProgress
  <2>2. time_delta' \in Int /\ dispensed' \in Pair /\ selected' \in Pair /\ measured' \in BOOLEAN
    BY <1>12, MeasureTypes DEF DispenseProgress, Pair
  <2>3. updateTimer' \in TimerType /\ screen' \in Screens
    BY <1>0, <1>12, TimerTypes, ConstantTypes DEF DispenseProgress, Screens, TypeOK
  <2> QED BY <1>12, <2>1, <2>2, <2>3 DEF DispenseProgress, TypeOK, ControlOK
<1>13. CASE DispenseComplete
  <2>1. DrawBack(motor, dx) \in MotorType
    BY <1>0, MotorTypes DEF TypeOK
  <2>2. Target \in Pair /\ FullMeasure \in Pair /\ Delta \in Int
    BY MeasureTypes
  <2>3. /\ ControlOK' /\ SessionOK' /\ OutOK'
        /\ late' \in Nat /\ dispensed' \in Pair /\ motor' \in MotorType
    BY <1>13, <2>1, <2>2, FinishTypes, ConstantTypes DEF DispenseComplete, TypeOK
  <2>4. time_delta' \in Int /\ measured' \in BOOLEAN /\ updateTimer' \in TimerType
    BY <1>0, <1>13, <2>2, TimerTypes, ConstantTypes DEF DispenseComplete
  <2> QED
    BY <1>13, <2>3, <2>4 DEF DispenseComplete, TypeOK, ControlOK, SessionOK, OutOK
<1>14. CASE DispensePanic
  BY <1>14, RebootTypeOK DEF DispensePanic, TypeOK
<1>15. CASE PauseDispense
  <2>1. ControlOK'
    BY <1>15, EnterTypes DEF PauseDispense, States
  <2>2. motor' \in MotorType
    BY <1>0, <1>15, MotorTypes DEF PauseDispense, TypeOK
  <2>3. late' \in Nat
    <3>1. late' \in {late, late + ReverseDelay}
      BY <1>15 DEF PauseDispense
    <3> QED BY <1>0, <3>1, ConstantTypes
  <2>4. timer' \in TimerType
    BY <1>0, <1>15, <2>3, TimerTypes, ConstantTypes DEF PauseDispense
  <2> QED
    BY <1>15, <2>1, <2>2, <2>3, <2>4 DEF PauseDispense, TypeOK, ControlOK, Screens
<1>16. CASE PauseTimeOut
  <2> DEFINE part == [ml |-> dispensed.ml, tk |-> 0]
             sent == Append(coms, Event("Time Out", product, selected, part, measured))
  <2>1. part \in Pair
    BY DEF TypeOK, Pair
  <2>2. sent \in Seq(EventType)
    BY <2>1, EventTypes DEF TypeOK, EventNames
  <2>3. PrintAndFinish(selected, dispensed, motor, sent, 0, measured)
    BY <1>16 DEF PauseTimeOut
  <2> HIDE DEF sent
  <2>4. /\ ControlOK' /\ SessionOK' /\ OutOK'
        /\ late' \in Nat /\ dispensed' \in Pair /\ motor' \in MotorType
    BY <2>2, <2>3, FinishTypes DEF TypeOK
  <2>5. timer' \in TimerType
    BY <1>0, <1>16, TimerTypes, ConstantTypes DEF PauseTimeOut, TimedOut
  <2> QED
    BY <1>16, <2>4, <2>5 DEF PauseTimeOut, TypeOK, ControlOK, SessionOK, OutOK
<1>17. CASE CancelInDx
  <2>1. ControlOK' /\ timer' \in TimerType /\ OutOK'
    BY <1>17, CancelTypes DEF CancelInDx, States
  <2> QED BY <1>17, <2>1 DEF CancelInDx, TypeOK, ControlOK, OutOK
<1>18. CASE BackToPaused
  <2>1. ControlOK'
    BY <1>18, EnterTypes DEF BackToPaused, States
  <2>2. timer' \in TimerType
    BY <1>0, <1>18, TimerTypes, ConstantTypes DEF BackToPaused
  <2> QED BY <1>18, <2>1, <2>2 DEF BackToPaused, TypeOK, ControlOK, Screens
<1>19. CASE StopInDx
  <2>1. /\ ControlOK' /\ SessionOK' /\ OutOK'
        /\ late' \in Nat /\ dispensed' \in Pair /\ motor' \in MotorType
    BY <1>19, FinishTypes DEF StopInDx, TypeOK
  <2>2. timer' \in TimerType
    BY <1>0, <1>19, TimerTypes, ConstantTypes DEF StopInDx, TimedOut
  <2> QED
    BY <1>19, <2>1, <2>2 DEF StopInDx, TypeOK, ControlOK, SessionOK, OutOK
<1>20. CASE EndMotorTest
  <2>1. ControlOK' /\ motor' \in MotorType
    BY <1>0, <1>20, StayTypes, MotorTypes, ConstantTypes DEF EndMotorTest
  <2> QED BY <1>20, <2>1 DEF EndMotorTest, TypeOK, ControlOK
<1>21. CASE IgnoredButton
  <2>1. ControlOK'
    BY <1>21, StayTypes DEF IgnoredButton
  <2> QED BY <1>21, <2>1 DEF IgnoredButton, TypeOK, ControlOK
<1>22. CASE NothingToDo
  <2>1. ControlOK'
    BY <1>22, StayTypes DEF NothingToDo
  <2> QED BY <1>22, <2>1 DEF NothingToDo, TypeOK, ControlOK
<1> QED
  BY <1>1, <1>2, <1>3, <1>4, <1>5, <1>6, <1>7, <1>8, <1>9, <1>10, <1>11, <1>12, <1>13,
     <1>14, <1>15, <1>16, <1>17, <1>18, <1>19, <1>20, <1>21, <1>22 DEF Process

(* Every variable of the state machine keeps its type, whatever the        *)
(* customer, the technician, the clock and the power supply do.            *)
THEOREM TypeCorrect == Spec => []TypeOK
<1>1. TypeOK /\ [Next]_vars => TypeOK'
  <2> SUFFICES ASSUME TypeOK, [Next]_vars PROVE TypeOK'
    OBVIOUS
  <2>1. ASSUME NEW d \in 0 .. MaxLoop, Begin(d) PROVE TypeOK'
    BY <2>1, BeginTypeOK
  <2>2. CASE DoCheckSerial
    BY <2>2, SerialTypeOK
  <2>3. CASE Process
    BY <2>3, ProcessTypeOK
  <2>4. CASE PowerLoss
    BY <2>4, RebootTypeOK DEF PowerLoss, TypeOK
  <2>5. CASE UNCHANGED vars
    BY <2>5 DEF vars, loopVars, sessionVars, pourVars, timerVars, motorVars, nvmVars,
                outVars, TypeOK
  <2> QED
    BY <2>1, <2>2, <2>3, <2>4, <2>5 DEF Next
<1> QED
  BY <1>1, InitTypeOK, PTL DEF Spec

-----------------------------------------------------------------------------
(* Safety of the pumps: first whatever the technician does, then as long   *)
(* as he keeps to configuration commands.                                  *)

(* A motor value is sane if exactly the pump the driver remembers is       *)
(* driven, and none when it believes the motors stopped.                   *)
Sane(m) == m.on = IF m.running THEN {m.dx} ELSE {}

(* Every operation of the driver leaves a sane motor sane: run() stops     *)
(* another pump, or the other direction, first.                            *)
LEMMA SaneMotors ==
  ASSUME NEW m \in MotorType, Sane(m), NEW d \in 0 .. NumDx, NEW fwd \in BOOLEAN
  PROVE  /\ Sane(MotorOff) /\ Sane(Stop(m)) /\ Sane(Run(m, d, fwd))
         /\ Sane(DrawBack(m, d)) /\ Sane(Stop(DrawBack(m, d)))
<1>1. \A n \in MotorType : Sane(Stop(n))
  BY DEF Stop, Sane, MotorType
<1>2. Sane(Run(m, d, fwd))
  BY DEF Run, Sane, MotorType
<1>3. DrawBack(m, d) \in MotorType /\ Run(Stop(m), d, FALSE) \in MotorType
  BY MotorTypes
<1> QED
  BY <1>1, <1>2, <1>3 DEF DrawBack, Sane, MotorOff

(* All a step can do to the motors.                                        *)
LEMMA MotorStep ==
  ASSUME TypeOK, Next
  PROVE  \/ motor' = motor \/ motor' = MotorOff
         \/ \E d \in 0 .. NumDx, fwd \in BOOLEAN :
              motor' \in {Stop(motor), Run(motor, d, fwd), DrawBack(motor, d),
                          Stop(DrawBack(motor, d))}
<1> DEFINE Moves == \E d \in 0 .. NumDx, fwd \in BOOLEAN :
                      motor' \in {Stop(motor), Run(motor, d, fwd), DrawBack(motor, d),
                                  Stop(DrawBack(motor, d))}
           Goal  == motor' = motor \/ motor' = MotorOff \/ Moves
<1> SUFFICES Goal
  OBVIOUS
<1>1. dx \in 0 .. NumDx /\ 0 \in 0 .. NumDx
  BY ConstantTypes DEF TypeOK
<1>2. motor' = Stop(motor) => Moves
  BY <1>1
<1>3. \A d \in 0 .. NumDx, fwd \in BOOLEAN : motor' = Run(motor, d, fwd) => Moves
  OBVIOUS
<1>4. motor' = DrawBack(motor, dx) \/ motor' = Stop(DrawBack(motor, dx)) => Moves
  BY <1>1
<1> HIDE DEF Moves
<1>5. CASE DoCheckSerial
  <2>1. ASSUME NEW d \in DX, NEW fwd \in BOOLEAN, NEW p \in TestPeriods, CmdMotorsRuntime(d, fwd, p)
        PROVE  Goal
    <3>1. d \in 0 .. NumDx
      BY NumDxAssumption DEF DX
    <3>2. motor' = Run(motor, d, fwd)
      BY <2>1 DEF CmdMotorsRuntime
    <3> QED BY <1>3, <3>1, <3>2
  <2>2. ASSUME NEW d \in DX, NEW i \in Amounts, CmdPrintSimDx(d, i) PROVE Goal
    BY <2>2, <1>2 DEF CmdPrintSimDx, ResetSession
  <2>3. CASE CmdMotorsStop
    BY <2>3, <1>2 DEF CmdMotorsStop, ResetSession
  <2>4. CASE CmdReset \/ CmdLock \/ CmdUnlock
    BY <2>4 DEF CmdReset, CmdLock, CmdUnlock, Reboot
  <2>5. CASE \/ CmdWithoutEffect \/ \E r \in Rates : CmdFlowRate(r)
             \/ \E d \in DX, t \in Tables : CmdProductTable(d, t)
             \/ \E on \in BOOLEAN : CmdPrintRaw(on)
    BY <2>5 DEF CmdWithoutEffect, CmdFlowRate, CmdProductTable, CmdPrintRaw, motorVars
  <2> QED BY <1>5, <2>1, <2>2, <2>3, <2>4, <2>5 DEF DoCheckSerial
<1>6. CASE Process
  <2>1. CASE StartDispense \/ ContinueDispense
    BY <2>1, <1>1, <1>3 DEF StartDispense, ContinueDispense
  <2>2. CASE DispenseComplete
    BY <2>2, <1>4 DEF DispenseComplete, PrintAndFinish, ResetSession
  <2>3. CASE DispensePanic
    BY <2>3 DEF DispensePanic, Reboot
  <2>4. CASE PauseDispense
    BY <2>4, <1>2, <1>4 DEF PauseDispense
  <2>5. CASE Abandon \/ PauseTimeOut \/ StopInDx \/ EndMotorTest
    BY <2>5, <1>2 DEF Abandon, GotoIdle, PauseTimeOut, StopInDx, EndMotorTest,
                      PrintAndFinish, ResetSession
  <2>6. CASE \/ \E d \in DX : DoIdleState(d)
             \/ \E b \in Buttons : ChangeAmount(b)
             \/ ConfirmAmount \/ ConfirmStart \/ GotoWaitTrigger \/ Cancel \/ ResumeSelection
             \/ TooEarly \/ DispenseProgress \/ CancelInDx \/ BackToPaused \/ IgnoredButton
             \/ NothingToDo
    BY <2>6 DEF DoIdleState, ChangeAmount, ConfirmAmount, ConfirmStart, GotoWaitTrigger,
                Cancel, ResumeSelection, TooEarly, DispenseProgress, CancelInDx,
                BackToPaused, IgnoredButton, NothingToDo, motorVars
  <2> QED BY <1>6, <2>1, <2>2, <2>3, <2>4, <2>5, <2>6 DEF Process
<1>7. CASE PowerLoss \/ \E d \in 0 .. MaxLoop : Begin(d)
  BY <1>7 DEF PowerLoss, Reboot, Begin
<1> QED BY <1>5, <1>6, <1>7 DEF Next

(* So no step drives a second pump.                                        *)
LEMMA OnePumpStep == TypeOK /\ OnePumpAtATime /\ [Next]_vars => OnePumpAtATime'
<1> SUFFICES ASSUME TypeOK, Sane(motor), [Next]_vars PROVE Sane(motor)'
  BY DEF OnePumpAtATime, Sane
<1>1. motor \in MotorType
  BY DEF TypeOK
<1>2. CASE UNCHANGED vars
  BY <1>2 DEF vars, motorVars, Sane
<1>3. CASE Next
  BY <1>1, <1>3, MotorStep, SaneMotors, ConstantTypes
<1> QED BY <1>2, <1>3

(* Whatever serial commands interrupt whatever dispense, at most one pump  *)
(* is driven, and it is the one the driver would stop.                     *)
THEOREM OnePump == Spec => []OnePumpAtATime
<1>1. Init => OnePumpAtATime
  BY DEF Init, OnePumpAtATime, MotorOff
<1> QED
  BY <1>1, OnePumpStep, TypeCorrect, PTL DEF Spec

-----------------------------------------------------------------------------
(* A technician who keeps to configuration commands.                       *)

OnlyConfig == Service \subseteq ConfigCommands

(* Together with the types, the two invariants are inductive: neither is   *)
(* alone, a pump being safe because of the session and conversely.         *)
Inv == TypeOK /\ SessionMatchesState /\ MotorMatchesState

(* A start, and every restart, has all pumps off and no dispenser active.  *)
LEMMA InitInv == Init => Inv
<1> SUFFICES ASSUME Init PROVE Inv
  OBVIOUS
<1>1. TypeOK
  BY InitTypeOK
<1>2. state \in {"IDLE", "LOCKED"} /\ queued = state /\ dx = 0 /\ product = 0 /\ pc = "start"
  BY DEF Init
<1>3. motor.on = {} /\ ~motor.running
  BY DEF Init, MotorOff
<1> QED
  BY <1>1, <1>2, <1>3 DEF Inv, SessionMatchesState, MotorMatchesState

LEMMA RebootInv ==
  ASSUME TypeOK', NEW lock \in BOOLEAN, Reboot(lock)
  PROVE  Inv'
<1>1. /\ state' \in {"IDLE", "LOCKED"} /\ queued' = state' /\ dx' = 0 /\ product' = 0
      /\ pc' = "start"
  BY DEF Reboot
<1>2. motor'.on = {} /\ ~motor'.running
  BY DEF Reboot, MotorOff
<1> QED
  BY <1>1, <1>2 DEF Inv, SessionMatchesState, MotorMatchesState

(* The end of a session, on any of its ways, stops the motors and enters   *)
(* IDLE without a dispenser.                                               *)
LEMMA EndInv ==
  ASSUME TypeOK', NEW m \in MotorType, ResetSession(m), Enter("IDLE")
  PROVE  Inv'
<1>1. /\ state' = "IDLE" /\ queued' = "IDLE" /\ dx' = 0 /\ product' = 0
      /\ pc' = "start"
  BY DEF ResetSession, Enter
<1>2. motor'.on = {} /\ ~motor'.running
  BY DEF ResetSession, Stop, MotorType
<1> QED
  BY <1>1, <1>2 DEF Inv, SessionMatchesState, MotorMatchesState

(* A step that changes neither the session, nor the motors, nor the state: *)
(* only the position in process() may move.                                *)
LEMMA KeepInv ==
  ASSUME Inv, TypeOK', dx' = dx, product' = product, motor' = motor, state' = state,
         queued' = state', (loop_dx' = loop_dx /\ pc = "switch") \/ loop_dx' = dx
  PROVE  Inv'
BY DEF Inv, SessionMatchesState, MotorMatchesState

(* Within a session the machine moves between states that drive no pump.   *)
LEMMA MoveInv ==
  ASSUME Inv, TypeOK', NEW s \in States \ {"IDLE", "LOCKED", "DISPENSING"}, Enter(s),
         state \notin {"IDLE", "LOCKED", "DISPENSING"},
         dx' = dx, product' = product, motor' = motor
  PROVE  Inv'
<1>1. state' = s /\ queued' = s /\ pc' = "start"
  BY DEF Enter
<1> QED
  BY <1>1 DEF Inv, SessionMatchesState, MotorMatchesState

(* Every handler of the switch keeps pump, state and session in step.      *)
LEMMA ProcessInv ==
  ASSUME Inv, Process
  PROVE  Inv'
<1> USE DEF sessionVars, motorVars
<1>1. TypeOK'
  BY ProcessTypeOK DEF Inv
<1>2. /\ motor \in MotorType /\ DrawBack(motor, dx) \in MotorType
      /\ Stop(motor) \in MotorType
  BY MotorTypes DEF Inv, TypeOK
<1>3. pc = "switch" => loop_dx = dx
  BY DEF Inv, SessionMatchesState
<1>4. CASE Abandon \/ PauseTimeOut \/ StopInDx \/ DispenseComplete
  <2>1. Enter("IDLE") /\ (ResetSession(motor) \/ ResetSession(DrawBack(motor, dx)))
    BY <1>4 DEF Abandon, GotoIdle, PauseTimeOut, StopInDx, DispenseComplete, PrintAndFinish
  <2> QED BY <1>1, <1>2, <2>1, EndInv
<1>5. CASE DispensePanic
  BY <1>1, <1>5, RebootInv DEF DispensePanic, Inv, TypeOK
<1>6. CASE \/ \E b \in Buttons : ChangeAmount(b)
           \/ TooEarly \/ DispenseProgress \/ IgnoredButton \/ NothingToDo
  <2>1. /\ pc = "switch" /\ Stay /\ dx' = dx /\ product' = product /\ motor' = motor
    BY <1>6 DEF ChangeAmount, TooEarly, DispenseProgress, IgnoredButton, NothingToDo,
                Switch, Dispensing
  <2>2. state' = state /\ queued' = state' /\ loop_dx' = loop_dx
    BY <2>1 DEF Stay, Enter, Inv, SessionMatchesState
  <2> QED BY <1>1, <2>1, <2>2, KeepInv
<1>7. CASE EndMotorTest
  BY <1>7 DEF EndMotorTest, MotorTestOver, Switch, Inv, MotorMatchesState
<1>8. CASE ConfirmAmount \/ ConfirmStart \/ GotoWaitTrigger \/ Cancel \/ CancelInDx \/ BackToPaused
  <2>1. /\ state \notin {"IDLE", "LOCKED", "DISPENSING"}
        /\ \E s \in {"WAIT_BTN_GREEN", "WAIT_BEFORE_START", "WAIT_TRIGGER", "CANCEL",
                    "CANCEL_IN_DX", "PAUSED"} : Enter(s)
    BY <1>8 DEF ConfirmAmount, ConfirmStart, GotoWaitTrigger, Cancel, CancelInDx,
                BackToPaused, GotoCancel, Switch
  <2>2. dx' = dx /\ product' = product /\ motor' = motor
    BY <1>8 DEF ConfirmAmount, ConfirmStart, GotoWaitTrigger, Cancel, CancelInDx, BackToPaused
  <2> QED BY <1>1, <2>1, <2>2, MoveInv DEF States
<1>9. ASSUME NEW d \in DX, GotoActivated(d), motor' = motor, state \notin {"LOCKED", "DISPENSING"}
      PROVE  Inv'
  <2>1. /\ state' = "ACTIVE" /\ queued' = "ACTIVE" /\ pc' = "start"
        /\ dx' = d /\ product' = d /\ d # 0
    BY <1>9 DEF GotoActivated, Enter, DX
  <2> QED
    BY <1>1, <1>9, <2>1 DEF Inv, SessionMatchesState, MotorMatchesState
<1>10. CASE ResumeSelection \/ \E d \in DX : DoIdleState(d)
  BY <1>9, <1>10 DEF ResumeSelection, DoIdleState, Switch
<1>11. CASE StartDispense \/ ContinueDispense
  <2>0. loop_dx \in DX /\ loop_dx = dx /\ dx # 0
    <3>1. loop_dx \in DX /\ pc = "switch"
      BY <1>11 DEF StartDispense, ContinueDispense, Switch
    <3> QED BY <1>3, <3>1 DEF DX
  <2>1. /\ motor' = Run(motor, dx, TRUE) /\ Enter("DISPENSING") /\ dx' = dx /\ product' = product
        /\ dx # 0 /\ state # "DISPENSING"
    BY <2>0, <1>11 DEF StartDispense, ContinueDispense, Switch
  <2>2. motor.on = {} /\ ~motor.running
    BY <2>1 DEF Inv, MotorMatchesState
  <2>3. motor'.on = {dx} /\ motor'.running /\ motor'.fwd
    BY <1>2, <2>1, <2>2 DEF Run, PumpOf
  <2>4. state' = "DISPENSING" /\ queued' = "DISPENSING" /\ pc' = "start"
    BY <2>1 DEF Enter
  <2> QED
    BY <1>1, <2>1, <2>3, <2>4 DEF Inv, SessionMatchesState, MotorMatchesState
<1>12. CASE PauseDispense
  <2>1. /\ state' = "PAUSED" /\ queued' = "PAUSED" /\ pc' = "start"
        /\ dx' = dx /\ product' = product /\ dx # 0
    BY <1>12 DEF PauseDispense, Enter, Switch, Inv, SessionMatchesState
  <2>2. motor' \in {Stop(motor), DrawBack(motor, dx)}
    BY <1>12 DEF PauseDispense
  <2>3. \A m \in MotorType : Stop(m).on = {} /\ ~Stop(m).running
    BY DEF Stop, MotorType
  <2>4. Run(Stop(motor), dx, FALSE) \in MotorType
    BY <1>2, MotorTypes DEF Inv, TypeOK
  <2>5. motor'.on = {} /\ ~motor'.running
    BY <1>2, <2>2, <2>3, <2>4 DEF DrawBack
  <2> QED
    BY <1>1, <2>1, <2>5 DEF Inv, SessionMatchesState, MotorMatchesState
<1> QED
  BY <1>4, <1>5, <1>6, <1>7, <1>8, <1>10, <1>11, <1>12 DEF Process

(* So does every configuration command.                                    *)
LEMMA ConfigInv ==
  ASSUME OnlyConfig, Inv, DoCheckSerial
  PROVE  Inv'
<1>1. TypeOK'
  BY SerialTypeOK DEF Inv
<1>2. CASE CmdReset \/ CmdLock \/ CmdUnlock
  <2>1. \E lock \in BOOLEAN : Reboot(lock)
    BY <1>2 DEF CmdReset, CmdLock, CmdUnlock, Inv, TypeOK
  <2> QED BY <1>1, <2>1, RebootInv
<1>3. CASE CmdWithoutEffect \/ (\E r \in Rates : CmdFlowRate(r))
           \/ \E d \in DX, t \in Tables : CmdProductTable(d, t)
  <2>1. /\ pc = "serial" /\ loop_dx' = loop_dx /\ dx' = dx /\ product' = product
        /\ motor' = motor /\ state' = state /\ queued' = queued
    BY <1>3 DEF CmdWithoutEffect, CmdFlowRate, CmdProductTable, Command, ToSwitch,
                sessionVars, motorVars
  <2>2. loop_dx' = dx /\ queued' = state'
    BY <2>1 DEF Inv, SessionMatchesState
  <2> QED BY <1>1, <2>1, <2>2, KeepInv
<1>4. ~Command("raw_stream") /\ ~Command("sim_dx") /\ ~Command("motors_runtime")
      /\ ~Command("motors_stop")
  BY DEF OnlyConfig, ConfigCommands, Command
<1> QED
  BY <1>2, <1>3, <1>4 DEF DoCheckSerial, CmdPrintRaw, CmdPrintSimDx, CmdMotorsRuntime,
                          CmdMotorsStop

(* So does every step.                                                     *)
LEMMA InvStep == OnlyConfig /\ Inv /\ [Next]_vars => Inv'
<1> SUFFICES ASSUME OnlyConfig, Inv, [Next]_vars PROVE Inv'
  OBVIOUS
<1>1. CASE DoCheckSerial
  BY <1>1, ConfigInv
<1>2. CASE Process
  BY <1>2, ProcessInv
<1>3. CASE PowerLoss
  BY <1>3, RebootTypeOK, RebootInv DEF PowerLoss, Inv, TypeOK
<1>4. ASSUME NEW d \in 0 .. MaxLoop, Begin(d) PROVE Inv'
  <2>1. TypeOK'
    BY <1>4, BeginTypeOK DEF Inv
  <2>2. /\ dx' = dx /\ product' = product /\ motor' = motor /\ state' = state
        /\ queued' = queued /\ loop_dx' = dx
    BY <1>4 DEF Begin, sessionVars
  <2> QED BY <2>1, <2>2, KeepInv DEF Inv, SessionMatchesState
<1>5. CASE UNCHANGED vars
  BY <1>5 DEF vars, loopVars, sessionVars, pourVars, timerVars, motorVars, nvmVars,
              outVars, TypeOK, Inv, SessionMatchesState, MotorMatchesState
<1> QED
  BY <1>1, <1>2, <1>3, <1>4, <1>5 DEF Next

(* The inductive invariant, and with it the two invariants: the pump of    *)
(* the active dispenser runs forward exactly while a dispense is measured, *)
(* and a dispenser is active exactly while a session goes on.              *)
THEOREM PumpsInStep == OnlyConfig => (Spec => [](MotorMatchesState /\ SessionMatchesState))
<1> SUFFICES ASSUME OnlyConfig PROVE Spec => [](MotorMatchesState /\ SessionMatchesState)
  OBVIOUS
<1>1. Inv /\ [Next]_vars => Inv'
  BY InvStep
<1>2. Inv => MotorMatchesState /\ SessionMatchesState
  BY DEF Inv
<1> QED
  BY <1>1, <1>2, InitInv, PTL DEF Spec

(* The half of it about the session alone.                                 *)
THEOREM SessionInStep == OnlyConfig => (Spec => []SessionMatchesState)
<1>1. MotorMatchesState /\ SessionMatchesState => SessionMatchesState
  OBVIOUS
<1> QED
  BY <1>1, PumpsInStep, PTL
=============================================================================
