---------------------------- MODULE DxStateMachine ----------------------------
(***************************************************************************)
(* The dispensing state machine of the main (button and motor) ESP:        *)
(* DxStateMachine in buttonfunctionPIOv3/src/dxstatemachine.cpp, with the  *)
(* product table, the motor driver and the timers it owns.                 *)
(*                                                                         *)
(* loop() calls process() for ever.  One call is two or three steps here:  *)
(*   Begin(d)    reads time_stamp and dx_num, d ticks after the last call; *)
(*   a Cmd...    _doCheckSerial() received a complete command;             *)
(*   the switch  the handler of the current state, then _sh.apply().       *)
(*                                                                         *)
(* Time is kept as durations seen from time_stamp: `late` is the time the  *)
(* handlers of the current call have spent in delay(), so millis() read in *)
(* a handler is time_stamp + late.  What else a handler does is counted in *)
(* the d of the next call.                                                 *)
(***************************************************************************)
EXTENDS DxProduct, DxTimer, Sequences, FiniteSets

CONSTANTS
  InitProduct,        \* table and flow rates in the NVM, initial ratios
  Tables, Rates,      \* what the configuration commands may install
  TestPeriods,        \* periods CMD_MOTORS_RUNTIME may give
  Service,            \* the serial commands the technician uses
  PeriodBeforeStart,  \* _period_before_start, 1 s
  PeriodPause,        \* _period_pause, 20 s
  PeriodWaitEvent,    \* _period_wait_event, 30 s
  PeriodUpdate,       \* _period_dx_update, 0.4 s
  MinDelta,           \* the 0.2 s under which nothing is measured
  ReverseDelay,       \* delay(100) while the pump draws back
  CompletedDelay,     \* the delays of _doDispenseCompleted: song, savings, 5 s
  MaxLoop,            \* the longest time between two calls of process()
  MayOverflow,        \* whether millis() may pass 2^32
  PourCap             \* bound: longer pours, and longer measured times, are
                      \* not told apart; it fills every table volume

AllCommands == {"flow_rate", "product_table", "raw_stream", "sim_dx",
                "motors_runtime", "motors_stop", "reset", "lock", "unlock"}

(* Commands that neither drive a pump nor move the state machine. *)
ConfigCommands == {"flow_rate", "product_table", "reset", "lock", "unlock"}

ASSUME ConstantsAssumption ==
  /\ InitProduct \in ProductType
  /\ Tables \subseteq [Amounts -> Pair]
  /\ Rates \subseteq RateType
  /\ TestPeriods \subseteq Nat
  /\ Service \subseteq AllCommands
  /\ PeriodBeforeStart \in Nat \ {0} /\ PeriodPause \in Nat \ {0}
  /\ PeriodWaitEvent \in Nat \ {0}   /\ PeriodUpdate \in Nat \ {0}
  /\ MinDelta \in Nat \ {0} /\ ReverseDelay \in Nat /\ CompletedDelay \in Nat
  /\ CompletedDelay >= PeriodUpdate
  /\ MaxLoop \in Nat \ {0}
  /\ MayOverflow \in BOOLEAN
  /\ PourCap \in Nat

States == {"IDLE", "ACTIVE", "WAIT_BTN_GREEN", "WAIT_BEFORE_START", "WAIT_TRIGGER",
           "DISPENSING", "PAUSED", "CANCEL", "CANCEL_IN_DX", "RAW_STREAM",
           "MOTOR_TEST", "LOCKED"}

Buttons == {"UP", "RED", "DOWN", "GREEN"}

Screens == {"none", "finished", "selection", "press green", "push bottle",
            "cancel", "dispensing"}

Zero == [ml |-> 0, tk |-> 0]

(* The start times compared with millis() as they are: _dx_time_start and  *)
(* DxMotors::_time_start.                                                  *)
Starts == {"dispense", "motor test"}

VARIABLES
  pc,             \* where in process(): "start", "serial" or "switch"
  late,           \* time spent in delay() since time_stamp was read
  loop_dx,        \* local dx_num of process()
  state,          \* _sh._state
  queued,         \* _sh._queued_state
  dx,             \* _dx_activated, 0 for none
  product,        \* _selected_product, as the dispenser it names, 0 for ""
  amount_index,   \* _amount_index
  selected,       \* _selected_amount_ml and _tk
  dispensed,      \* _dx_dispensed_ml and _dx_dispensed_price_tk
  flow_rate,      \* _dx_flow_rate
  time_delta,     \* _dx_time_delta
  time_at_pause,  \* _dx_time_at_pause
  pour,           \* time since _dx_time_start
  timer,          \* _timer
  updateTimer,    \* _updateTimer
  motor,          \* the motor driver
  test,           \* DxMotors::_time_start and _time_period, as a timer
  ahead,          \* start times that millis() has wrapped around to before
  prod,           \* the product tables
  locked,         \* the lock id of the NVM is not this device's
  coms,           \* events sent to the comms ESP by the current process()
  screen,         \* the page the display ESP was last told to show
  measured,       \* history: this session has computed a volume
  rebooted        \* history: no call of process() since the last restart

loopVars    == <<pc, late, loop_dx, rebooted>>
sessionVars == <<dx, product, amount_index, selected>>
pourVars    == <<dispensed, flow_rate, time_delta, time_at_pause, pour, measured>>
timerVars   == <<timer, updateTimer>>
motorVars   == <<motor, test>>
nvmVars     == <<prod, locked>>
outVars     == <<coms, screen>>
vars == <<loopVars, state, queued, sessionVars, pourVars, timerVars, motorVars,
          ahead, nvmVars, outVars>>
-----------------------------------------------------------------------------
(* Events of dxI2Cio.cpp.  `mine` is history: the volume was measured in   *)
(* the session the event is about.                                         *)
Event(name, p, s, g, mine) ==
  [event |-> name, product |-> p, selected |-> s, dispensed |-> g, mine |-> mine]

EventNames == {"Started", "Amount Chosen", "Cancel Init", "Time Out", "Finished"}

EventType == [event : EventNames, product : 0 .. NumDx, selected : Pair,
              dispensed : Pair, mine : BOOLEAN]

Send(name) == coms' = Append(coms, Event(name, product, selected, Zero, measured))

(* _sh.append() by a handler of the switch, and the _sh.apply() after it *)
Enter(s) == /\ queued' = s
            /\ state' = s
            /\ pc' = "start"
            /\ UNCHANGED <<loop_dx, rebooted>>

(* A handler that appends nothing: apply() enters what a command queued. *)
Stay == Enter(queued)

Switch(s) == pc = "switch" /\ state = s
-----------------------------------------------------------------------------
(* doInit() after power-up or esp_restart(): the members have their initial *)
(* values, then either the LOCKED state or the loaded tables and IDLE.      *)
Init ==
  /\ pc = "start" /\ late = 0 /\ loop_dx = 0 /\ rebooted = TRUE
  /\ locked \in BOOLEAN
  /\ state = IF locked THEN "LOCKED" ELSE "IDLE"
  /\ queued = state
  /\ screen = IF locked THEN "none" ELSE "finished"
  /\ dx = 0 /\ product = 0 /\ amount_index = 0 /\ selected = Zero
  /\ dispensed = Zero /\ flow_rate = TicksPerSecond
  /\ time_delta = 0 /\ time_at_pause = 0 /\ pour = 0 /\ measured = FALSE
  /\ timer = StartTimer(0, 0) /\ updateTimer = StartTimer(0, 0)
  /\ motor = MotorOff /\ test = StartTimer(0, 0)
  /\ ahead = {}
  /\ prod = LoadTable(InitProduct)
  /\ coms = <<>>

Reboot(lock) ==
  /\ pc' = "start" /\ late' = 0 /\ loop_dx' = 0 /\ rebooted' = TRUE
  /\ locked' = lock
  /\ state' = IF lock THEN "LOCKED" ELSE "IDLE"
  /\ queued' = state'
  /\ screen' = IF lock THEN "none" ELSE "finished"
  /\ dx' = 0 /\ product' = 0 /\ amount_index' = 0 /\ selected' = Zero
  /\ dispensed' = Zero /\ flow_rate' = TicksPerSecond
  /\ time_delta' = 0 /\ time_at_pause' = 0 /\ pour' = 0 /\ measured' = FALSE
  /\ timer' = StartTimer(0, 0) /\ updateTimer' = StartTimer(0, 0)
  /\ motor' = MotorOff /\ test' = StartTimer(0, 0)
  /\ ahead' = {}
  /\ prod' = LoadTable([prod EXCEPT !.ratio = InitProduct.ratio])
  /\ coms' = <<>>

(* The supply may fail at any moment; nothing of a session is persisted. *)
PowerLoss == Reboot(locked)
-----------------------------------------------------------------------------
(* process(): uint8_t dx_num = ..., time_stamp = millis() *)
Begin(d) ==
  /\ pc = "start"
  /\ pc' \in IF Service = {} THEN {"switch"} ELSE {"serial", "switch"}
  /\ late' = 0 /\ rebooted' = FALSE
  /\ loop_dx' = dx
  /\ timer' = AgeTimer(timer, late + d)
  /\ updateTimer' = AgeTimer(updateTimer, late + d)
  /\ test' = AgeTimer(test, late + d)
  /\ pour' = LeastOf(pour + late + d, PourCap)
  /\ \/ ahead' = ahead
     \/ MayOverflow /\ ahead' = Starts
  /\ coms' = <<>>
  /\ UNCHANGED <<state, queued, sessionVars, dispensed, flow_rate, time_delta,
                 time_at_pause, measured, motor, nvmVars, screen>>
-----------------------------------------------------------------------------
(* The goto functions.  Each stands for the assignments of one function.   *)

\* mutation: the amount index survives the session
ResetSessionKeepsIndex(m) ==
  /\ motor' = Stop(m)
  /\ dx' = 0 /\ product' = 0 /\ amount_index' = amount_index /\ selected' = Zero
  /\ screen' = "finished"

\* mutation: the dispenser stays activated
ResetSessionKeepsDx(m) ==
  /\ motor' = Stop(m)
  /\ dx' = dx /\ product' = 0 /\ amount_index' = 0 /\ selected' = Zero
  /\ screen' = "finished"

(* _gotoIdleState(), m being the motors before it.  _dx_dispensed_ml and   *)
(* the time members are not among what it resets.                          *)
ResetSession(m) ==
  /\ motor' = Stop(m)
  /\ dx' = 0 /\ product' = 0 /\ amount_index' = 0 /\ selected' = Zero
  /\ screen' = "finished"

GotoIdle ==
  /\ ResetSession(motor)
  /\ dispensed' = [dispensed EXCEPT !.tk = 0]
  /\ Enter("IDLE")

(* _gotoActivatedState(): the amount index is 0 or the one last chosen *)
GotoActivated(d) ==
  /\ dx' = d
  /\ product' = d
  /\ selected' = AmountOf(prod, d, amount_index)
  /\ coms' = Append(coms, Event("Started", d, Zero, Zero, measured'))
  /\ screen' = "selection"
  /\ Enter("ACTIVE")

\* mutation: the display is not told of the cancel page
GotoCancelUnseen(s) ==
  /\ UNCHANGED screen
  /\ Send("Cancel Init")
  /\ timer' = StartTimer(PeriodWaitEvent, late)
  /\ Enter(s)

\* mutation: the timer is stopped for the cancel page and not started again
GotoCancelUntimed(s) ==
  /\ screen' = "cancel"
  /\ Send("Cancel Init")
  /\ timer' = [timer EXCEPT !.period = 0]
  /\ Enter(s)

(* _gotoCancelState(), _gotoCancelInDxState() *)
GotoCancel(s) ==
  /\ screen' = "cancel"
  /\ Send("Cancel Init")
  /\ timer' = StartTimer(PeriodWaitEvent, late)
  /\ Enter(s)

\* mutation: only a full measure is reported
PrintFullOnly(sel, g, m, sent, spent, mine) ==
  /\ coms' = IF g.ml >= sel.ml
             THEN Append(sent, Event("Finished", product, sel, g, mine))
             ELSE sent
  /\ late' = late + spent + (IF g.ml > 0 THEN CompletedDelay ELSE 0)
  /\ dispensed' = [ml |-> g.ml, tk |-> 0]
  /\ ResetSession(m)
  /\ Enter("IDLE")

(* _gotoPrintState() with g dispensed, m the motors, spent the delay() time *)
(* of the handler so far: _doDispenseCompleted() if a volume is recorded,   *)
(* and in both cases _doFinished(), which goes to IDLE at once.             *)
PrintAndFinish(sel, g, m, sent, spent, mine) ==
  /\ coms' = IF g.ml > 0
             THEN Append(sent, Event("Finished", product, sel, g, mine))
             ELSE sent
  /\ late' = late + spent + (IF g.ml > 0 THEN CompletedDelay ELSE 0)
  /\ dispensed' = [ml |-> g.ml, tk |-> 0]
  /\ ResetSession(m)
  /\ Enter("IDLE")
-----------------------------------------------------------------------------
(* _doCheckSerial(): the commands, with the arguments _checkCmdArgs() lets *)
(* through.  A locked device only listens to CMD_ESP_UNLOCK.               *)
Command(c) == pc = "serial" /\ state # "LOCKED" /\ c \in Service

ToSwitch == pc' = "switch" /\ UNCHANGED <<loop_dx, rebooted>>

(* Identification, listings, features, voltage ranges, refused arguments,  *)
(* and what a locked device ignores.                                       *)
CmdWithoutEffect ==
  /\ pc = "serial"
  /\ ToSwitch
  /\ UNCHANGED <<late, state, queued, sessionVars, pourVars, timerVars, motorVars,
                 ahead, nvmVars, outVars>>

CmdFlowRate(rates) ==
  /\ Command("flow_rate")
  /\ prod' = SetFlowRate(prod, rates)
  /\ ToSwitch
  /\ UNCHANGED <<late, state, queued, sessionVars, pourVars, timerVars, motorVars,
                 ahead, locked, outVars>>

CmdProductTable(d, amounts) ==
  /\ Command("product_table")
  /\ prod' = SetTable(prod, d, amounts)
  /\ ToSwitch
  /\ UNCHANGED <<late, state, queued, sessionVars, pourVars, timerVars, motorVars,
                 ahead, locked, outVars>>

(* CMD_CAL_PRINT_RAW: leaves whatever state the machine is in *)
CmdPrintRaw(on) ==
  /\ Command("raw_stream")
  /\ queued' = IF on THEN "RAW_STREAM" ELSE "IDLE"
  /\ ToSwitch
  /\ UNCHANGED <<late, state, sessionVars, pourVars, timerVars, motorVars,
                 ahead, nvmVars, outVars>>

(* CMD_PRINT_SIM_DX: reports amount i of dispenser d as dispensed.  The    *)
(* selected amount and product sent with it are those of the moment.       *)
CmdPrintSimDx(d, i) ==
  LET g == AmountOf(prod, d, i)
  IN  /\ Command("sim_dx")
      /\ coms' = Append(coms, Event("Finished", product, selected, g, FALSE))
      /\ late' = late + CompletedDelay
      /\ dispensed' = [ml |-> g.ml, tk |-> 0]
      /\ measured' = FALSE
      /\ ResetSession(motor)
      /\ queued' = "IDLE"
      /\ ToSwitch
      /\ UNCHANGED <<state, flow_rate, time_delta, time_at_pause, pour, timerVars,
                     test, ahead, nvmVars>>

(* CMD_MOTORS_RUNTIME: startRunForTimePeriod(), in any state *)
CmdMotorsRuntime(d, fwd, period) ==
  /\ Command("motors_runtime")
  /\ motor' = Run(motor, d, fwd)
  /\ test' = StartTimer(period, late)
  /\ ahead' = ahead \ {"motor test"}
  /\ queued' = "MOTOR_TEST"
  /\ ToSwitch
  /\ UNCHANGED <<late, state, sessionVars, pourVars, timerVars, nvmVars, outVars>>

(* CMD_MOTORS_STOP: only a motor test goes back to idle *)
CmdMotorsStop ==
  /\ Command("motors_stop")
  /\ IF state = "MOTOR_TEST"
     THEN /\ ResetSession(motor)
          /\ dispensed' = [dispensed EXCEPT !.tk = 0]
          /\ queued' = "IDLE"
     ELSE /\ motor' = Stop(motor)
          /\ UNCHANGED <<queued, sessionVars, dispensed, screen>>
  /\ ToSwitch
  /\ UNCHANGED <<late, state, flow_rate, time_delta, time_at_pause, pour, measured,
                 timerVars, test, ahead, nvmVars, coms>>

CmdReset == Command("reset") /\ Reboot(locked)

CmdLock == Command("lock") /\ Reboot(TRUE)

(* CMD_ESP_UNLOCK with the right PIN *)
CmdUnlock ==
  /\ pc = "serial" /\ state = "LOCKED" /\ "unlock" \in Service
  /\ Reboot(FALSE)

DoCheckSerial ==
  \/ CmdWithoutEffect
  \/ \E r \in Rates : CmdFlowRate(r)
  \/ \E d \in DX, t \in Tables : CmdProductTable(d, t)
  \/ \E on \in BOOLEAN : CmdPrintRaw(on)
  \/ \E d \in DX, i \in Amounts : CmdPrintSimDx(d, i)
  \/ \E d \in DX, fwd \in BOOLEAN, p \in TestPeriods : CmdMotorsRuntime(d, fwd, p)
  \/ CmdMotorsStop
  \/ CmdReset
  \/ CmdLock
  \/ CmdUnlock
-----------------------------------------------------------------------------
(* The switch of process().  A button event is consumed by the handler     *)
(* that sees it; the timer is looked at only when there is none.           *)
Pressed(b) == loop_dx \in DX /\ b \in Buttons

TimedOut == PeriodDone(timer, 0) /\ timer' = ConsumePeriod(timer)

(* _doIdleState(): the first dispenser with an event; its button is dropped *)
DoIdleState(d) ==
  /\ Switch("IDLE")
  /\ measured' = FALSE
  /\ GotoActivated(d)
  /\ timer' = StartTimer(PeriodWaitEvent, late)
  /\ UNCHANGED <<late, amount_index, dispensed, flow_rate, time_delta, time_at_pause,
                 pour, updateTimer, motorVars, ahead, nvmVars>>

(* _onBtnInActiveState(), UP and DOWN: the index stays within the table *)
ChangeAmount(b) ==
  /\ Switch("ACTIVE") /\ b \in {"UP", "DOWN"} /\ Pressed(b)
  /\ amount_index' = IF b = "UP"
                     THEN LeastOf(amount_index + 1, 2)
                     ELSE IF amount_index > 0 THEN amount_index - 1 ELSE 0
  /\ selected' = AmountOf(prod, dx, amount_index')
  /\ screen' = "selection"
  /\ Stay
  /\ UNCHANGED <<late, dx, product, pourVars, timerVars, motorVars, ahead, nvmVars, coms>>

(* _gotoWaitGreenState() *)
ConfirmAmount ==
  /\ Switch("ACTIVE") /\ Pressed("GREEN")
  /\ Send("Amount Chosen")
  /\ screen' = "press green"
  /\ timer' = StartTimer(PeriodWaitEvent, late)
  /\ Enter("WAIT_BTN_GREEN")
  /\ UNCHANGED <<late, sessionVars, pourVars, updateTimer, motorVars, ahead, nvmVars>>

(* _gotoWaitBeforeStartState() *)
ConfirmStart ==
  /\ Switch("WAIT_BTN_GREEN") /\ Pressed("GREEN")
  /\ timer' = StartTimer(PeriodBeforeStart, late)
  /\ screen' = "push bottle"
  /\ Enter("WAIT_BEFORE_START")
  /\ UNCHANGED <<late, sessionVars, pourVars, updateTimer, motorVars, ahead, nvmVars, coms>>

(* _gotoWaitTriggerState() *)
GotoWaitTrigger ==
  /\ Switch("WAIT_BEFORE_START") /\ PeriodDone(timer, 0)
  /\ timer' = StartTimer(PeriodPause, late)
  /\ Enter("WAIT_TRIGGER")
  /\ UNCHANGED <<late, sessionVars, pourVars, updateTimer, motorVars, ahead, nvmVars, outVars>>

(* RED before dispensing, or no trigger in time: _gotoCancelState() *)
Cancel ==
  /\ \/ Switch("ACTIVE") /\ Pressed("RED")
     \/ Switch("WAIT_BTN_GREEN") /\ Pressed("RED")
     \/ Switch("WAIT_TRIGGER") /\ PeriodDone(timer, 0)
  /\ GotoCancel("CANCEL")
  /\ UNCHANGED <<late, sessionVars, pourVars, updateTimer, motorVars, ahead, nvmVars>>

(* _onBtnInCancelState(), GREEN: back to the selection, the timer goes on *)
ResumeSelection ==
  /\ Switch("CANCEL") /\ Pressed("GREEN") /\ dx \in DX
  /\ UNCHANGED measured
  /\ GotoActivated(dx)
  /\ UNCHANGED <<late, amount_index, dispensed, flow_rate, time_delta, time_at_pause,
                 pour, timerVars, motorVars, ahead, nvmVars>>

(* No event in time, or RED in CANCEL: the session ends with no report *)
Abandon ==
  /\ \/ \E s \in {"ACTIVE", "WAIT_BTN_GREEN", "CANCEL"} : Switch(s) /\ TimedOut
     \/ Switch("CANCEL") /\ Pressed("RED") /\ timer' = timer
  /\ GotoIdle
  /\ UNCHANGED <<late, flow_rate, time_delta, time_at_pause, pour, measured,
                 updateTimer, test, ahead, nvmVars, coms>>

(* _gotoDispenseState(), on the limit switch *)
StartDispense ==
  /\ Switch("WAIT_TRIGGER") /\ loop_dx \in DX /\ ~PeriodDone(timer, 0)
  /\ flow_rate' = FlowRate(prod, dx)
  /\ updateTimer' = StartTimer(PeriodUpdate, late)
  /\ motor' = Run(motor, dx, TRUE)
  /\ pour' = 0 - late /\ ahead' = ahead \ {"dispense"}
  /\ time_at_pause' = 0
  /\ screen' = "dispensing"
  /\ Enter("DISPENSING")
  /\ UNCHANGED <<late, sessionVars, dispensed, time_delta, measured, timer, test,
                 nvmVars, coms>>

(* _onContinueDispense(): _dx_time_start is time_stamp *)
ContinueDispense ==
  /\ Switch("PAUSED") /\ loop_dx \in DX
  /\ flow_rate' = FlowRate(prod, dx)
  /\ updateTimer' = RestartTimer(updateTimer, late)
  /\ motor' = Run(motor, dx, TRUE)
  /\ pour' = 0 /\ ahead' = ahead \ {"dispense"}
  /\ Enter("DISPENSING")
  /\ UNCHANGED <<late, sessionVars, dispensed, time_delta, time_at_pause, measured,
                 timer, test, nvmVars, outVars>>
-----------------------------------------------------------------------------
(* _doDispense(), the switch pressed.  delta is the new _dx_time_delta.    *)
Delta        == LeastOf(pour + time_at_pause, PourCap)
MeasurableLater == pour > MinDelta   \* mutation: 0.2 s counted from every press
Measurable   == pour > 0 /\ "dispense" \notin ahead
NewMl        == VolumeOf(Delta, flow_rate)
NewTk        == PriceOfVolume(prod, dx, NewMl)
UpdateDue    == PeriodDone(updateTimer, late)
TargetMl     == IF UpdateDue /\ selected.ml = 0 THEN 1 ELSE selected.ml
DispenseExact == NewMl = TargetMl    \* mutation: stops at equality only
DispenseDone == NewMl >= TargetMl \/ NewTk >= selected.tk

Target       == [selected EXCEPT !.ml = TargetMl]

\* mutation: what was poured counts, not what was selected
FullMeasureAsPoured == [ml |-> NewMl, tk |-> NewTk]

(* Done: what was selected counts as dispensed. *)
FullMeasure == Target

Dispensing == Switch("DISPENSING") /\ loop_dx \in DX

(* _dx_time_start >= time_now, or less than 0.2 s in all *)
TooEarly ==
  /\ Dispensing
  /\ Measurable => Delta < MinDelta
  /\ time_delta' = IF Measurable THEN Delta ELSE time_delta
  /\ Stay
  /\ UNCHANGED <<late, sessionVars, dispensed, flow_rate, time_at_pause, pour, measured,
                 timerVars, motorVars, ahead, nvmVars, outVars>>

DispenseProgress ==
  /\ Dispensing /\ Measurable /\ Delta >= MinDelta /\ ~DispenseDone
  /\ time_delta' = Delta
  /\ dispensed' = [ml |-> NewMl, tk |-> NewTk]
  /\ measured' = TRUE
  /\ selected' = Target
  /\ IF UpdateDue THEN updateTimer' = RestartTimer(updateTimer, late) /\ screen' = "dispensing"
                  ELSE UNCHANGED <<updateTimer, screen>>
  /\ Stay
  /\ UNCHANGED <<late, dx, product, amount_index, flow_rate, time_at_pause, pour, timer,
                 motorVars, ahead, nvmVars, coms>>

(* The selected volume or price is reached: stop, draw back, report. *)
DispenseComplete ==
  /\ Dispensing /\ Measurable /\ Delta >= MinDelta /\ DispenseDone /\ TargetMl # 0
  /\ time_delta' = Delta
  /\ measured' = TRUE
  /\ updateTimer' = IF UpdateDue THEN RestartTimer(updateTimer, late) ELSE updateTimer
  /\ PrintAndFinish(Target, FullMeasure, DrawBack(motor, dx), coms, ReverseDelay, TRUE)
  /\ UNCHANGED <<flow_rate, time_at_pause, pour, timer, test, ahead, nvmVars>>

(* Done with a selected volume of 0 (a table entry below 1 ml) before the  *)
(* first update of the display: the progress is divided by 0, the ESP32    *)
(* raises an exception and restarts.                                       *)
DispensePanic ==
  /\ Dispensing /\ Measurable /\ Delta >= MinDelta /\ TargetMl = 0
  /\ Reboot(locked)

(* _gotoPausedState(), the switch released *)
PauseDispense ==
  /\ Switch("DISPENSING")
  /\ time_at_pause' = time_delta
  /\ IF dispensed.ml > 0
     THEN motor' = DrawBack(motor, dx) /\ late' = late + ReverseDelay
     ELSE motor' = Stop(motor) /\ UNCHANGED late
  /\ timer' = StartTimer(PeriodPause, late')
  /\ screen' = "push bottle"
  /\ Enter("PAUSED")
  /\ UNCHANGED <<sessionVars, dispensed, flow_rate, time_delta, pour, measured,
                 updateTimer, test, ahead, nvmVars, coms>>

(* PAUSED for too long: Time Out, then _gotoPrintState() *)
PauseTimeOut ==
  /\ Switch("PAUSED") /\ TimedOut
  /\ PrintAndFinish(selected, dispensed, motor,
                    Append(coms, Event("Time Out", product, selected,
                                       [ml |-> dispensed.ml, tk |-> 0], measured)),
                    0, measured)
  /\ UNCHANGED <<flow_rate, time_delta, time_at_pause, pour, measured, updateTimer,
                 test, ahead, nvmVars>>

(* _onBtnInPause(), RED *)
CancelInDx ==
  /\ Switch("PAUSED") /\ Pressed("RED") /\ ~PeriodDone(timer, 0)
  /\ GotoCancel("CANCEL_IN_DX")
  /\ UNCHANGED <<late, sessionVars, pourVars, updateTimer, motorVars, ahead, nvmVars>>

(* _onBtnInCancelInDxState(), GREEN *)
BackToPaused ==
  /\ Switch("CANCEL_IN_DX") /\ Pressed("GREEN")
  /\ timer' = StartTimer(PeriodPause, late)
  /\ screen' = "push bottle"
  /\ Enter("PAUSED")
  /\ UNCHANGED <<late, sessionVars, pourVars, updateTimer, motorVars, ahead, nvmVars, coms>>

(* RED in CANCEL_IN_DX, or no event in time: _gotoPrintState() *)
StopInDx ==
  /\ Switch("CANCEL_IN_DX")
  /\ TimedOut \/ (Pressed("RED") /\ timer' = timer)
  /\ PrintAndFinish(selected, dispensed, motor, coms, 0, measured)
  /\ UNCHANGED <<flow_rate, time_delta, time_at_pause, pour, measured, updateTimer,
                 test, ahead, nvmVars>>
-----------------------------------------------------------------------------
MotorTestOverOnceStopped ==      \* mutation: the early return inverted
  test.elapsed > 0 /\ ~motor.running /\ PeriodDone(test, 0)

(* STATE_MOTOR_TEST: doRunForPeriod(), a period of 0 being for ever *)
MotorTestOver ==
  /\ test.elapsed > 0 /\ "motor test" \notin ahead
  /\ motor.running
  /\ PeriodDone(test, 0)

EndMotorTest ==
  /\ Switch("MOTOR_TEST") /\ MotorTestOver
  /\ motor' = Stop(motor)
  /\ Stay
  /\ UNCHANGED <<late, sessionVars, pourVars, timerVars, test, ahead, nvmVars, outVars>>

(* A button without a meaning in this state: it only keeps the timer from  *)
(* being looked at.                                                        *)
IgnoredButton ==
  /\ \/ \E s \in {"WAIT_BTN_GREEN", "CANCEL", "CANCEL_IN_DX"}, b \in {"UP", "DOWN"} :
          Switch(s) /\ Pressed(b)
     \/ Switch("CANCEL") /\ Pressed("GREEN") /\ dx \notin DX
  /\ Stay
  /\ UNCHANGED <<late, sessionVars, pourVars, timerVars, motorVars, ahead, nvmVars, outVars>>

(* The switch changes nothing: no event, no time out, no trigger. *)
NothingToDo ==
  /\ pc = "switch"
  /\ \/ state \in {"IDLE", "LOCKED", "RAW_STREAM"}
     \/ state = "MOTOR_TEST" /\ ~MotorTestOver
     \/ /\ state \in {"ACTIVE", "WAIT_BTN_GREEN", "WAIT_BEFORE_START", "WAIT_TRIGGER",
                      "PAUSED", "CANCEL", "CANCEL_IN_DX"}
        /\ ~PeriodDone(timer, 0)
  /\ Stay
  /\ UNCHANGED <<late, sessionVars, pourVars, timerVars, motorVars, ahead, nvmVars, outVars>>

Process ==
  \/ \E d \in DX : DoIdleState(d)
  \/ \E b \in Buttons : ChangeAmount(b)
  \/ ConfirmAmount
  \/ ConfirmStart
  \/ GotoWaitTrigger
  \/ Cancel
  \/ ResumeSelection
  \/ Abandon
  \/ StartDispense
  \/ ContinueDispense
  \/ TooEarly
  \/ DispenseProgress
  \/ DispenseComplete
  \/ DispensePanic
  \/ PauseDispense
  \/ PauseTimeOut
  \/ CancelInDx
  \/ BackToPaused
  \/ StopInDx
  \/ EndMotorTest
  \/ IgnoredButton
  \/ NothingToDo

Next ==
  \/ \E d \in 0 .. MaxLoop : Begin(d)
  \/ DoCheckSerial
  \/ Process
  \/ PowerLoss

Spec == Init /\ [][Next]_vars

(* loop() is called for ever, each call ends, and millis() moves on: calls *)
(* a tick or more apart never stop coming.                                 *)
Fairness ==
  /\ SF_vars(\E d \in 1 .. MaxLoop : Begin(d))
  /\ WF_vars(DoCheckSerial)
  /\ WF_vars(Process)

FairSpec == Spec /\ Fairness
-----------------------------------------------------------------------------
(* Every variable keeps its type. *)
TypeOK ==
  /\ pc \in {"start", "serial", "switch"}
  /\ late \in Nat
  /\ loop_dx \in 0 .. NumDx
  /\ state \in States /\ queued \in States
  /\ dx \in 0 .. NumDx /\ product \in 0 .. NumDx
  /\ amount_index \in Amounts
  /\ selected \in Pair /\ dispensed \in Pair
  /\ flow_rate \in Nat \ {0}
  /\ time_delta \in Int /\ time_at_pause \in Int /\ pour \in Int
  /\ timer \in TimerType /\ updateTimer \in TimerType /\ test \in TimerType
  /\ motor \in MotorType
  /\ ahead \subseteq Starts
  /\ prod \in ProductType
  /\ locked \in BOOLEAN
  /\ coms \in Seq(EventType)
  /\ screen \in Screens
  /\ measured \in BOOLEAN /\ rebooted \in BOOLEAN

(* As long as the technician keeps to configuration commands, a pump is    *)
(* driven exactly while the machine measures a dispense: the pump of the   *)
(* active dispenser, forward, alone.  A pump left on outside DISPENSING    *)
(* empties the tank; a pump that is off inside it charges for nothing.     *)
MotorMatchesState ==
  /\ motor.on = IF state = "DISPENSING" THEN {dx} ELSE {}
  /\ state = "DISPENSING" => motor.running /\ motor.fwd
  /\ motor.running => state = "DISPENSING"

(* The comment in process() says IDLE is "_dx_activated == 0".  In a       *)
(* session the dispenser being served is the one the loop polls and the    *)
(* one whose product is reported; outside there is none.  And no state is  *)
(* queued behind the back of the handler that chooses the next one.        *)
SessionMatchesState ==
  /\ (state \in {"IDLE", "LOCKED"}) <=> dx = 0
  /\ product = dx
  /\ pc # "start" => loop_dx = dx
  /\ queued = state

(* What the customer pays for is an entry of the table of the dispenser in *)
(* use, the one at the index UP and DOWN move, through every detour over   *)
(* the cancel pages, and nothing of it is left for the next customer.      *)
SelectionFromTable ==
  IF dx = 0 THEN selected = Zero /\ amount_index = 0 /\ dispensed.tk = 0
            ELSE \E t \in {prod.table[dx], InitProduct.table[dx]} \cup Tables :
                   LET e == t[amount_index]
                   IN  selected \in {e, [e EXCEPT !.ml = IF e.ml = 0 THEN 1 ELSE e.ml]}

(* Product leaves the nozzle uncounted for at most one loop per press of   *)
(* the trigger, as long as millis() does not overflow during the press.    *)
UncountedPourBounded ==
  state = "DISPENSING" /\ "dispense" \notin ahead
    => pour + late <= time_delta - time_at_pause + MaxLoop

Reported(events) == {i \in DOMAIN events : events[i].event = "Finished"}

(* No customer is charged more than the price selected, and what is        *)
(* charged belongs to a dispenser, however the dispense came to its end.   *)
NeverOverCharged ==
  \A i \in Reported(coms) :
    /\ coms[i].dispensed.tk <= coms[i].selected.tk
    /\ coms[i].product \in DX

(* Finished "is sent on completed dispense, if the dispensed volume (ml)   *)
(* > 0" (dxI2Cio.h): the volume is one measured in this session.           *)
FinishedHasVolume == \A i \in Reported(coms) : coms[i].mine

(* Whatever the technician does in the middle of a dispense, at most one   *)
(* pump is driven, and the driver knows which.                             *)
OnePumpAtATime ==
  motor.on = IF motor.running THEN {motor.dx} ELSE {}

(* The page shown asks for what the state waits for. *)
PagesFor(s) ==
  CASE s = "IDLE"   -> {"finished"}
    [] s = "ACTIVE" -> {"selection"}
    [] s = "WAIT_BTN_GREEN" -> {"press green"}
    [] s \in {"WAIT_BEFORE_START", "WAIT_TRIGGER", "PAUSED"} -> {"push bottle"}
    [] s \in {"CANCEL", "CANCEL_IN_DX"} -> {"cancel"}
    [] s = "DISPENSING" -> {"dispensing", "push bottle"}
    [] s = "LOCKED" -> {"none"}
    [] OTHER -> Screens

ScreenMatchesState == screen \in PagesFor(state)

(* What the states mean to the customer. *)
PhaseOf(s) ==
  CASE s = "LOCKED" -> "off"
    [] s \in {"ACTIVE", "WAIT_BTN_GREEN", "CANCEL"}  -> "choosing"
    [] s \in {"WAIT_BEFORE_START", "WAIT_TRIGGER"}  -> "armed"
    [] s = "DISPENSING" -> "pouring"
    [] s \in {"PAUSED", "CANCEL_IN_DX"} -> "held"
    [] OTHER -> "free"

Contract == INSTANCE DispenseContract WITH
  Dispensers <- DX,
  phase      <- PhaseOf(state),
  serving    <- dx,
  pump       <- IF Pouring(motor) THEN motor.dx ELSE 0,
  owed       <- measured /\ dx # 0,
  reports    <- Cardinality(Reported(coms)),
  restarted  <- rebooted

(* The state machine keeps the customer's contract: what is measured is    *)
(* reported exactly once, on every way a session can end, and pumps run    *)
(* only in armed sessions.                                                 *)
KeepsContract == Contract!CSpec

(* A press of the trigger ends: the volume is reached, or the press is     *)
(* over, even if the customer never lets go.                               *)
PourEnds == state = "DISPENSING" ~> state # "DISPENSING"

CustomerStep ==
  \/ \E d \in DX : DoIdleState(d)
  \/ \E b \in Buttons : ChangeAmount(b)
  \/ ConfirmAmount \/ ConfirmStart \/ ResumeSelection \/ StartDispense
  \/ ContinueDispense \/ CancelInDx \/ BackToPaused \/ IgnoredButton
  \/ Cancel /\ state # "WAIT_TRIGGER"

(* A machine its customer walks away from, at any point of a session, is   *)
(* free for the next one, unless a technician took it over for a motor     *)
(* test: MOTOR_TEST is only left by the command that stops the test.       *)
AbandonedMachineFrees ==
  <>[][~CustomerStep /\ ~DoCheckSerial]_vars
    => <>[](state \in {"IDLE", "LOCKED", "MOTOR_TEST"})

(* A motor test ends with its pump off: once the technician and the         *)
(* customer leave, no pump is left running.  A test that still has its      *)
(* state stops at its period; one whose state was overwritten by the        *)
(* handler that ran in the same call of process() is timed by nobody, and   *)
(* only the end of the session it was started in stops it.                  *)
MotorTestEnds ==
  <>[][~CustomerStep /\ ~DoCheckSerial]_vars => []<>(motor.on = {})
=============================================================================
