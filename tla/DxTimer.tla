------------------------------- MODULE DxTimer -------------------------------
(***************************************************************************)
(* DxTimerHelper (dxtimerhelper.h): a period and the millis() value it was *)
(* last started at.                                                        *)
(*                                                                         *)
(* The class only ever uses the unsigned 32-bit difference between the     *)
(* clock and _last_time, and no timer of the firmware runs for anything    *)
(* like 2^32 ms, so that difference is the time really elapsed, whether or *)
(* not the clock overflowed in between.  The model keeps it as `elapsed`,  *)
(* measured at a reference instant chosen by the module that uses the      *)
(* timer; a timer started `late` after that instant has elapsed = -late.   *)
(***************************************************************************)
EXTENDS Integers

LeastOf(a, b) == IF a <= b THEN a ELSE b

TimerType == [period : Nat, elapsed : Int]

(* start(period): setCfg(true, period), _last_time = millis() *)
StartTimer(period, late) == [period |-> period, elapsed |-> 0 - late]

(* start(): the same with the period the timer already has *)
RestartTimer(t, late) == StartTimer(t.period, late)

(* _isPeriodDone(): setCfg deactivates a timer whose period is 0 *)
PeriodDone(t, late) == t.period > 0 /\ t.elapsed + late >= t.period

(* _isPeriodDone() returning true moves _last_time to the time it was given *)
ConsumePeriod(t) == [t EXCEPT !.elapsed = 0]

(* Time passes.  A due timer stays due: how much it is overdue is not kept. *)
AgeTimer(t, n) == [t EXCEPT !.elapsed = LeastOf(@ + n, t.period)]
=============================================================================
