----------------------------- MODULE MultiButtons -----------------------------
(***************************************************************************)
(* The buttons of the dispensers: MultiButtons.cpp with DxButtons and the  *)
(* states of DxStateMachine that call it.  The buttons of a dispenser      *)
(* share one analog pin.  A reading counts only when three samples agree,  *)
(* and a change is looked at twice, 100 ms apart; the time of the last     *)
(* look is one static variable for all dispensers.  A dispenser is only    *)
(* sampled while the state machine calls its loop(): all of them in the    *)
(* idle state, up to the first that has an event, then the one in session, *)
(* and none while it pours.                                                *)
(***************************************************************************)
EXTENDS Integers, FiniteSetsExt

CONSTANTS
  NUM_DX,     \* dispensers
  NUM_BTNS,   \* buttons of a dispenser
  Samples,    \* samples that must agree: 3
  Period      \* the 100 ms between two looks, in loop intervals: 4

ASSUME ButtonsAssumption ==
  /\ NUM_DX \in Nat \ {0} /\ NUM_BTNS \in Nat \ {0}
  /\ Samples \in Nat \ {0} /\ Period \in Nat \ {0}

VARIABLES
  held,       \* the button that is held down on each dispenser
  buf,        \* _median and _ave: the buttons they have samples of ...
  count,      \* ... and how many samples, counted up to Samples
  readPhase,  \* _readPhase: 1 or 2
  lastBtn,    \* _lastPressedBtn
  elapsed,    \* intervals since the static last_event, counted up to Period
  serving,       \* "idle", "session" or "pouring"
  active,     \* the dispenser in session
  next,       \* the next dispenser to be sampled in this interval
  seen        \* history: buttons sampled since the last event of the dispenser

btnVars == <<held, buf, count, readPhase, lastBtn, elapsed, serving, active, next, seen>>

Dx == 1 .. NUM_DX
Btns == 0 .. NUM_BTNS - 1
None == -1
RoundDone == NUM_DX + 1

ButtonsInit ==
  /\ held = [d \in Dx |-> None]
  /\ buf = [d \in Dx |-> {}] /\ count = [d \in Dx |-> 0]
  /\ readPhase = [d \in Dx |-> 1] /\ lastBtn = [d \in Dx |-> None]
  /\ elapsed = 0 /\ serving = "idle" /\ active = 0 /\ next = 1
  /\ seen = [d \in Dx |-> {}]

ButtonsTypeOK ==
  /\ held \in [Dx -> Btns \cup {None}] /\ lastBtn \in [Dx -> Btns \cup {None}]
  /\ buf \in [Dx -> SUBSET Btns] /\ seen \in [Dx -> SUBSET Btns]
  /\ count \in [Dx -> 0 .. Samples] /\ readPhase \in [Dx -> {1, 2}]
  /\ elapsed \in 0 .. Period /\ next \in 1 .. RoundDone
  /\ serving \in {"idle", "session", "pouring"} /\ active \in 0 .. NUM_DX

-----------------------------------------------------------------------------
(* _filterReading(): a reading near zero empties the buffers.              *)
NewBuf(d)   == IF held[d] = None THEN {} ELSE buf[d] \cup {held[d]}
NewCount(d) == IF held[d] = None THEN 0 ELSE Min({count[d] + 1, Samples})

(* _readButton(): none before there are enough samples.  From samples of
   several buttons the filter makes one of them, or their spread is too big. *)
Readings(d) ==
  IF NewCount(d) < Samples THEN {None}
  ELSE NewBuf(d) \cup (IF Cardinality(NewBuf(d)) > 1 THEN {None} ELSE {})

Keeps(d) ==
  /\ buf' = [buf EXCEPT ![d] = NewBuf(d)]
  /\ count' = [count EXCEPT ![d] = NewCount(d)]

PassOnPress(d, button) ==                                     \* a faulty variant
  /\ readPhase[d] = 1 /\ button # lastBtn[d] /\ button # None
  /\ readPhase' = [readPhase EXCEPT ![d] = 2]
  /\ elapsed' = 0
  /\ Keeps(d)
  /\ UNCHANGED lastBtn

(* The first look: a reading that is not the last one. *)
FirstPass(d, button) ==
  /\ readPhase[d] = 1 /\ button # lastBtn[d]
  /\ readPhase' = [readPhase EXCEPT ![d] = 2]
  /\ elapsed' = 0
  /\ Keeps(d)
  /\ UNCHANGED lastBtn

NoPass(d, button) ==
  /\ \/ readPhase[d] = 1 /\ button = lastBtn[d]
     \/ readPhase[d] = 2 /\ elapsed < Period
  /\ Keeps(d)
  /\ UNCHANGED <<readPhase, lastBtn, elapsed>>

LastKept(d, button) ==                                        \* a faulty variant
  IF button = None THEN lastBtn ELSE [lastBtn EXCEPT ![d] = button]
NewLast(d, button) == [lastBtn EXCEPT ![d] = button]

(* The second look: the button was released that the last one saw. *)
SecondPass(d, button) ==
  /\ readPhase[d] = 2 /\ elapsed >= Period
  /\ readPhase' = [readPhase EXCEPT ![d] = 1]
  /\ elapsed' = 0
  /\ lastBtn' = NewLast(d, button)
  /\ buf' = [buf EXCEPT ![d] = {}] /\ count' = [count EXCEPT ![d] = 0]

IsEvent(d, button) ==
  readPhase[d] = 2 /\ elapsed >= Period /\ button = None /\ lastBtn[d] # None

-----------------------------------------------------------------------------
(* _doIdleState() and the session's btnLoop(dx_num): an event of an idle
   machine activates its dispenser and ends the round. *)
btnLoop(d) ==
  /\ next = d
  /\ \E button \in Readings(d) :
       /\ FirstPass(d, button) \/ NoPass(d, button) \/ SecondPass(d, button)
       /\ IF IsEvent(d, button)
          THEN /\ seen' = [seen EXCEPT ![d] = {}]
               /\ serving' = "session" /\ active' = d /\ next' = RoundDone
          ELSE /\ seen' = [seen EXCEPT ![d] = @ \cup ({held[d]} \ {None})]
               /\ next' = IF serving = "idle" THEN d + 1 ELSE RoundDone
               /\ UNCHANGED <<serving, active>>
  /\ UNCHANGED held

(* The next interval of 25 ms: who is sampled depends on the state. *)
NextInterval ==
  /\ next = RoundDone
  /\ next' = IF serving = "idle" THEN 1 ELSE IF serving = "session" THEN active ELSE RoundDone
  /\ elapsed' = Min({elapsed + 1, Period})
  /\ UNCHANGED <<held, buf, count, readPhase, lastBtn, serving, active, seen>>

(* The customer. *)
Press(d) ==
  /\ held[d] = None
  /\ \E b \in Btns : held' = [held EXCEPT ![d] = b]
  /\ UNCHANGED <<buf, count, readPhase, lastBtn, elapsed, serving, active, next, seen>>

Release(d) ==
  /\ held[d] # None
  /\ held' = [held EXCEPT ![d] = None]
  /\ UNCHANGED <<buf, count, readPhase, lastBtn, elapsed, serving, active, next, seen>>

(* The session goes on as DxStateMachine says. *)
SessionMoves ==
  /\ next = RoundDone
  /\ \/ serving = "session" /\ serving' \in {"pouring", "idle"}
     \/ serving = "pouring" /\ serving' \in {"session", "idle"}
  /\ active' = IF serving' = "idle" THEN 0 ELSE active
  /\ UNCHANGED <<held, buf, count, readPhase, lastBtn, elapsed, next, seen>>

Loops == (\E d \in Dx : btnLoop(d)) \/ NextInterval

ButtonsNext ==
  \/ Loops \/ SessionMoves
  \/ \E d \in Dx : Press(d) \/ Release(d)

-----------------------------------------------------------------------------
(* An event names a button that was down at a sample taken since the last     *)
(* event of its dispenser: none is made up of what the filters of another     *)
(* button or of a session before this one have left (_getButton,              *)
(* _filterReading).  One press may still give two events: a button that is    *)
(* held while the machine pours is taken for released when too few samples    *)
(* were kept, and is reported again when it is.                               *)
ReportIsFresh == \A d \in Dx : lastBtn[d] # None => lastBtn[d] \in seen[d]

(* A press that was noticed is forgotten only with its event, which empties   *)
(* seen, or for another button of the dispenser that was down at the second   *)
(* look: that one replaces it without an event.  And once the buttons are     *)
(* left alone and the machine is idle again and again, none waits for its     *)
(* event for ever, although all dispensers delay each other by the one        *)
(* last_event they share (_getButton).                                        *)
PressIsReported ==
  /\ [][\A d \in Dx : lastBtn[d] # None /\ lastBtn'[d] = None => seen'[d] = {}]_btnVars
  /\ <>[](\A d \in Dx : held[d] = None) /\ []<>(serving = "idle")
       => []<>(\A d \in Dx : lastBtn[d] = None)
=============================================================================
