----------------------- MODULE DxClientTelemetry_proofs -----------------------
(***************************************************************************)
(* Safety of what the comms ESP sends: no number of a dispense that was    *)
(* saved is given twice, and no TakeStock command is lost.  And safety of  *)
(* the connection with all that is sent over it: AzureIoT's invariant      *)
(* holds under the traffic and over restarts.                              *)
(***************************************************************************)
EXTENDS DxClientTelemetry, AzureIoT_proofs

(* The frames of the senders, and what one step of a sender does to them.  *)
Fields == {"pc", "kind", "saved", "topic", "text"}
Shape  == DOMAIN send = Tasks /\ \A t \in Tasks : DOMAIN send[t] = Fields

SameRun(s) == send'[s].pc = send[s].pc /\ send'[s].kind = send[s].kind

Becomes(t, pc, kind, saved) ==
  /\ Shape'
  /\ send'[t].pc = pc /\ send'[t].kind = kind /\ send'[t].saved = saved
  /\ \A s \in Tasks \ {t} : SameRun(s) /\ send'[s].saved = send[s].saved

Finishes(t) == \E pc \in {"idle", "resend", "done"} : Becomes(t, pc, "none", FALSE)

LEMMA IdleFields ==
  DOMAIN Idle = Fields /\ Idle.pc = "idle" /\ Idle.kind = "none" /\ Idle.saved = FALSE
BY DEF Idle, Fields

LEMMA StepBecomes ==
  ASSUME Shape, NEW t \in Tasks, NEW pc, Step(t, pc)
  PROVE  Becomes(t, pc, send[t].kind, send[t].saved)
BY DEF Shape, Step, Fields, Becomes, SameRun

LEMMA BeginBecomes ==
  ASSUME Shape, NEW t \in Tasks, NEW pc, NEW kind, Begin(t, pc, kind)
  PROVE  Becomes(t, pc, kind, FALSE)
BY IdleFields DEF Shape, Begin, Fields, Becomes, SameRun

(* A sender that is done rests, or the loop goes on to the stored records. *)
LEMMA FinishBecomes ==
  ASSUME Shape, NEW t \in Tasks, Finish(t)
  PROVE  Finishes(t)
<1>1. PICK pc \in {"idle", "resend", "done"} : After(send[t].kind) = [Idle EXCEPT !.pc = pc]
  <2>1. [Idle EXCEPT !.pc = "idle"] = Idle
    BY DEF Idle
  <2>2. \/ After(send[t].kind) = [Idle EXCEPT !.pc = "resend"]
        \/ After(send[t].kind) = [Idle EXCEPT !.pc = "done"]
        \/ After(send[t].kind) = Idle
    BY Zenon DEF After
  <2> QED
    BY <2>1, <2>2
<1>2. send' = [send EXCEPT ![t] = [Idle EXCEPT !.pc = pc]]
  BY <1>1 DEF Finish
<1>3. Becomes(t, pc, "none", FALSE)
  BY <1>2, IdleFields DEF Shape, Fields, Becomes, SameRun
<1> QED
  BY <1>3 DEF Finishes

(* The way of a message from its text to the library.                      *)
LEMMA WayBecomes ==
  ASSUME Shape, NEW t \in Tasks
  PROVE  /\ MakeText(t) => Becomes(t, "topic", send[t].kind, FALSE)
         /\ MakeTopic(t) => Becomes(t, "publish", send[t].kind, send[t].saved) \/ Finishes(t)
         /\ Publish(t) => Becomes(t, "keep", send[t].kind, FALSE) \/ Finishes(t)
<1>1. ASSUME MakeText(t) PROVE Becomes(t, "topic", send[t].kind, FALSE)
  BY <1>1 DEF MakeText, Shape, Fields, Becomes, SameRun
<1>2. ASSUME MakeTopic(t) PROVE Becomes(t, "publish", send[t].kind, send[t].saved) \/ Finishes(t)
  <2>1. CASE send' = Topics(t)
    BY <2>1 DEF Topics, Shape, Fields, Becomes, SameRun
  <2> QED
    BY <1>2, <2>1, FinishBecomes DEF MakeTopic
<1>3. ASSUME Publish(t) PROVE Becomes(t, "keep", send[t].kind, FALSE) \/ Finishes(t)
  <2>1. ASSUME send' = [send EXCEPT ![t] = [Idle EXCEPT !.pc = "keep", !.kind = send[t].kind,
                                                        !.text = send[t].text]]
        PROVE  Becomes(t, "keep", send[t].kind, FALSE)
    BY <2>1, IdleFields DEF Shape, Fields, Becomes, SameRun
  <2> QED
    BY <1>3, <2>1, FinishBecomes DEF Publish
<1> QED
  BY <1>1, <1>2, <1>3

-----------------------------------------------------------------------------
(* The inductive invariants.  Only a dispense that waits for its text is   *)
(* marked as saved; only the I2C task sends dispenses; the loop sends only *)
(* when dxClientProcess() found the client connected.                      *)
SendInv ==
  /\ Shape
  /\ \A t \in Tasks : send[t].pc # "text" => send[t].saved = FALSE
  /\ \A t \in {"loop", "mqtt"} : send[t].kind # "dispense" /\ send[t].saved = FALSE
  /\ send["loop"].pc # "idle" => LoopConnected

(* While the MQTT task has a message to answer it handles no event, and    *)
(* the client it came through is not destroyed.                            *)
BusyInv == send["mqtt"].pc # "idle" => link = "up" /\ subs = 3 /\ ~At("subscribe")

(* A number is given out after it is in flash, once the counter is loaded. *)
NumberInv ==
  /\ dx_cnt \in Nat /\ nvmCnt \in Nat /\ number \in Nat
  /\ prefs \in {"closed", "open", "loaded"}
  /\ number <= nvmCnt
  /\ prefs = "loaded" => nvmCnt <= dx_cnt
  /\ SendsAt("i2c", "text") /\ send["i2c"].saved =>
       prefs = "loaded" /\ dx_cnt = nvmCnt /\ dx_cnt > number

(* Steps of the tasks that send, with what they do to the frames.          *)
LoopSends == TakeStock \/ NoStock \/ ResendTelemetry \/ ConnectedDone
MqttBegins == OnProperties \/ \E takeStock \in BOOLEAN : OnRequest(takeStock)
Ways(t) == MakeText(t) \/ MakeTopic(t) \/ Publish(t)

LEMMA WayKeeps ==
  ASSUME NEW t \in Tasks, Ways(t)
  PROVE  /\ UNCHANGED <<loop, dx_cnt, nvmCnt, prefs>> /\ send[t].pc \in {"text", "topic", "publish"}
         /\ number' = IF SendsAt(t, "text") /\ send[t].saved THEN dx_cnt ELSE number
<1>1. UNCHANGED <<loop, dx_cnt, nvmCnt, prefs>>
  BY Zenon DEF Ways, MakeText, MakeTopic, Publish, Overwrite, azVars, vars, cntVars
<1>2. CASE MakeText(t)
  BY <1>1, <1>2 DEF MakeText, SendsAt
<1>3. CASE MakeTopic(t) \/ Publish(t)
  BY <1>1, <1>3 DEF MakeTopic, Publish, SendsAt, cntVars
<1> QED
  BY <1>2, <1>3 DEF Ways

LEMMA LoopSendsBecome ==
  ASSUME SendInv, LoopSends
  PROVE  /\ UNCHANGED cntVars /\ UNCHANGED prefs
         /\ \/ /\ LoopConnected /\ UNCHANGED loop
               /\ \E pc \in {"text", "resend", "topic", "done"}, kind \in {"stock", "resend", send["loop"].kind} :
                    Becomes("loop", pc, kind, FALSE)
            \/ Becomes("loop", "idle", "none", FALSE)
            \/ UNCHANGED send /\ send["loop"].pc = "idle"
<1> USE DEF SendInv
<1>1. UNCHANGED cntVars /\ UNCHANGED prefs
  BY Zenon DEF LoopSends, TakeStock, NoStock, ResendTelemetry, ConnectedDone
<1>2. "loop" \in Tasks
  BY DEF Tasks
<1>3. CASE TakeStock
  <2>1. LoopConnected /\ UNCHANGED loop /\ Begin("loop", "text", "stock")
    BY <1>3, Zenon DEF TakeStock, azVars, vars
  <2> QED
    BY <1>1, <1>2, <2>1, BeginBecomes
<1>4. CASE NoStock
  <2>1. LoopConnected /\ UNCHANGED loop /\ Step("loop", "resend") /\ SendsAt("loop", "idle")
    BY <1>4, Zenon DEF NoStock, azVars, vars
  <2> QED
    BY <1>1, <1>2, <2>1, StepBecomes DEF SendsAt
<1>5. CASE ResendTelemetry
  <2>1. UNCHANGED loop /\ SendsAt("loop", "resend")
    BY <1>5, Zenon DEF ResendTelemetry, azVars, vars
  <2>2. CASE Begin("loop", "topic", "resend")
    BY <1>1, <1>2, <2>1, <2>2, BeginBecomes DEF SendsAt
  <2>3. CASE Step("loop", "done")
    BY <1>1, <1>2, <2>1, <2>3, StepBecomes DEF SendsAt
  <2> QED
    BY <1>5, <2>2, <2>3 DEF ResendTelemetry
<1>6. CASE ConnectedDone
  <2>1. CASE loop.status = "connected"
    BY <1>1, <1>2, <1>6, <2>1, BeginBecomes DEF ConnectedDone
  <2>2. CASE loop.status # "connected"
    BY <1>1, <1>6, <2>2 DEF ConnectedDone, LoopConnected
  <2> QED
    BY <2>1, <2>2
<1> QED
  BY <1>3, <1>4, <1>5, <1>6 DEF LoopSends

LEMMA MqttBeginsBecome ==
  ASSUME Shape, MqttBegins
  PROVE  /\ UNCHANGED loop /\ UNCHANGED cntVars /\ UNCHANGED prefs
         /\ \E pc \in {"text", "topic"}, kind \in {"response", "reported"} :
              Becomes("mqtt", pc, kind, FALSE)
<1>1. UNCHANGED loop /\ UNCHANGED cntVars /\ UNCHANGED prefs
  BY Zenon DEF MqttBegins, OnProperties, OnRequest, MessageArrives, Respond, azVars, vars
<1>2. Begin("mqtt", "text", "reported") \/ Begin("mqtt", "topic", "response")
  BY Zenon DEF MqttBegins, OnProperties, OnRequest, MessageArrives, Respond
<1> QED
  BY <1>1, <1>2, BeginBecomes DEF Tasks

LEMMA I2cBecomes ==
  ASSUME Shape
  PROVE  /\ \A kind : Receive(kind) =>
              Becomes("i2c", IF kind = "dispense" THEN "count" ELSE "text", kind, FALSE)
         /\ Count => Becomes("i2c", "text", send["i2c"].kind, prefs = "loaded")
         /\ Keep => Finishes("i2c")
         /\ NoProperty => \/ Finishes("mqtt")
                          \/ Becomes("mqtt", "topic", send["mqtt"].kind, send["mqtt"].saved)
<1>1. "i2c" \in Tasks /\ "mqtt" \in Tasks
  BY DEF Tasks
<1>2. ASSUME Count PROVE Becomes("i2c", "text", send["i2c"].kind, prefs = "loaded")
  <2> DEFINE saved == prefs = "loaded"
  <2>1. send' = CountedAs(saved)
    BY <1>2 DEF Count
  <2> HIDE DEF saved
  <2>2. Becomes("i2c", "text", send["i2c"].kind, saved)
    BY <1>1, <2>1 DEF CountedAs, Shape, Fields, Becomes, SameRun
  <2> QED
    BY <2>2 DEF saved
<1> QED
  BY <1>1, <1>2, BeginBecomes, StepBecomes, FinishBecomes DEF Receive, Keep, NoProperty

(* The steps of AzureIoT.                                                  *)
LEMMA StopsKeeps ==
  ASSUME SendInv, Stops
  PROVE  UNCHANGED <<send, dx_cnt, nvmCnt, number, prefs>> /\ send["loop"].pc = "idle"
<1>1. ~LoopConnected
  BY DEF Stops, Reconnect, StopAfterError, CallDeinit, Do, LoopConnected, At
<1>2. UNCHANGED <<send, dx_cnt, nvmCnt, number, prefs>>
  BY Zenon DEF Stops, telVars, cntVars
<1> QED
  BY <1>1, <1>2 DEF SendInv

LEMMA PreparesKeeps ==
  ASSUME SendInv, Prepares
  PROVE  /\ Shape' /\ \A t \in Tasks : SameRun(t) /\ send'[t].saved = send[t].saved
         /\ send["loop"].pc = "idle"
         /\ UNCHANGED <<dx_cnt, nvmCnt, number, prefs>>
<1>1. send["loop"].pc = "idle"
  BY DEF SendInv, Prepares, Do, LoopConnected, At
<1>2. UNCHANGED <<dx_cnt, nvmCnt, number, prefs>>
  BY Zenon DEF Prepares, cntVars
<1>3. CASE UNCHANGED send
  BY <1>1, <1>2, <1>3 DEF SendInv, Shape, SameRun
<1>4. CASE send' = [t \in Tasks |-> [send[t] EXCEPT !.topic = @ /\ send[t].pc # "publish"]]
  BY <1>1, <1>2, <1>4 DEF SendInv, Shape, Fields, SameRun
<1> QED
  BY <1>3, <1>4, Zenon DEF Prepares

(* What does not concern the senders.                                      *)
LEMMA QuietKeeps ==
  ASSUME SendInv, OtherSteps \/ Event \/ UNCHANGED allVars
  PROVE  /\ UNCHANGED <<send, dx_cnt, nvmCnt, number, prefs>>
         /\ send["loop"].pc # "idle" => UNCHANGED loop
<1>1. UNCHANGED <<send, dx_cnt, nvmCnt, number, prefs>>
  BY Zenon DEF OtherSteps, Event, allVars, telVars, cntVars
<1>2. CASE Read \/ Look \/ Work \/ CallInit \/ CallSubscribe \/ CallPublish
  BY <1>1, <1>2 DEF SendInv, LoopConnected, Read, Look, Work, CallInit, CallSubscribe, CallPublish, Request, At
<1>3. CASE OnFirstConnect \/ NetworkChanges \/ Event \/ UNCHANGED allVars
  BY <1>1, <1>3, Zenon DEF OnFirstConnect, NetworkChanges, Event, OnConnected, OnRefused, OnDisconnected, OnSubscribed,
     OnReply, allVars, azVars, vars
<1> QED
  BY <1>2, <1>3 DEF OtherSteps

LEMMA SendStep ==
  ASSUME SendInv, [TelNext]_allVars
  PROVE  SendInv'
<1> USE DEF SendInv, LoopConnected, At
<1>0. "i2c" \in Tasks /\ "loop" \in Tasks /\ "mqtt" \in Tasks
  BY DEF Tasks
<1>1. ASSUME NEW kind \in {"dispense", "status"}, Receive(kind) PROVE SendInv'
  <2>1. UNCHANGED loop
    BY <1>1, Zenon DEF Receive, azVars, vars
  <2> QED
    BY <1>0, <1>1, <2>1, I2cBecomes DEF Becomes, SameRun, Tasks
<1>2. CASE Count \/ Keep \/ NoProperty
  <2>1. UNCHANGED loop
    BY <1>2, Zenon DEF Count, Keep, NoProperty, azVars, vars
  <2>2. CASE Count
    BY <1>0, <2>1, <2>2, I2cBecomes DEF Becomes, SameRun, Count, SendsAt, Tasks
  <2>3. CASE Keep \/ NoProperty
    BY <1>0, <2>1, <2>3, I2cBecomes DEF Finishes, Becomes, SameRun, Tasks, NoProperty, SendsAt
  <2> QED
    BY <1>2, <2>2, <2>3
<1>3. ASSUME NEW t \in Tasks, Ways(t) PROVE SendInv'
  <2>1. UNCHANGED loop /\ send[t].pc # "idle"
    BY <1>3, WayKeeps
  <2>2. CASE Finishes(t)
    BY <1>0, <2>1, <2>2 DEF Finishes, Becomes, SameRun, Tasks
  <2>3. ASSUME NEW pc \in {"topic", "publish", "keep"}, NEW saved,
               Becomes(t, pc, send[t].kind, saved), saved = FALSE
        PROVE  SendInv'
    BY <1>0, <2>1, <2>3 DEF Becomes, SameRun, Tasks
  <2>4. CASE MakeText(t)
    BY <2>3, <2>4, WayBecomes
  <2>5. CASE MakeTopic(t)
    <3>1. send[t].saved = FALSE
      BY <2>5 DEF MakeTopic, SendsAt
    <3> QED
      BY <2>2, <2>3, <2>5, <3>1, WayBecomes
  <2>6. CASE Publish(t)
    BY <2>2, <2>3, <2>6, WayBecomes
  <2> QED
    BY <1>3, <2>4, <2>5, <2>6 DEF Ways
<1>4. CASE LoopSends
  <2>1. CASE Becomes("loop", "idle", "none", FALSE)
    BY <1>0, <2>1 DEF Becomes, SameRun, Tasks
  <2>2. CASE UNCHANGED send /\ send["loop"].pc = "idle"
    BY <2>2 DEF Shape
  <2>3. ASSUME LoopConnected, UNCHANGED loop,
               NEW pc \in {"text", "resend", "topic", "done"},
               NEW kind \in {"stock", "resend", send["loop"].kind},
               Becomes("loop", pc, kind, FALSE)
        PROVE  SendInv'
    <3>1. kind # "dispense"
      OBVIOUS
    <3> QED
      BY <1>0, <2>3, <3>1 DEF Becomes, SameRun, Tasks
  <2> QED
    BY <1>4, <2>1, <2>2, <2>3, LoopSendsBecome, Zenon
<1>5. CASE MqttBegins
  BY <1>0, <1>5, MqttBeginsBecome DEF Becomes, SameRun, Tasks
<1>6. CASE Stops
  <2>1. UNCHANGED send /\ send["loop"].pc = "idle"
    BY <1>6, StopsKeeps
  <2> QED
    BY <2>1 DEF Shape
<1>7. CASE Prepares
  BY <1>0, <1>7, PreparesKeeps DEF SameRun, Tasks
<1>8. CASE OtherSteps \/ Event \/ UNCHANGED allVars
  BY <1>8, QuietKeeps DEF Shape
<1>9. CASE cfgOpen \/ cfgLoad
  <2>1. UNCHANGED <<send, loop>>
    BY <1>9, Zenon DEF cfgOpen, cfgLoad, azVars, vars
  <2> QED
    BY <2>1 DEF Shape
<1>10. CASE Restart
  BY <1>0, <1>10, IdleFields DEF Restart, Shape
<1> QED
  BY <1>1, <1>2, <1>3, <1>4, <1>5, <1>6, <1>7, <1>8, <1>9, <1>10, Zenon
     DEF TelNext, LoopSends, MqttBegins, Ways

LEMMA NumberStep ==
  ASSUME SendInv, NumberInv, [TelNext]_allVars
  PROVE  NumberInv'
<1> USE DEF NumberInv, SendsAt
<1>0. Shape /\ "i2c" \in Tasks /\ "loop" \in Tasks /\ "mqtt" \in Tasks
  BY DEF SendInv, Tasks
<1>1. ASSUME NEW kind \in {"dispense", "status"}, Receive(kind) PROVE NumberInv'
  <2>1. UNCHANGED <<dx_cnt, nvmCnt, number, prefs>>
    BY <1>1 DEF Receive, cntVars
  <2> QED
    BY <1>0, <1>1, <2>1, I2cBecomes DEF Becomes
<1>2. CASE Count
  <2>1. dx_cnt' = dx_cnt + 1 /\ UNCHANGED prefs /\ send'["i2c"].saved = (prefs = "loaded")
    BY <1>0, <1>2, I2cBecomes DEF Count, Becomes
  <2>2. /\ nvmCnt' = IF prefs = "closed" THEN nvmCnt ELSE dx_cnt + 1
        /\ number' = IF prefs = "open" THEN 0 ELSE number
    BY <1>2 DEF Count
  <2>3. CASE prefs = "loaded"
    BY <2>1, <2>2, <2>3
  <2>4. CASE prefs \in {"closed", "open"}
    <3>0. prefs # "loaded"
      BY <2>4
    <3>1. ~send'["i2c"].saved
      BY <2>1, <3>0, Zenon
    <3>2. \/ nvmCnt' = nvmCnt /\ number' = number
          \/ nvmCnt' = dx_cnt + 1 /\ number' = 0
      BY <2>2, <2>4
    <3> QED
      BY <2>1, <2>4, <3>1, <3>2
  <2> QED
    BY <2>3, <2>4
<1>3. CASE Keep \/ NoProperty
  <2>1. UNCHANGED <<dx_cnt, nvmCnt, number, prefs>>
    BY <1>3 DEF Keep, NoProperty, cntVars
  <2> QED
    BY <1>0, <1>3, <2>1, I2cBecomes DEF Finishes, Becomes, SameRun
<1>4. ASSUME NEW t \in Tasks, Ways(t) PROVE NumberInv'
  <2>1. t # "i2c" => send[t].saved = FALSE
    BY DEF SendInv, Tasks
  <2>2. \/ Finishes(t)
        \/ \E pc \in {"topic", "publish", "keep"}, saved \in {FALSE, send[t].saved} :
              Becomes(t, pc, send[t].kind, saved)
    BY <1>0, <1>4, WayBecomes DEF Ways
  <2>3. /\ send'["i2c"].pc # "text" \/ (t # "i2c" /\ send["i2c"].pc = "text")
        /\ t # "i2c" => send'["i2c"].saved = send["i2c"].saved
    BY <1>0, <2>2 DEF Finishes, Becomes, SameRun
  <2> QED
    BY <1>4, <2>1, <2>3, WayKeeps
<1>5. CASE LoopSends \/ MqttBegins
  <2>1. UNCHANGED <<dx_cnt, nvmCnt, number, prefs>>
    BY <1>5, LoopSendsBecome, MqttBeginsBecome, <1>0 DEF cntVars
  <2>2. SameRun("i2c") /\ send'["i2c"].saved = send["i2c"].saved
    BY <1>0, <1>5, LoopSendsBecome, MqttBeginsBecome DEF Becomes, SameRun
  <2> QED
    BY <2>1, <2>2 DEF SameRun
<1>6. CASE Stops \/ Prepares
  <2>1. /\ UNCHANGED <<dx_cnt, nvmCnt, number, prefs>>
        /\ send'["i2c"].pc = send["i2c"].pc /\ send'["i2c"].saved = send["i2c"].saved
    BY <1>0, <1>6, StopsKeeps, PreparesKeeps DEF SameRun
  <2> QED
    BY <2>1
<1>7. CASE OtherSteps \/ Event \/ UNCHANGED allVars
  BY <1>7, QuietKeeps
<1>8. CASE cfgOpen \/ cfgLoad
  <2>1. send["i2c"].saved /\ SendsAt("i2c", "text") => prefs = "loaded"
    OBVIOUS
  <2> QED
    BY <1>8, <2>1 DEF cfgOpen, cfgLoad, cntVars
<1>9. CASE Restart
  BY <1>0, <1>9, IdleFields DEF Restart
<1> QED
  BY <1>1, <1>2, <1>3, <1>4, <1>5, <1>6, <1>7, <1>8, <1>9, Zenon
     DEF TelNext, LoopSends, MqttBegins, Ways

LEMMA SendInit == TelInit => SendInv /\ NumberInv
<1>1. "i2c" \in Tasks /\ "loop" \in Tasks /\ "mqtt" \in Tasks
  BY DEF Tasks
<1> QED
  BY <1>1, IdleFields DEF TelInit, SendInv, NumberInv, Shape, SendsAt

-----------------------------------------------------------------------------
LEMMA SendInvariant == TelSpec => []SendInv
<1>1. TelInit => SendInv
  BY SendInit
<1>2. SendInv /\ [TelNext]_allVars => SendInv'
  BY SendStep
<1> QED
  BY <1>1, <1>2, PTL DEF TelSpec

(* No number is given to two dispenses that are counted after cfgLoad() has *)
(* loaded the counter, over any number of dispenses and restarts, whenever  *)
(* the main ESP sends; those that are counted before have numbers that are  *)
(* not new, and set the count back if the flash is already open             *)
(* (cfgUpdateDxCnt, cfgLoad, setup).                                        *)
THEOREM NumberIsNewAlways == TelSpec => []NumberIsNew
<1>1. TelInit => SendInv /\ NumberInv
  BY SendInit
<1>2. (SendInv /\ NumberInv) /\ [TelNext]_allVars => (SendInv /\ NumberInv)'
  BY SendStep, NumberStep
<1>3. NumberInv => NumberIsNew
  BY DEF NumberInv, NumberIsNew
<1> QED
  BY <1>1, <1>2, <1>3, PTL DEF TelSpec

(* A TakeStock command is kept until a stock take is begun after it        *)
(* (on_command_request_received, dxClientStockProcess).                    *)
THEOREM StockTakeKeptAlways == TelSpec => []StockTakeKept
<1>1. TelInit => StockTakeKept
  BY DEF TelInit, StockTakeKept
<1>2. ASSUME StockTakeKept, [TelNext]_allVars PROVE StockTakeKept'
  <2>1. CASE UNCHANGED stockVars
    BY <1>2, <2>1 DEF StockTakeKept, stockVars
  <2>2. CASE TakeStock \/ Restart
    BY <2>2, Zenon DEF TakeStock, Restart, StockTakeKept
  <2>3. ASSUME NEW takeStock \in BOOLEAN, OnRequest(takeStock) PROVE StockTakeKept'
    BY <1>2, <2>3, Zenon DEF OnRequest, StockTakeKept
  <2> QED
    BY <1>2, <2>1, <2>2, <2>3, Zenon DEF TelNext, Receive, Count, Keep, NoProperty, MakeText, MakeTopic,
       Publish, NoStock, ResendTelemetry, ConnectedDone, Stops, Prepares, OtherSteps, Event, OnProperties,
       cfgOpen, cfgLoad, allVars, telVars
<1> QED
  BY <1>1, <1>2, PTL DEF TelSpec

-----------------------------------------------------------------------------
(* The types, and the connection underneath.  First what the frames are.   *)
Pcs == {"idle", "count", "text", "topic", "publish", "keep", "resend", "done"}

LEMMA FrameTypes ==
  /\ Idle \in Frame
  /\ \A pc \in Pcs, kind \in Kinds \cup {"none"} : [Idle EXCEPT !.pc = pc, !.kind = kind] \in Frame
  /\ \A kind : After(kind) \in Frame /\ After(kind).kind = "none"
  /\ \A f \in Frame :
       /\ \A pc \in Pcs : [f EXCEPT !.pc = pc] \in Frame
       /\ \A b \in BOOLEAN : /\ [f EXCEPT !.topic = b] \in Frame /\ [f EXCEPT !.text = b] \in Frame
                             /\ [f EXCEPT !.saved = b] \in Frame
<1>1. Idle \in Frame
  BY DEF Idle, Frame, Kinds
<1>2. ASSUME NEW f \in Frame
      PROVE  /\ \A pc \in Pcs : [f EXCEPT !.pc = pc] \in Frame
             /\ \A b \in BOOLEAN : /\ [f EXCEPT !.topic = b] \in Frame /\ [f EXCEPT !.text = b] \in Frame
                                   /\ [f EXCEPT !.saved = b] \in Frame
  BY DEF Frame, Pcs
<1>3. \A pc \in Pcs, kind \in Kinds \cup {"none"} : [Idle EXCEPT !.pc = pc, !.kind = kind] \in Frame
  BY <1>1 DEF Frame, Pcs
<1>4. ASSUME NEW kind PROVE After(kind) \in Frame /\ After(kind).kind = "none"
  <2>1. \A pc \in {"resend", "done"} : [Idle EXCEPT !.pc = pc] \in Frame /\ [Idle EXCEPT !.pc = pc].kind = "none"
    BY <1>1, IdleFields DEF Frame, Fields
  <2>2. \/ After(kind) = [Idle EXCEPT !.pc = "resend"]
        \/ After(kind) = [Idle EXCEPT !.pc = "done"]
        \/ After(kind) = Idle
    BY Zenon DEF After
  <2> QED
    BY <1>1, <2>1, <2>2, IdleFields
<1> QED
  BY <1>1, <1>2, <1>3, <1>4

Typed == send \in [Tasks -> Frame]

LEMMA StepTypes ==
  ASSUME Typed, NEW t \in Tasks
  PROVE  /\ Finish(t) => Typed'
         /\ \A pc \in Pcs : Step(t, pc) => Typed'
         /\ \A pc \in Pcs, kind \in Kinds \cup {"none"} : Begin(t, pc, kind) => Typed'
<1>1. \A f \in Frame : send' = [send EXCEPT ![t] = f] => Typed'
  BY DEF Typed
<1>2. ASSUME Finish(t) PROVE Typed'
  BY <1>1, <1>2, FrameTypes DEF Finish
<1>3. ASSUME NEW pc \in Pcs, Step(t, pc) PROVE Typed'
  <2>1. send' = [send EXCEPT ![t] = [send[t] EXCEPT !.pc = pc]]
    BY <1>3 DEF Step
  <2> QED
    BY <1>1, <2>1, FrameTypes DEF Typed
<1>4. ASSUME NEW pc \in Pcs, NEW kind \in Kinds \cup {"none"}, Begin(t, pc, kind) PROVE Typed'
  BY <1>1, <1>4, FrameTypes DEF Begin
<1> QED
  BY <1>2, <1>3, <1>4

(* The message on its way: the flags stay Boolean when another task writes *)
(* over what they say is there.                                            *)
LEMMA WayTypes ==
  ASSUME Typed, NEW t \in Tasks, Ways(t)
  PROVE  Typed'
<1>0. \A s \in Tasks : send[s] \in Frame /\ send[s].topic \in BOOLEAN /\ send[s].text \in BOOLEAN
  BY DEF Typed, Frame
<1>1. CASE MakeText(t)
  <2> DEFINE B(s) == send[s].text /\ ~HoldsText(send[s])
  <2>1. \A s \in Tasks : B(s) \in BOOLEAN
    OBVIOUS
  <2>2. send' = [s \in Tasks |-> IF s = t THEN [send[s] EXCEPT !.pc = "topic", !.saved = FALSE]
                                 ELSE [send[s] EXCEPT !.text = B(s)]]
    BY <1>1 DEF MakeText
  <2> HIDE DEF B
  <2>3. \A s \in Tasks : [[send[s] EXCEPT !.pc = "topic"] EXCEPT !.saved = FALSE] \in Frame
    BY <1>0, FrameTypes DEF Pcs
  <2>4. \A s \in Tasks : [send[s] EXCEPT !.text = B(s)] \in Frame
    BY <1>0, <2>1, FrameTypes
  <2> QED
    BY <2>2, <2>3, <2>4 DEF Typed
<1>2. CASE MakeTopic(t)
  <2> DEFINE B(s) == send[s].topic /\ ~(/\ send[s].pc = "publish"
                                        /\ TopicOf(send[s].kind) # TopicOf(send[t].kind))
  <2>1. \A s \in Tasks : B(s) \in BOOLEAN
    OBVIOUS
  <2>2. Topics(t) = [s \in Tasks |-> IF s = t THEN [send[s] EXCEPT !.pc = "publish"]
                                     ELSE [send[s] EXCEPT !.topic = B(s)]]
    BY DEF Topics
  <2> HIDE DEF B
  <2>3. send' = Topics(t) \/ Finish(t)
    BY <1>2 DEF MakeTopic
  <2>4. ASSUME send' = Topics(t) PROVE Typed'
    <3>1. \A s \in Tasks : [send[s] EXCEPT !.topic = B(s)] \in Frame /\ [send[s] EXCEPT !.pc = "publish"] \in Frame
      BY <1>0, <2>1, FrameTypes DEF Pcs
    <3> QED
      BY <2>2, <2>4, <3>1 DEF Typed
  <2> QED
    BY <2>3, <2>4, StepTypes
<1>3. CASE Publish(t)
  <2>1. ASSUME send[t].kind = "dispense",
               send' = [send EXCEPT ![t] = [Idle EXCEPT !.pc = "keep", !.kind = send[t].kind, !.text = send[t].text]]
        PROVE  Typed'
    <3> DEFINE g == [Idle EXCEPT !.pc = "keep", !.kind = "dispense"]
    <3>1. g \in Frame /\ send' = [send EXCEPT ![t] = [g EXCEPT !.text = send[t].text]]
      BY <2>1, FrameTypes DEF Pcs, Kinds
    <3> HIDE DEF g
    <3> QED
      BY <1>0, <3>1, FrameTypes DEF Typed
  <2> QED
    BY <1>3, <2>1, StepTypes DEF Publish
<1> QED
  BY <1>1, <1>2, <1>3 DEF Ways

LEMMA SendTypes ==
  ASSUME Typed, [TelNext]_allVars
  PROVE  Typed'
<1>0. "i2c" \in Tasks /\ "loop" \in Tasks /\ "mqtt" \in Tasks
  BY DEF Tasks
<1>1. ASSUME NEW kind \in {"dispense", "status"}, Receive(kind) PROVE Typed'
  BY <1>0, <1>1, StepTypes DEF Receive, Pcs, Kinds
<1>2. CASE Keep \/ NoProperty
  BY <1>0, <1>2, StepTypes DEF Keep, NoProperty, Pcs
<1>3. ASSUME NEW t \in Tasks, Ways(t) PROVE Typed'
  BY <1>3, WayTypes
<1>4. CASE LoopSends
  <2>1. \/ Begin("loop", "text", "stock") \/ Step("loop", "resend") \/ Begin("loop", "topic", "resend")
        \/ Step("loop", "done") \/ Begin("loop", "idle", "none") \/ UNCHANGED send
    BY <1>4, Zenon DEF LoopSends, TakeStock, NoStock, ResendTelemetry, ConnectedDone
  <2>2. UNCHANGED send => Typed'
    BY DEF Typed
  <2> QED
    BY <1>0, <2>1, <2>2, StepTypes DEF Pcs, Kinds
<1>5. CASE MqttBegins
  <2>1. Begin("mqtt", "text", "reported") \/ Begin("mqtt", "topic", "response")
    BY <1>5, Zenon DEF MqttBegins, OnProperties, OnRequest, Respond
  <2> QED
    BY <1>0, <2>1, StepTypes DEF Pcs, Kinds
<1>6. CASE Count
  <2> DEFINE saved == prefs = "loaded"
  <2>1. send' = [send EXCEPT !["i2c"] = [[send["i2c"] EXCEPT !.pc = "text"] EXCEPT !.saved = saved]]
    BY <1>6 DEF Count, CountedAs
  <2>2. saved \in BOOLEAN
    OBVIOUS
  <2> HIDE DEF saved
  <2> QED
    BY <1>0, <2>1, <2>2, FrameTypes DEF Typed, Pcs
<1>7. CASE Prepares
  <2> DEFINE B(t) == send[t].topic /\ send[t].pc # "publish"
  <2>1. \A t \in Tasks : B(t) \in BOOLEAN
    BY DEF Typed, Frame
  <2>2. send' = [t \in Tasks |-> [send[t] EXCEPT !.topic = B(t)]] \/ UNCHANGED send
    BY <1>7, Zenon DEF Prepares
  <2> HIDE DEF B
  <2>3. \A t \in Tasks : [send[t] EXCEPT !.topic = B(t)] \in Frame
    BY <2>1, FrameTypes DEF Typed
  <2> QED
    BY <2>2, <2>3 DEF Typed
<1>8. CASE UNCHANGED send
  BY <1>8 DEF Typed
<1>9. CASE Restart
  BY <1>9, FrameTypes DEF Restart, Typed
<1>10. Stops \/ OtherSteps \/ Event \/ cfgOpen \/ cfgLoad \/ UNCHANGED allVars => UNCHANGED send
  BY Zenon DEF Stops, OtherSteps, Event, cfgOpen, cfgLoad, allVars, telVars
<1> QED
  BY <1>1, <1>2, <1>3, <1>4, <1>5, <1>6, <1>7, <1>8, <1>9, <1>10, Zenon
     DEF TelNext, LoopSends, MqttBegins, Ways

-----------------------------------------------------------------------------
(* What each task sends, and the bounds of the counter: one that is about  *)
(* to be raised is below the bound, also if it is loaded from flash before. *)
KindsOf(t) ==
  {"none"} \cup (IF t = "i2c" THEN {"dispense", "status"}
                 ELSE IF t = "loop" THEN {"stock", "resend"} ELSE {"response", "reported"})

KindInv == \A t \in Tasks : send[t].kind \in KindsOf(t)

CountInv ==
  /\ dx_cnt \in 0 .. MaxDx /\ nvmCnt \in 0 .. MaxDx /\ number \in 0 .. MaxDx
  /\ SendsAt("i2c", "count") => dx_cnt < MaxDx /\ nvmCnt < MaxDx

Switches == do_stock \in BOOLEAN /\ asked \in BOOLEAN /\ prefs \in {"closed", "open", "loaded"}

LEMMA KindStep ==
  ASSUME SendInv, KindInv, [TelNext]_allVars
  PROVE  KindInv'
<1> USE DEF KindInv, KindsOf
<1>0. Shape /\ "i2c" \in Tasks /\ "loop" \in Tasks /\ "mqtt" \in Tasks
  BY DEF SendInv, Tasks
<1>1. ASSUME NEW kind \in {"dispense", "status"}, Receive(kind) PROVE KindInv'
  BY <1>0, <1>1, I2cBecomes DEF Becomes, SameRun
<1>2. CASE Count \/ Keep \/ NoProperty
  BY <1>0, <1>2, I2cBecomes DEF Finishes, Becomes, SameRun
<1>3. ASSUME NEW t \in Tasks, Ways(t) PROVE KindInv'
  <2>1. \E pc, saved : Becomes(t, pc, send[t].kind, saved) \/ Becomes(t, pc, "none", saved)
    BY <1>0, <1>3, WayBecomes DEF Ways, Finishes
  <2> QED
    BY <2>1 DEF Becomes, SameRun
<1>4. CASE LoopSends
  <2>1. \/ \E pc : \E kind \in {"stock", "resend", send["loop"].kind} : Becomes("loop", pc, kind, FALSE)
        \/ Becomes("loop", "idle", "none", FALSE)
        \/ UNCHANGED send
    <3>1. \A kind : (\E pc \in {"text", "resend", "topic", "done"} : Becomes("loop", pc, kind, FALSE))
                       => \E pc : Becomes("loop", pc, kind, FALSE)
      OBVIOUS
    <3> QED
      BY <1>4, <3>1, LoopSendsBecome
  <2> QED
    BY <1>0, <2>1 DEF Becomes, SameRun
<1>5. CASE MqttBegins
  BY <1>0, <1>5, MqttBeginsBecome DEF Becomes, SameRun
<1>6. CASE Stops \/ Prepares
  BY <1>6, StopsKeeps, PreparesKeeps DEF SameRun
<1>7. CASE OtherSteps \/ Event \/ cfgOpen \/ cfgLoad \/ UNCHANGED allVars
  <2>1. UNCHANGED send
    BY <1>7, Zenon DEF OtherSteps, Event, cfgOpen, cfgLoad, allVars, telVars
  <2> QED
    BY <2>1
<1>8. CASE Restart
  BY <1>8, IdleFields DEF Restart
<1> QED
  BY <1>1, <1>2, <1>3, <1>4, <1>5, <1>6, <1>7, <1>8, Zenon DEF TelNext, LoopSends, MqttBegins, Ways

LEMMA CountStep ==
  ASSUME SendInv, CountInv, [TelNext]_allVars
  PROVE  CountInv'
<1> USE DEF CountInv, SendsAt
<1>0. Shape /\ "i2c" \in Tasks /\ "loop" \in Tasks /\ "mqtt" \in Tasks
  BY DEF SendInv, Tasks
<1>1. ASSUME NEW kind \in {"dispense", "status"}, Receive(kind) PROVE CountInv'
  <2>1. UNCHANGED <<dx_cnt, nvmCnt, number>> /\ (kind = "dispense" => dx_cnt < MaxDx /\ nvmCnt < MaxDx)
    BY <1>1 DEF Receive, cntVars
  <2> QED
    BY <1>0, <1>1, <2>1, I2cBecomes DEF Becomes
<1>2. CASE Count
  <2>1. dx_cnt' = dx_cnt + 1 /\ nvmCnt' \in {nvmCnt, dx_cnt + 1} /\ number' \in {number, 0} /\ SendsAt("i2c", "count")
    BY <1>2 DEF Count
  <2>2. MaxDx \in Nat /\ send'["i2c"].pc = "text"
    BY <1>0, <1>2, I2cBecomes, TelemetryAssumption DEF Becomes
  <2> QED
    BY <2>1, <2>2
<1>3. CASE Keep \/ NoProperty
  <2>1. UNCHANGED <<dx_cnt, nvmCnt, number>>
    BY <1>3 DEF Keep, NoProperty, cntVars
  <2> QED
    BY <1>0, <1>3, <2>1, I2cBecomes DEF Finishes, Becomes, SameRun
<1>4. ASSUME NEW t \in Tasks, Ways(t) PROVE CountInv'
  <2>1. send'["i2c"].pc = "count" => send["i2c"].pc = "count"
    BY <1>0, <1>4, WayBecomes DEF Ways, Finishes, Becomes, SameRun
  <2> QED
    BY <1>4, <2>1, WayKeeps
<1>5. CASE LoopSends \/ MqttBegins
  <2>1. UNCHANGED <<dx_cnt, nvmCnt, number>> /\ SameRun("i2c")
    BY <1>0, <1>5, LoopSendsBecome, MqttBeginsBecome DEF Becomes, SameRun, cntVars
  <2> QED
    BY <2>1 DEF SameRun
<1>6. CASE Stops \/ Prepares
  <2>1. UNCHANGED <<dx_cnt, nvmCnt, number>> /\ SameRun("i2c")
    BY <1>0, <1>6, StopsKeeps, PreparesKeeps DEF SameRun
  <2> QED
    BY <2>1 DEF SameRun
<1>7. CASE OtherSteps \/ Event \/ UNCHANGED allVars
  BY <1>7, QuietKeeps
<1>8. CASE cfgOpen \/ cfgLoad
  BY <1>8 DEF cfgOpen, cfgLoad, cntVars
<1>9. CASE Restart
  BY <1>0, <1>9, IdleFields, TelemetryAssumption DEF Restart
<1> QED
  BY <1>1, <1>2, <1>3, <1>4, <1>5, <1>6, <1>7, <1>8, <1>9, Zenon DEF TelNext, LoopSends, MqttBegins, Ways

LEMMA SwitchStep ==
  ASSUME Switches, [TelNext]_allVars
  PROVE  Switches'
<1>1. CASE UNCHANGED <<do_stock, asked, prefs>>
  BY <1>1, Zenon DEF Switches
<1>2. CASE TakeStock \/ cfgOpen \/ cfgLoad \/ Restart
  BY <1>2, Zenon DEF TakeStock, cfgOpen, cfgLoad, Restart, stockVars, Switches
<1>3. ASSUME NEW takeStock \in BOOLEAN, OnRequest(takeStock) PROVE Switches'
  <2>1. do_stock' \in BOOLEAN
    BY <1>3 DEF OnRequest, Switches
  <2>2. asked' \in BOOLEAN
    BY <1>3 DEF OnRequest, Switches
  <2> QED
    BY <1>3, <2>1, <2>2, Zenon DEF OnRequest, Switches
<1> QED
  BY <1>1, <1>2, <1>3, Zenon DEF TelNext, Receive, Count, Keep, NoProperty, MakeText, MakeTopic,
     Publish, NoStock, ResendTelemetry, ConnectedDone, Stops, Prepares, OtherSteps, Event, OnProperties,
     allVars, telVars, stockVars

-----------------------------------------------------------------------------
(* Every step is one of AzureIoT, but for a restart and for a response     *)
(* that could not be published.                                            *)
ResponseFails ==
  /\ send["mqtt"].pc = "publish" /\ state' = "error"
  /\ UNCHANGED <<handle, fqdn, opid, envVars, loop, libVars, bufVars>>

LEMMA AzureSteps ==
  ASSUME KindInv, [TelNext]_allVars
  PROVE  [Next]_vars \/ ResponseFails \/ Restart
<1>1. CASE UNCHANGED azVars
  BY <1>1 DEF azVars
<1>2. CASE Stops \/ Prepares \/ ConnectedDone
  BY <1>2, Zenon DEF Stops, Prepares, ConnectedDone, Next, LoopStep
<1>3. CASE OtherSteps \/ Event
  BY <1>3, Zenon DEF OtherSteps, Event, Next, LoopStep
<1>4. ASSUME NEW t \in Tasks, MakeTopic(t) PROVE Next \/ UNCHANGED azVars
  BY <1>4, Zenon DEF MakeTopic, Next
<1>5. ASSUME NEW t \in Tasks, Publish(t) PROVE ResponseFails \/ UNCHANGED azVars
  <2>1. CASE UNCHANGED state
    BY <1>5, <2>1, Zenon DEF Publish, azVars, vars, envVars, libVars, bufVars
  <2>2. CASE send[t].kind = "response" /\ state' = "error"
    <3>1. t = "mqtt"
      BY <2>2 DEF KindInv, KindsOf, Tasks
    <3> QED
      BY <1>5, <2>2, <3>1, Zenon DEF Publish, ResponseFails, SendsAt
  <2> QED
    BY <1>5, <2>1, <2>2, Zenon DEF Publish
<1>6. ASSUME TelNext
      PROVE  \/ UNCHANGED azVars \/ Stops \/ Prepares \/ ConnectedDone \/ OtherSteps \/ Event \/ Restart
             \/ \E t \in Tasks : MakeTopic(t) \/ Publish(t)
  BY <1>6, Zenon DEF TelNext, Receive, Count, Keep, NoProperty, MakeText, TakeStock, NoStock,
     ResendTelemetry, OnProperties, OnRequest, MessageArrives, cfgOpen, cfgLoad
<1> QED
  BY <1>1, <1>2, <1>3, <1>4, <1>5, <1>6, Zenon DEF allVars

LEMMA ResponseFailsKeeps ==
  ASSUME IInv, BusyInv, ResponseFails
  PROVE  IInv'
<1>1. /\ link = "up" /\ ~At("subscribe") /\ state' = "error"
      /\ UNCHANGED <<handle, fqdn, opid, first, wifi, net, loop, link, pend, subs, intact, login, leaked>>
  BY DEF BusyInv, ResponseFails, envVars, libVars, bufVars
<1>2. TypeOK /\ ClientInv /\ StartInv /\ HubInv /\ SubsInv
  BY DEF IInv
<1>3. TypeOK'
  BY <1>1, <1>2 DEF TypeOK, States
<1>4. ClientInv'
  BY <1>1, <1>2 DEF ClientInv
<1>5. StartInv'
  BY <1>1, <1>2 DEF StartInv, Untouched, At
<1>6. HubInv'
  BY <1>1, <1>2 DEF HubInv, HubStates
<1>7. SubsInv'
  BY <1>1, <1>2 DEF SubsInv, At, CountIs, Settled
<1> QED
  BY <1>3, <1>4, <1>5, <1>6, <1>7 DEF IInv

LEMMA RestartKeeps ==
  ASSUME IInv, Restart
  PROVE  IInv'
<1>1. Init'
  BY DEF IInv, TypeOK, Restart, Destroy, Init
<1>2. Init' => IInv'
  BY Inductive, PTL
<1> QED
  BY <1>1, <1>2

(* The task that answers is not disturbed: no event is handled meanwhile   *)
(* and no client destroyed, and the loop subscribes only below three.      *)
LEMMA BusyStep ==
  ASSUME SendInv, BusyInv, IInv, [TelNext]_allVars
  PROVE  BusyInv'
<1> USE DEF BusyInv
<1>0. /\ TypeOK /\ ClientInv /\ StartInv /\ SubsInv
      /\ Shape /\ "i2c" \in Tasks /\ "loop" \in Tasks /\ "mqtt" \in Tasks
  BY DEF IInv, SendInv, Tasks
<1>1. CASE MqttBegins
  <2>1. link = "up" /\ state = "ready" /\ UNCHANGED <<link, subs, loop>>
    BY <1>1, Zenon DEF MqttBegins, OnProperties, OnRequest, MessageArrives, azVars, vars
  <2> QED
    BY <1>0, <2>1 DEF SubsInv, CountIs, Subscribing, At
<1>2. ASSUME UNCHANGED <<link, subs, loop>>, send'["mqtt"].pc # "idle" => send["mqtt"].pc # "idle"
      PROVE  BusyInv'
  BY <1>2 DEF At
<1>3. ASSUME NEW kind \in {"dispense", "status"}, Receive(kind) PROVE BusyInv'
  <2>1. UNCHANGED <<link, subs, loop>>
    BY <1>3, Zenon DEF Receive, azVars, vars
  <2> QED
    BY <1>0, <1>2, <1>3, <2>1, I2cBecomes DEF Becomes, SameRun
<1>4. CASE Count \/ Keep \/ NoProperty
  <2>1. UNCHANGED <<link, subs, loop>>
    BY <1>4, Zenon DEF Count, Keep, NoProperty, azVars, vars
  <2>2. NoProperty => send["mqtt"].pc # "idle"
    BY DEF NoProperty, SendsAt
  <2> QED
    BY <1>0, <1>2, <1>4, <2>1, <2>2, I2cBecomes DEF Finishes, Becomes, SameRun
<1>5. ASSUME NEW t \in Tasks, Ways(t) PROVE BusyInv'
  <2>1. UNCHANGED <<link, subs, loop>>
    BY <1>5, Zenon DEF Ways, MakeText, MakeTopic, Publish, Overwrite, azVars, vars, libVars
  <2>2. t # "mqtt" => SameRun("mqtt")
    BY <1>0, <1>5, WayBecomes DEF Ways, Finishes, Becomes
  <2> QED
    BY <1>2, <1>5, <2>1, <2>2, WayKeeps DEF SameRun
<1>6. CASE LoopSends
  <2>1. SameRun("mqtt")
    BY <1>0, <1>6, LoopSendsBecome DEF Becomes, SameRun
  <2>2. UNCHANGED <<link, subs>> /\ (UNCHANGED loop \/ Goto("work"))
    BY <1>6, Zenon DEF LoopSends, TakeStock, NoStock, ResendTelemetry, ConnectedDone, NothingToDo, azVars, vars, libVars
  <2> QED
    BY <1>0, <2>1, <2>2, LoopFields DEF SameRun, At
<1>7. CASE Stops
  <2>1. CASE handle /\ ~handle'
    BY <1>0, <1>7, <2>1, StopsKeeps DEF Stops, MayDestroy, SendsAt, SameRun
  <2>2. CASE ~handle
    BY <1>0, <1>7, <2>2, StopsKeeps DEF SameRun, ClientInv
  <2>3. CASE handle'
    <3>1. handle' = FALSE
      <4>1. Do /\ loop.was = "provisioned" => handle' = FALSE \/ NoWork \/ NoClock
        BY DEF Do, StartDps, StartHub, Query, Assign, ToHubFresh
      <4>2. loop.was = "provisioned" => ~NoWork /\ ~NoClock
        BY DEF NoWork, NoClock
      <4> QED
        BY <1>7, <4>1, <4>2 DEF Stops, Reconnect, StopAfterError, CallDeinit
    <3> QED
      BY <2>3, <3>1
  <2> QED
    BY <1>0, <2>1, <2>2, <2>3 DEF TypeOK
<1>8. CASE Prepares
  <2>1. SameRun("mqtt")
    BY <1>0, <1>8, PreparesKeeps
  <2>2. Do /\ loop.was # "provisioned"
    BY <1>8 DEF Prepares
  <2>3. ASSUME link = "up", subs = 3 PROVE UNCHANGED <<link, subs>> /\ loop'.pc # "subscribe"
    <3>1. ~Subscribes
      BY <1>0, <2>2, <2>3 DEF Subscribes, SubsInv, CountIs, Settled, Do
    <3> QED
      BY <1>0, <2>2, <3>1, DoCases DEF Starts, Moves, Rests, Asks, libVars
  <2> QED
    BY <2>1, <2>3 DEF SameRun, At
<1>9. CASE OtherSteps
  <2>1. UNCHANGED send
    BY <1>9 DEF OtherSteps, telVars
  <2>2. CASE Looks
    BY <1>0, <2>1, <2>2, LookCases DEF At, libVars
  <2>3. CASE CallInit \/ CallSubscribe \/ CallPublish
    BY <1>0, <2>1, <2>3, CallCases DEF At, StartInv, libVars
  <2>4. CASE OnFirstConnect \/ NetworkChanges
    <3>1. UNCHANGED <<link, subs, loop>>
      BY <2>4, Zenon DEF OnFirstConnect, NetworkChanges, libVars
    <3> QED
      BY <1>2, <2>1, <3>1
  <2> QED
    BY <1>9, <2>2, <2>3, <2>4 DEF OtherSteps, Looks
<1>10. CASE Event
  <2>1. UNCHANGED send /\ send["mqtt"].pc = "idle"
    BY <1>10 DEF Event, telVars, SendsAt
  <2> QED
    BY <2>1
<1>11. CASE cfgOpen \/ cfgLoad \/ UNCHANGED allVars
  <2>1. UNCHANGED <<link, subs, loop, send>>
    BY <1>11, Zenon DEF cfgOpen, cfgLoad, allVars, telVars, azVars, vars
  <2> QED
    BY <1>2, <2>1
<1>12. CASE Restart
  BY <1>0, <1>12, IdleFields DEF Restart
<1> QED
  BY <1>1, <1>3, <1>4, <1>5, <1>6, <1>7, <1>8, <1>9, <1>10, <1>11, <1>12, Zenon
     DEF TelNext, LoopSends, MqttBegins, Ways

-----------------------------------------------------------------------------
(* The invariant of the sending tasks on top of the connection.            *)
TelIInv == IInv /\ SendInv /\ Typed /\ KindInv /\ CountInv /\ Switches /\ BusyInv

LEMMA TelInductive ==
  /\ TelInit => TelIInv
  /\ TelIInv /\ [TelNext]_allVars => TelIInv'
<1>1. ASSUME TelInit PROVE TelIInv
  <2>1. IInv
    BY <1>1, Inductive DEF TelInit
  <2>2. SendInv
    BY <1>1, SendInit
  <2>3. Typed
    BY <1>1, FrameTypes DEF TelInit, Typed
  <2>4. send["i2c"].pc = "idle" /\ send["mqtt"].pc = "idle" /\ \A t \in Tasks : send[t].kind = "none"
    BY <1>1, IdleFields DEF TelInit, Tasks
  <2>5. KindInv /\ BusyInv
    BY <2>4 DEF KindInv, KindsOf, BusyInv
  <2>6. CountInv
    <3>1. dx_cnt = 0 /\ nvmCnt = 0 /\ number = 0 /\ MaxDx \in Nat
      BY <1>1, TelemetryAssumption, Zenon DEF TelInit
    <3> QED
      BY <2>4, <3>1 DEF CountInv, SendsAt
  <2>7. Switches
    BY <1>1, Zenon DEF TelInit, Switches
  <2> QED
    BY <2>1, <2>2, <2>3, <2>5, <2>6, <2>7 DEF TelIInv
<1>2. ASSUME TelIInv, [TelNext]_allVars PROVE TelIInv'
  <2>1. IInv'
    <3>1. CASE [Next]_vars
      BY <1>2, <3>1, Inductive DEF TelIInv
    <3> QED
      BY <1>2, <3>1, AzureSteps, ResponseFailsKeeps, RestartKeeps DEF TelIInv
  <2>2. SendInv' /\ Typed' /\ KindInv' /\ CountInv' /\ Switches' /\ BusyInv'
    BY <1>2, SendStep, SendTypes, KindStep, CountStep, SwitchStep, BusyStep DEF TelIInv
  <2> QED
    BY <2>1, <2>2 DEF TelIInv
<1> QED
  BY <1>1, <1>2

(* The invariant holds in every reachable state, whichever way the three   *)
(* tasks interleave and wherever the device restarts (dxclient.cpp,        *)
(* AzureIoT.cpp, Azure_IoT_PnP_Template.cpp).                              *)
THEOREM TelInvariant == TelSpec => []TelIInv
<1>1. TelInit => TelIInv
  BY TelInductive
<1>2. TelIInv /\ [TelNext]_allVars => TelIInv'
  BY TelInductive
<1> QED
  BY <1>1, <1>2, PTL DEF TelSpec

(* The variables of the sending tasks and of the connection keep their     *)
(* types, at every bound of the dispense counter (dxclient.cpp,            *)
(* cfgUpdateDxCnt).                                                        *)
THEOREM TelTypeCorrect == TelSpec => []TelTypeOK
<1>1. TelIInv => TelTypeOK
  BY DEF TelIInv, IInv, Typed, CountInv, Switches, TelTypeOK
<1> QED
  BY TelInvariant, <1>1, PTL

(* What the connection promises on its own it also keeps under the traffic *)
(* of the three tasks and over restarts: the client is ready only with all *)
(* topics subscribed, and a client that was started is never lost nor a    *)
(* second one created beside it, also where a response that fails writes   *)
(* the state of the connection from the MQTT task                          *)
(* (azure_iot_send_command_response, azure_iot_do_work).                   *)
THEOREM ConnectionKeptAlways == TelSpec => [](ReadyIsSubscribed /\ OneClient)
<1>1. IInv => ReadyIsSubscribed /\ OneClient
  BY DEF IInv, ReadyIsSubscribed, OneClient, SubsInv, HubInv, HubStates, ClientInv, StartInv, CountIs
<1>2. TelIInv => ReadyIsSubscribed /\ OneClient
  BY <1>1 DEF TelIInv
<1> QED
  BY TelInvariant, <1>2, PTL

(* A message of the cloud is answered on the connection it came through:   *)
(* no disconnection is handled and no client destroyed before the answer   *)
(* is out (mqtt_event_handler, azure_iot_stop).                            *)
THEOREM AnsweredOnConnectionAlways == TelSpec => []AnsweredOnConnection
<1>1. TelIInv => AnsweredOnConnection
  BY DEF TelIInv, BusyInv, AnsweredOnConnection, SendsAt
<1> QED
  BY TelInvariant, <1>1, PTL

(* What is done with the connection is AzureIoT as it is checked alone, but *)
(* for a response that could not be published and for restarts, whatever is *)
(* sent (azure_iot_send_command_response, setup).                           *)
THEOREM TrafficKeepsConnection ==
  TelSpec => Init /\ [][Next \/ ResponseFails \/ Restart]_vars
<1>1. TelInit => Init
  BY DEF TelInit
<1>2. TelIInv /\ [TelNext]_allVars => [Next \/ ResponseFails \/ Restart]_vars
  <2> SUFFICES ASSUME TelIInv, [TelNext]_allVars PROVE [Next \/ ResponseFails \/ Restart]_vars
    OBVIOUS
  <2>1. [Next]_vars \/ ResponseFails \/ Restart
    BY AzureSteps DEF TelIInv
  <2> QED
    BY <2>1
<1> QED
  BY TelInvariant, <1>1, <1>2, PTL DEF TelSpec

(* Under the traffic too, a device that was provisioned is provisioned     *)
(* again only after it has restarted (azure_iot_start, azure_iot_do_work,  *)
(* azure_iot_send_command_response).                                       *)
THEOREM ProvisionedOncePerStart ==
  TelSpec => [][fqdn => (fqdn' /\ state' # "connecting_to_dps") \/ Restart]_allVars
<1>1. TelIInv /\ [TelNext]_allVars => (fqdn => (fqdn' /\ state' # "connecting_to_dps") \/ Restart)
  <2> SUFFICES ASSUME TelIInv, [TelNext]_allVars, fqdn
               PROVE  (fqdn' /\ state' # "connecting_to_dps") \/ Restart
    OBVIOUS
  <2>1. CASE [Next]_vars
    BY <2>1, OnceStep DEF TelIInv
  <2>2. CASE ResponseFails
    BY <2>2 DEF ResponseFails
  <2> QED
    BY <2>1, <2>2, AzureSteps DEF TelIInv
<1>2. TelIInv /\ [TelNext]_allVars => [fqdn => (fqdn' /\ state' # "connecting_to_dps") \/ Restart]_allVars
  BY <1>1
<1> QED
  BY TelInvariant, <1>2, PTL DEF TelSpec
=============================================================================
