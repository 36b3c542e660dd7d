--------------------------- MODULE DxClientTelemetry ---------------------------
(***************************************************************************)
(* What the comms ESP sends over the connection of AzureIoT.  Three tasks  *)
(* send: the I2C callback (dispenses, status changes), the loop (stock     *)
(* takes, stored records) and the MQTT task (answers to the cloud).  Each  *)
(* writes its text into the data_buffer of Azure_IoT_PnP_Template.cpp and  *)
(* its topic into azure_iot->data_buffer, where the loop also keeps        *)
(* credentials and provisioning requests until the library has them; there *)
(* is one of each buffer and no lock.  The dispense counter and the start  *)
(* of the program belong here too.  What the outbox does with a record is  *)
(* in DxClientOutbox.                                                      *)
(***************************************************************************)
EXTENDS AzureIoT

CONSTANT MaxDx   \* bound on the dispense counter

ASSUME TelemetryAssumption == MaxDx \in Nat

VARIABLES
  send,      \* where each task is on the way to a publish, and with what
  dx_cnt,    \* the dispense counter in RAM
  nvmCnt,    \* and in flash
  number,    \* history: the highest number given to a dispense that was saved
  do_stock,  \* DX_DO_STOCK_TAKE
  asked,     \* history: no stock take was begun since the last TakeStock command
  prefs      \* how far cfgLoad() is with the flash: "closed", "open" or "loaded"

azVars    == vars
cntVars   == <<dx_cnt, nvmCnt, number>>
stockVars == <<do_stock, asked>>
telVars   == <<send, cntVars, stockVars, prefs>>
allVars   == <<azVars, telVars>>

Tasks == {"i2c", "loop", "mqtt"}
Kinds == {"dispense", "status", "stock", "resend", "response", "reported"}

(* pc: what the task does next.  saved: the dispense was counted, in flash
   too, after the counter had been loaded.  topic and text: the buffers still
   hold what this task has put there. *)
Frame == [pc : {"idle", "count", "text", "topic", "publish", "keep", "resend", "done"},
          kind : Kinds \cup {"none"}, saved : BOOLEAN, topic : BOOLEAN, text : BOOLEAN]
Idle == [pc |-> "idle", kind |-> "none", saved |-> FALSE, topic |-> TRUE, text |-> TRUE]

TelTypeOK ==
  /\ TypeOK
  /\ send \in [Tasks -> Frame]
  /\ dx_cnt \in 0 .. MaxDx /\ nvmCnt \in 0 .. MaxDx /\ number \in 0 .. MaxDx
  /\ do_stock \in BOOLEAN /\ asked \in BOOLEAN
  /\ prefs \in {"closed", "open", "loaded"}

TelInit ==
  /\ Init
  /\ send = [t \in Tasks |-> Idle]
  /\ dx_cnt = 0 /\ nvmCnt = 0 /\ number = 0
  /\ do_stock = FALSE /\ asked = FALSE /\ prefs = "closed"

SendsAt(t, pc) == send[t].pc = pc
Step(t, pc) == send' = [send EXCEPT ![t].pc = pc]
Begin(t, pc, kind) == send' = [send EXCEPT ![t] = [Idle EXCEPT !.pc = pc, !.kind = kind]]

(* Where a sender goes on: the loop has stored records to look at next. *)
After(kind) == CASE kind = "stock"  -> [Idle EXCEPT !.pc = "resend"]
                 [] kind = "resend" -> [Idle EXCEPT !.pc = "done"]
                 [] OTHER           -> Idle
Finish(t) == send' = [send EXCEPT ![t] = After(send[t].kind)]

-----------------------------------------------------------------------------
(* From an event to a publish.                                             *)

(* dxI2ConReceive(), sendMsgFormI2C(): a dispense ("Finished") is counted
   and sent to arrive, any other event is sent once.  setup() has started
   the receiver before it loads the counter. *)
Receive(kind) ==
  /\ SendsAt("i2c", "idle")
  /\ kind = "dispense" => dx_cnt < MaxDx /\ nvmCnt < MaxDx
  /\ Begin("i2c", IF kind = "dispense" THEN "count" ELSE "text", kind)
  /\ UNCHANGED <<azVars, cntVars, stockVars, prefs>>

CountedAs(saved) == [send EXCEPT !["i2c"].pc = "text", !["i2c"].saved = saved]

CountSavedFirst ==                                            \* a faulty variant
  /\ SendsAt("i2c", "count")
  /\ nvmCnt' = IF prefs = "closed" THEN nvmCnt ELSE dx_cnt
  /\ dx_cnt' = dx_cnt + 1
  /\ number' = IF prefs = "open" THEN 0 ELSE number
  /\ send' = CountedAs(prefs = "loaded")
  /\ UNCHANGED <<azVars, stockVars, prefs>>

(* cfgUpdateDxCnt(): the flash is written once cfgLoad() has opened it.  A
   dispense that is counted before cfgLoad() has read the old count writes
   over it: the numbers given so far are given again. *)
Count ==
  /\ SendsAt("i2c", "count")
  /\ dx_cnt' = dx_cnt + 1
  /\ nvmCnt' = IF prefs = "closed" THEN nvmCnt ELSE dx_cnt + 1
  /\ number' = IF prefs = "open" THEN 0 ELSE number
  /\ send' = CountedAs(prefs = "loaded")
  /\ UNCHANGED <<azVars, stockVars, prefs>>

(* A response has no text, a stored record is sent from a copy. *)
HoldsText(f) == f.pc \in {"topic", "publish", "keep"} /\ f.kind \notin {"response", "resend"}

(* generate_telemetry_...(), consume_properties_and_generate_response(). *)
MakeText(t) ==
  /\ SendsAt(t, "text")
  /\ send' = [s \in Tasks |-> IF s = t THEN [send[s] EXCEPT !.pc = "topic", !.saved = FALSE]
                              ELSE [send[s] EXCEPT !.text = @ /\ ~HoldsText(send[s])]]
  /\ number' = IF send[t].saved THEN dx_cnt ELSE number
  /\ UNCHANGED <<azVars, dx_cnt, nvmCnt, stockVars, prefs>>

(* No update of a property that the template knows: an error, or a report of
   a length that was never set, of what the buffer happens to hold. *)
NoProperty ==
  /\ SendsAt("mqtt", "text") /\ send["mqtt"].kind = "reported"
  /\ Finish("mqtt") \/ Step("mqtt", "topic")
  /\ UNCHANGED <<azVars, cntVars, stockVars, prefs>>

TopicOf(kind) == IF kind \in {"response", "reported"} THEN kind ELSE "telemetry"

(* The topic of another kind replaces those that wait for the library. *)
Topics(t) ==
  [s \in Tasks |->
     IF s = t THEN [send[s] EXCEPT !.pc = "publish"]
     ELSE [send[s] EXCEPT !.topic = @ /\ ~(/\ send[s].pc = "publish"
                                           /\ TopicOf(send[s].kind) # TopicOf(send[t].kind))]]

(* The topic is written to the buffer of azure_iot, that azure_iot_init()
   has given it; before, nothing of the message is kept. *)
MakeTopic(t) ==
  /\ SendsAt(t, "topic")
  /\ \/ Overwrite /\ send' = Topics(t)
     \/ state = "not_initialized" /\ Finish(t) /\ UNCHANGED azVars
  /\ UNCHANGED <<cntVars, stockVars, prefs>>

(* mqtt_client_publish publishes with the handle of then, or not; a dispense
   is kept in both cases.  Only the response to a command reports a failure. *)
Publish(t) ==
  LET f == send[t] IN
  /\ SendsAt(t, "publish")
  /\ IF f.kind = "dispense"
     THEN send' = [send EXCEPT ![t] = [Idle EXCEPT !.pc = "keep", !.kind = f.kind, !.text = f.text]]
     ELSE Finish(t)
  /\ \/ /\ f.kind = "response" /\ (link # "up" \/ ~net)
        /\ state' = "error"
     \/ (f.kind # "response" \/ link = "up") /\ UNCHANGED state
  /\ UNCHANGED <<handle, fqdn, opid, envVars, loop, libVars, bufVars, cntVars, stockVars, prefs>>

(* The text is read again, to be stored or to wait for its PUBACK. *)
Keep ==
  /\ SendsAt("i2c", "keep")
  /\ Finish("i2c")
  /\ UNCHANGED <<azVars, cntVars, stockVars, prefs>>

-----------------------------------------------------------------------------
(* The loop with the client connected.                                     *)

LoopConnected == At("act") /\ loop.status = "connected"

(* dxClientStockProcess(): on a command or after an hour, all masses 0. *)
TakeStock ==
  /\ LoopConnected /\ SendsAt("loop", "idle")
  /\ do_stock' = FALSE /\ asked' = FALSE
  /\ Begin("loop", "text", "stock")
  /\ UNCHANGED <<azVars, cntVars, prefs>>

NoStock ==
  /\ LoopConnected /\ SendsAt("loop", "idle") /\ ~do_stock
  /\ Step("loop", "resend")
  /\ UNCHANGED <<azVars, cntVars, stockVars, prefs>>

(* azure_iot_resend_telemetry() has a record to send again, or not. *)
ResendTelemetry ==
  /\ SendsAt("loop", "resend")
  /\ Begin("loop", "topic", "resend") \/ Step("loop", "done")
  /\ UNCHANGED <<azVars, cntVars, stockVars, prefs>>

ConnectedDone ==
  /\ NothingToDo
  /\ IF loop.status = "connected" THEN SendsAt("loop", "done") /\ Begin("loop", "idle", "none")
                                  ELSE UNCHANGED send
  /\ UNCHANGED <<cntVars, stockVars, prefs>>

-----------------------------------------------------------------------------
(* The other steps of AzureIoT, with the tasks that are sending.           *)

(* The library stops a client when its task has finished the event. *)
MayDestroy == handle /\ ~handle' => SendsAt("mqtt", "idle")

Stops ==
  /\ Reconnect \/ StopAfterError \/ CallDeinit \/ (Do /\ loop.was = "provisioned")
  /\ MayDestroy
  /\ UNCHANGED telVars

(* What do_work prepares replaces the topics that wait for the library. *)
Prepares ==
  /\ Do /\ loop.was # "provisioned"
  /\ send' = IF intact'
             THEN [t \in Tasks |-> [send[t] EXCEPT !.topic = @ /\ send[t].pc # "publish"]]
             ELSE send
  /\ UNCHANGED <<cntVars, stockVars, prefs>>

OtherSteps ==
  /\ prefs = "loaded"
  /\ \/ Read \/ Look \/ Work \/ CallInit \/ CallSubscribe \/ CallPublish
     \/ OnFirstConnect \/ NetworkChanges
  /\ UNCHANGED telVars

-----------------------------------------------------------------------------
(* The MQTT task handles one event at a time.                              *)

Event ==
  /\ SendsAt("mqtt", "idle")
  /\ OnConnected \/ OnRefused \/ OnDisconnected \/ OnSubscribed \/ OnReply
  /\ UNCHANGED telVars

(* azure_iot_mqtt_client_message_received() once the client is ready: answers
   to updates of its own are only logged. *)
AnswersAlways == SendsAt("mqtt", "idle") /\ link = "up"         \* a faulty variant
MessageArrives == SendsAt("mqtt", "idle") /\ link = "up" /\ state = "ready"

(* azure_pnp_handle_command_request(): the response says 202, or 404 for a
   name that is not known. *)
Respond == Begin("mqtt", "topic", "response")

RequestAssigns(takeStock) ==                                  \* a faulty variant
  /\ MessageArrives
  /\ do_stock' = takeStock /\ asked' = (asked \/ takeStock)
  /\ Respond
  /\ UNCHANGED <<azVars, cntVars, prefs>>

(* on_command_request_received(). *)
OnRequest(takeStock) ==
  /\ MessageArrives
  /\ do_stock' = (do_stock \/ takeStock) /\ asked' = (asked \/ takeStock)
  /\ Respond
  /\ UNCHANGED <<azVars, cntVars, prefs>>

(* on_properties_received(). *)
OnProperties ==
  /\ MessageArrives
  /\ Begin("mqtt", "text", "reported")
  /\ UNCHANGED <<azVars, cntVars, stockVars, prefs>>

-----------------------------------------------------------------------------
(* The start of the program.                                               *)

(* cfgLoad(), before the WiFi is started: it opens the flash ... *)
cfgOpen ==
  /\ prefs = "closed"
  /\ prefs' = "open"
  /\ UNCHANGED <<azVars, send, cntVars, stockVars>>

(* ... and reads the count, if one was ever saved.  The machine number, which
   the first start saves and cfgLoad() asks for, is taken to be there with it. *)
cfgLoad ==
  /\ prefs = "open"
  /\ prefs' = "loaded" /\ dx_cnt' = IF nvmCnt = 0 THEN dx_cnt ELSE nvmCnt
  /\ UNCHANGED <<azVars, send, nvmCnt, number, stockVars>>

(* The device restarts or loses power. *)
Restart ==
  /\ state' = "not_initialized" /\ handle' = FALSE /\ fqdn' = FALSE /\ opid' = "none"
  /\ first' = FALSE /\ wifi' = FALSE /\ loop' = Rest /\ UNCHANGED net
  /\ Destroy /\ intact' = FALSE /\ login' = FALSE /\ leaked' = FALSE
  /\ send' = [t \in Tasks |-> Idle]
  /\ dx_cnt' = 0 /\ do_stock' = FALSE /\ asked' = FALSE /\ prefs' = "closed"
  /\ UNCHANGED <<nvmCnt, number>>

-----------------------------------------------------------------------------
TelNext ==
  \/ \E kind \in {"dispense", "status"} : Receive(kind)
  \/ Count \/ Keep \/ NoProperty
  \/ \E t \in Tasks : MakeText(t) \/ MakeTopic(t) \/ Publish(t)
  \/ TakeStock \/ NoStock \/ ResendTelemetry \/ ConnectedDone
  \/ Stops \/ Prepares \/ OtherSteps
  \/ Event \/ OnProperties
  \/ \E takeStock \in BOOLEAN : OnRequest(takeStock)
  \/ cfgOpen \/ cfgLoad \/ Restart

TelSpec == TelInit /\ [][TelNext]_allVars

-----------------------------------------------------------------------------
(* dx_cnt numbers the dispenses of a machine over all its restarts: one that *)
(* is counted after cfgLoad() has loaded the counter is given a number that   *)
(* no other such dispense was given (cfgUpdateDxCnt, cfgLoad).  The numbers   *)
(* of dispenses that come before are not new, and one that comes between the  *)
(* opening of the flash and the reading of the count sets the count back.     *)
NumberIsNew == SendsAt("i2c", "text") /\ send["i2c"].saved => dx_cnt > number

(* A TakeStock command is not lost, whichever way its flag is set by the     *)
(* MQTT task and cleared by the loop: it stays set until a stock take is     *)
(* begun after the command (on_command_request_received,                     *)
(* dxClientStockProcess).                                                    *)
StockTakeKept == asked => do_stock

(* A message of the cloud is answered on the connection it came through,     *)
(* with all topics subscribed: no disconnection is handled and no client     *)
(* destroyed before the answer is out, although the loop may stop the client *)
(* at any time (mqtt_event_handler, azure_iot_stop).                         *)
AnsweredOnConnection == ~SendsAt("mqtt", "idle") => link = "up" /\ subs = 3

TopicKept   == \A t \in Tasks : SendsAt(t, "publish") => send[t].topic
TextKept    == \A t \in Tasks : send[t].pc \in {"publish", "keep"} => send[t].text
RequestKept == At("init") \/ At("publish") => intact

(* The structure of Azure IoT "must remain unchanged (including data         *)
(* buffer) ... so other components do not overwrite any information within   *)
(* this structure" (dxclient.cpp:968): a topic, a text, credentials and      *)
(* requests are still there when the library is given them, and the          *)
(* operation id as long as it is used.                                       *)
BufferKept == TopicKept /\ TextKept /\ RequestKept /\ OperationIdReserved
=============================================================================
