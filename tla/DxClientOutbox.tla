---------------------------- MODULE DxClientOutbox ----------------------------
(***************************************************************************)
(* The message outbox of the comms ESP: DxClientOutbox in                  *)
(* commesp/src/dxclientoutbox.h, with the code of AzureIoT.cpp and         *)
(* dxclient.cpp that calls it from four tasks:                             *)
(*   i2c    a dispense arrives from the main ESP and is published;         *)
(*   loop   stored records are resent, the box is stored while WiFi is     *)
(*          down, the MQTT client is stopped and started;                  *)
(*   mqtt   PUBACKs and transport errors;                                  *)
(*   wifi   WiFi events.                                                   *)
(* Nothing excludes one task while another is inside the outbox.  A step   *)
(* here is what runs between two places where a switch can be seen: a      *)
(* flash write, a publish, a read of a counter used after it.  With Locked *)
(* the calls of the outbox exclude each other, as under a mutex.           *)
(***************************************************************************)
EXTENDS Integers, FiniteSets

CONSTANTS
  Records,    \* dispense records, each sent once by the main ESP
  NoRecord,   \* the empty string, in a slot never used
  Absent,     \* what a key of the flash never written holds
  BoxSize,    \* _ENQUEUED_BOX_SIZE, 32
  NvmSize,    \* _SIZE_LOOKUP, 32
  PacketIds,  \* MQTT packet ids
  Locked,     \* whether calls of the outbox exclude each other
  Failures    \* what may go wrong around the outbox

AllFailures == {"wifi", "broker", "error", "stop", "power"}

ASSUME OutboxAssumption ==
  /\ NoRecord \notin Records /\ Absent \notin Records \cup {NoRecord}
  /\ BoxSize \in 2 .. 254      \* _enqueued_count is a uint8_t
  /\ NvmSize \in Nat \ {0}
  /\ PacketIds \subseteq Nat
  /\ Locked \in BOOLEAN
  /\ Failures \subseteq AllFailures

Tasks  == {"i2c", "loop", "mqtt", "wifi"}
Slots  == 0 .. BoxSize - 1
NvmIds == 0 .. NvmSize - 1
None   == -1                    \* no NVM id

VARIABLES
  box,        \* _enqbox: slots at and after count hold what was there before
  count,      \* _enqueued_count
  lookup,     \* _lookup, as the set of ids whose bit is set
  cursor,     \* _current_nvm_id
  nvmMsg,     \* flash: the string under the key msg_<id>
  nvmLookup,  \* flash: the lookup last saved
  task,       \* where each task is in the code below, with its locals
  latchStore, \* DX_LATCH_STOREOUTBOX
  latchError, \* DX_LATCH_ERROR_FLAG
  wifi,       \* WiFi.isConnected()
  wifiSeen,   \* DX_WIFI_CONNECTED: what the WiFi events have said so far
  client,     \* the MQTT client: "none", "ready", or "lost" its connection
  hub,        \* the telemetry topic is known (the hub client is initialised)
  wire,       \* publishes the MQTT client holds until their PUBACK
  acks,       \* packet ids of PUBACKs the mqtt task has not handled yet
  taken,      \* history: records received over I2C
  delivered   \* history: records the broker has received

ramVars  == <<box, count, lookup, cursor>>
nvmVars  == <<nvmMsg, nvmLookup>>
netVars  == <<wifi, wifiSeen, client, hub, wire, acks>>
latches  == <<latchStore, latchError>>
history  == <<taken, delivered>>
vars == <<ramVars, nvmVars, task, latches, netVars, history>>

Entry == [mqtt : PacketIds \cup {None}, nvm : NvmIds \cup {None},
          msg : Records \cup {NoRecord}]
EmptyEntry == [mqtt |-> None, nvm |-> None, msg |-> NoRecord]

(* pc names the next thing a task does; ix is an index into the box, or the
   count read before a write; seen is a value of lookup read before a write. *)
Pcs == {"idle", "publish", "republish", "fill", "bump", "put", "mark", "save",
        "scan", "reset", "unmark", "unsave", "shift"}
Frame == [pc : Pcs, msg : Records \cup {NoRecord}, mqtt : PacketIds \cup {None},
          nvm : NvmIds \cup {None}, ix : -1 .. 255, seen : SUBSET NvmIds]
Idle == [pc |-> "idle", msg |-> NoRecord, mqtt |-> None, nvm |-> None,
         ix |-> -1, seen |-> {}]

TypeOK ==
  /\ box \in [Slots -> Entry]
  /\ count \in 0 .. 255
  /\ lookup \in SUBSET NvmIds /\ nvmLookup \in SUBSET NvmIds
  /\ cursor \in NvmIds \cup {None}
  /\ nvmMsg \in [NvmIds -> Records \cup {NoRecord, Absent}]
  /\ task \in [Tasks -> Frame]
  /\ latchStore \in BOOLEAN /\ latchError \in BOOLEAN
  /\ wifi \in BOOLEAN /\ wifiSeen \in BOOLEAN /\ hub \in BOOLEAN
  /\ client \in {"none", "ready", "lost"}
  /\ wire \subseteq [mqtt : PacketIds, msg : Records]
  /\ acks \subseteq PacketIds
  /\ taken \subseteq Records /\ delivered \subseteq Records

Init ==
  /\ box = [i \in Slots |-> EmptyEntry] /\ count = 0
  /\ lookup = {} /\ cursor = None
  /\ nvmMsg = [k \in NvmIds |-> Absent] /\ nvmLookup = {}
  /\ task = [t \in Tasks |-> Idle]
  /\ latchStore = FALSE /\ latchError = FALSE
  /\ wifi = FALSE /\ wifiSeen = FALSE /\ client = "none" /\ hub = FALSE
  /\ wire = {} /\ acks = {}
  /\ taken = {} /\ delivered = {}

-----------------------------------------------------------------------------
(* Tasks and the places they are at.                                       *)

At(t, pc) == task[t].pc = pc
Goto(t, frame) == task' = [task EXCEPT ![t] = frame]
Return(t) == Goto(t, Idle)

(* t is inside a call of the outbox: past its first step. *)
InCall(t) ==
  \/ task[t].pc \in {"bump", "mark", "save", "reset", "unmark", "unsave", "shift"}
  \/ task[t].pc \in {"scan", "put"} /\ task[t].ix >= (IF At(t, "scan") THEN 1 ELSE 0)

(* Nobody else is inside a call. *)
Own(t) == \A u \in Tasks \ {t} : ~InCall(u)

(* t may run a step of the outbox.  With a count beyond the array the code
   reads what lies behind it: the model ends there. *)
MayRun(t) == (Locked => Own(t)) /\ count <= BoxSize

-----------------------------------------------------------------------------
(* The outbox.                                                             *)

InBox == {i \in Slots : i < count}
Least(S) == CHOOSE i \in S : \A j \in S : i <= j

(* What lies behind the count is only read when calls overlap. *)
Forget(b, n) ==
  IF Locked THEN [i \in Slots |-> IF i < n THEN b[i] ELSE EmptyEntry] ELSE b

isEnqueueBoxEmpty == count = 0
isEnqueueBoxFull  == count >= BoxSize - 1
isAnyUnsent       == lookup # {}

(* enqueueMsg(): a message that does not fit is dropped.  The count is read
   to choose the slot and again to be incremented. *)
Fill(t) ==
  LET f == task[t] IN
  /\ At(t, "fill") /\ MayRun(t)
  /\ IF count < BoxSize
     THEN /\ box' = [box EXCEPT ![count] = [mqtt |-> f.mqtt, nvm |-> f.nvm, msg |-> f.msg]]
          /\ Goto(t, [f EXCEPT !.pc = "bump", !.ix = count])
     ELSE Return(t) /\ UNCHANGED box
  /\ UNCHANGED <<count, lookup, cursor, nvmVars, latches, netVars, history>>

Bump(t) ==
  /\ At(t, "bump") /\ MayRun(t)
  /\ \E c \in {task[t].ix, count} : count' = (c + 1) % 256
  /\ Return(t)
  /\ UNCHANGED <<box, lookup, cursor, nvmVars, latches, netVars, history>>

(* Where storeMsg() returns to: the loop of enqueueBoxToStore(), or its caller. *)
AfterStore(f) ==
  IF f.ix >= 0 THEN [Idle EXCEPT !.pc = "scan", !.ix = f.ix + 1] ELSE Idle

OpenIdPastEnd == Least((0 .. NvmSize) \ lookup)

getOpenId == IF lookup = NvmIds THEN None ELSE Least(NvmIds \ lookup)

PutNothing(t) ==
  LET f == task[t] IN
  /\ At(t, "put") /\ MayRun(t)
  /\ Goto(t, IF getOpenId = None THEN AfterStore(f)
             ELSE [f EXCEPT !.pc = "mark", !.nvm = getOpenId, !.seen = lookup])
  /\ UNCHANGED <<ramVars, nvmVars, latches, netVars, history>>

(* storeMsg(): the string is written before the bit that makes it findable,
   the bit in RAM before the lookup in flash. *)
Put(t) ==
  LET f == task[t] IN
  /\ At(t, "put") /\ MayRun(t)
  /\ IF getOpenId = None
     THEN Goto(t, AfterStore(f)) /\ UNCHANGED nvmMsg
     ELSE /\ nvmMsg' = [nvmMsg EXCEPT ![getOpenId] = f.msg]
          /\ Goto(t, [f EXCEPT !.pc = "mark", !.nvm = getOpenId, !.seen = lookup])
  /\ UNCHANGED <<ramVars, nvmLookup, latches, netVars, history>>

Mark(t) ==
  LET f == task[t] IN
  /\ At(t, "mark") /\ MayRun(t)
  /\ \E l \in {f.seen, lookup} : lookup' = l \cup {f.nvm}
  /\ Goto(t, [f EXCEPT !.pc = "save", !.seen = {}])
  /\ UNCHANGED <<box, count, cursor, nvmVars, latches, netVars, history>>

Save(t) ==
  /\ At(t, "save") /\ MayRun(t)
  /\ nvmLookup' = lookup
  /\ Goto(t, AfterStore(task[t]))
  /\ UNCHANGED <<ramVars, nvmMsg, latches, netVars, history>>

ScanSkipsLast(t) ==
  LET f == task[t] IN
  /\ At(t, "scan") /\ MayRun(t)
  /\ IF f.ix + 1 \in InBox
     THEN Goto(t, [Idle EXCEPT !.pc = "put", !.ix = f.ix, !.msg = box[f.ix].msg])
     ELSE Goto(t, [Idle EXCEPT !.pc = "reset"])
  /\ UNCHANGED <<ramVars, nvmVars, latches, netVars, history>>

(* enqueueBoxToStore(): every message of the box, also one that came from
   the flash.  It returns early when there is none. *)
Scan(t) ==
  LET f == task[t] IN
  /\ At(t, "scan") /\ MayRun(t)
  /\ \/ /\ f.ix \in InBox
        /\ Goto(t, [Idle EXCEPT !.pc = "put", !.ix = f.ix, !.msg = box[f.ix].msg])
        /\ UNCHANGED wifiSeen
     \/ /\ f.ix \notin InBox /\ f.ix > 0
        /\ Goto(t, [Idle EXCEPT !.pc = "reset"])
        /\ UNCHANGED wifiSeen
     \/ /\ f.ix \notin InBox /\ f.ix = 0
        /\ Return(t)
        /\ wifiSeen' = IF t = "wifi" THEN FALSE ELSE wifiSeen
  /\ UNCHANGED <<ramVars, nvmVars, latches, wifi, client, hub, wire, acks, history>>

(* The WiFi handler takes note of the disconnection when the box is stored. *)
Reset(t) ==
  /\ At(t, "reset") /\ MayRun(t)
  /\ count' = 0 /\ box' = Forget(box, 0)
  /\ wifiSeen' = IF t = "wifi" THEN FALSE ELSE wifiSeen
  /\ Return(t)
  /\ UNCHANGED <<lookup, cursor, nvmVars, latches, wifi, client, hub, wire, acks, history>>

(* onPublished(): the first entry with the packet id is removed, after the
   bit of the flash it came from is cleared. *)
Published(id) ==
  LET hits == {i \in InBox : box[i].mqtt = id}
      i == Least(hits)
  IN
  /\ id \in acks /\ At("mqtt", "idle") /\ MayRun("mqtt")
  /\ acks' = acks \ {id}
  /\ \/ hits = {} /\ UNCHANGED task
     \/ hits # {} /\ Goto("mqtt", IF box[i].nvm = None
                                  THEN [Idle EXCEPT !.pc = "shift", !.ix = i]
                                  ELSE [Idle EXCEPT !.pc = "unmark", !.ix = i,
                                          !.nvm = box[i].nvm, !.seen = lookup])
  /\ UNCHANGED <<ramVars, nvmVars, latches, wifi, wifiSeen, client, hub, wire, history>>

Unmark(t) ==
  LET f == task[t] IN
  /\ At(t, "unmark") /\ MayRun(t)
  /\ \E l \in {f.seen, lookup} : lookup' = l \ {f.nvm}
  /\ Goto(t, [f EXCEPT !.pc = "unsave", !.seen = {}])
  /\ UNCHANGED <<box, count, cursor, nvmVars, latches, netVars, history>>

Unsave(t) ==
  /\ At(t, "unsave") /\ MayRun(t)
  /\ nvmLookup' = lookup
  /\ Goto(t, [Idle EXCEPT !.pc = "shift", !.ix = task[t].ix])
  /\ UNCHANGED <<ramVars, nvmMsg, latches, netVars, history>>

ShiftForgotten(t) ==
  /\ At(t, "shift") /\ MayRun(t)
  /\ count' = (count - 1) % 256
  /\ box' = Forget(box, count')
  /\ Return(t)
  /\ UNCHANGED <<lookup, cursor, nvmVars, latches, netVars, history>>

Shift(t) ==
  /\ At(t, "shift") /\ MayRun(t)
  /\ count' = (count - 1) % 256
  /\ box' = Forget([i \in Slots |-> IF task[t].ix <= i /\ i < count - 1
                                    THEN box[i + 1] ELSE box[i]], count')
  /\ Return(t)
  /\ UNCHANGED <<lookup, cursor, nvmVars, latches, netVars, history>>

NextFromStart == IF lookup = {} THEN None ELSE Least(lookup)

(* getNextUnsentId(): the next id after the cursor, or none and back to the
   start. *)
getNextUnsentId ==
  LET ahead == {k \in lookup : k > cursor}
  IN  IF ahead = {} THEN None ELSE Least(ahead)

-----------------------------------------------------------------------------
(* The callers.                                                            *)

(* sendMsgFormI2C() with a dispense: from here the loop may store again. *)
Receive(m) ==
  /\ At("i2c", "idle") /\ m \notin taken
  /\ taken' = taken \cup {m}
  /\ latchStore' = FALSE
  /\ Goto("i2c", [Idle EXCEPT !.pc = "publish", !.msg = m])
  /\ UNCHANGED <<ramVars, nvmVars, latchError, netVars, delivered>>

(* Packet ids the MQTT client may give to a new publish.  It does not reuse
   one that somebody still waits for. *)
FreshIds ==
  PacketIds \ ({w.mqtt : w \in wire} \cup acks \cup {box[i].mqtt : i \in InBox}
               \cup {task[t].mqtt : t \in Tasks})

(* azure_iot_send_telemetry() of a dispense.  Without a topic it returns
   before anything is kept; a publish that fails is stored at once. *)
Publish ==
  LET f == task["i2c"] IN
  /\ At("i2c", "publish")
  /\ \/ /\ ~hub
        /\ Return("i2c") /\ UNCHANGED wire
     \/ /\ hub
        /\ Goto("i2c", [f EXCEPT !.pc = "put"]) /\ UNCHANGED wire
     \/ \E id \in FreshIds :
          /\ hub /\ client # "none"
          /\ wire' = wire \cup {[mqtt |-> id, msg |-> f.msg]}
          /\ Goto("i2c", [f EXCEPT !.pc = "fill", !.mqtt = id])
  /\ UNCHANGED <<ramVars, nvmVars, latches, wifi, wifiSeen, client, hub, acks, history>>

ResendAlways ==
  IF isAnyUnsent
  THEN /\ cursor' = getNextUnsentId
       /\ IF getNextUnsentId = None \/ nvmMsg[getNextUnsentId] \notin Records
          THEN UNCHANGED task
          ELSE Goto("loop", [Idle EXCEPT !.pc = "republish", !.nvm = getNextUnsentId,
                                         !.msg = nvmMsg[getNextUnsentId]])
  ELSE UNCHANGED <<cursor, task>>

(* dxClientProcess() with the client connected: the error latch is cleared
   and, when a second has passed and the box is empty, the next stored
   record is read. *)
ResendNext ==
  IF isAnyUnsent /\ ~isEnqueueBoxFull /\ isEnqueueBoxEmpty
  THEN /\ cursor' = getNextUnsentId
       /\ IF getNextUnsentId = None \/ nvmMsg[getNextUnsentId] \notin Records
          THEN UNCHANGED task
          ELSE Goto("loop", [Idle EXCEPT !.pc = "republish", !.nvm = getNextUnsentId,
                                         !.msg = nvmMsg[getNextUnsentId]])
  ELSE UNCHANGED <<cursor, task>>

LoopConnected ==
  /\ At("loop", "idle") /\ MayRun("loop")
  /\ wifi /\ client = "ready"
  /\ latchError' = FALSE
  /\ ResendNext \/ UNCHANGED <<cursor, task>>
  /\ UNCHANGED <<box, count, lookup, nvmVars, latchStore, netVars, history>>

(* The rest of azure_iot_resend_telemetry(): the box is not looked at again. *)
Republish ==
  LET f == task["loop"] IN
  /\ At("loop", "republish")
  /\ \/ Return("loop") /\ UNCHANGED wire
     \/ \E id \in FreshIds :
          /\ wire' = wire \cup {[mqtt |-> id, msg |-> f.msg]}
          /\ Goto("loop", [f EXCEPT !.pc = "fill", !.mqtt = id])
  /\ UNCHANGED <<ramVars, nvmVars, latches, wifi, wifiSeen, client, hub, acks, history>>

(* dxClientProcess() without WiFi: once per latch the box is stored. *)
LoopOffline ==
  /\ At("loop", "idle") /\ ~wifi /\ ~latchStore
  /\ latchStore' = TRUE
  /\ Goto("loop", [Idle EXCEPT !.pc = "scan", !.ix = 0])
  /\ UNCHANGED <<ramVars, nvmVars, latchError, netVars, history>>

(* The client is stopped by azure_iot_stop() or to renew the SAS token.  The
   stop waits for a handler that runs; what the client held goes with it.
   LoopStart is the way to azure_iot_state_ready, see AzureIoT. *)
LoopStop ==
  /\ "stop" \in Failures
  /\ At("loop", "idle") /\ client # "none" /\ At("mqtt", "idle")
  /\ client' = "none" /\ wire' = {} /\ acks' = {}
  /\ UNCHANGED <<ramVars, nvmVars, task, latches, wifi, wifiSeen, hub, history>>

LoopStart ==
  /\ At("loop", "idle") /\ wifi /\ client = "none"
  /\ hub \/ wifiSeen           \* the first GOT_IP initialises the client
  /\ client' = "ready" /\ hub' = TRUE
  /\ UNCHANGED <<ramVars, nvmVars, task, latches, wifi, wifiSeen, wire, acks, history>>

(* mqttOnEventError(): once per latch the box is stored. *)
MqttError ==
  /\ "error" \in Failures
  /\ At("mqtt", "idle") /\ client # "none" /\ ~latchError
  /\ latchError' = TRUE
  /\ Goto("mqtt", [Idle EXCEPT !.pc = "scan", !.ix = 0])
  /\ UNCHANGED <<ramVars, nvmVars, latchStore, netVars, history>>

(* dxWifiOnEvent(). *)
WifiLost ==
  /\ At("wifi", "idle") /\ ~wifi /\ wifiSeen
  /\ Goto("wifi", [Idle EXCEPT !.pc = "scan", !.ix = 0])
  /\ UNCHANGED <<ramVars, nvmVars, latches, netVars, history>>

WifiGotIp ==
  /\ At("wifi", "idle") /\ wifi /\ ~wifiSeen
  /\ wifiSeen' = TRUE
  /\ UNCHANGED <<ramVars, nvmVars, task, latches, wifi, client, hub, wire, acks, history>>

-----------------------------------------------------------------------------
(* The network, the broker, the MQTT client of the platform and the power. *)

NetworkChanges ==
  /\ \/ wifi' = ~wifi /\ (wifi => "wifi" \in Failures) /\ UNCHANGED client
     \/ "broker" \in Failures /\ client = "ready" /\ client' = "lost" /\ UNCHANGED wifi
  /\ UNCHANGED <<ramVars, nvmVars, task, latches, wifiSeen, hub, wire, acks, history>>

(* The broker receives a publish; its PUBACK comes back or gets lost, and
   then the client sends again.  A client that lost its connection connects
   again on its own, without azure_iot_state_ready. *)
Delivery(w) ==
  /\ w \in wire /\ wifi
  /\ delivered' = delivered \cup {w.msg}
  /\ \/ wire' = wire \ {w} /\ acks' = acks \cup {w.mqtt}
     \/ UNCHANGED <<wire, acks>>
  /\ UNCHANGED <<ramVars, nvmVars, task, latches, wifi, wifiSeen, client, hub, taken>>

RestartForgets ==
  /\ "power" \in Failures
  /\ box' = [i \in Slots |-> EmptyEntry] /\ count' = 0
  /\ lookup' = {} /\ cursor' = None
  /\ task' = [t \in Tasks |-> Idle]
  /\ latchStore' = FALSE /\ latchError' = FALSE
  /\ wifi' = FALSE /\ wifiSeen' = FALSE /\ client' = "none" /\ hub' = FALSE
  /\ wire' = {} /\ acks' = {}
  /\ UNCHANGED <<nvmVars, taken, delivered>>

(* Power fails; setup() opens the outbox with the lookup in flash. *)
Restart ==
  /\ "power" \in Failures
  /\ box' = [i \in Slots |-> EmptyEntry] /\ count' = 0
  /\ lookup' = nvmLookup /\ cursor' = None
  /\ task' = [t \in Tasks |-> Idle]
  /\ latchStore' = FALSE /\ latchError' = FALSE
  /\ wifi' = FALSE /\ wifiSeen' = FALSE /\ client' = "none" /\ hub' = FALSE
  /\ wire' = {} /\ acks' = {}
  /\ UNCHANGED <<nvmVars, taken, delivered>>

OutboxStep(t) ==
  Fill(t) \/ Bump(t) \/ Put(t) \/ Mark(t) \/ Save(t) \/ Scan(t) \/ Reset(t)
  \/ Unmark(t) \/ Unsave(t) \/ Shift(t)

Next ==
  \/ \E t \in Tasks : OutboxStep(t)
  \/ \E m \in Records : Receive(m)
  \/ Publish \/ Republish
  \/ LoopConnected \/ LoopOffline \/ LoopStop \/ LoopStart
  \/ MqttError \/ WifiLost \/ WifiGotIp
  \/ \E id \in PacketIds : Published(id)
  \/ NetworkChanges
  \/ \E w \in wire : Delivery(w)
  \/ Restart

Spec == Init /\ [][Next]_vars

(* The loop takes a stored record to send it again. *)
Resends == At("loop", "idle") /\ task'["loop"].pc = "republish"

(* Two calls of the outbox overlap: a task goes on in one, takes up a PUBACK
   or reads a stored record while another is inside a call. *)
Overlap ==
  \E t \in Tasks :
    /\ ~Own(t)
    /\ \/ OutboxStep(t)
       \/ t = "mqtt" /\ \E id \in PacketIds : Published(id)
       \/ t = "loop" /\ Resends

(* The tasks run; a publish is accepted at some time, and at some time it
   arrives and is acknowledged. *)
Arrives  == \E w \in wire : Delivery(w) /\ wire' # wire
Accepted == Republish /\ wire' # wire

FairSpec ==
  /\ Spec
  /\ \A t \in Tasks : WF_vars(OutboxStep(t))
  /\ WF_vars(Publish) /\ WF_vars(Republish) /\ SF_vars(Accepted)
  /\ WF_vars(LoopConnected /\ ResendNext)
  /\ WF_vars(\E id \in PacketIds : Published(id))
  /\ WF_vars(Arrives)

-----------------------------------------------------------------------------
(* Where a record is.                                                      *)

InFlash(m) == \E k \in nvmLookup : nvmMsg[k] = m
Boxed(m)   == \E i \in InBox : box[i].msg = m
InHand(m)  == \E t \in Tasks : task[t].msg = m /\ ~At(t, "republish")

Status(m) ==
  IF m \notin taken       THEN "new"
  ELSE IF m \in delivered THEN "delivered"
  ELSE IF InFlash(m)      THEN "flash"
  ELSE IF Boxed(m)        THEN "box"
  ELSE IF InHand(m)       THEN "hand" ELSE "lost"

(* DeliveryContract over where the records are.                            *)
Contract == INSTANCE DeliveryContract
              WITH status    <- [m \in Records |-> Status(m)],
                   boxFull   <- count >= BoxSize,
                   flashFull <- lookup = NvmIds,
                   up        <- hub

(* Where the calls of the outbox exclude each other it keeps what            *)
(* DeliveryContract promises: a record received is kept until it is          *)
(* delivered, unless the device is not provisioned, box or flash are full,   *)
(* or the power fails before it is in flash (enqueueMsg, storeMsg,           *)
(* onPublished, enqueueBoxToStore and their callers together).               *)
KeepsRecords == Contract!DSpec

(* Whatever the tasks do at the same time, and wherever the power fails: an *)
(* id whose bit is set, in RAM or in flash, has its record in flash         *)
(* (storeMsg writes the string, the bit, the lookup, in this order).        *)
StoredIsReadable == \A k \in lookup \cup nvmLookup : nvmMsg[k] # Absent

(* What a task needs of its locals where it uses them: an index within the   *)
(* box, a message to send, ids whose record is in flash before the lookup    *)
(* gets them.  With the types and StoredIsReadable this is inductive.        *)
Readable == {k \in NvmIds : nvmMsg[k] # Absent}
Usable(f, R) ==
  /\ f.pc # "scan" => f.ix < BoxSize
  /\ f.pc \in {"publish", "republish"} => f.msg \in Records
  /\ f.pc = "mark" => f.nvm \in R
  /\ f.seen \subseteq R
LocalsUsable == \A t \in Tasks : Usable(task[t], Readable)

(* At most one record that came from the flash is in the box, so onPublished *)
(* clears the right bit (azure_iot_resend_telemetry resends only when the    *)
(* box is empty).                                                            *)
OneResend ==
  \A i, j \in InBox : box[i].nvm # None /\ box[j].nvm # None => i = j

(* An id is only given away when its record has arrived: until then its     *)
(* string is not overwritten and its bit in flash stays (getOpenId, clearId).*)
FlashIsKept ==
  [][\A k \in nvmLookup :
       nvmMsg[k] \in delivered \/ (k \in nvmLookup' /\ nvmMsg'[k] = nvmMsg[k])]_vars

(* If resending goes on for ever and the power does not fail for ever, every *)
(* stored record has its turn again and again, whatever happens to the       *)
(* others (getNextUnsentId goes on after the id it gave last).               *)
RoundRobin ==
  <>[][~Restart]_vars /\ []<><<Resends>>_vars
    => \A k \in NvmIds : []<>(k \notin lookup \/ cursor = k)

(* "if WiFi is conencted and MQTT connected, try to resend any in NVM"      *)
(* (dxclient.cpp:142): on a connection that lasts, every record stored is   *)
(* sent in the end.                                                         *)
ResendDrains ==
  (<>[](wifi /\ client = "ready" /\ ~latchError)) => []<>(lookup = {})

(* "on wifi disconnected event, store any records to NVM" (dxclient.cpp:105): *)
(* storing the box loses none while there is room in flash.                  *)
StoringLosesNone ==
  [][\A t \in Tasks : Reset(t) /\ lookup # NvmIds
       => \A m \in Records : Status(m) \in {"hand", "box"} => Status(m)' # "lost"]_vars
=============================================================================
