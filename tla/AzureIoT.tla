------------------------------- MODULE AzureIoT -------------------------------
(***************************************************************************)
(* The connection of the comms ESP to the cloud: azure_iot_* of            *)
(* commesp/src/AzureIoT.cpp with dxClientProcess(), the MQTT and the WiFi  *)
(* events of dxclient.cpp.  Two tasks write azure_iot->state without a     *)
(* lock: the loop (dxClientProcess, do_work) and the MQTT task (the event  *)
(* handlers).  do_work reads the state, assigns it, and then calls the     *)
(* MQTT library: three steps, between which events arrive and every task   *)
(* that sends may write its topic over what do_work has prepared.          *)
(***************************************************************************)
EXTENDS Naturals

VARIABLES
  state,   \* azure_iot->state
  handle,  \* azure_iot->mqtt_client_handle is not NULL
  fqdn,    \* the device is provisioned: hub address and device id are set
  opid,    \* dps_operation_id: "none", "kept" in reserved memory, or "stray"
  first,   \* DX_WIFI_FIRST_CONNECT: dxWifiOnFirstConnect() has run
  wifi,    \* WiFi.isConnected()
  loop,    \* where the loop is, with what it has read
  net,     \* the network, the memory and the services do what is asked
  link,    \* the library's client: "none", "down" or "up"
  pend,    \* answers still to come on this connection
  subs,    \* history: subscriptions acknowledged on this connection
  intact,  \* azure_iot->data_buffer still begins with what do_work put there
  login,   \* the client was given the credentials that do_work wrote
  leaked   \* a client of the library that did not start is left without a handle

vars == <<state, handle, fqdn, opid, first, wifi, loop, net, link, pend, subs, intact, login,
          leaked>>
bufVars == <<intact, login, leaked>>
libVars == <<link, pend, subs>>
envVars == <<first, wifi, net>>

Connecting == {"started", "connecting_to_dps", "connected_to_dps", "subscribing_to_dps",
               "subscribed_to_dps", "provisioning_querying", "provisioning_waiting",
               "provisioned", "connecting_to_hub", "connected_to_hub",
               "subscribing_to_pnp_cmds", "subscribed_to_pnp_cmds",
               "subscribing_to_pnp_props", "subscribed_to_pnp_props",
               "subscribing_to_pnp_writable_props", "refreshing_sas"}
States == Connecting \cup {"not_initialized", "initialized", "ready", "error"}

azure_iot_get_status ==
  CASE state \in {"not_initialized", "initialized"} -> "disconnected"
    [] state \in Connecting                         -> "connecting"
    [] state = "ready"                              -> "connected"
    [] state = "error"                              -> "error"

Answers == {"suback", "reply"}

(* pc: what the loop does next.  status and was are what it read at the
   start of dxClientProcess(), was also what do_work switches on. *)
LoopType == [pc : {"read", "look", "act", "work", "do", "init", "subscribe", "publish", "deinit"},
             status : {"disconnected", "connecting", "connected", "error"},
             was : States]

TypeOK ==
  /\ state \in States
  /\ handle \in BOOLEAN /\ fqdn \in BOOLEAN
  /\ opid \in {"none", "kept", "stray"}
  /\ first \in BOOLEAN
  /\ wifi \in BOOLEAN /\ net \in BOOLEAN
  /\ loop \in LoopType
  /\ link \in {"none", "down", "up"}
  /\ pend \in SUBSET Answers
  /\ subs \in 0 .. 3
  /\ intact \in BOOLEAN /\ login \in BOOLEAN /\ leaked \in BOOLEAN

Rest == [pc |-> "read", status |-> "disconnected", was |-> "not_initialized"]

Init ==
  /\ state = "not_initialized" /\ handle = FALSE /\ fqdn = FALSE /\ opid = "none"
  /\ first = FALSE /\ wifi = FALSE /\ loop = Rest
  /\ net \in BOOLEAN
  /\ link = "none" /\ pend = {} /\ subs = 0
  /\ intact = FALSE /\ login = FALSE /\ leaked = FALSE

At(pc) == loop.pc = pc
Goto(pc) == loop' = [loop EXCEPT !.pc = pc]
Done == loop' = Rest

-----------------------------------------------------------------------------
(* The loop.                                                               *)

(* dxClientProcess() reads the status, then the state.  Without WiFi only a
   connected client is worked on. *)
Read ==
  /\ At("read")
  /\ loop' = [loop EXCEPT !.pc = "look", !.status = azure_iot_get_status]
  /\ UNCHANGED <<state, handle, fqdn, opid, envVars, libVars, bufVars>>

Look ==
  /\ At("look")
  /\ \/ wifi /\ loop' = [loop EXCEPT !.pc = "act", !.was = state]
     \/ ~wifi /\ loop.status = "connected" /\ Goto("work")
     \/ ~wifi /\ loop.status # "connected" /\ Done
  /\ UNCHANGED <<state, handle, fqdn, opid, envVars, libVars, bufVars>>

DisconnectIgnored(s) == IF s = "refreshing_sas" THEN "provisioned" ELSE s   \* a faulty variant

(* azure_iot_mqtt_client_disconnected(). *)
AfterDisconnect(s) == IF s = "refreshing_sas" THEN "provisioned" ELSE "initialized"

(* The client is stopped and destroyed; no event follows. *)
Destroy == link' = "none" /\ pend' = {} /\ subs' = 0

(* azure_iot_stop(), and azure_iot_start() if the client was initialized when
   the loop read its state; it may have become so, or have left it, since.
   Both in the loop task: the handle is NULL between them and the library is
   silent. *)
StopOnly(restart) == "initialized"                            \* a faulty variant
StopState(restart) == IF restart THEN "started" ELSE "initialized"

RestartOnly ==                                                \* a faulty variant
  /\ At("act") /\ loop.status = "disconnected" /\ loop.was = "initialized"
  /\ state' = "started"
  /\ Goto("work")
  /\ UNCHANGED <<handle, fqdn, opid, envVars, libVars, bufVars>>

Reconnect ==
  /\ At("act") /\ loop.status = "disconnected" /\ loop.was # "not_initialized"
  /\ state' = StopState(loop.was = "initialized")
  /\ handle' = FALSE /\ Destroy
  /\ Goto("work")
  /\ UNCHANGED <<fqdn, opid, envVars, bufVars>>

StopAfterError ==
  /\ At("act") /\ loop.status = "error"
  /\ state' = StopState(FALSE)
  /\ handle' = FALSE /\ Destroy
  /\ Goto("work")
  /\ UNCHANGED <<fqdn, opid, envVars, bufVars>>

(* Nothing to do, or less than 5 s since the last try to reconnect. *)
NothingToDo ==
  /\ At("act") /\ loop.status # "error"
  /\ Goto("work")
  /\ UNCHANGED <<state, handle, fqdn, opid, envVars, libVars, bufVars>>

(* azure_iot_do_work() reads the state ... *)
Work ==
  /\ At("work")
  /\ loop' = [loop EXCEPT !.pc = "do", !.was = state]
  /\ UNCHANGED <<state, handle, fqdn, opid, envVars, libVars, bufVars>>

(* get_mqtt_client_config_for_...(), the register and the query request write
   into the data buffer what the call after them needs. *)
Prepare(call) ==
  /\ Goto(call)
  /\ intact' = (call \in {"init", "publish"})

(* ... assigns the next one, whatever it has become meanwhile ... *)
Assign(from, to, call) ==
  /\ loop.was \in from
  /\ state' = to
  /\ Prepare(call)
  /\ UNCHANGED <<handle, opid, libVars>>

StartAgain ==                                                 \* a faulty variant
  /\ loop.was = "started"
  /\ state' = "connecting_to_dps"
  /\ opid' = IF opid = "none" THEN "none" ELSE "stray"
  /\ Prepare("init")
  /\ UNCHANGED <<handle, libVars>>

(* A start without a hub address provisions: the whole buffer is free again,
   also the part dps_operation_id points to. *)
StartDps ==
  /\ loop.was = "started" /\ ~fqdn
  /\ state' = "connecting_to_dps"
  /\ opid' = IF opid = "none" THEN "none" ELSE "stray"
  /\ Prepare("init")
  /\ UNCHANGED <<handle, libVars>>

StartHub == fqdn /\ Assign({"started"}, "connecting_to_hub", "init")

(* The status query waits for dps_retry_after_seconds. *)
Query == Assign({"provisioning_querying"}, "provisioning_waiting", "publish")

(* From "provisioned" the connection to the provisioning service is closed. *)
ToHubFresh ==
  /\ loop.was = "provisioned"
  /\ state' = "connecting_to_hub"
  /\ handle' = FALSE
  /\ IF handle THEN Destroy ELSE UNCHANGED libVars
  /\ Prepare("init")
  /\ UNCHANGED opid

NoWork ==
  /\ loop.was \notin {"started", "connected_to_dps", "subscribed_to_dps", "provisioned",
                     "connected_to_hub", "subscribed_to_pnp_cmds", "subscribed_to_pnp_props"}
  /\ Done
  /\ UNCHANGED <<state, handle, opid, libVars, intact>>

Fails == state' = "error" /\ UNCHANGED <<handle, libVars>>

(* The clock cannot be read. *)
NoClock ==
  /\ loop.was \in {"ready", "provisioning_querying"} /\ ~net
  /\ Fails /\ Done /\ UNCHANGED <<opid, intact>>

Do ==
  /\ At("do")
  /\ \/ StartDps \/ StartHub \/ Query \/ ToHubFresh \/ NoWork \/ NoClock
     \/ Assign({"connected_to_dps"}, "subscribing_to_dps", "subscribe")
     \/ Assign({"subscribed_to_dps"}, "provisioning_waiting", "publish")
     \/ Assign({"connected_to_hub"}, "subscribing_to_pnp_cmds", "subscribe")
     \/ Assign({"subscribed_to_pnp_cmds"}, "subscribing_to_pnp_props", "subscribe")
     \/ Assign({"subscribed_to_pnp_props"}, "subscribing_to_pnp_writable_props", "subscribe")
     \/ Assign({"ready"}, "refreshing_sas", "deinit")         \* the SAS token expires
  /\ UNCHANGED <<fqdn, envVars, login, leaked>>

(* ... and calls the library; a call that fails ends in the error state.
   mqtt_client_init_function() copies what the buffer holds by now.  When it
   cannot start the client it has made, nobody has its handle. *)
CallInit ==
  /\ At("init")
  /\ \/ /\ handle' = TRUE /\ link' = "down" /\ pend' = {} /\ subs' = 0
        /\ login' = intact /\ UNCHANGED <<state, leaked>>
     \/ ~net /\ Fails /\ leaked' \in {leaked, TRUE} /\ UNCHANGED login
  /\ Done
  /\ UNCHANGED <<fqdn, opid, envVars, intact>>

Request(pc, answers) ==
  /\ At(pc)
  /\ \/ link = "up" /\ pend' = pend \cup answers /\ UNCHANGED <<state, handle, link, subs>>
     \/ (link # "up" \/ ~net) /\ Fails
  /\ Done
  /\ UNCHANGED <<fqdn, opid, envVars, bufVars>>

(* The topics to subscribe to are constants.  A request that goes out on the
   topic of something else is not answered. *)
CallSubscribe == Request("subscribe", {"suback"})
CallPublish   == Request("publish", IF intact THEN {"reply"} ELSE {})

CallDeinit ==
  /\ At("deinit")
  /\ state' = AfterDisconnect(state)
  /\ handle' = FALSE /\ Destroy
  /\ Done
  /\ UNCHANGED <<fqdn, opid, envVars, bufVars>>

LoopStep ==
  \/ Read \/ Look \/ Reconnect \/ StopAfterError \/ NothingToDo
  \/ Work \/ Do \/ CallInit \/ CallSubscribe \/ CallPublish \/ CallDeinit

-----------------------------------------------------------------------------
(* The MQTT task.                                                          *)

(* azure_iot_mqtt_client_connected(). *)
AfterConnect(s) ==
  CASE s = "connecting_to_dps" -> "connected_to_dps"
    [] s \in {"connecting_to_hub", "connected_to_hub"} -> "connected_to_hub"
    [] OTHER -> "error"

(* The library connects again by itself, 10 s after it lost the connection:
   later than the call of do_work that was running then. *)
OnConnected ==
  /\ link = "down" /\ net /\ login /\ At("read")
  /\ link' = "up" /\ pend' = {} /\ subs' = 0
  /\ state' = AfterConnect(state)
  /\ UNCHANGED <<handle, fqdn, opid, envVars, loop, bufVars>>

(* The broker refuses credentials that were overwritten. *)
OnRefused ==
  /\ link = "down" /\ net /\ ~login /\ At("read")
  /\ state' = AfterDisconnect(state)
  /\ UNCHANGED <<handle, fqdn, opid, envVars, loop, libVars, bufVars>>

(* The connection breaks, or could not be made. *)
OnDisconnected ==
  /\ link # "none" /\ ~net
  /\ link' = "down" /\ pend' = {} /\ subs' = 0
  /\ state' = AfterDisconnect(state)
  /\ UNCHANGED <<handle, fqdn, opid, envVars, loop, bufVars>>

SubackRepeats(s) ==                                           \* a faulty variant
  CASE s = "subscribing_to_dps" -> "subscribed_to_dps"
    [] s = "subscribing_to_pnp_cmds" -> "subscribed_to_pnp_cmds"
    [] s \in {"subscribing_to_pnp_props", "subscribing_to_pnp_writable_props"} ->
         "subscribed_to_pnp_props"
    [] OTHER -> s

(* azure_iot_mqtt_client_subscribe_completed(). *)
AfterSuback(s) ==
  CASE s = "subscribing_to_dps" -> "subscribed_to_dps"
    [] s = "subscribing_to_pnp_cmds" -> "subscribed_to_pnp_cmds"
    [] s = "subscribing_to_pnp_props" -> "subscribed_to_pnp_props"
    [] s = "subscribing_to_pnp_writable_props" -> "ready"
    [] OTHER -> s

OnSubscribed ==
  /\ "suback" \in pend /\ net
  /\ pend' = pend \ {"suback"} /\ subs' = subs + 1
  /\ state' = AfterSuback(state)
  /\ UNCHANGED <<handle, fqdn, opid, envVars, loop, link, bufVars>>

(* azure_iot_mqtt_client_message_received(): the answer of the provisioning
   service.  Only the first operation id is stored.  A refusal is an error; an
   answer that cannot be parsed changes nothing. *)
Assigning ==
  /\ state' = "provisioning_querying"
  /\ opid' = IF opid = "none" THEN "kept" ELSE opid
  /\ UNCHANGED fqdn

Assigned == state' = "provisioned" /\ fqdn' = TRUE /\ UNCHANGED opid

OnReply ==
  /\ "reply" \in pend /\ net
  /\ pend' = pend \ {"reply"}
  /\ \/ state = "provisioning_waiting" /\ (Assigning \/ Assigned)
     \/ /\ state = "provisioning_waiting"
        /\ state' \in {state, "error"} /\ UNCHANGED <<fqdn, opid>>
     \/ state # "provisioning_waiting" /\ UNCHANGED <<state, fqdn, opid>>
  /\ UNCHANGED <<handle, envVars, loop, link, subs, bufVars>>

(* A command of the cloud whose response cannot be published. *)
OnCommand ==
  /\ link = "up" /\ state = "ready" /\ ~net
  /\ state' = "error"
  /\ UNCHANGED <<handle, fqdn, opid, envVars, loop, libVars, bufVars>>

(* A task builds the topic of its message: DxClientTelemetry says when. *)
Overwrite ==
  /\ state # "not_initialized"
  /\ intact' = FALSE
  /\ UNCHANGED <<state, handle, fqdn, opid, envVars, loop, libVars, login, leaked>>

(* The WiFi task: dxAzureInit() on the first address.  azure_iot_init() and
   azure_iot_start() follow each other at once. *)
OnFirstConnect ==
  /\ wifi /\ ~first
  /\ first' = TRUE /\ state' = "started" /\ opid' = "none"
  /\ UNCHANGED <<handle, fqdn, wifi, net, loop, libVars, bufVars>>

NetworkChanges ==
  /\ \/ net' = ~net /\ UNCHANGED wifi
     \/ wifi' = ~wifi /\ (wifi => ~net) /\ UNCHANGED net
  /\ UNCHANGED <<state, handle, fqdn, opid, first, loop, libVars, bufVars>>

Next == LoopStep \/ OnConnected \/ OnRefused \/ OnDisconnected \/ OnSubscribed \/ OnReply
        \/ OnCommand \/ OnFirstConnect \/ NetworkChanges \/ Overwrite

Spec == Init /\ [][Next]_vars

(* loop() is called for ever and the 5 s between two tries pass; the library
   connects and the services answer while the network is good, a query is not
   throttled for ever and a registration is not refused, or "assigning", for
   ever. *)
FairSpec ==
  /\ Spec
  /\ WF_vars(LoopStep) /\ SF_vars(Reconnect)
  /\ SF_vars(At("do") /\ Query /\ UNCHANGED <<fqdn, envVars, login, leaked>>)
  /\ WF_vars(OnFirstConnect)
  /\ SF_vars(OnConnected) /\ SF_vars(OnRefused) /\ WF_vars(OnSubscribed)
  /\ WF_vars(OnReply) /\ SF_vars(OnReply /\ Assigned)

-----------------------------------------------------------------------------
(* The client is ready only when all three topics are subscribed on the      *)
(* connection it has: an event that do_work overwrites does not make it      *)
(* ready on a connection that lacks some (do_work, subscribe_completed).     *)
ReadyIsSubscribed == state = "ready" => subs = 3 /\ fqdn /\ handle

(* A client of the library that has started is never lost and never shares   *)
(* the device id with another: it has its handle until it is destroyed, and  *)
(* when do_work creates one there is none (azure_iot_stop, do_work).  It is  *)
(* only a client that could not be started that is left behind               *)
(* (mqtt_client_init_function), without a handle and for good: leaked.       *)
OneClient ==
  /\ link # "none" <=> handle
  /\ At("init") => ~handle

(* "the device is provisioned only the first time a given azure_iot_t        *)
(* instance is started" (AzureIoT.h:638): not again after any disconnection. *)
ProvisionedOnce == [][fqdn => fqdn' /\ state' # "connecting_to_dps"]_vars

(* provisioning_waiting has no time-out: without an answer it can use the    *)
(* client waits as long as the connection lasts.                             *)
WaitsInVain == state = "provisioning_waiting" /\ link = "up" /\ pend = {} /\ At("read")

(* Once the network stays good and no message is written over what do_work   *)
(* prepares, the client becomes ready, again and again, from whatever state  *)
(* the events and credentials that were overwritten left behind              *)
(* (dxClientProcess), unless the provisioning service leaves it without a    *)
(* usable answer.                                                            *)
Reconnects ==
  <>[](net /\ wifi) /\ <>[][~Overwrite]_vars
    => []<>(state = "ready" \/ WaitsInVain)

(* Memory "is taken/reserved for the `Operation ID` while provisioning is in *)
(* progress" (AzureIoT.cpp:281): a status query never carries an operation   *)
(* id whose memory has been given to something else.                         *)
OperationIdReserved == At("do") /\ loop.was = "provisioning_querying" => opid = "kept"
=============================================================================
