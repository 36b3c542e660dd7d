---------------------------- MODULE AzureIoT_proofs ----------------------------
(***************************************************************************)
(* Safety of the connection to the cloud: whatever the loop and the MQTT   *)
(* task overwrite of each other's state, the client is ready only when it  *)
(* is subscribed, none that was started is lost, and it is provisioned once. *)
(***************************************************************************)
EXTENDS AzureIoT, TLAPS

(* The states from which do_work subscribes, and those it goes to.         *)
Settled == {"connected_to_dps", "connected_to_hub", "subscribed_to_pnp_cmds",
            "subscribed_to_pnp_props"}
Subscribing == {"subscribing_to_dps", "subscribing_to_pnp_cmds", "subscribing_to_pnp_props",
                "subscribing_to_pnp_writable_props"}

(* What the two tasks make of the state stays a state.                     *)
LEMMA StatesClosed ==
  ASSUME NEW s \in States
  PROVE  /\ AfterDisconnect(s) \in States /\ AfterConnect(s) \in States
         /\ AfterSuback(s) \in States
         /\ \A restart \in BOOLEAN : StopState(restart) \in States
<1>1. AfterDisconnect(s) \in States
  BY DEF AfterDisconnect, States, Connecting
<1>2. AfterConnect(s) \in States
  BY DEF AfterConnect, States, Connecting
<1>3. AfterSuback(s) \in States
  BY DEF AfterSuback, States, Connecting
<1>4. \A restart \in BOOLEAN : StopState(restart) \in States
  BY DEF StopState, States, Connecting
<1> QED
  BY <1>1, <1>2, <1>3, <1>4

(* The same, case by case.                                                 *)
LEMMA AfterCases ==
  ASSUME NEW s
  PROVE  /\ \/ s = "refreshing_sas" /\ AfterDisconnect(s) = "provisioned"
            \/ s # "refreshing_sas" /\ AfterDisconnect(s) = "initialized"
         /\ \/ s = "connecting_to_dps" /\ AfterConnect(s) = "connected_to_dps"
            \/ s \in {"connecting_to_hub", "connected_to_hub"} /\ AfterConnect(s) = "connected_to_hub"
            \/ AfterConnect(s) = "error"
         /\ \/ s = "subscribing_to_dps" /\ AfterSuback(s) = "subscribed_to_dps"
            \/ s = "subscribing_to_pnp_cmds" /\ AfterSuback(s) = "subscribed_to_pnp_cmds"
            \/ s = "subscribing_to_pnp_props" /\ AfterSuback(s) = "subscribed_to_pnp_props"
            \/ s = "subscribing_to_pnp_writable_props" /\ AfterSuback(s) = "ready"
            \/ s \notin Subscribing /\ AfterSuback(s) = s
<1>1. \/ s = "refreshing_sas" /\ AfterDisconnect(s) = "provisioned"
      \/ s # "refreshing_sas" /\ AfterDisconnect(s) = "initialized"
  BY DEF AfterDisconnect
<1>2. \/ s = "connecting_to_dps" /\ AfterConnect(s) = "connected_to_dps"
      \/ s \in {"connecting_to_hub", "connected_to_hub"} /\ AfterConnect(s) = "connected_to_hub"
      \/ AfterConnect(s) = "error"
  BY Zenon DEF AfterConnect
<1>3. \/ s = "subscribing_to_dps" /\ AfterSuback(s) = "subscribed_to_dps"
      \/ s = "subscribing_to_pnp_cmds" /\ AfterSuback(s) = "subscribed_to_pnp_cmds"
      \/ s = "subscribing_to_pnp_props" /\ AfterSuback(s) = "subscribed_to_pnp_props"
      \/ s = "subscribing_to_pnp_writable_props" /\ AfterSuback(s) = "ready"
      \/ s \notin Subscribing /\ AfterSuback(s) = s
  BY Zenon DEF AfterSuback, Subscribing
<1> QED
  BY <1>1, <1>2, <1>3

(* The frame of the loop keeps its type.                                   *)
LEMMA LoopTypes ==
  ASSUME TypeOK
  PROVE  /\ Rest \in LoopType
         /\ \A pc \in {"read", "look", "act", "work", "do", "init", "subscribe", "publish", "deinit"} :
              [loop EXCEPT !.pc = pc] \in LoopType
         /\ [loop EXCEPT !.pc = "look", !.status = azure_iot_get_status] \in LoopType
         /\ [loop EXCEPT !.pc = "act", !.was = state] \in LoopType
         /\ [loop EXCEPT !.pc = "do", !.was = state] \in LoopType
<1>1. azure_iot_get_status \in {"disconnected", "connecting", "connected", "error"}
  BY DEF azure_iot_get_status, TypeOK, States
<1>2. Rest \in LoopType
  BY DEF Rest, LoopType, States
<1> QED
  BY <1>1, <1>2 DEF TypeOK, LoopType

LEMMA TypeInit == Init => TypeOK
<1> SUFFICES ASSUME Init PROVE TypeOK
  OBVIOUS
<1>1. Rest \in LoopType /\ state \in States
  BY DEF Rest, LoopType, States, Init
<1>2. pend \in SUBSET Answers /\ subs \in 0 .. 3
  BY DEF Init, Answers
<1> QED
  BY <1>1, <1>2 DEF Init, TypeOK

-----------------------------------------------------------------------------
(* Every step keeps the types: first the Booleans, then the rest.          *)
Flags == /\ handle \in BOOLEAN /\ fqdn \in BOOLEAN /\ first \in BOOLEAN /\ wifi \in BOOLEAN
         /\ net \in BOOLEAN /\ intact \in BOOLEAN /\ login \in BOOLEAN /\ leaked \in BOOLEAN

Data == /\ state \in States /\ opid \in {"none", "kept", "stray"} /\ loop \in LoopType
        /\ link \in {"none", "down", "up"} /\ pend \in SUBSET Answers /\ subs \in 0 .. 3

LEMMA FlagsNext ==
  ASSUME Flags, [Next]_vars
  PROVE  Flags'
<1>1. ASSUME NEW call, Prepare(call) PROVE intact' \in BOOLEAN
  <2> DEFINE given == call \in {"init", "publish"}
  <2>1. given \in BOOLEAN
    OBVIOUS
  <2>2. intact' = given
    BY <1>1, Zenon DEF Prepare
  <2> QED
    BY <2>1, <2>2, Zenon
<1>2. CASE Do
  <2>1. intact' \in BOOLEAN
    BY <1>1, <1>2, Zenon DEF Do, StartDps, StartHub, Query, ToHubFresh, NoWork, NoClock, Assign, Flags
  <2>2. handle' \in BOOLEAN
    BY <1>2, Zenon DEF Do, StartDps, StartHub, Query, ToHubFresh, NoWork, NoClock, Assign, Fails, Flags
  <2> QED
    BY <1>2, <2>1, <2>2, Zenon DEF Do, Flags, envVars
<1>3. CASE Read \/ Look \/ Reconnect \/ StopAfterError \/ NothingToDo \/ Work
  BY <1>3, Zenon DEF Read, Look, Reconnect, StopAfterError, NothingToDo, Work, Flags, envVars, bufVars
<1>4. CASE CallInit
  <2>1. leaked' \in BOOLEAN
    BY <1>4, Zenon DEF CallInit, Flags
  <2> QED
    BY <1>4, <2>1, Zenon DEF CallInit, Fails, Flags, envVars
<1>5. CASE CallSubscribe \/ CallPublish \/ CallDeinit
  BY <1>5, Zenon DEF CallSubscribe, CallPublish, CallDeinit, Request, Fails, Flags, envVars, bufVars
<1>6. CASE OnConnected \/ OnRefused \/ OnDisconnected \/ OnSubscribed \/ OnCommand
  BY <1>6, Zenon DEF OnConnected, OnRefused, OnDisconnected, OnSubscribed, OnCommand, Flags, envVars, bufVars
<1>7. CASE OnReply
  BY <1>7, Zenon DEF OnReply, Assigning, Assigned, Flags, envVars, bufVars
<1>8. CASE OnFirstConnect \/ NetworkChanges \/ Overwrite
  BY <1>8, Zenon DEF OnFirstConnect, NetworkChanges, Overwrite, Flags, envVars, bufVars
<1>9. CASE UNCHANGED vars
  BY <1>9, Zenon DEF vars, Flags, envVars, bufVars
<1> QED
  BY <1>2, <1>3, <1>4, <1>5, <1>6, <1>7, <1>8, <1>9, Zenon DEF Next, LoopStep

(* The client of the library after a step of the loop, and what it counts. *)
LibType == link \in {"none", "down", "up"} /\ pend \in SUBSET Answers /\ subs \in 0 .. 3

(* A call to create a client gives it back with its handle, or none.       *)
Creates == handle' = TRUE /\ link' = "down" /\ pend' = {} /\ subs' = 0 /\ UNCHANGED <<state, leaked>>

LEMMA InitCases ==
  ASSUME CallInit
  PROVE  Creates \/ Fails
BY Zenon DEF CallInit, Creates

LEMMA DoTypes ==
  ASSUME TypeOK, Do
  PROVE  Data'
<1> DEFINE Calls == {"init", "subscribe", "publish", "deinit"}
<1>1. \A call \in Calls : Prepare(call) => loop' \in LoopType
  BY LoopTypes DEF Prepare, Goto
<1>2. Destroy \/ UNCHANGED libVars => LibType'
  BY DEF Destroy, libVars, TypeOK, LibType
<1>3. \A from : \A to \in States, call \in Calls : Assign(from, to, call) => Data'
  <2> SUFFICES ASSUME NEW from, NEW to \in States, NEW call \in Calls, Assign(from, to, call)
               PROVE  Data'
    OBVIOUS
  <2>1. state' = to /\ Prepare(call) /\ UNCHANGED opid /\ UNCHANGED libVars
    BY Zenon DEF Assign
  <2> QED
    BY <1>1, <1>2, <2>1 DEF TypeOK, Data, LibType
<1>4. CASE StartDps
  <2>1. state' \in States
    BY <1>4 DEF StartDps, States, Connecting
  <2>2. opid' \in {"none", "kept", "stray"}
    BY <1>4 DEF StartDps
  <2>3. Prepare("init") /\ UNCHANGED libVars
    BY <1>4, Zenon DEF StartDps
  <2> QED
    BY <1>1, <1>2, <2>1, <2>2, <2>3 DEF Data, LibType
<1>5. CASE ToHubFresh
  <2>1. state' \in States
    BY <1>5 DEF ToHubFresh, States, Connecting
  <2>2. Prepare("init") /\ UNCHANGED opid /\ (Destroy \/ UNCHANGED libVars)
    BY <1>5, Zenon DEF ToHubFresh
  <2> QED
    BY <1>1, <1>2, <2>1, <2>2 DEF Data, LibType, TypeOK
<1>6. CASE NoWork \/ NoClock
  <2>1. state' \in States /\ loop' = Rest
    BY <1>6 DEF NoWork, NoClock, Fails, Done, TypeOK, States
  <2>2. UNCHANGED opid /\ UNCHANGED libVars
    BY <1>6, Zenon DEF NoWork, NoClock, Fails
  <2> QED
    BY <1>2, <2>1, <2>2, LoopTypes DEF Data, LibType, TypeOK
<1>7. CASE \/ Query \/ StartHub
            \/ Assign({"connected_to_dps"}, "subscribing_to_dps", "subscribe")
            \/ Assign({"subscribed_to_dps"}, "provisioning_waiting", "publish")
  <2>1. /\ "connecting_to_hub" \in States /\ "provisioning_waiting" \in States
        /\ "subscribing_to_dps" \in States
    BY DEF States, Connecting
  <2>2. "init" \in Calls /\ "subscribe" \in Calls /\ "publish" \in Calls
    OBVIOUS
  <2> HIDE DEF Calls
  <2> QED
    BY <1>3, <1>7, <2>1, <2>2, Zenon DEF Query, StartHub
<1>8. CASE \/ Assign({"connected_to_hub"}, "subscribing_to_pnp_cmds", "subscribe")
            \/ Assign({"subscribed_to_pnp_cmds"}, "subscribing_to_pnp_props", "subscribe")
            \/ Assign({"subscribed_to_pnp_props"}, "subscribing_to_pnp_writable_props", "subscribe")
            \/ Assign({"ready"}, "refreshing_sas", "deinit")
  <2>1. /\ "subscribing_to_pnp_cmds" \in States /\ "subscribing_to_pnp_props" \in States
        /\ "subscribing_to_pnp_writable_props" \in States /\ "refreshing_sas" \in States
    BY DEF States, Connecting
  <2>2. "subscribe" \in Calls /\ "deinit" \in Calls
    OBVIOUS
  <2> HIDE DEF Calls
  <2> QED
    BY <1>3, <1>8, <2>1, <2>2, Zenon
<1> QED
  BY <1>4, <1>5, <1>6, <1>7, <1>8, Zenon DEF Do

LEMMA DataNext ==
  ASSUME TypeOK, [Next]_vars, "suback" \in pend => subs < 3
  PROVE  Data'
<1>1. UNCHANGED <<state, opid, libVars>> /\ loop' \in LoopType => Data'
  BY DEF Data, TypeOK, libVars
<1>2. UNCHANGED <<opid, loop, libVars>> /\ state' \in States => Data'
  BY DEF Data, TypeOK, libVars
<1>3. CASE Read \/ Look \/ NothingToDo \/ Work
  <2>1. loop' \in LoopType
    BY <1>3, LoopTypes DEF Read, Look, NothingToDo, Work, Goto, Done
  <2> QED
    BY <1>1, <1>3, <2>1, Zenon DEF Read, Look, NothingToDo, Work
<1>4. CASE Reconnect \/ StopAfterError \/ CallDeinit
  <2>1. state' \in States
    BY <1>4, StatesClosed DEF Reconnect, StopAfterError, CallDeinit, TypeOK
  <2>2. loop' \in LoopType
    BY <1>4, LoopTypes DEF Reconnect, StopAfterError, CallDeinit, Goto, Done
  <2>3. Destroy /\ UNCHANGED opid
    BY <1>4, Zenon DEF Reconnect, StopAfterError, CallDeinit
  <2> QED
    BY <2>1, <2>2, <2>3 DEF Destroy, Data, TypeOK
<1>5. CASE Do
  BY <1>5, DoTypes
<1>6. CASE CallInit
  <2>1. state' \in States
    BY <1>6 DEF CallInit, Fails, TypeOK, States
  <2>2. loop' \in LoopType
    BY <1>6, LoopTypes DEF CallInit, Done
  <2>3. LibType'
    <3>1. CASE Creates
      BY <3>1 DEF Creates, LibType
    <3>2. CASE Fails
      BY <3>2 DEF Fails, LibType, TypeOK, libVars
    <3> QED
      BY <1>6, <3>1, <3>2, InitCases
  <2> QED
    BY <1>6, <2>1, <2>2, <2>3 DEF CallInit, Data, LibType, TypeOK
<1>7. ASSUME NEW pc, NEW answers \in SUBSET Answers, Request(pc, answers) PROVE Data'
  <2>1. state' \in States
    BY <1>7 DEF Request, Fails, TypeOK, States
  <2>2. loop' \in LoopType
    BY <1>7, LoopTypes DEF Request, Done
  <2>3. LibType'
    BY <1>7 DEF Request, Fails, LibType, TypeOK, libVars
  <2> QED
    BY <1>7, <2>1, <2>2, <2>3 DEF Request, Data, LibType, TypeOK
<1>8. CASE CallSubscribe
  BY <1>7, <1>8, {"suback"} \in SUBSET Answers DEF CallSubscribe, Answers
<1>9. CASE CallPublish
  <2> DEFINE answers == IF intact THEN {"reply"} ELSE {}
  <2>1. answers \in SUBSET Answers
    BY DEF Answers
  <2> QED
    BY <1>7, <1>9, <2>1 DEF CallPublish
<1>10. CASE OnConnected \/ OnDisconnected
  <2>1. state' \in States
    BY <1>10, StatesClosed DEF OnConnected, OnDisconnected, TypeOK
  <2> QED
    BY <1>10, <2>1 DEF OnConnected, OnDisconnected, Data, TypeOK
<1>11. CASE OnRefused \/ OnCommand
  BY <1>2, <1>11, StatesClosed DEF OnRefused, OnCommand, TypeOK, States
<1>12. CASE OnSubscribed
  <2>1. state' \in States
    BY <1>12, StatesClosed DEF OnSubscribed, TypeOK
  <2> QED
    BY <1>12, <2>1 DEF OnSubscribed, Data, TypeOK
<1>13. CASE OnReply
  <2>1. state' \in States /\ opid' \in {"none", "kept", "stray"}
    BY <1>13 DEF OnReply, Assigning, Assigned, TypeOK, States, Connecting
  <2> QED
    BY <1>13, <2>1 DEF OnReply, Data, TypeOK
<1>14. CASE OnFirstConnect
  BY <1>14 DEF OnFirstConnect, Data, TypeOK, States, Connecting, libVars
<1>15. CASE NetworkChanges \/ Overwrite \/ UNCHANGED vars
  BY <1>2, <1>15, Zenon DEF NetworkChanges, Overwrite, vars, TypeOK, libVars
<1> QED
  BY <1>3, <1>4, <1>5, <1>6, <1>8, <1>9, <1>10, <1>11, <1>12, <1>13, <1>14,
     <1>15, Zenon DEF Next, LoopStep

-----------------------------------------------------------------------------
(* The inductive invariant.  First, the library's client exists with its   *)
(* handle, and answers are due only on a connection.                       *)
ClientInv == (handle <=> link # "none") /\ (pend # {} => link = "up")

(* A start leaves no client, and do_work creates one only when there is    *)
(* none; before the first WiFi connection nothing has started.             *)
Untouched == /\ state = "not_initialized" /\ link = "none"
             /\ loop.was = "not_initialized" /\ loop.status = "disconnected"
             /\ loop.pc \in {"read", "look", "act", "work", "do"}

StartInv ==
  /\ ~first => Untouched
  /\ state = "started" => link = "none" /\ ~At("init")
  /\ At("do") /\ loop.was = "started" => link = "none"
  /\ At("init") => link = "none" /\ state \in {"connecting_to_dps", "connecting_to_hub"}

(* What belongs to the hub needs the provisioned address, whether it is    *)
(* the state or what do_work has read of it.                               *)
HubStates == {"provisioned", "connecting_to_hub", "connected_to_hub",
              "subscribing_to_pnp_cmds", "subscribed_to_pnp_cmds",
              "subscribing_to_pnp_props", "subscribed_to_pnp_props",
              "subscribing_to_pnp_writable_props", "ready", "refreshing_sas"}

HubInv == /\ state \in HubStates \/ loop.was \in HubStates => fqdn
          /\ fqdn => state # "connecting_to_dps"

(* How many subscriptions a state stands for.                              *)
CountIs(s, n) ==
  /\ s \in {"connected_to_dps", "subscribing_to_dps", "connected_to_hub",
            "subscribing_to_pnp_cmds"} => n = 0
  /\ s \in {"subscribed_to_pnp_cmds", "subscribing_to_pnp_props"} => n = 1
  /\ s \in {"subscribed_to_pnp_props", "subscribing_to_pnp_writable_props"} => n = 2
  /\ s = "ready" => n = 3

(* On a connection the state counts the acknowledged subscriptions; one is *)
(* asked for at a time; and what do_work has read is true of the           *)
(* connection, or the connection is gone until the loop comes round.       *)
SubsInv ==
  /\ link = "up" => CountIs(state, subs)
  /\ state = "ready" => link = "up"
  /\ state \in Settled => "suback" \notin pend
  /\ At("do") /\ loop.was \in Settled /\ link = "up" => CountIs(loop.was, subs) /\ "suback" \notin pend
  /\ At("subscribe") => /\ "suback" \notin pend
                        /\ state \in Subscribing \/ (state = "initialized" /\ link # "up")
  /\ "suback" \in pend => subs < 3

IInv == TypeOK /\ ClientInv /\ StartInv /\ HubInv /\ SubsInv

LEMMA ClientStep ==
  ASSUME TypeOK, ClientInv, StartInv, [Next]_vars
  PROVE  ClientInv'
<1> USE DEF ClientInv
<1>1. CASE Read \/ Look \/ NothingToDo \/ Work \/ UNCHANGED vars
  BY <1>1 DEF Read, Look, NothingToDo, Work, vars, libVars
<1>2. CASE Reconnect \/ StopAfterError \/ CallDeinit
  BY <1>2 DEF Reconnect, StopAfterError, CallDeinit, Destroy
<1>3. CASE Do
  <2>1. CASE ToHubFresh
    BY <2>1 DEF ToHubFresh, Destroy, libVars
  <2>2. CASE ~ToHubFresh
    <3>1. UNCHANGED <<handle, libVars>>
      BY <1>3, <2>2, Zenon DEF Do, StartDps, StartHub, Query, NoWork, NoClock, Fails, Assign
    <3> QED
      BY <3>1 DEF libVars
  <2> QED
    BY <2>1, <2>2
<1>4. CASE CallInit
  <2>1. CASE Creates
    BY <2>1 DEF Creates
  <2>2. CASE Fails
    BY <2>2 DEF Fails, libVars
  <2> QED
    BY <1>4, <2>1, <2>2, InitCases
<1>5. CASE CallSubscribe \/ CallPublish
  BY <1>5 DEF CallSubscribe, CallPublish, Request, Fails, libVars
<1>6. CASE OnConnected \/ OnDisconnected \/ OnSubscribed \/ OnReply
  BY <1>6 DEF OnConnected, OnDisconnected, OnSubscribed, OnReply
<1>7. CASE OnRefused \/ OnCommand \/ OnFirstConnect \/ NetworkChanges \/ Overwrite
  BY <1>7 DEF OnRefused, OnCommand, OnFirstConnect, NetworkChanges, Overwrite, libVars
<1> QED
  BY <1>1, <1>2, <1>3, <1>4, <1>5, <1>6, <1>7, Zenon DEF Next, LoopStep

(* The fields of the loop after a step.                                    *)
LEMMA LoopFields ==
  ASSUME TypeOK
  PROVE  /\ Rest.pc = "read" /\ Rest.status = "disconnected" /\ Rest.was = "not_initialized"
         /\ \A pc : Goto(pc) => loop'.pc = pc /\ loop'.status = loop.status /\ loop'.was = loop.was
<1>1. Rest.pc = "read" /\ Rest.status = "disconnected" /\ Rest.was = "not_initialized"
  BY DEF Rest
<1>2. ASSUME NEW pc, Goto(pc)
      PROVE  loop'.pc = pc /\ loop'.status = loop.status /\ loop'.was = loop.was
  BY <1>2 DEF Goto, TypeOK, LoopType
<1> QED
  BY <1>1, <1>2

(* The steps of the loop that only look.                                   *)
Looks == Read \/ Look \/ NothingToDo \/ Work

LEMMA LookCases ==
  ASSUME TypeOK, Looks
  PROVE  /\ UNCHANGED <<state, handle, fqdn, opid, first, wifi, net, libVars>>
         /\ loop'.pc \in {"read", "look", "act", "work", "do"}
         /\ loop'.was \in {state, loop.was, "not_initialized"}
         /\ loop'.pc = "do" => loop'.was = state
         /\ loop'.status \in {azure_iot_get_status, loop.status, "disconnected"}
<1> USE LoopFields
<1>1. UNCHANGED <<state, handle, fqdn, opid, first, wifi, net, libVars>>
  BY Zenon DEF Looks, Read, Look, NothingToDo, Work, envVars
<1>2. CASE Read
  BY <1>1, <1>2 DEF Read, TypeOK, LoopType
<1>3. CASE Look
  <2>1. CASE loop' = [loop EXCEPT !.pc = "act", !.was = state]
    BY <1>1, <2>1 DEF TypeOK, LoopType
  <2>2. CASE Goto("work") \/ Done
    BY <1>1, <2>2 DEF Done
  <2> QED
    BY <1>3, <2>1, <2>2 DEF Look
<1>4. CASE NothingToDo
  BY <1>1, <1>4 DEF NothingToDo
<1>5. CASE Work
  BY <1>1, <1>5 DEF Work, TypeOK, LoopType
<1> QED
  BY <1>2, <1>3, <1>4, <1>5 DEF Looks

(* The calls that destroy the client.                                      *)
LEMMA DestroyCases ==
  ASSUME TypeOK, Reconnect \/ StopAfterError \/ CallDeinit
  PROVE  /\ UNCHANGED <<fqdn, first>> /\ handle' = FALSE
         /\ link' = "none" /\ pend' = {} /\ subs' = 0
         /\ loop'.pc \in {"read", "work"} /\ loop'.was \in {loop.was, "not_initialized"}
         /\ state' \in {"started", "initialized", "provisioned"}
         /\ state' = "provisioned" => state = "refreshing_sas"
         /\ At("deinit") \/ (At("act") /\ (loop.status = "error" \/ loop.was # "not_initialized"))
<1> USE LoopFields
<1>1. UNCHANGED <<fqdn, first>> /\ handle' = FALSE /\ Destroy
  BY Zenon DEF Reconnect, StopAfterError, CallDeinit, envVars
<1>2. CASE Reconnect \/ StopAfterError
  BY <1>1, <1>2 DEF Reconnect, StopAfterError, Destroy, StopState
<1>3. CASE CallDeinit
  <2>1. loop' = Rest /\ state' = AfterDisconnect(state) /\ At("deinit")
    BY <1>3 DEF CallDeinit, Done
  <2> QED
    BY <1>1, <2>1, AfterCases DEF Destroy
<1> QED
  BY <1>2, <1>3

(* What do_work may do next, with what it has read.                        *)
Starts ==
  /\ loop.was = "started" /\ UNCHANGED <<handle, libVars>> /\ loop'.pc = "init"
  /\ \/ state' = "connecting_to_dps" /\ ~fqdn
     \/ state' = "connecting_to_hub" /\ fqdn

Moves ==
  /\ loop.was = "provisioned" /\ state' = "connecting_to_hub" /\ loop'.pc = "init"
  /\ handle' = FALSE
  /\ \/ link' = "none" /\ pend' = {} /\ subs' = 0
     \/ ~handle /\ UNCHANGED libVars

Rests ==
  /\ loop'.pc = "read" /\ UNCHANGED <<handle, libVars>>
  /\ state' = state \/ (state' = "error" /\ loop.was \in {"ready", "provisioning_querying"})

Subscribes ==
  /\ loop.was \in Settled /\ UNCHANGED <<handle, libVars>> /\ loop'.pc = "subscribe"
  /\ state' \in Subscribing
  /\ \A n \in 0 .. 3 : CountIs(loop.was, n) => CountIs(state', n)
  /\ state' # "subscribing_to_dps" => loop.was \in HubStates

Asks ==
  /\ UNCHANGED <<handle, libVars>>
  /\ \/ /\ loop.was \in {"provisioning_querying", "subscribed_to_dps"}
        /\ state' = "provisioning_waiting" /\ loop'.pc = "publish"
     \/ loop.was = "ready" /\ state' = "refreshing_sas" /\ loop'.pc = "deinit"

LEMMA DoCases ==
  ASSUME TypeOK, Do
  PROVE  /\ At("do") /\ UNCHANGED <<fqdn, first>>
         /\ loop'.was \in {loop.was, "not_initialized"}
         /\ loop'.status \in {loop.status, "disconnected"}
         /\ Starts \/ Moves \/ Rests \/ Subscribes \/ Asks
<1> USE LoopFields
<1>1. At("do") /\ UNCHANGED <<fqdn, first>>
  BY Zenon DEF Do, envVars
<1>2. CASE StartDps \/ StartHub
  BY <1>1, <1>2 DEF StartDps, StartHub, Assign, Prepare, Starts
<1>3. CASE ToHubFresh
  BY <1>1, <1>3 DEF ToHubFresh, Prepare, Destroy, Moves
<1>4. CASE NoWork \/ NoClock
  BY <1>1, <1>4 DEF NoWork, NoClock, Fails, Done, Rests
<1>5. CASE \/ Query \/ Assign({"subscribed_to_dps"}, "provisioning_waiting", "publish")
            \/ Assign({"ready"}, "refreshing_sas", "deinit")
  BY <1>1, <1>5 DEF Query, Assign, Prepare, Asks
<1>6. CASE \/ Assign({"connected_to_dps"}, "subscribing_to_dps", "subscribe")
            \/ Assign({"connected_to_hub"}, "subscribing_to_pnp_cmds", "subscribe")
            \/ Assign({"subscribed_to_pnp_cmds"}, "subscribing_to_pnp_props", "subscribe")
            \/ Assign({"subscribed_to_pnp_props"}, "subscribing_to_pnp_writable_props", "subscribe")
  BY <1>1, <1>6 DEF Assign, Prepare, Settled, Subscribing, CountIs, HubStates, Subscribes
<1> QED
  BY <1>2, <1>3, <1>4, <1>5, <1>6, Zenon DEF Do

(* A call that returns leaves the loop at rest.                            *)
LEMMA CallCases ==
  ASSUME TypeOK, CallInit \/ CallSubscribe \/ CallPublish
  PROVE  /\ UNCHANGED <<fqdn, first>>
         /\ At("init") \/ At("subscribe") \/ At("publish")
         /\ loop'.pc = "read" /\ loop'.was = "not_initialized"
         /\ \/ At("init") /\ link' = "down" /\ pend' = {} /\ subs' = 0 /\ UNCHANGED state
            \/ At("subscribe") /\ link = "up" /\ UNCHANGED <<state, link, subs>>
               /\ pend' = pend \cup {"suback"}
            \/ At("publish") /\ link = "up" /\ UNCHANGED <<state, link, subs>>
               /\ pend' \in {pend, pend \cup {"reply"}}
            \/ state' = "error" /\ UNCHANGED libVars
<1> USE LoopFields
<1>1. UNCHANGED <<fqdn, first>> /\ loop' = Rest
  BY Zenon DEF CallInit, CallSubscribe, CallPublish, Request, Done, envVars
<1>2. CASE CallInit
  BY <1>1, <1>2 DEF CallInit, Fails
<1>3. CASE CallSubscribe
  BY <1>1, <1>3 DEF CallSubscribe, Request, Fails
<1>4. CASE CallPublish
  BY <1>1, <1>4 DEF CallPublish, Request, Fails
<1> QED
  BY <1>2, <1>3, <1>4

(* The events of the MQTT task.                                            *)
Connects ==
  /\ link = "down" /\ link' = "up" /\ pend' = {} /\ subs' = 0 /\ At("read")
  /\ \/ state = "connecting_to_dps" /\ state' = "connected_to_dps"
     \/ state \in {"connecting_to_hub", "connected_to_hub"} /\ state' = "connected_to_hub"
     \/ state' = "error"

Disconnects ==
  /\ state' = IF state = "refreshing_sas" THEN "provisioned" ELSE "initialized"
  /\ \/ link # "none" /\ link' = "down" /\ pend' = {} /\ subs' = 0
     \/ link = "down" /\ UNCHANGED libVars

Acknowledges ==
  /\ "suback" \in pend /\ pend' = pend \ {"suback"} /\ subs' = subs + 1 /\ UNCHANGED link
  /\ \/ state = "subscribing_to_dps" /\ state' = "subscribed_to_dps"
     \/ state = "subscribing_to_pnp_cmds" /\ state' = "subscribed_to_pnp_cmds"
     \/ state = "subscribing_to_pnp_props" /\ state' = "subscribed_to_pnp_props"
     \/ state = "subscribing_to_pnp_writable_props" /\ state' = "ready"
     \/ state \notin Subscribing /\ UNCHANGED state

Replies ==
  /\ UNCHANGED <<link, subs>>
  /\ \/ pend # {} /\ pend' = pend \ {"reply"}
        /\ \/ state = "provisioning_waiting" /\ state' \in {"provisioning_querying", "error"}
              /\ UNCHANGED fqdn
           \/ state = "provisioning_waiting" /\ state' = "provisioned" /\ fqdn'
           \/ UNCHANGED <<state, fqdn>>
     \/ state = "ready" /\ state' = "error" /\ link = "up" /\ UNCHANGED <<pend, fqdn>>

LEMMA EventCases ==
  ASSUME OnConnected \/ OnRefused \/ OnDisconnected \/ OnSubscribed \/ OnReply \/ OnCommand
  PROVE  /\ UNCHANGED <<first, loop, handle>>
         /\ Replies \/ (UNCHANGED fqdn /\ (Connects \/ Disconnects \/ Acknowledges))
<1>1. UNCHANGED <<first, loop, handle>>
  BY Zenon DEF OnConnected, OnRefused, OnDisconnected, OnSubscribed, OnReply, OnCommand, envVars
<1>2. CASE OnConnected
  BY <1>1, <1>2, AfterCases DEF OnConnected, Connects
<1>3. CASE OnRefused \/ OnDisconnected
  BY <1>1, <1>3 DEF OnRefused, OnDisconnected, AfterDisconnect, Disconnects
<1>4. CASE OnSubscribed
  BY <1>1, <1>4, AfterCases DEF OnSubscribed, Acknowledges
<1>5. CASE OnReply \/ OnCommand
  BY <1>1, <1>5 DEF OnReply, OnCommand, Assigning, Assigned, Replies, libVars
<1> QED
  BY <1>2, <1>3, <1>4, <1>5

(* The steps that leave the loop, the state and the connection alone.      *)
LEMMA RestCases ==
  ASSUME NetworkChanges \/ Overwrite \/ UNCHANGED vars
  PROVE  UNCHANGED <<state, handle, fqdn, first, loop, link, pend, subs>>
BY Zenon DEF NetworkChanges, Overwrite, vars, libVars, envVars

-----------------------------------------------------------------------------
LEMMA StartStep ==
  ASSUME TypeOK, ClientInv, StartInv, [Next]_vars
  PROVE  StartInv'
<1> USE DEF StartInv, At
<1>1. CASE Looks
  <2>1. state = "not_initialized" => azure_iot_get_status = "disconnected"
    BY DEF azure_iot_get_status, Connecting
  <2>2. UNCHANGED <<state, link, first>>
    BY <1>1, LookCases, Zenon DEF libVars
  <2> QED
    BY <1>1, <2>1, <2>2, LookCases DEF Untouched
<1>2. CASE Reconnect \/ StopAfterError \/ CallDeinit
  BY <1>2, DestroyCases DEF Untouched
<1>3. CASE Do
  <2>1. CASE Starts
    BY <1>3, <2>1, DoCases DEF Starts, Untouched, libVars
  <2>2. CASE Moves
    BY <1>3, <2>2, DoCases DEF Moves, Untouched, libVars, ClientInv
  <2>3. CASE Rests
    BY <1>3, <2>3, DoCases DEF Rests, Untouched, libVars
  <2>4. CASE Subscribes \/ Asks
    BY <1>3, <2>4, DoCases DEF Subscribes, Asks, Untouched, libVars, Settled, Subscribing
  <2> QED
    BY <1>3, <2>1, <2>2, <2>3, <2>4, DoCases
<1>4. CASE CallInit \/ CallSubscribe \/ CallPublish
  BY <1>4, CallCases DEF Untouched, libVars
<1>5. CASE OnConnected \/ OnRefused \/ OnDisconnected \/ OnSubscribed \/ OnReply \/ OnCommand
  <2>1. CASE Replies
    BY <1>5, <2>1, EventCases DEF Replies, Untouched, ClientInv
  <2>2. CASE Connects \/ Disconnects
    BY <1>5, <2>2, EventCases DEF Connects, Disconnects, Untouched, libVars
  <2>3. CASE Acknowledges
    BY <1>5, <2>3, EventCases DEF Acknowledges, Untouched, ClientInv
  <2> QED
    BY <1>5, <2>1, <2>2, <2>3, EventCases
<1>6. CASE OnFirstConnect
  BY <1>6 DEF OnFirstConnect, Untouched, libVars
<1>7. CASE NetworkChanges \/ Overwrite \/ UNCHANGED vars
  BY <1>7, RestCases DEF Untouched
<1> QED
  BY <1>1, <1>2, <1>3, <1>4, <1>5, <1>6, <1>7, Zenon DEF Next, LoopStep, Looks

LEMMA HubStep ==
  ASSUME TypeOK, HubInv, [Next]_vars
  PROVE  HubInv'
<1> USE DEF HubInv, HubStates
<1>1. CASE Looks
  BY <1>1, LookCases
<1>2. CASE Reconnect \/ StopAfterError \/ CallDeinit
  BY <1>2, DestroyCases
<1>3. CASE Do
  <2>1. CASE Starts \/ Moves
    BY <1>3, <2>1, DoCases DEF Starts, Moves
  <2>2. CASE Rests \/ Subscribes \/ Asks
    BY <1>3, <2>2, DoCases DEF Rests, Subscribes, Asks, Subscribing
  <2> QED
    BY <1>3, <2>1, <2>2, DoCases
<1>4. CASE CallInit \/ CallSubscribe \/ CallPublish
  BY <1>4, CallCases
<1>5. CASE OnConnected \/ OnRefused \/ OnDisconnected \/ OnSubscribed \/ OnReply \/ OnCommand
  <2>1. CASE Replies
    BY <1>5, <2>1, EventCases DEF Replies
  <2>2. CASE UNCHANGED fqdn /\ (Connects \/ Disconnects)
    BY <1>5, <2>2, EventCases DEF Connects, Disconnects
  <2>3. CASE UNCHANGED fqdn /\ Acknowledges
    BY <1>5, <2>3, EventCases DEF Acknowledges, Subscribing
  <2> QED
    BY <1>5, <2>1, <2>2, <2>3, EventCases
<1>6. CASE OnFirstConnect
  BY <1>6 DEF OnFirstConnect
<1>7. CASE NetworkChanges \/ Overwrite \/ UNCHANGED vars
  BY <1>7, RestCases
<1> QED
  BY <1>1, <1>2, <1>3, <1>4, <1>5, <1>6, <1>7, Zenon DEF Next, LoopStep, Looks

LEMMA SubsStep ==
  ASSUME IInv, [Next]_vars
  PROVE  SubsInv'
<1> USE DEF SubsInv, At
<1>0. TypeOK /\ ClientInv /\ StartInv /\ SubsInv /\ subs \in 0 .. 3
  BY DEF IInv, TypeOK
<1>1. CASE Looks
  <2>1. UNCHANGED <<state, link, pend, subs>>
    BY <1>0, <1>1, LookCases, Zenon DEF libVars
  <2> QED
    BY <1>0, <1>1, <2>1, LookCases
<1>2. CASE Reconnect \/ StopAfterError \/ CallDeinit
  BY <1>0, <1>2, DestroyCases DEF Settled, Subscribing
<1>3. CASE Do
  <2>1. CASE Starts
    BY <1>0, <1>3, <2>1, DoCases DEF Starts, libVars, CountIs, Settled
  <2>2. CASE Moves
    BY <1>0, <1>3, <2>2, DoCases DEF Moves, libVars, CountIs, Settled
  <2>3. CASE Rests
    BY <1>0, <1>3, <2>3, DoCases DEF Rests, libVars, CountIs, Settled
  <2>4. CASE Subscribes
    <3>1. "suback" \notin pend /\ (link = "up" => CountIs(state', subs))
      BY <1>0, <1>3, <2>4, DoCases DEF Subscribes, ClientInv
    <3> QED
      BY <1>0, <1>3, <2>4, <3>1, DoCases DEF Subscribes, Subscribing, Settled, libVars
  <2>5. CASE Asks
    BY <1>0, <1>3, <2>5, DoCases DEF Asks, libVars, CountIs, Settled
  <2> QED
    BY <1>0, <1>3, <2>1, <2>2, <2>3, <2>4, <2>5, DoCases
<1>4. CASE CallInit \/ CallSubscribe \/ CallPublish
  BY <1>0, <1>4, CallCases DEF StartInv, libVars, CountIs, Settled, Subscribing
<1>5. CASE OnConnected \/ OnRefused \/ OnDisconnected \/ OnSubscribed \/ OnReply \/ OnCommand
  <2>1. CASE Replies
    BY <1>0, <1>5, <2>1, EventCases DEF Replies, CountIs, Settled, Subscribing
  <2>2. CASE Connects
    BY <1>0, <1>5, <2>2, EventCases DEF Connects, CountIs, Settled
  <2>3. CASE Disconnects
    BY <1>0, <1>5, <2>3, EventCases DEF Disconnects, CountIs, Settled, Subscribing, libVars
  <2>4. CASE Acknowledges
    <3>1. link = "up" /\ CountIs(state, subs)
      BY <1>0, <2>4 DEF Acknowledges, ClientInv
    <3>2. CountIs(state', subs')
      BY <1>0, <2>4, <3>1 DEF Acknowledges, CountIs, Settled, Subscribing
    <3> QED
      BY <1>0, <1>5, <2>4, <3>1, <3>2, EventCases DEF Acknowledges, Settled, Subscribing
  <2> QED
    BY <1>5, <2>1, <2>2, <2>3, <2>4, EventCases
<1>6. CASE OnFirstConnect
  BY <1>0, <1>6 DEF OnFirstConnect, StartInv, Untouched, libVars, CountIs, Settled, Subscribing
<1>7. CASE NetworkChanges \/ Overwrite \/ UNCHANGED vars
  BY <1>0, <1>7, RestCases
<1> QED
  BY <1>1, <1>2, <1>3, <1>4, <1>5, <1>6, <1>7, Zenon DEF Next, LoopStep, Looks

(* The invariant holds at the start and every step keeps it.               *)
LEMMA Inductive ==
  /\ Init => IInv
  /\ IInv /\ [Next]_vars => IInv'
<1>1. ASSUME Init PROVE IInv
  <2>1. TypeOK
    BY <1>1, TypeInit
  <2>2. loop.pc = "read" /\ loop.status = "disconnected" /\ loop.was = "not_initialized"
    BY <1>1 DEF Init, Rest
  <2>3. ClientInv /\ StartInv
    BY <1>1, <2>2 DEF Init, ClientInv, StartInv, Untouched, At
  <2>4. HubInv /\ SubsInv
    BY <1>1, <2>2 DEF Init, HubInv, HubStates, SubsInv, At, Settled
  <2> QED
    BY <2>1, <2>3, <2>4 DEF IInv
<1>2. ASSUME IInv, [Next]_vars PROVE IInv'
  <2>1. TypeOK /\ ClientInv /\ StartInv /\ HubInv /\ ("suback" \in pend => subs < 3)
    BY <1>2 DEF IInv, SubsInv
  <2>2. Flags'
    BY <1>2, <2>1, FlagsNext, Zenon DEF TypeOK, Flags
  <2>3. Data'
    BY <1>2, <2>1, DataNext
  <2>4. TypeOK'
    BY <2>2, <2>3, Zenon DEF TypeOK, Flags, Data
  <2>5. ClientInv' /\ StartInv' /\ HubInv' /\ SubsInv'
    BY <1>2, <2>1, ClientStep, StartStep, HubStep, SubsStep
  <2> QED
    BY <2>4, <2>5 DEF IInv
<1> QED
  BY <1>1, <1>2

(* The inductive invariant holds in every reachable state, whichever way    *)
(* the loop and the MQTT task interleave (AzureIoT.cpp, dxclient.cpp).      *)
THEOREM Invariant == Spec => []IInv
<1>1. Init => IInv /\ (IInv /\ [Next]_vars => IInv')
  BY Inductive
<1> QED
  BY Inductive, PTL DEF Spec

(* The variables keep their types: in particular no more than three        *)
(* subscriptions are acknowledged on a connection (subscribe_completed).   *)
THEOREM TypeCorrect == Spec => []TypeOK
<1>1. IInv => TypeOK
  BY DEF IInv
<1> QED
  BY Invariant, <1>1, PTL

(* The client is ready only with all three topics subscribed on the        *)
(* connection it has and a provisioned address, whatever the loop wrote    *)
(* over an event or an event over the loop (azure_iot_do_work).           *)
THEOREM ReadyIsSubscribedAlways == Spec => []ReadyIsSubscribed
<1>1. IInv => ReadyIsSubscribed
  BY DEF IInv, ReadyIsSubscribed, SubsInv, HubInv, HubStates, ClientInv, CountIs
<1> QED
  BY Invariant, <1>1, PTL

(* A client of the MQTT library that was started keeps its handle until it *)
(* is destroyed, and another is created only when there is none: at most   *)
(* clients that could not be started are left without a handle             *)
(* (mqtt_client_init_function called by azure_iot_do_work).                *)
THEOREM OneClientAlways == Spec => []OneClient
<1>1. IInv => OneClient
  BY DEF IInv, OneClient, StartInv, ClientInv
<1> QED
  BY Invariant, <1>1, PTL

(* No step provisions a device that was provisioned.                       *)
LEMMA OnceStep ==
  ASSUME IInv, [Next]_vars, fqdn
  PROVE  fqdn' /\ state' # "connecting_to_dps"
<1>1. HubInv'
  BY HubStep DEF IInv
<1>2. fqdn'
  <2>1. TypeOK
    BY DEF IInv
  <2>2. CASE Looks \/ Reconnect \/ StopAfterError \/ CallDeinit
    BY <2>1, <2>2, LookCases, DestroyCases
  <2>3. CASE Do \/ CallInit \/ CallSubscribe \/ CallPublish
    BY <2>1, <2>3, DoCases, CallCases
  <2>4. CASE OnConnected \/ OnRefused \/ OnDisconnected \/ OnSubscribed \/ OnReply \/ OnCommand
    BY <2>4, EventCases DEF Replies
  <2>5. CASE OnFirstConnect
    BY <2>5 DEF OnFirstConnect
  <2>6. CASE NetworkChanges \/ Overwrite \/ UNCHANGED vars
    BY <2>6, RestCases
  <2> QED
    BY <2>2, <2>3, <2>4, <2>5, <2>6, Zenon DEF Next, LoopStep, Looks
<1> QED
  BY <1>1, <1>2 DEF HubInv

(* Once provisioned, the device is not provisioned again, whatever         *)
(* disconnects it (azure_iot_start, azure_iot_do_work).                    *)
THEOREM ProvisionedOnceAlways == Spec => ProvisionedOnce
<1>1. IInv /\ [Next]_vars => [fqdn => fqdn' /\ state' # "connecting_to_dps"]_vars
  BY OnceStep
<1> QED
  BY Invariant, <1>1, PTL DEF Spec, ProvisionedOnce
=============================================================================
