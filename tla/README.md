# Formal models of the OpenRefill refill machine

TLA+ models of the firmware of the OpenRefill machine, checked with TLC and, in part, proved
with TLAPS. The machine sells four liquid products by volume: a customer holds a bottle under a
nozzle, picks an amount, presses a trigger, and the machine pumps, charges, and reports.

## 1. The system

Three ESP32 programs talk over one I2C bus. The main ESP is the master; the two others are slaves.

| Component | Source (`src/Firmware/...`) | State it keeps | Operations | Hard behaviour | Correct when |
|---|---|---|---|---|---|
| Dispensing state machine | `buttonfunctionPIOv3/src/dxstatemachine.*`, `statehelper.h`, `main.cpp` | state, queued state, dispenser, selection, volume and price so far, times | `doInit`, `process`, one handler per state, serial commands | stale members across sessions, commands in mid-session, time-outs, `millis()` wrap, `delay()` | pumps, session, page and charge agree; what is measured is reported once |
| Motor driver | `dxmotors.*` | running, direction, pump, test period | `run`, `stop`, `reverse`, timed run | one direction pair shared by all pumps | one pump at a time |
| Product table | `dxproduct.*` | table, price ratios, flow rates | load, set, price of a volume | ratios not recomputed when the table is set | never more than the price selected |
| Timers | `dxtimerhelper.h` | period, last start | start, isPeriodDone | unsigned wrap, deactivation by period 0 | a due timer is seen |
| Buttons, triggers | `dxbuttons.*`, `MultiButtons/` | debounce phase, filter, last button | `loop`, events | state only advances while the loop of that dispenser is called; one static time for all dispensers | no press noticed is left waiting, none is made up |
| Serial parser | `serialparser.*` | one array for all fields, indices, values | `checkSerial`, `clear` | leftovers of earlier fields, fields and lines that are too long | a line is handled with its own values |
| Configuration, lock | `dxConfigNVM.*`, `dxcfgid.*` | NVM name spaces | read, write, lock, unlock | power loss between keys, missing keys | RAM and flash agree, settings are whole, it runs only with the PIN |
| Printer, buzzer | `dxprinter.*`, `escprinterble/`, `dxbuzzer.h` | connection | print, play | takes seconds inside `process()` | - |
| I2C output | `dxI2Cio.*` | none | events to the comms ESP, pages to the display | errors ignored, no retry | - |
| Message outbox | `commesp/src/dxclientoutbox.h` | RAM box of 32, NVM store of 32, resend cursor | enqueue, onPublished, store, resend | shared by four tasks with no lock, crash between two writes | a dispense is delivered at least once |
| Azure client | `commesp/src/AzureIoT.*` | connection state | start, stop, do_work, telemetry | two tasks write the state; one buffer for credentials, requests and topics | ready means subscribed; comes back |
| Comms loop | `commesp/src/dxclient.*`, `main.cpp` | latches, WiFi and client state, stock-take flag, dispense counter | loop, I2C callback, MQTT and WiFi events, commands | callbacks against the loop; start and restart | reconnects and drains the outbox; numbers are new once loaded; commands are served |
| PnP template | `commesp/src/Azure_IoT_PnP_Template.*` | one text buffer | payloads, commands, property updates | written by three tasks | a text is sent and kept as it was made |
| Display | `DisplayCodePIO/src/main.cpp` | page, digits | I2C callback | 10 s of `delay()` in the callback | shows what was sent |

Interaction: `loop()` of the main ESP calls `process()` for ever. It reads the buttons, the
triggers and the serial console and writes to both slaves over I2C: `Started`, `Amount Chosen`,
`Cancel Init`, `Time Out` and `Finished` to the comms ESP, page names to the display. The comms ESP
takes an I2C event in the receive callback, turns it into MQTT telemetry and keeps what could not
be published in its outbox. Nothing ever flows back into the dispensing decision.

The hazards of this code, each at its line, are listed in `PROJECT.json` under `hazards`, with the
properties that would catch them.

## 2. Modules

| Module | Models | Uses |
|---|---|---|
| `DxTimer` | the period timers as pure operators | |
| `DxMotors` | the motor driver as operators on a motor record | |
| `DxProduct` | product table, ratios, prices | `DxMotors` (the set `DX`) |
| `DxStateMachine` | the dispensing state machine: state, one action per handler and command, properties | all three |
| `DispenseContract` | abstract specification: what the machine promises a customer | |
| `MCDxStateMachine` | small instances for TLC | `DxStateMachine` |
| `DxStateMachine_proofs` | lemmas on the operators, type correctness, the pump invariants | `DxStateMachine`, `TLAPS` |
| `DxSession_proofs` | page, selection, charge and uncounted pour | `DxStateMachine_proofs` |
| `DxContract_proofs` | the refinement of `DispenseContract` | `DxStateMachine_proofs` |
| `DxClientOutbox` | the message outbox with the four tasks that call it, flash, network and power | |
| `DeliveryContract` | abstract specification: what the comms ESP promises for the record of a dispense | |
| `MCDxClientOutbox` | small instances for TLC | `DxClientOutbox`, which instantiates `DeliveryContract` |
| `DxClientOutbox_proofs` | types, flash, count and resending of the outbox | `DxClientOutbox`, `TLAPS` |
| `DxDelivery_proofs` | flash kept, the refinement of `DeliveryContract` | `DxClientOutbox_proofs` |
| `AzureIoT` | the connection states of the Azure client and what do_work keeps in `data_buffer`, with the loop and the event tasks that write them; it has no constants, so TLC checks it as it is | |
| `AzureIoT_proofs` | types and safety of the connection | `AzureIoT`, `TLAPS` |
| `DxClientTelemetry` | what is sent over that connection: the three sending tasks, the two buffers they share, stock takes, commands, the dispense counter, start and restart | composes with `AzureIoT` |
| `DxClientTelemetry_proofs` | its safety invariants, and those of the connection with the traffic on top | `AzureIoT_proofs`, `DxClientTelemetry` |
| `SerialParser` | the technician's lines, character by character | |
| `SettingsContract` | abstract specification: what the machine promises its owner of the settings | |
| `DxConfigNVM` | settings in flash key by key, and the lock | instantiates `SettingsContract` |
| `DxTerminal` | the console: parsed commands acting on settings and lock | composes the two |
| `MultiButtons` | sampling and debouncing of the buttons of all dispensers | |
| `DxPanel` | what people do to a machine | composes `DxTerminal` and `MultiButtons` |
| `MCDxPanel` | a small instance for TLC | `DxPanel` |
| `DxPanel_proofs` | types and safety of parser, settings, lock and buttons, the refinement of `SettingsContract` | `DxPanel`, `TLAPS` |

A definition that no action uses (`ResendAlways`, `StartAgain`, ...) is a faulty variant of the one
next to it: `PROJECT.json` lists under `mutants` which property breaks when it takes its place.

### Dispensing: how state and actions correspond to the code

A variable of `DxStateMachine` is a member of `DxStateMachine` (`dx` is `_dx_activated`, `dispensed`
is `_dx_dispensed_ml` with `_dx_dispensed_price_tk`, and so on; the declaration names each). One call
of `process()` is two or three steps. `Begin(d)` reads `dx_num` and `time_stamp` and lets `d` ticks
pass since the call before. A `Cmd...` action, if the console delivered a command, is
`_doCheckSerial()`. The switch is one action of `Process`: the whole handler with every goto function
it calls and the `_sh.apply()` after it. So a serial command and a button event can meet in one call,
and the order in which they overwrite the queued state is the code's.

Time is kept as durations relative to `time_stamp`. `late` is the `delay()` time spent in the call,
so a timer started after a delay starts `late` after the time stamp, as in the code, where
`millis()` is read again. A due timer is capped at its period; `pour` and the times computed from it
are capped at `PourCap`, which fills every volume of the tables. `ahead` holds the start times
that `millis()` has wrapped past; timers that use the unsigned difference are not affected.

A power failure may come at any moment. It keeps the NVM (table, rates, lock) and resets the rest.

Two history variables do not exist in the code: `measured`, whether this session has computed a
volume, and `rebooted`, whether nothing has run since the last restart.

### Dispensing: abstractions

- Floats are exact rationals; a price or volume is rounded up once. Over the default tables this
  agrees with the `float` computation for every volume; for the time-to-volume product 3 of about
  60000 millisecond values round differently by 1 ml.
- A product name is the dispenser it belongs to. Printing, savings and the song are time
  (`CompletedDelay`).
- A button event is one of the four buttons, at any call; a trigger is pressed or not at any call.
  That includes everything the debouncing of `MultiButtons` can produce.
- STATE_PRINTING is appended by `_gotoPrintState()` but always overwritten before `apply()`, so the
  machine is never in it and it is not a state of the model.
- A locked device keeps its tables in the model although the code has not loaded them: it cannot use
  them before the restart that loads them.

### Outbox: correspondence and abstractions

The I2C callback, `loop()`, the MQTT client and the WiFi driver each run in a task of their own and
all call the outbox; the code has no lock. Each task has a frame (`task[t]`) that says where in the
code it is and what it holds in locals. A step runs up to the next place where another task can be
noticed: a publish, a write to flash, a counter read and then written.

| Code | Steps |
|---|---|
| `enqueueMsg` | `Fill`, `Bump` |
| `storeMsg` | `Put` (the string), `Mark` (the bit), `Save` (the lookup) |
| `enqueueBoxToStore` | `Scan` per entry, `storeMsg` for it, `Reset` |
| `onPublished`, `clearId` | `Published`, `Unmark`, `Unsave`, `Shift` |
| `getNextUnsentId`, `azure_iot_resend_telemetry` | `LoopConnected`, `Republish` |
| `sendMsgFormI2C`, `azure_iot_send_telemetry` | `Receive`, `Publish` |
| `dxClientProcess` without WiFi, `mqttOnEventError`, `dxWifiOnEvent` | `LoopOffline`, `MqttError`, `WifiLost`, `WifiGotIp` |

Where a task reads a value, yields, and writes a result (`count`, `lookup`), the write takes either
the old or the current value: the compiler may keep it in a register or read it again.

- `Locked = TRUE` excludes calls of the outbox from one another, as a mutex around them would. The
  code does **not** have it. What holds with it is the logic of the outbox; what breaks without it is
  the race. Callers are never excluded from anything: the time between a publish and its `enqueueMsg`
  is open in both cases.
- A record is sent by the main ESP once; two dispenses with the same text are two records.
- `FreshIds` is the library's choice of packet ids, which does not reuse an id still waited for.
- The string of a slot behind `count` matters only when calls overlap. With the lock it is forgotten
  (`Forget`), which keeps the instances small.
- `write_to_file` is true at every call. A `putString` that fails is not modelled.
- When an unlocked count gets beyond the array the code reads and writes what lies behind it; the
  model stops there (`MayRun`).
- `LoopStart` is the whole way to `azure_iot_state_ready`, which `AzureIoT` models. A WiFi outage
  too short for its event to be told from the next one is seen as none.
- Every disconnection stores the box again, resent copies included: delivery is at least once.

### Azure client: correspondence and abstractions

`azure_iot->state` is written by the loop and by the MQTT task without a lock. One pass of
`dxClientProcess()` is split where the loop reads or writes it: `Read` the status, `Look` at the state,
act (`Reconnect`, `StopAfterError`, `NothingToDo`), then `do_work`: `Work` reads the state, `Do`
assigns the next one, `CallInit`, `CallSubscribe`, `CallPublish`, `CallDeinit` call the library. MQTT
events (`OnConnected`, `OnDisconnected`, `OnSubscribed`, `OnReply`, `OnCommand`) and the WiFi task
(`OnFirstConnect`) come between any two of these - except that the library, which connects again 10 s
after it lost a connection, does so while the loop is between two passes.

- `net` stands for everything outside: network, memory, clock and services. While it is good a library
  call succeeds if the connection is up.
- `azure_iot_init` and `azure_iot_start` in `dxAzureInit` follow each other without yielding.
- Messages other than the provisioning answer change no state here unless their response fails
  (`OnCommand`); `DxClientTelemetry` has the rest. The SAS token's content is left out; its expiry is a
  choice.
- When `mqtt_client_init` fails the library may have made a client that did not start; nobody has its handle.
  `leaked` remembers that there is one. It never connects, so nothing else depends on it.
- `intact` says whether `data_buffer` still begins with what `do_work` put there for the call it makes
  next. `Overwrite` is any task building a topic in it. A client created with overwritten credentials is
  refused (`OnRefused`), a request on an overwritten topic is not answered. `opid` follows the one span of
  the buffer that outlives a call.

### Telemetry: correspondence and abstractions

Each of the three sending tasks has a frame: `Receive`, `Count` (`cfgUpdateDxCnt`), `MakeText`
(`generate_telemetry_...`), `MakeTopic`, `Publish`, `Keep` (the text is copied to the outbox). `topic` and `text` of a frame say whether the buffers still hold what
the task put there; another task that writes the same buffer clears them, `do_work` too (`Prepares`). A topic
of the same kind is the same characters and clears nothing. `saved` marks a dispense that was counted after the
counter was loaded.

- The steps of `AzureIoT` are the actions of that module, with the frames. The MQTT task handles one event at
  a time, and `esp_mqtt_client_stop()` waits for it (`MayDestroy`, external). A publish takes the handle of
  the moment; one through a client that the loop destroys meanwhile is not modelled.
- The main ESP sends one I2C message at a time, so the I2C task handles one at a time. It may send before
  `cfgLoad()`, since `setup()` has started the receiver by then. `cfgLoad()` is two steps: `cfgOpen` (from here
  on a count is written) and `cfgLoad` (the count is read). That the flash cannot be opened, or refuses a
  write, is not modelled.
- A stock take is due on a command or after an hour: the timer is a choice.
- A restart is possible at any step and keeps only the flash.
- What the outbox does with a record is in `DxClientOutbox`.
- Left out: `dxClientSimDx` (a second task that counts, only on a test command), the forced restart of
  command 147, time synchronisation, the stored device number and WiFi credentials.

### Console, settings and lock: correspondence and abstractions

- A character of the receive array is one typed in this field, one left from an earlier field, a space or a
  zero; a value is the number of the field it was typed in. So `atoi` and `atof` are modelled by what
  matters: they skip spaces and read what follows, whoever wrote it (`Leftover`). A command typed is any
  command; one converted from leftovers, too.
- `Checked` are the settings whose values `_checkCmdArgs()` looks at: all but CMD_DX_SET_FEATURES
  (`dxstatemachine.cpp:634`), which takes a missing value as 0.
- `KeysOf` gives each setting its keys, `LoadOrder` all keys in the order in which `_loadCfgs()` reads them.
  The machine writes (or reads) one key per step, and the power may fail between two. `values` of a setting are abstract; two keys given in one line get the same value
  unless one was made of leftovers.
- The variables of a setting are changed at once, then written. `torn` collects the settings whose
  writing a failure cut short: that it may is what the code does, that nothing else may is the property.
- The lock is a string in flash: missing, `"0"` or this device's id. Whether a typed string is the PIN
  is a choice of the technician, except that an empty string is not.
- Nothing is parsed while a command runs; a restart forgets what the parser holds.
- A `put` that fails is only printed by the code and not modelled.
- For `SettingsContract` a missing key is one that holds what was compiled in (`Stored`), since that is what a
  start would find there. The contract sees neither jobs nor keys that are missing, only what is stored, what
  the machine works with (or would, if it were started), whether it is unlocked and whether it works.

### Buttons: correspondence and abstractions

- A step of `btnLoop(d)` is the 25 ms look at one dispenser (`loop`, `_getButton`). The machine calls it for
  all of them while idle, in order until one has an event, for the one in session, and for none while it pours.
- `_median` and `_ave` are the set of buttons they hold samples of, and how many. From samples of one
  button they read that button, from fewer than three none, from samples of several one of these or, their
  spread being too big, none.
- `elapsed` is the static `last_event`, in intervals of 25 ms.
- Assumed: a reading lies in a button's range or near zero, and the loop is called in every interval in
  which it looks at a dispenser at all (its handlers otherwise `delay()` for seconds, which only makes `elapsed` due).
- `SessionMoves` abstracts `DxStateMachine`: a session begins with an event, pours, and ends at any time.
- `DxPanel` puts technician and customers at the machine one at a time (`user`); they share only the
  voltage ranges, which the buttons take as given.

## 3. What is checked

With two workers every run ends within five minutes.

| Run | Question | Instance |
|---|---|---|
| `customer` | do pumps, session, selection, page and charge agree, is the contract kept, whatever customers do and the technician configures in mid-session | 2 dispensers, a table with a 0 ml entry, two flow rates, lock, reset, power failures, clock wrap |
| `service` | every command at every moment: at most one pump | 2 dispensers, all commands |
| `liveness` | pouring ends, an abandoned machine becomes free, no pump is left running | 1 dispenser, motor commands |
| `stale_report` | `violation`: a sentence of `dxI2Cio.h` | 2 dispensers, customers only |
| `outbox_store` | contract; the flash keeps what it stored and can be read; resending serves every stored record | 2 records, box 2, 2 flash slots, locked; WiFi, client errors, power |
| `outbox_overflow` | contract; one resend at a time; with more records than fit | 3 records, box 2, 1 flash slot, locked; client errors, stops, power |
| `outbox_blocked`, `outbox_race` | `violation`: sentences of `dxclient.cpp` | 2 records; only `outbox_race` needs the missing lock |
| `azure_connect` | ready means subscribed, one client, provisioned once, the client comes back | complete (11 876 states) |
| `telemetry` | new numbers, no command lost, answers on the connection of the question | three tasks, counter up to 2 (3.4 million states) |
| `data_buffer` | `violation`: a comment of `dxclient.cpp` about the buffer | as `telemetry`, counter up to 1 |
| `panel` | lines are read, settings agree, are whole and keep their contract, the PIN is needed, presses are not forgotten | 4 characters, 2 values, 2 settings with 3 keys, one unchecked; 2 dispensers with 2 buttons (1.3 million states) |

- `MotorMatchesState`, `SessionMatchesState` tie the pump, the state, the dispenser and the queued
  state together. They hold while the technician keeps to configuration commands; motor tests and raw
  streaming break them by what the code does (see the hazards).
- `SelectionFromTable`: the amount to pay stays the table's entry through every detour over the
  cancel page, and nothing is left for the next customer - except `_dx_dispensed_ml`, see below.
- `UncountedPourBounded`: product that flows uncounted is at most one loop per press, unless
  `millis()` wraps.
- `NeverOverCharged`: the reported price is at most the selected one, also when a stale ratio or a
  changed table is used.
- `ScreenMatchesState`: the page asks for what the state waits for. After a pause the page
  "push bottle" stays up until the next progress update: the code does not send one at once.
- `KeepsContract`: refinement of `DispenseContract` (pump only for the dispenser served, armed
  sessions only; what is measured is reported exactly once unless the machine restarts).
- `OnePumpAtATime` holds for every command in every state. It does not ask whether the one pump is measured or
  timed.
- `PourEnds`, `AbandonedMachineFrees`, `MotorTestEnds` are the liveness properties. The machine is not
  free again while a technician leaves it in MOTOR_TEST: only CMD_MOTORS_STOP ends that state. `MotorTestEnds`
  asks that the pump goes off, not only that a test in its state ends it: a test whose state the handler of the
  same call overwrites is timed by nobody, and the end of the session stops it (see the divergences).
- `KeepsRecords`: the outbox refines `DeliveryContract`. A record received is kept until the broker has
  it; it is lost only before the device is provisioned, for want of room, or when power fails while it
  is in RAM. It holds while no two calls overlap, which is what the lock of the instance does
  (`StoringLosesNone` shows what happens otherwise).
- `FlashIsKept`: a slot of the flash is not given away before its record has arrived, power failures
  included. `OneResend`: a PUBACK clears the bit of the record it belongs to, because no second
  record from flash is in the box. `StoredIsReadable`: an id marked as used has a string; the run
  checks it with the lock, the theorem says it also without.
- `RoundRobin`: a record that never gets through does not keep the others from their turn.
- `ReadyIsSubscribed`, `OneClient`, `ProvisionedOnce`: the writes of the two tasks may overwrite each
  other, and still the client does not become ready on a connection that lacks a subscription, a client that has
  started is neither lost nor joined by another, and provisioning happens once. `Reconnects`: on a network that stays good it always becomes ready
  again, from wherever the overwriting left it, unless the provisioning service gives it no answer it
  can use (`WaitsInVain`: provisioning_waiting has no time-out) or its messages keep overwriting what
  `do_work` prepares.
- `NumberIsNew`: the counter is incremented, written and then put into the text, and reloaded after a
  restart; no dispense counted after the load gets a number an earlier one had, wherever the power fails. A
  dispense before the load is in the model and exempt: what it does to the numbers is among the divergences.
- `StockTakeKept`: the flag that the MQTT task sets and the loop clears never loses a command.
- `AnsweredOnConnection`: while the MQTT task has a message to answer, the connection it came through stays,
  with all its subscriptions, whatever the loop decides meanwhile.
- `LineIsRead`: whatever was typed before, a line without an empty field is handled with its own values.
- `RamIsFlash`, `SettingIsWhole`: once the machine runs, RAM and flash differ only in keys still to be
  written, and the keys of a setting belong together unless writing them was interrupted. `RunsWithPin`:
  no sequence of lines, restarts and power failures runs a machine that was not unlocked since it was
  last locked.
- `KeepsSettings`: settings, lock and power failures refine `SettingsContract`. What is stored changes only
  while the machine works and only to what it works with; a start works with exactly what is stored; a
  change waits until the one before is stored in full; lock, PIN and power change nothing that is stored.
  It fails where the others hold: a start that writes what was compiled in over the flash leaves RAM and
  flash in agreement and every setting whole, and has lost the owner's calibration.
- `ReportIsFresh`: an event names a button that was down since the last event of that dispenser. It does not
  count events: a button held through a pour gives two. `PressIsReported`: a press that was noticed is forgotten only
  with its event, or for another button that is down at the second look (it then has no event); and once the
  buttons are left alone and the machine is idle again and again none waits for ever, although each dispenser
  postpones the others. Both exceptions are among the divergences.

**Bounds.** The waits are a few ticks long. In `customer` they keep their order (before-start < pause <
wait-event) and a loop may be as long as `MinDelta`; in `service` and `liveness`, where every
command is allowed at every moment, they are as short as they can be. The volumes are small so that one loop can overshoot one, cross a bracket,
and stop early by price. Two dispensers are enough to confuse two.

For the outbox a box of two and a flash of one to three slots are filled and overflow; two records are
enough to confuse two, three to exceed the box. The real box of 32 is full at 31 for resending
(`isEnqueueBoxFull`) and at 32 for `enqueueMsg`; with two slots these are 1 and 2. `AzureIoT` has no
bounds: its state space is finite. `DxClientTelemetry` bounds only the counter: two dispenses with a
restart between them are enough to give a number twice. (`Receive` takes a dispense only below the bound, in
RAM and in flash: if `cfgLoad()` comes between `Receive` and `Count` it is the number in flash that is raised.) For the console, four characters are one more
than the longest command of the instance needs with its end, so that fields fill the array; four fields exceed the two values by
one over the place where `value_ix` is set back, and a setting of two keys can be torn. `Samples` is the
code's 3 and `Period` its 100 ms in intervals of 25 ms; the two dispensers share the time of the last look
and the two buttons mix in the filters.

**Fairness.** For the dispensing machine, `loop()` is called for ever and every call ends, hence weak
fairness of each phase of a call. `millis()` advances, hence strong fairness of calls at least a tick apart (strong, because
`Begin` is only enabled between two calls). Nothing is assumed of customer, technician or supply. A
button press is never the only thing a call can do: `NothingToDo` and the time-outs cover every call
without one, so fairness never presses a button. `DxClientOutbox!FairSpec`: the tasks run, a publish that can be
accepted again and again is accepted at some time, and what is sent arrives at some time (`wire`
belongs to a library that repeats). `AzureIoT!FairSpec`: `loop()` runs for ever and its 5 s pass, the
library connects and the services answer while the network is good, a query is not throttled and a
registration not refused, or "assigning", for ever. `PanelSpec`: `loop()` is called for ever, so looks at the
buttons go on; nobody has to press or release anything.

### Findings

Four statements in comments are not kept; each `violation` run shows a shortest behaviour.

1. `stale_report`: `_dx_dispensed_ml` is not reset between sessions, so a session without any pouring
   may report the previous customer's volume with price 0.
2. `outbox_blocked`: when the PUBACK is handled before `enqueueMsg` is called for it, the entry made
   afterwards stays in the box and nothing stored is resent on that connection. Found with
   `Locked = TRUE`: a mutex inside the outbox would not cure it.
3. `outbox_race`: a record is lost with room in flash when the box is stored while another task uses it.
4. `data_buffer`: while `do_work` has its credentials, or a request, in `azure_iot->data_buffer`, the I2C
   task builds the topic of a dispense at the beginning of the same buffer. In the shortest behaviour
   the client is created with overwritten credentials. The client recovers (`Reconnects`), but the
   comment says the buffer is not overwritten. The same property fails for a text replaced before it is copied to the outbox
   (`TextKept`: the record of a sale is another message) and for the operation id, which is used after
   its memory was given back (`OperationIdReserved`, `AzureIoT.cpp:286`).

### Divergences seen while modelling, without a run of their own

The first list is in the models, which contain the behaviour though no run asks about it.

- `_dx_time_at_pause` may inherit the previous session's time (`dxstatemachine.cpp:136`): a press that
  ends before its first measurement copies a stale `_dx_time_delta`.
- A press during which `millis()` wraps is never measured (`dxstatemachine.cpp:418`);
  `UncountedPourBounded` excludes it.
- Time Out is not always followed by Finished, as `dxI2Cio.h:48` says (`dxstatemachine.cpp:828`).
- Started is sent again when the customer returns from the cancel page (`dxstatemachine.cpp:246`).
- Leaving raw streaming enters IDLE with a dispenser activated (`dxstatemachine.cpp:671`).
- A record enqueued after the loop has latched that the box was stored stays in RAM for the whole
  outage (`dxclient.cpp:126`), also with a lock.
- A disconnection, not `azure_iot_stop`, takes the client out of the error state (`AzureIoT.cpp:722`).
- A motor test in mid-session starts its pump and then loses its state to the handler that runs in the same
  call (`dxstatemachine.cpp:697`): the pump runs past its period, until the session ends. `dxConfigMain.h:93`
  says "run motors for set time".
- The I2C receiver is started before `cfgLoad()` (`commesp/src/main.cpp:119`). A dispense that comes before is
  counted from 0 and has a number given before; one between the opening of the flash and the reading of the
  count (`dxclient.cpp:353`, `:367`) writes over the count, which goes on from there. `commespcfg.h:158` says "count of
  total number of dispenses".
- When `esp_mqtt_client_start` fails, the client that `esp_mqtt_client_init` made is neither destroyed nor handed back
  (`dxclient.cpp:486`), and the next start makes another: one is leaked per attempt (`leaked`).
- A message may be published to the provisioning service, and one received before the first connection is
  dropped.
- `generate` texts of dispenses, status changes, stock takes and property reports share one buffer
  (`Azure_IoT_PnP_Template.cpp:108`); a property update without a known property reports a length that
  was never set (`:206`).
- A field left empty is converted from what an earlier field left in the array, also of an earlier line
  (`serialparser.cpp:113`); the comment at line 143 says 0.
- After a pour with a button held, the second look has too few samples, takes it for released and
  reports an event, and another when it is released (`MultiButtons.cpp:105`; "On release (1)",
  `MultiButtons.h:55`). A button released while another of its dispenser is pressed before the second look
  has no event at all (`MultiButtons.cpp:128`). A button released during the session of another dispenser is an event when the
  machine is idle again.
- A PIN with further characters after it unlocks (`dxConfigNVM.cpp:411` compares a prefix).

Not in the models:

- The I2C task may publish through a client the loop is destroying (`AzureIoT.cpp:583`).
- `dispOnSavings` adds a number to a string literal (`dxI2Cio.h:91`): it points into or behind it.
- `comsGetReady` is never called since `_coms_is_rdy` starts true; `printerLoop()` is never called, so the
  printer never connects and no receipt is printed (`dxstatemachine.cpp:508`).
- Device number 11 is refused after it was stored (`dxclient.cpp:384`, `commespcfg.h` says 1 to 11).
- `consume_properties_and_generate_response` reads a text of up to 50 bytes into one `char`.
- `showProgress` of the display draws the second digit twice (`DisplayCodePIO/src/main.cpp:188`).

## 4. What is proved

For every value of the constants that meets `ConstantsAssumption`, `NumDxAssumption` and
`TickAssumption` (any number of dispensers, any tables, any periods, any bound):

- `TypeCorrect`: `Spec => []TypeOK`. The lemmas say what each operator returns (a bracket exists for
  every volume, so a price is a number; a ratio never divides by 0), then each action keeps the types.
- `OnePump`: `Spec => []OnePumpAtATime`, for every set of commands. The invariant is inductive with the
  types; `MotorStep` says all a step can do to the motors, `SaneMotors` that each of these keeps at most
  one pump driven.
- `PumpsInStep`: with configuration commands only, `Spec => [](MotorMatchesState /\ SessionMatchesState)`.
  Neither is inductive alone: that a pump started by `StartDispense` is the active dispenser's needs
  `loop_dx = dx`, and that a handler entering a quiet state leaves no pump on needs the motor to follow
  the state. Together with `TypeOK` they are inductive (`Inv`).
- `SessionInStep`: the half of `PumpsInStep` about the session, `Spec => []SessionMatchesState`, by itself.
- `DxSession_proofs`, with configuration commands only, each on top of `Inv`: `PageAlways`;
  `SelectionFromTableAlways`, which needs that a table is always an initial or an installed one
  (`TableInv`) and that the selection is an entry of such a table even when the table in use has been
  replaced since (`ChosenInv`); `NeverOverChargedAlways`, which needs that a charge exists only
  between the first measurement and the end of a session and stays below the selected price
  (`ChargeInv`), so that no report can carry more; `UncountedPourAlways`: what has flowed
  since the press is counted up to the call of `process()` before (`FlowInv`), because the time counted only
  grows in a press and a pause keeps it (`CountedInv`). This last one assumes `CapFillsAll`: the model's bound on
  time is one that fills every volume of the tables at every flow rate, so it never hides a pour.
- `ContractKept`: `Spec => KeepsContract`, with configuration commands only: every step of the machine is one
  of `DispenseContract` or changes nothing the contract sees. The strengthening (`KInv`) adds that
  the events of a call are gone when the switch of the next is reached (`Fresh`), so a session's end
  is one report and not two, and that a measured volume is never 0 (`OwedInv`, `SomeVolume`), so a
  measured session has a report.

About the outbox, for any number of records, any set of packet ids, a box of 2 to 254 entries, any
flash (`OutboxAssumption`), any failures:

- `StoredReadable`: `Spec => []StoredIsReadable`, with or without the lock. The property is not
  inductive: a task between `Put` and `Save` holds an id in a local, and one inside `clearId` an old
  copy of the whole lookup. The invariant (`Inv`) adds that whatever a task will write into the lookup
  is readable already (`LocalsUsable`); no step ever makes an id unreadable. The invariant's
  parts were checked with TLC before they were proved.
- `TypeCorrect`: `Spec => []TypeOK`, from the same invariant: the index in a local is within the box
  where it is used, the message is a record where it is published.
- The next four are about the executions in which no two calls of the outbox overlap: `Spec /\ [][~Overlap]_vars`,
  where `Overlap` is a step by which a task goes on in a call, takes up a PUBACK or reads a stored record while
  another task is inside a call. This does not assume the lock, which the code does not have: it names the
  executions of the code as it is. Everything else interleaves freely, publishes with PUBACKs and events too.
- `CountFits`: in these `count <= BoxSize`; so the decrement of a count that was just reset
  (`dxclientoutbox.h:101`), after which the code leaves its array, takes two calls that overlap. The invariant
  (`Steady`) says that at most one task is inside a call, so what it read of the count still holds at its next
  step: a free slot before `Bump`, an entry before `Shift`.
- `OneResendAlways`: in these `OneResend`. The loop looks at the box once and resends later
  without looking again; the invariant (`Resending`) says what cannot have changed in between: until its
  entry is made no other entry has an id of the flash, as what the I2C task brings has none.
- `FlashIsKeptAlways`: in these `FlashIsKept`, and `RecordsKept`: in these `KeepsRecords`, every step of
  the four tasks is one of `DeliveryContract` or moves no record. Both rest on
  one invariant (`DInv`): what each task may rely on at each place (`AllKept`: the box behind a scan is
  stored or the flash full; between `Put`, `Mark` and `Save` the string is there and the lookup as read;
  an entry about to be removed was delivered; a record about to be resent is in flash); RAM and flash have
  the same lookup between calls (`Written`); an entry from the flash still has its string and its bit
  (`Linked`); whatever is kept was received (`Known`); a packet id stands for one record, so a PUBACK proves
  delivery (`Acked`); and what the I2C task has in hand is nowhere else (`Alone`), so storing the box cannot
  lose it twice. TLC checked `DInv` on the instances of `outbox_store` and of the overflowing box before it
  was proved.

About the connection and what is sent over it, with no assumption beyond `TelemetryAssumption`:

- `AzureIoT_proofs`: `TypeCorrect`, `ReadyIsSubscribedAlways`, `OneClientAlways`, `ProvisionedOnceAlways`. None
  is inductive: the loop holds a state it read before an event, so a step may assign what no longer fits.
  The invariant `IInv` says what that can be: there is a started client exactly while there is a handle
  (`ClientInv`, which `OneClient` states), a start is only pending without a client (`StartInv`), a state on the way to the hub
  implies that the device is provisioned (`HubInv`), and the subscriptions that were acknowledged match the
  state, with the acknowledgement still to come counted (`SubsInv`). That one acknowledgement is never
  counted twice is why more than three is impossible, which is part of the types.
- `DxClientTelemetry_proofs`: `NumberIsNewAlways`, `StockTakeKeptAlways`, for any
  bound on the counter. The numbers need that no number given since the count was last set back is above the one in
  flash and that RAM equals flash once it is loaded (`NumberInv`), and who may be about to count (`SendInv`).
- The composition: `TelInvariant` joins `IInv` of the connection with the invariants of the senders
  (`TelIInv`), and gives `TelTypeCorrect`, `ConnectionKeptAlways` (`ReadyIsSubscribed` and `OneClient` under all
  traffic and restarts), `AnsweredOnConnectionAlways`, `ProvisionedOncePerStart` and `TrafficKeepsConnection`:
  every step is one of `AzureIoT`, leaves the connection alone, is a restart, or is a response that could not be
  published. That last one is why the composition is not free: `Publish` then writes `state` from the MQTT task,
  which no action of `AzureIoT` does at that moment. It keeps `IInv` only because the task that answers is
  never disturbed (`BusyInv`): the link is up, all three topics are subscribed and the loop is not
  subscribing. `BusyInv` in turn needs `IInv` (the loop subscribes only below three) and `MayDestroy`. The
  types need that a dispense about to be counted is below the bound in RAM and in flash (`CountInv`) and
  who sends what (`KindInv`).

About the console, the settings, the lock and the buttons (`DxPanel_proofs`): for every size of the receive
array, every number of fields, values and strings, any settings with any keys loaded in any order, any number of
dispensers, buttons and samples, and any period. The assumptions are `ParserAssumption`; `ConfigAssumption`, which says
that no key belongs to two settings (each has a name space of its own in `dxConfigNVM.cpp`) and that every
key is loaded (`_loadCfgs()` reads all four name spaces); `TerminalAssumption`, that a line has room for the
values of a setting (`ARGS_CMDS_SIZE` is 10, a setting has at most 4 keys); and `ButtonsAssumption`. The
invariant `PanelIInv` has a part for each module, and `DxPanel` lets only one of them move at a time:

- `LineIsReadAlways`. What has been read when the line ends is only known if it is known field by field:
  `LineInv` says that before the end of a line without an empty field `value_ix` counts the fields, that the
  values so far are in their places and the rest is 0, and that an empty line holds nothing of the one before, which
  is what `clear()` and the reset of `value_ix` are for. `FieldRead` says what one field adds.
- `RamIsFlashAlways`, `SettingIsWholeAlways`, `RunsWithPinAlways`. `SettingIsWhole` speaks of a running machine with
  nothing to write, but what it depends on survives in the flash alone: `WholeInv` says that a setting that was
  not torn is whole in RAM while the machine runs and in flash while it does not, where a missing key counts as what
  was compiled in. `JobInv` says that keys are read only while loading and written only while running, and that
  a key not yet read is still as compiled in, so writing a missing one changes nothing that is stored
  (`ProcessDoes`). `RunsWithPin` needs that the lock id is in flash exactly when the PIN was given (`LockInv`).
  That a line without an empty field gives the keys of a setting one value (`TypedValues`) is where the settings
  need the parser's invariant.
- `SettingsKept`: `PanelSpec => KeepsSettings`. Every step of the terminal is one of `SettingsContract` or
  changes nothing it sees: the last key loaded is the contract's start, every key written one of its stores, a restart
  its stop, lock or unlock (`ProcessMaps`, `SetMaps`, `RestartMaps`). A change finds the last one stored
  because of `RamIsFlash`; a start finds the machine unlocked because of `RunsWithPin` and `LockInv`.
- `ReportIsFreshAlways`. The last button is taken from the filter, so the filter must hold nothing that was not
  sampled since the last event (`SampledInv`), although it mixes buttons and is not emptied by a session.
- `PanelTypeCorrect`: with the above, no field, value or string is ever written outside its array.

`PanelIInv`, `TelIInv` and their parts were checked with TLC before they were proved.

So every safety property of the dispensing machine that the `customer` run checks is proved for every
number of dispensers, table, rate and period. The proofs assume `MinDelta > 0`, the 0.2 s of the code.

The same holds of the outbox as long as no two of its calls overlap. When they do, `StoredIsReadable` and the
types are what remains true (and is proved); the finding `outbox_race` shows a record lost.

Every safety property and every action property that a passing run checks is thus stated by a theorem, except the
first half of `PressIsReported`. Only model-checked, beside it, is liveness, which needs fairness and `ENABLED` and is out of the prover's reach: `PourEnds`,
`AbandonedMachineFrees`, `MotorTestEnds`, `RoundRobin`, `Reconnects`, `PressIsReported`. The four properties of the
`violation` runs are false. `SettingsContract` and the two other contracts say nothing of liveness either.

## 5. Plan

Done: the dispensing machine with its contract, the outbox with its contract, the Azure client, what is
sent over it, the console with settings and lock and their contract, the buttons; all with proofs.

What is left:

1. Composition of `DxClientTelemetry` with `DxClientOutbox` (in place of `LoopStart` and `LoopStop`): the
   two have the publish in common; the product is beyond TLC in the time a run has.
2. `DxProduct` alone over bounded tables against a reference definition (brackets, monotone prices).
3. Proofs: the operators of `DxProduct` against such a definition, for every table; an abstract
   specification of the buttons (which looks at a dispenser may end in an event, with the second event of a
   button held through a pour, see the divergences) and the refinement of it by `MultiButtons`.

## 6. Not modelled

Receipt text, Bluetooth, images, the song, PWM set-up and the drawing of the display are pure output. The
JSON of telemetry and the arithmetic of the SAS token are data no property tells apart. The I2C bus is
taken to deliver: the code ignores its errors. Refused writes to flash are only printed. Time
synchronisation and the commands that store WiFi credentials and the device number change nothing
before the next restart.

Without a caller, and so without a model: `clearAll` of the outbox, `azure_pnp_send_device_info` and
`generate_device_info_payload`, two more payload generators, `get_device_twin_document`,
`parse_desired_device_count_property`, `isEventStockTake`, `printerLoop`, the calibration functions that are
comments, the modem backup (`gprsbckup.h`) and the load cells.
