------------------------------ MODULE DxConfigNVM ------------------------------
(***************************************************************************)
(* The settings in flash and the lock of the main ESP: dxConfigNVM.cpp     *)
(* with DxStateMachine::doInit() and _loadCfgs().  A setting is one or     *)
(* more keys, read or written one after the other; the power may fail      *)
(* between two of them.  A key that is missing is written instead of read. *)
(***************************************************************************)
EXTENDS Naturals, Sequences

CONSTANTS
  KeysOf,    \* the keys of each setting, in the order of the code
  LoadOrder, \* the keys in the order in which _loadCfgs() reads them
  MaxValue   \* values of a setting; 0 is the one compiled in

Settings == DOMAIN KeysOf
KeysIn(s) == {KeysOf[s][i] : i \in DOMAIN KeysOf[s]}
Keys == UNION {KeysIn(s) : s \in Settings}
Missing == MaxValue + 1

(* Each setting has keys, and a name space, of its own; all are loaded.    *)
ASSUME ConfigAssumption ==
  /\ MaxValue \in Nat
  /\ \A s \in Settings : KeysOf[s] \in Seq(Keys)
  /\ \A s, t \in Settings : s # t => KeysIn(s) \cap KeysIn(t) = {}
  /\ LoadOrder \in Seq(Keys) /\ \A k \in Keys : \E i \in DOMAIN LoadOrder : LoadOrder[i] = k

VARIABLES
  nvm,    \* the value of each key in flash
  ram,    \* and of the variable it belongs to
  lock,   \* the lock id in flash: "missing", "0" or the "id" of this device
  mode,   \* "off", "load" (doInit), "locked" or "run"
  job,    \* the keys still to be processed, and whether they are written
  pin,    \* history: the right PIN was given after the last time it was locked
  torn    \* history: settings last written only in part, or not with what was typed

nvmVars == <<nvm, ram, lock, mode, job, pin, torn>>

NoJob == [dir |-> "read", keys |-> <<>>]

ConfigTypeOK ==
  /\ nvm \in [Keys -> 0 .. Missing] /\ ram \in [Keys -> 0 .. MaxValue]
  /\ lock \in {"missing", "0", "id"}
  /\ mode \in {"off", "load", "locked", "run"}
  /\ job \in [dir : {"read", "write"}, keys : Seq(Keys)]
  /\ pin \in BOOLEAN /\ torn \subseteq Settings

(* A device as it is delivered. *)
ConfigInit ==
  /\ nvm = [k \in Keys |-> Missing] /\ ram = [k \in Keys |-> 0]
  /\ lock = "missing" /\ mode = "off" /\ job = NoJob
  /\ pin = FALSE /\ torn = {}

-----------------------------------------------------------------------------
UnlockedIfMissing == lock # "0"                               \* a faulty variant

(* cfgIsLocked() compares with the id of the device; without a key it writes
   "0", which no device has. *)
IsUnlocked == lock = "id"

(* doInit(): a locked device loads nothing. *)
doInit ==
  /\ mode = "off"
  /\ lock' = IF lock = "missing" THEN "0" ELSE lock
  /\ IF IsUnlocked THEN mode' = "load" /\ job' = [dir |-> "read", keys |-> LoadOrder]
                   ELSE mode' = "locked" /\ UNCHANGED job
  /\ UNCHANGED <<nvm, ram, pin, torn>>

ReadOnly(k) ==                                                \* a faulty variant
  IF job.dir = "write" THEN nvm' = [nvm EXCEPT ![k] = ram[k]] /\ UNCHANGED ram
  ELSE ram' = [ram EXCEPT ![k] = IF nvm[k] = Missing THEN ram[k] ELSE nvm[k]] /\ UNCHANGED nvm

Overwrites(k) == nvm' = [nvm EXCEPT ![k] = ram[k]] /\ UNCHANGED ram \* a faulty variant

(* _processX(), _proccessUint16Array2D(), _proccessUint16Array3D(). *)
_processX(k) ==
  IF job.dir = "write" \/ nvm[k] = Missing
  THEN nvm' = [nvm EXCEPT ![k] = ram[k]] /\ UNCHANGED ram
  ELSE ram' = [ram EXCEPT ![k] = nvm[k]] /\ UNCHANGED nvm

ProcessKey ==
  /\ job.keys # <<>>
  /\ _processX(Head(job.keys))
  /\ job' = [job EXCEPT !.keys = Tail(@)]
  /\ mode' = IF Len(job.keys) = 1 THEN "run" ELSE mode
  /\ UNCHANGED <<lock, pin, torn>>

AllButFirst(s) == Tail(KeysOf[s])                             \* a faulty variant
KeysToWrite(s) == KeysOf[s]

(* setFlowRate(), btnSetRangeX(), ...: the variables at once, then the keys. *)
SetSetting(s, values, alike) ==
  /\ ram' = [k \in Keys |-> IF k \in KeysIn(s) THEN values[k] ELSE ram[k]]
  /\ job' = [dir |-> "write", keys |-> KeysToWrite(s)]
  /\ torn' = IF alike THEN torn \ {s} ELSE torn \cup {s}
  /\ UNCHANGED <<nvm, lock, mode, pin>>

(* esp_restart(), or the power fails. *)
Restart ==
  /\ mode' = "off" /\ job' = NoJob
  /\ ram' = [k \in Keys |-> 0]
  /\ torn' = torn \cup {s \in Settings : job.dir = "write" /\ \E i \in DOMAIN job.keys : job.keys[i] \in KeysIn(s)}

PowerFails == mode # "off" /\ Restart /\ UNCHANGED <<nvm, lock, pin>>

(* cfgUnlock(), and a restart when the PIN was right. *)
cfgUnlock(pin_ok) ==
  IF pin_ok THEN lock' = "id" /\ pin' = TRUE /\ Restart /\ UNCHANGED nvm
            ELSE UNCHANGED nvmVars

(* cfgLock(), and a restart. *)
cfgLock == lock' = "0" /\ pin' = FALSE /\ Restart /\ UNCHANGED nvm

-----------------------------------------------------------------------------
(* Once it runs, the device uses what the flash holds: the variables and the *)
(* flash differ only while a setting is being written, through all restarts  *)
(* and missing keys (_processX, _loadCfgs).                                  *)
RamIsFlash ==
  mode = "run" => \A k \in Keys : ram[k] = nvm[k] \/ \E i \in DOMAIN job.keys : job.keys[i] = k

(* A device only runs after the PIN was given, since it was last locked,     *)
(* however often the power failed (cfgIsLocked, cfgUnlock, cfgLock).         *)
RunsWithPin == mode \in {"load", "run"} => pin

(* The keys of a setting change together unless the power failed while they  *)
(* were being written or they were given different values; a missing key, a  *)
(* restart, or a restart while they are read, changes nothing (cfgFlowRate,  *)
(* cfgVoltageRanges, cfgStateMachine).                                       *)
SettingIsWhole ==
  mode = "run" /\ job.keys = <<>> =>
    \A s \in Settings \ torn : \A k, l \in KeysIn(s) : ram[k] = ram[l]

(* SettingsContract over the flash and the variables.  A missing key is as   *)
(* good as one that holds the value compiled in.                             *)
Stored(k) == IF nvm[k] = Missing THEN 0 ELSE nvm[k]

Contract == INSTANCE SettingsContract WITH
  Groups   <- {KeysIn(s) : s \in Settings},
  Values   <- 0 .. MaxValue,
  stored   <- [k \in Keys |-> Stored(k)],
  used     <- [k \in Keys |-> IF mode = "run" THEN ram[k] ELSE Stored(k)],
  unlocked <- lock = "id",
  working  <- mode = "run"

(* The settings keep the owner's contract: through missing keys, power       *)
(* failures between two keys, locking and unlocking, what is stored only     *)
(* changes to what was set, and is what the next start works with            *)
(* (_processX, _loadCfgs, cfgLock, cfgUnlock).                               *)
KeepsSettings == Contract!SSpec
=============================================================================
