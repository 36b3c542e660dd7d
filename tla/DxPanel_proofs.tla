--------------------------- MODULE DxPanel_proofs ---------------------------
(***************************************************************************)
(* Safety of the terminal and of the buttons, for every size of the        *)
(* buffers, every set of settings and every number of dispensers.          *)
(***************************************************************************)
EXTENDS DxPanel, TLAPS

-----------------------------------------------------------------------------
(* The settings.  A key is pending while the current job has it to do.      *)
Pending(k) == \E i \in DOMAIN job.keys : job.keys[i] = k

(* Keys are read only in doInit(), which starts from the values compiled in, *)
(* and written only while the device runs.                                   *)
JobInv ==
  /\ mode \in {"off", "locked"} => job = NoJob /\ \A k \in Keys : ram[k] = 0
  /\ mode = "load" =>
       /\ job.dir = "read"
       /\ \A k \in Keys : ram[k] = nvm[k] \/ (Pending(k) /\ ram[k] = 0)
  /\ mode = "run" => job.dir = "write" \/ job.keys = <<>>

(* The device holds its own lock id since the PIN was given; one that is    *)
(* found locked does not.                                                   *)
LockInv == (lock = "id" <=> pin) /\ (mode = "locked" => lock # "id")

(* A setting that was not torn is whole in flash while the device is off,  *)
(* locked or loading, and in the variables while it runs.                  *)
WholeInv ==
  \A s \in Settings \ torn : \A k, l \in KeysIn(s) :
    IF mode = "run" THEN ram[k] = ram[l] ELSE Stored(k) = Stored(l)

ConfigInv == ConfigTypeOK /\ JobInv /\ RamIsFlash /\ LockInv /\ RunsWithPin /\ WholeInv

-----------------------------------------------------------------------------
(* The parser.  Before the end of the line, value_ix counts its fields, and *)
(* the values typed so far are in their places; an empty line holds nothing *)
(* of the one before.                                                       *)
LineStart == rx_cmd = "id" /\ rx_vals = NoValues /\ rx_strs = NoStrings /\ rx_index = 0

Filled(vals, n) == \A i \in DOMAIN vals : vals[i] = IF i < n THEN i + 1 ELSE 0

LineInv ==
  /\ new_data => value_ix = 0
  /\ ~new_data /\ params <= ArgsCmds => value_ix = params
  /\ ~new_data /\ params = 0 => LineStart
  /\ ~new_data /\ clean /\ params \in 1 .. ArgsCmds =>
       IF rx_cmd = "unlock" THEN params - 1 <= ArgsStrings => rx_index = params - 1
                            ELSE rx_index = params - 1 /\ Filled(rx_vals, params - 1)
  /\ clean => \A i \in DOMAIN rx_vals : rx_vals[i] # Old

ParserInv == ParserTypeOK /\ LineInv /\ LineIsRead

-----------------------------------------------------------------------------
(* The buttons.  The filter holds nothing that was not sampled since the   *)
(* last event; only a dispenser is in session.                             *)
SampledInv == \A d \in Dx : buf[d] \subseteq seen[d]
ActiveInv  == serving # "idle" => active \in Dx

ButtonsInv == ButtonsTypeOK /\ SampledInv /\ ActiveInv /\ ReportIsFresh

PanelInv == ParserInv /\ ConfigInv /\ ButtonsInv

-----------------------------------------------------------------------------
(* What the first of some keys and the others are.                         *)
LEMMA HeadAndTail ==
  ASSUME NEW S, NEW q \in Seq(S), q # <<>>
  PROVE  /\ Head(q) \in S /\ Tail(q) \in Seq(S)
         /\ \A i \in DOMAIN q : q[i] = Head(q) \/ \E j \in DOMAIN Tail(q) : Tail(q)[j] = q[i]
         /\ Len(q) = 1 => Tail(q) = <<>>
<1>1. Len(q) \in Nat \ {0} /\ DOMAIN q = 1 .. Len(q) /\ Head(q) = q[1]
  OBVIOUS
<1>2. Tail(q) \in Seq(S) /\ Len(Tail(q)) = Len(q) - 1
      /\ \A j \in 1 .. Len(q) - 1 : Tail(q)[j] = q[j + 1]
  BY <1>1
<1>3. ASSUME NEW i \in DOMAIN q, q[i] # Head(q)
      PROVE  \E j \in DOMAIN Tail(q) : Tail(q)[j] = q[i]
  <2>1. i - 1 \in 1 .. Len(q) - 1 /\ i - 1 + 1 = i
    BY <1>1, <1>3
  <2>2. i - 1 \in DOMAIN Tail(q) /\ Tail(q)[i - 1] = q[i]
    BY <1>2, <2>1
  <2> QED
    BY <2>2
<1> QED
  BY <1>1, <1>2, <1>3

-----------------------------------------------------------------------------
(* Each operation of the settings keeps ConfigInv.                         *)
LEMMA ConfigTypes ==
  /\ MaxValue \in Nat /\ Missing \in Nat /\ Missing = MaxValue + 1
  /\ 0 \in 0 .. Missing /\ 0 \in 0 .. MaxValue /\ Missing \in 0 .. Missing
  /\ \A s \in Settings : KeysIn(s) \subseteq Keys /\ KeysOf[s] \in Seq(Keys)
  /\ \A k \in Keys : \E s \in Settings : k \in KeysIn(s)
  /\ NoJob \in [dir : {"read", "write"}, keys : Seq(Keys)]
BY ConfigAssumption DEF Missing, Keys, NoJob

LEMMA ConfigInits ==
  /\ ConfigInit => ConfigInv
  /\ SetUp => ConfigInv
<1>1. ASSUME ConfigInit PROVE ConfigInv
  <2>1. ConfigTypeOK
    BY <1>1, ConfigTypes DEF ConfigInit, ConfigTypeOK
  <2>2. JobInv /\ RamIsFlash /\ LockInv /\ RunsWithPin
    BY <1>1 DEF ConfigInit, JobInv, RamIsFlash, LockInv, RunsWithPin
  <2>3. WholeInv
    BY <1>1, ConfigTypes DEF ConfigInit, WholeInv, Stored
  <2> QED
    BY <2>1, <2>2, <2>3 DEF ConfigInv
<1>2. ASSUME SetUp PROVE ConfigInv
  <2>1. ConfigTypeOK
    BY <1>2, ConfigTypes DEF SetUp, ConfigTypeOK
  <2>2. JobInv /\ RamIsFlash /\ LockInv /\ RunsWithPin
    BY <1>2 DEF SetUp, NoJob, JobInv, RamIsFlash, LockInv, RunsWithPin
  <2>3. WholeInv
    BY <1>2, ConfigTypes DEF SetUp, WholeInv, Stored
  <2> QED
    BY <2>1, <2>2, <2>3 DEF ConfigInv
<1> QED
  BY <1>1, <1>2

(* A locked device loads nothing, any other starts to load every key.      *)
LEMMA DoInitStep ==
  ASSUME ConfigInv, doInit
  PROVE  ConfigInv'
<1>1. /\ mode = "off" /\ job = NoJob /\ UNCHANGED <<nvm, ram, pin, torn>>
      /\ nvm \in [Keys -> 0 .. Missing] /\ ram \in [Keys -> 0 .. MaxValue]
  BY DEF ConfigInv, JobInv, ConfigTypeOK, doInit
<1>2. ConfigTypeOK'
  <2>1. job' \in [dir : {"read", "write"}, keys : Seq(Keys)]
    BY ConfigAssumption, <1>1, ConfigTypes DEF doInit
  <2>2. mode' \in {"load", "locked"} /\ lock' \in {"missing", "0", "id"}
    BY DEF doInit, ConfigInv, ConfigTypeOK
  <2> QED
    BY <1>1, <2>1, <2>2 DEF ConfigInv, ConfigTypeOK
<1>3. LockInv' /\ RunsWithPin'
  BY DEF doInit, IsUnlocked, ConfigInv, LockInv, RunsWithPin
<1>4. JobInv'
  <2>1. CASE mode' = "locked" /\ job' = job
    BY <1>1, <2>1 DEF ConfigInv, JobInv
  <2>2. CASE mode' = "load" /\ job' = [dir |-> "read", keys |-> LoadOrder]
    <3>1. \A k \in Keys : Pending(k)'
      BY <2>2, ConfigAssumption DEF Pending
    <3>2. \A k \in Keys : ram[k] = 0
      BY <1>1 DEF ConfigInv, JobInv
    <3> QED
      BY <2>2, <3>1, <3>2, <1>1 DEF JobInv
  <2> QED
    BY <2>1, <2>2 DEF doInit
<1>5. RamIsFlash' /\ WholeInv'
  <2>1. mode' # "run"
    BY DEF doInit
  <2> QED
    BY <1>1, <2>1 DEF ConfigInv, RamIsFlash, WholeInv, Stored
<1> QED
  BY <1>2, <1>3, <1>4, <1>5 DEF ConfigInv

(* While it runs, the device writes a key; while it loads, what the flash  *)
(* says of each key, missing or not, stays as it was.                      *)
LEMMA ProcessDoes ==
  ASSUME ConfigInv, ProcessKey
  PROVE  /\ job.keys \in Seq(Keys) /\ job.keys # <<>> /\ Head(job.keys) \in Keys
         /\ mode \in {"load", "run"} /\ mode' \in {"load", "run"} /\ (mode = "run" => mode' = "run")
         /\ mode = "run" => /\ nvm' = [nvm EXCEPT ![Head(job.keys)] = ram[Head(job.keys)]]
                            /\ UNCHANGED ram
         /\ mode = "load" => \A k \in Keys : Stored(k)' = Stored(k)
<1> DEFINE h == Head(job.keys)
<1>1. job.keys \in Seq(Keys) /\ job.keys # <<>> /\ h \in Keys
  BY HeadAndTail DEF ConfigInv, ConfigTypeOK, ProcessKey
<1>2. mode \in {"load", "run"} /\ mode' \in {"load", "run"} /\ (mode = "run" => mode' = "run")
  BY <1>1 DEF ConfigInv, ConfigTypeOK, JobInv, NoJob, ProcessKey
<1>3. ASSUME mode = "run" PROVE nvm' = [nvm EXCEPT ![h] = ram[h]] /\ UNCHANGED ram
  BY <1>1, <1>3 DEF ConfigInv, JobInv, ProcessKey, _processX
<1>4. ASSUME mode = "load", NEW k \in Keys PROVE Stored(k)' = Stored(k)
  <2>1. CASE k = h /\ nvm[h] = Missing
    <3>1. nvm'[h] = ram[h]
      BY <1>1, <2>1 DEF ProcessKey, _processX, ConfigInv, ConfigTypeOK
    <3>2. ram[h] \in 0 .. MaxValue
      BY <1>1 DEF ConfigInv, ConfigTypeOK
    <3>3. ram[h] = 0
      BY <1>1, <1>4, <2>1, <3>2, ConfigTypes DEF ConfigInv, JobInv
    <3> QED
      BY <2>1, <3>1, <3>3, ConfigTypes DEF Stored
  <2>2. CASE k # h \/ nvm[h] # Missing
    <3>1. nvm'[k] = nvm[k]
      <4>1. job.dir = "read" /\ nvm \in [Keys -> 0 .. Missing]
        BY <1>4 DEF ConfigInv, ConfigTypeOK, JobInv
      <4>2. nvm' = nvm \/ (nvm' = [nvm EXCEPT ![h] = ram[h]] /\ nvm[h] = Missing)
        BY <4>1 DEF ProcessKey, _processX
      <4> QED
        BY <1>4, <2>2, <4>1, <4>2
    <3> QED
      BY <3>1, ConfigTypes DEF Stored
  <2> QED
    BY <2>1, <2>2
<1> QED
  BY <1>1, <1>2, <1>3, <1>4

(* A key that is processed is equal in flash and in its variable.          *)
LEMMA ProcessStep ==
  ASSUME ConfigInv, ProcessKey
  PROVE  ConfigInv'
<1> DEFINE h == Head(job.keys)
<1>0. job \in [dir : {"read", "write"}, keys : Seq(Keys)] /\ job.keys \in Seq(Keys) /\ job.keys # <<>>
  BY DEF ConfigInv, ConfigTypeOK, ProcessKey
<1>1. /\ h \in Keys
      /\ job'.dir = job.dir /\ job'.keys = Tail(job.keys) /\ job' \in [dir : {"read", "write"}, keys : Seq(Keys)]
      /\ UNCHANGED <<lock, pin, torn>>
  BY <1>0, HeadAndTail DEF ProcessKey
<1>2. mode \in {"load", "run"} /\ mode' \in {"load", "run"} /\ (mode = "run" => mode' = "run")
  BY ProcessDoes
<1>3. /\ nvm' \in [Keys -> 0 .. Missing] /\ ram' \in [Keys -> 0 .. MaxValue]
      /\ nvm'[h] = ram'[h]
      /\ \A k \in Keys \ {h} : nvm'[k] = nvm[k] /\ ram'[k] = ram[k]
  <2>1. nvm \in [Keys -> 0 .. Missing] /\ ram \in [Keys -> 0 .. MaxValue]
    BY DEF ConfigInv, ConfigTypeOK
  <2>2. 0 .. MaxValue \subseteq 0 .. Missing /\ 0 .. Missing = 0 .. MaxValue \cup {Missing}
    BY ConfigTypes
  <2>3. CASE job.dir = "write" \/ nvm[h] = Missing
    <3>1. nvm' = [nvm EXCEPT ![h] = ram[h]] /\ UNCHANGED ram
      BY <2>3 DEF ProcessKey, _processX
    <3> QED
      BY <1>1, <2>1, <2>2, <3>1
  <2>4. CASE ~(job.dir = "write" \/ nvm[h] = Missing)
    <3>1. ram' = [ram EXCEPT ![h] = nvm[h]] /\ UNCHANGED nvm /\ nvm[h] # Missing
      BY <2>4 DEF ProcessKey, _processX
    <3> QED
      BY <1>1, <2>1, <2>2, <3>1
  <2> QED
    BY <2>3, <2>4
<1>4. \A k \in Keys : Pending(k) => k = h \/ Pending(k)'
  BY <1>0, <1>1, HeadAndTail DEF Pending
<1>5. mode' = "run" /\ mode = "load" => \A k \in Keys : ~Pending(k)'
  BY <1>0, <1>1, HeadAndTail DEF ProcessKey, Pending
<1>6. ConfigTypeOK'
  BY <1>1, <1>2, <1>3 DEF ConfigInv, ConfigTypeOK
<1>7. LockInv' /\ RunsWithPin'
  BY <1>1, <1>2 DEF ConfigInv, LockInv, RunsWithPin
<1>8. \A k \in Keys : ram'[k] = nvm'[k] \/ (Pending(k)' /\ (mode = "load" => ram'[k] = 0))
  BY <1>1, <1>2, <1>3, <1>4 DEF ConfigInv, JobInv, RamIsFlash, Pending
<1>9. JobInv'
  <2>1. mode' = "run" => job'.dir = "write" \/ job'.keys = <<>>
    BY <1>0, <1>1, <1>2, HeadAndTail DEF ConfigInv, JobInv, ProcessKey
  <2> QED
    BY <1>1, <1>2, <1>8, <2>1 DEF ConfigInv, JobInv
<1>10. RamIsFlash'
  BY <1>8 DEF RamIsFlash, Pending
<1>11. WholeInv'
  <2> SUFFICES ASSUME NEW s \in Settings \ torn, NEW k \in KeysIn(s), NEW l \in KeysIn(s)
               PROVE  IF mode' = "run" THEN ram'[k] = ram'[l] ELSE Stored(k)' = Stored(l)'
    BY <1>1 DEF WholeInv
  <2>1. k \in Keys /\ l \in Keys
    BY ConfigTypes
  <2>2. CASE mode = "run"
    <3>1. UNCHANGED ram
      BY <2>2, ProcessDoes
    <3> QED
      BY <1>2, <2>2, <3>1 DEF ConfigInv, WholeInv
  <2>3. CASE mode = "load"
    <3>1. \A j \in Keys : Stored(j)' = Stored(j)
      BY <2>3, ProcessDoes
    <3>2. Stored(k)' = Stored(l)'
      BY <2>1, <2>3, <3>1 DEF ConfigInv, WholeInv
    <3>3. CASE mode' = "run"
      <4>1. ram'[k] = nvm'[k] /\ ram'[l] = nvm'[l]
        BY <1>5, <1>8, <2>1, <2>3, <3>3
      <4>2. ram'[k] \in 0 .. MaxValue /\ ram'[l] \in 0 .. MaxValue
        BY <1>3, <2>1
      <4>3. Stored(k)' = ram'[k] /\ Stored(l)' = ram'[l]
        BY <4>1, <4>2, ConfigTypes DEF Stored
      <4> QED
        BY <3>2, <3>3, <4>3
    <3> QED
      BY <3>2, <3>3
  <2> QED
    BY <1>2, <2>2, <2>3
<1> QED
  BY <1>6, <1>7, <1>9, <1>10, <1>11 DEF ConfigInv

(* The variables at once, the keys one after the other.                    *)
LEMMA SetStep ==
  ASSUME ConfigInv, mode = "run", job.keys = <<>>, NEW s \in Settings,
         NEW values, \A k \in KeysIn(s) : values[k] \in 0 .. MaxValue,
         NEW alike \in BOOLEAN, alike => \A k, l \in KeysIn(s) : values[k] = values[l],
         SetSetting(s, values, alike)
  PROVE  ConfigInv'
<1>1. /\ job' = [dir |-> "write", keys |-> KeysOf[s]] /\ UNCHANGED <<nvm, lock, mode, pin>>
      /\ nvm \in [Keys -> 0 .. Missing]
  BY DEF SetSetting, KeysToWrite, ConfigInv, ConfigTypeOK
<1>2. ram' \in [Keys -> 0 .. MaxValue] /\ torn' \subseteq Settings
      /\ \A k \in Keys : ram'[k] = IF k \in KeysIn(s) THEN values[k] ELSE ram[k]
  BY DEF SetSetting, ConfigInv, ConfigTypeOK
<1>3. ConfigTypeOK'
  BY <1>1, <1>2, ConfigTypes DEF ConfigInv, ConfigTypeOK
<1>4. JobInv' /\ LockInv' /\ RunsWithPin'
  BY <1>1 DEF ConfigInv, JobInv, LockInv, RunsWithPin
<1>5. RamIsFlash'
  <2>1. \A k \in Keys : k \notin KeysIn(s) => ram'[k] = nvm'[k]
    BY <1>1, <1>2 DEF ConfigInv, RamIsFlash
  <2>2. \A k \in KeysIn(s) : \E i \in DOMAIN job'.keys : job'.keys[i] = k
    BY <1>1 DEF KeysIn
  <2> QED
    BY <2>1, <2>2 DEF RamIsFlash
<1>6. WholeInv'
  <2> SUFFICES ASSUME NEW t \in Settings \ torn', NEW k \in KeysIn(t), NEW l \in KeysIn(t)
               PROVE  ram'[k] = ram'[l]
    BY <1>1 DEF WholeInv
  <2>1. k \in Keys /\ l \in Keys
    BY ConfigTypes
  <2>2. CASE t = s
    BY <1>2, <2>1, <2>2 DEF SetSetting
  <2>3. CASE t # s
    <3>1. t \notin torn /\ k \notin KeysIn(s) /\ l \notin KeysIn(s)
      BY <2>3, ConfigAssumption DEF SetSetting
    <3> QED
      BY <1>2, <2>1, <3>1 DEF ConfigInv, WholeInv
  <2> QED
    BY <2>2, <2>3
<1> QED
  BY <1>3, <1>4, <1>5, <1>6 DEF ConfigInv

(* A restart forgets the variables; a setting with a key that is not yet   *)
(* written is torn.                                                        *)
LEMMA RestartStep ==
  ASSUME ConfigInv, Restart, UNCHANGED nvm, lock' \in {"missing", "0", "id"}, pin' \in BOOLEAN, LockInv'
  PROVE  ConfigInv'
<1>1. mode' = "off" /\ job' = NoJob /\ ram' = [k \in Keys |-> 0] /\ torn \subseteq torn' /\ torn' \subseteq Settings
  BY DEF Restart, ConfigInv, ConfigTypeOK
<1>2. ConfigTypeOK'
  BY <1>1, ConfigTypes DEF ConfigInv, ConfigTypeOK
<1>3. JobInv' /\ RamIsFlash' /\ RunsWithPin'
  BY <1>1 DEF JobInv, RamIsFlash, RunsWithPin
<1>4. WholeInv'
  <2> SUFFICES ASSUME NEW s \in Settings \ torn', NEW k \in KeysIn(s), NEW l \in KeysIn(s)
               PROVE  Stored(k) = Stored(l)
    BY <1>1 DEF WholeInv, Stored
  <2>1. k \in Keys /\ l \in Keys /\ s \notin torn
    BY <1>1, ConfigTypes
  <2>2. CASE mode = "run"
    <3>1. ram[k] = ram[l]
      BY <2>1, <2>2 DEF ConfigInv, WholeInv
    <3>2. ~Pending(k) /\ ~Pending(l)
      BY <2>2 DEF ConfigInv, JobInv, Restart, Pending
    <3>3. ram[k] = nvm[k] /\ ram[l] = nvm[l]
      BY <2>1, <2>2, <3>2 DEF ConfigInv, RamIsFlash, Pending
    <3> QED
      BY <3>1, <3>3 DEF Stored
  <2>3. CASE mode # "run"
    BY <2>1, <2>3 DEF ConfigInv, WholeInv
  <2> QED
    BY <2>2, <2>3
<1> QED
  BY <1>2, <1>3, <1>4 DEF ConfigInv

LEMMA LockSteps ==
  ASSUME ConfigInv
  PROVE  /\ PowerFails => ConfigInv'
         /\ cfgLock => ConfigInv'
         /\ \A pin_ok \in BOOLEAN : cfgUnlock(pin_ok) => ConfigInv'
         /\ UNCHANGED nvmVars => ConfigInv'
<1>1. ASSUME PowerFails PROVE ConfigInv'
  <2>1. lock' \in {"missing", "0", "id"} /\ pin' \in BOOLEAN /\ LockInv'
    BY <1>1 DEF PowerFails, Restart, ConfigInv, ConfigTypeOK, LockInv
  <2> QED
    BY <1>1, <2>1, RestartStep DEF PowerFails
<1>2. ASSUME cfgLock PROVE ConfigInv'
  <2>1. lock' \in {"missing", "0", "id"} /\ pin' \in BOOLEAN /\ LockInv'
    BY <1>2 DEF cfgLock, Restart, LockInv
  <2> QED
    BY <1>2, <2>1, RestartStep DEF cfgLock
<1>3. ASSUME UNCHANGED nvmVars PROVE ConfigInv'
  <2>1. UNCHANGED nvmVars => /\ ConfigTypeOK' = ConfigTypeOK /\ JobInv' = JobInv /\ RamIsFlash' = RamIsFlash
                             /\ LockInv' = LockInv /\ RunsWithPin' = RunsWithPin /\ WholeInv' = WholeInv
    BY DEF nvmVars, ConfigTypeOK, JobInv, RamIsFlash, LockInv, RunsWithPin, WholeInv, Pending, Stored
  <2> QED
    BY <1>3, <2>1 DEF ConfigInv
<1>4. ASSUME NEW pin_ok \in BOOLEAN, cfgUnlock(pin_ok) PROVE ConfigInv'
  <2>1. CASE pin_ok
    <3>1. lock' \in {"missing", "0", "id"} /\ pin' \in BOOLEAN /\ LockInv'
      BY <1>4, <2>1 DEF cfgUnlock, Restart, LockInv
    <3> QED
      BY <1>4, <2>1, <3>1, RestartStep DEF cfgUnlock
  <2>2. CASE ~pin_ok
    BY <1>3, <1>4, <2>2 DEF cfgUnlock
  <2> QED
    BY <2>1, <2>2
<1> QED
  BY <1>1, <1>2, <1>3, <1>4

-----------------------------------------------------------------------------
(* Each operation of the parser keeps ParserInv.                           *)
LEMMA MinOfTwo ==
  ASSUME NEW a \in Int, NEW b \in Int
  PROVE  Min({a, b}) = IF a <= b THEN a ELSE b
<1> DEFINE m == IF a <= b THEN a ELSE b
<1>1. m \in {a, b} /\ \A y \in {a, b} : m <= y
  OBVIOUS
<1>2. \A x \in {a, b} : (\A y \in {a, b} : x <= y) => x = m
  OBVIOUS
<1> HIDE DEF m
<1>3. Min({a, b}) = m
  BY <1>1, <1>2 DEF Min
<1> QED
  BY <1>3 DEF m

LEMMA ParserTypes ==
  /\ NumChars \in Nat /\ NumChars > 2 /\ 0 \in Cells /\ NumChars - 1 \in Cells
  /\ ArgsCmds \in Nat \ {0} /\ ArgsStrings \in Nat \ {0} /\ ArgsStrings <= ArgsCmds
  /\ MaxFields \in Nat /\ Old = MaxFields + 1
  /\ "id" \in Commands /\ "unlock" \in Commands
BY ParserAssumption DEF Cells, Old

(* The variables of an empty line.                                         *)
LEMMA EmptyLine ==
  /\ DOMAIN NoValues = 0 .. ArgsCmds - 1 /\ DOMAIN NoStrings = 0 .. ArgsStrings - 1
  /\ \A i \in DOMAIN NoValues : NoValues[i] = 0
  /\ \A i \in DOMAIN NoStrings : NoStrings[i] = 0
BY DEF NoValues, NoStrings

LEMMA ParserInits == ParserInit => ParserInv
<1> SUFFICES ASSUME ParserInit PROVE ParserInv
  OBVIOUS
<1>1. chars \in [Cells -> {"typed", "old", "space", "zero"}] /\ ndx \in Cells
  BY ParserTypes DEF ParserInit
<1>2. ParserTypeOK
  <2>1. 0 \in 0 .. ArgsCmds /\ 0 \in 0 .. ArgsCmds + 1 /\ 0 \in 0 .. Old /\ 0 \in 0 .. MaxFields
    BY ParserTypes
  <2> QED
    BY <1>1, <2>1, ParserTypes, EmptyLine DEF ParserInit, ParserTypeOK
<1>3. LineInv /\ LineIsRead
  BY ParserTypes, EmptyLine DEF ParserInit, LineInv, LineStart, LineIsRead
<1> QED
  BY <1>2, <1>3 DEF ParserInv

(* The types after a field.                                                *)
LEMMA FieldTypes ==
  ASSUME ParserTypeOK, NEW last \in BOOLEAN, ParseDelimValues(last)
  PROVE  /\ chars' \in [Cells -> {"typed", "old", "space", "zero"}] /\ ndx' \in Cells /\ clean' \in BOOLEAN
         /\ rx_cmd' \in Commands /\ rx_index' \in 0 .. ArgsCmds
         /\ DOMAIN rx_vals' = 0 .. ArgsCmds - 1 /\ \A i \in DOMAIN rx_vals' : rx_vals'[i] \in 0 .. Old
         /\ DOMAIN rx_strs' = 0 .. ArgsStrings - 1 /\ \A i \in DOMAIN rx_strs' : rx_strs'[i] \in 0 .. MaxFields
<1>1. ndx' \in Cells /\ clean' \in BOOLEAN
  BY ParserTypes DEF ParserTypeOK, ParseDelimValues
<1>2. \A mark \in {"space", "zero"} : Cut(mark, last) \in [Cells -> {"typed", "old", "space", "zero"}]
  BY DEF Cut, ParserTypeOK
<1>3. chars' \in [Cells -> {"typed", "old", "space", "zero"}]
  BY <1>2 DEF ParseDelimValues, CommandField, ValueField, StringField, DroppedField
<1>4. params \in 0 .. MaxFields /\ params \in 0 .. Old /\ 0 \in 0 .. MaxFields /\ Old \in 0 .. Old /\ 0 \in 0 .. Old
  BY ParserTypes DEF ParserTypeOK
<1>5. CASE CommandField(last)
  BY <1>1, <1>3, <1>5, ParserTypes DEF CommandField, ParserTypeOK
<1>6. CASE ValueField(last)
  <2> DEFINE i == Min({rx_index, ArgsCmds - 1})
  <2>1. i \in 0 .. ArgsCmds - 1
    BY MinOfTwo, ParserTypes DEF ParserTypeOK
  <2> HIDE DEF i
  <2>2. PICK v \in 0 .. Old : rx_vals' = [rx_vals EXCEPT ![i] = v]
    BY <1>4, <1>6 DEF ValueField, i
  <2>3. rx_index' = i + 1 /\ UNCHANGED <<rx_cmd, rx_strs>>
    BY <1>6 DEF ValueField, i
  <2> QED
    BY <1>1, <1>3, <2>1, <2>2, <2>3, ParserTypes DEF ParserTypeOK
<1>7. CASE StringField(last)
  <2> DEFINE i == Min({rx_index, ArgsStrings - 1})
  <2>1. i \in 0 .. ArgsStrings - 1
    BY MinOfTwo, ParserTypes DEF ParserTypeOK
  <2> HIDE DEF i
  <2>2. PICK v \in 0 .. MaxFields : rx_strs' = [rx_strs EXCEPT ![i] = v]
    BY <1>4, <1>7 DEF StringField, i
  <2>3. rx_index' = i + 1 /\ UNCHANGED <<rx_cmd, rx_vals>>
    BY <1>7 DEF StringField, i
  <2> QED
    BY <1>1, <1>3, <2>1, <2>2, <2>3, ParserTypes DEF ParserTypeOK
<1>8. CASE DroppedField(last)
  BY <1>1, <1>3, <1>8 DEF DroppedField, rxVars, ParserTypeOK
<1> QED
  BY <1>5, <1>6, <1>7, <1>8 DEF ParseDelimValues

(* What a field that is not empty adds to the line.                        *)
LEMMA FieldRead ==
  ASSUME ParserInv, ~new_data, NEW last \in BOOLEAN, ParseDelimValues(last), clean'
  PROVE  /\ clean /\ \A i \in DOMAIN rx_vals' : rx_vals'[i] # Old
         /\ params = 0 => rx_vals' = NoValues /\ rx_index' = 0
         /\ params \in 1 .. ArgsCmds /\ rx_cmd' # "unlock" => rx_index' = params /\ Filled(rx_vals', params)
         /\ params \in 1 .. ArgsStrings /\ rx_cmd' = "unlock" => rx_index' = params /\ rx_strs'[params - 1] = params
<1>1. clean /\ ndx > 0
  BY DEF ParseDelimValues, ParserInv, ParserTypeOK
<1>2. /\ params \in 0 .. MaxFields /\ params # Old /\ value_ix \in 0 .. ArgsCmds + 1
      /\ params <= ArgsCmds => value_ix = params
      /\ rx_index \in 0 .. ArgsCmds
      /\ DOMAIN rx_vals = 0 .. ArgsCmds - 1 /\ DOMAIN rx_strs = 0 .. ArgsStrings - 1
      /\ \A i \in DOMAIN rx_vals : rx_vals[i] # Old
      /\ params = 0 => LineStart
  BY <1>1, ParserTypes DEF ParserInv, ParserTypeOK, LineInv
<1>3. /\ params \in 1 .. ArgsCmds /\ rx_cmd # "unlock" => rx_index = params - 1 /\ Filled(rx_vals, params - 1)
      /\ params \in 1 .. ArgsStrings /\ rx_cmd = "unlock" => rx_index = params - 1
  BY <1>1, ParserTypes DEF ParserInv, LineInv
<1>4. CASE CommandField(last)
  BY <1>1, <1>2, <1>4, ParserTypes DEF CommandField, LineStart
<1>5. CASE ValueField(last)
  <2> DEFINE i == Min({rx_index, ArgsCmds - 1})
  <2>1. i \in 0 .. ArgsCmds - 1 /\ (rx_index <= ArgsCmds - 1 => i = rx_index)
    BY <1>2, MinOfTwo, ParserTypes
  <2>2. rx_vals' = [rx_vals EXCEPT ![i] = params] /\ rx_index' = i + 1 /\ UNCHANGED <<rx_cmd, rx_strs>>
    BY <1>1, <1>5 DEF ValueField
  <2>3. value_ix \in 1 .. ArgsCmds /\ rx_cmd # "unlock"
    BY <1>5 DEF ValueField
  <2> HIDE DEF i
  <2>4. \A j \in DOMAIN rx_vals' : rx_vals'[j] # Old
    BY <1>2, <2>1, <2>2
  <2>5. params # 0
    BY <1>2, <2>3, ParserTypes
  <2>6. ASSUME params \in 1 .. ArgsCmds PROVE rx_index' = params /\ Filled(rx_vals', params)
    <3>1. i = params - 1 /\ Filled(rx_vals, params - 1)
      BY <1>2, <1>3, <2>1, <2>3, <2>6, ParserTypes
    <3>2. rx_index' = params
      BY <2>2, <3>1, <1>2
    <3>3. Filled(rx_vals', params)
      BY <1>2, <2>2, <3>1, ParserTypes DEF Filled
    <3> QED
      BY <3>2, <3>3
  <2> QED
    BY <1>1, <2>2, <2>3, <2>4, <2>5, <2>6
<1>6. CASE StringField(last)
  <2> DEFINE i == Min({rx_index, ArgsStrings - 1})
  <2>1. i \in 0 .. ArgsStrings - 1 /\ (rx_index <= ArgsStrings - 1 => i = rx_index)
    BY <1>2, MinOfTwo, ParserTypes
  <2>2. rx_strs' = [rx_strs EXCEPT ![i] = params] /\ rx_index' = i + 1 /\ UNCHANGED <<rx_cmd, rx_vals>>
    BY <1>1, <1>6 DEF StringField
  <2>3. value_ix \in 1 .. ArgsCmds /\ rx_cmd = "unlock"
    BY <1>6 DEF StringField
  <2> HIDE DEF i
  <2>4. params # 0
    BY <1>2, <2>3, ParserTypes
  <2>5. ASSUME params \in 1 .. ArgsStrings PROVE rx_index' = params /\ rx_strs'[params - 1] = params
    <3>1. i = params - 1
      BY <1>3, <2>1, <2>3, <2>5, ParserTypes
    <3> QED
      BY <1>2, <2>1, <2>2, <3>1
  <2> QED
    BY <1>1, <1>2, <2>2, <2>3, <2>4, <2>5
<1>7. CASE DroppedField(last)
  BY <1>1, <1>2, <1>7, ParserTypes DEF DroppedField, rxVars
<1> QED
  BY <1>4, <1>5, <1>6, <1>7 DEF ParseDelimValues

LEMMA DelimiterStep ==
  ASSUME ParserInv, Delimiter
  PROVE  ParserInv'
<1>1. /\ ~new_data /\ new_data' = new_data /\ new_data \in BOOLEAN
      /\ params \in 0 .. MaxFields - 1 /\ params' = params + 1
      /\ value_ix' = IF value_ix = ArgsCmds + 1 THEN ArgsCmds ELSE value_ix + 1
      /\ value_ix \in 0 .. ArgsCmds + 1 /\ ParserTypeOK /\ ParseDelimValues(FALSE)
      /\ params <= ArgsCmds => value_ix = params
  <2>1. ParserTypeOK /\ ~new_data /\ (params <= ArgsCmds => value_ix = params)
    BY DEF ParserInv, LineInv, Delimiter
  <2>2. params \in 0 .. MaxFields - 1
    BY <2>1, ParserTypes DEF ParserTypeOK, Delimiter
  <2> QED
    BY <2>1, <2>2 DEF ParserTypeOK, Delimiter
<1>2. ParserTypeOK'
  <2>1. value_ix' \in 0 .. ArgsCmds + 1 /\ params' \in 0 .. MaxFields
    BY <1>1, ParserTypes
  <2> QED
    BY <1>1, <2>1, FieldTypes DEF ParserTypeOK
<1>3. (params' <= ArgsCmds => value_ix' = params') /\ params' # 0 /\ params' - 1 = params
  BY <1>1, ParserTypes
<1>4. ASSUME clean'
      PROVE  /\ \A i \in DOMAIN rx_vals' : rx_vals'[i] # Old
             /\ params' \in 1 .. ArgsCmds =>
                  IF rx_cmd' = "unlock" THEN params' - 1 <= ArgsStrings => rx_index' = params' - 1
                                        ELSE rx_index' = params' - 1 /\ Filled(rx_vals', params' - 1)
  <2>1. /\ \A i \in DOMAIN rx_vals' : rx_vals'[i] # Old
        /\ params = 0 => rx_vals' = NoValues /\ rx_index' = 0
        /\ params \in 1 .. ArgsCmds /\ rx_cmd' # "unlock" => rx_index' = params /\ Filled(rx_vals', params)
        /\ params \in 1 .. ArgsStrings /\ rx_cmd' = "unlock" => rx_index' = params /\ rx_strs'[params - 1] = params
    BY <1>1, <1>4, FieldRead
  <2>2. CASE params = 0
    <3>1. Filled(rx_vals', 0)
      BY <2>1, <2>2, EmptyLine, ParserTypes DEF Filled
    <3> QED
      BY <1>3, <2>1, <2>2, <3>1
  <2>3. CASE params \in 1 .. ArgsCmds
    BY <1>3, <2>1, <2>3, ParserTypes
  <2>4. CASE params > ArgsCmds
    BY <1>1, <2>1, <2>4, ParserTypes
  <2> QED
    BY <1>1, <2>2, <2>3, <2>4, ParserTypes
<1>5. LineInv'
  BY <1>1, <1>3, <1>4 DEF LineInv
<1>6. LineIsRead'
  BY <1>1 DEF LineIsRead
<1> QED
  BY <1>2, <1>5, <1>6 DEF ParserInv

LEMMA EndOfLineStep ==
  ASSUME ParserInv, EndOfLine
  PROVE  ParserInv'
<1>1. /\ ~new_data /\ new_data' = TRUE /\ params \in 0 .. MaxFields /\ params' = params /\ value_ix' = 0
      /\ ParserTypeOK /\ ParseDelimValues(TRUE)
  BY DEF ParserInv, ParserTypeOK, EndOfLine
<1>2. ParserTypeOK'
  <2>1. value_ix' \in 0 .. ArgsCmds + 1 /\ params' \in 0 .. MaxFields
    BY <1>1, ParserTypes
  <2> QED
    BY <1>1, <2>1, FieldTypes DEF ParserTypeOK
<1>3. LineInv'
  <2>1. clean' => \A i \in DOMAIN rx_vals' : rx_vals'[i] # Old
    BY <1>1, FieldRead
  <2> QED
    BY <1>1, <2>1 DEF LineInv
<1>4. LineIsRead'
  <2> SUFFICES ASSUME clean', params <= ArgsCmds
               PROVE  \/ rx_cmd' # "unlock" /\ Filled(rx_vals', params)
                      \/ rx_cmd' = "unlock" /\ (params \in 1 .. ArgsStrings => rx_strs'[params - 1] = params)
    BY <1>1 DEF LineIsRead, Filled
  <2>1. /\ \A i \in DOMAIN rx_vals' : rx_vals'[i] # Old
        /\ params = 0 => rx_vals' = NoValues /\ rx_index' = 0
        /\ params \in 1 .. ArgsCmds /\ rx_cmd' # "unlock" => rx_index' = params /\ Filled(rx_vals', params)
        /\ params \in 1 .. ArgsStrings /\ rx_cmd' = "unlock" => rx_index' = params /\ rx_strs'[params - 1] = params
    BY <1>1, FieldRead
  <2>2. CASE params = 0
    <3>1. Filled(rx_vals', 0)
      BY <2>1, <2>2, EmptyLine, ParserTypes DEF Filled
    <3> QED
      BY <2>2, <3>1
  <2>3. CASE params \in 1 .. ArgsCmds
    BY <2>1, <2>3, ParserTypes
  <2> QED
    BY <1>1, <2>2, <2>3, ParserTypes
<1> QED
  BY <1>2, <1>3, <1>4 DEF ParserInv

LEMMA TypeCharStep ==
  ASSUME ParserInv, TypeChar
  PROVE  ParserInv'
<1>1. /\ ~new_data /\ chars' = [chars EXCEPT ![ndx] = "typed"]
      /\ UNCHANGED <<value_ix, rx_cmd, rx_vals, rx_strs, rx_index, new_data, params, clean>>
  BY DEF TypeChar, rxVars
<1>2. ndx' \in Cells
  BY MinOfTwo, ParserTypes DEF ParserInv, ParserTypeOK, TypeChar, Cells
<1>3. ParserTypeOK'
  BY <1>1, <1>2 DEF ParserInv, ParserTypeOK
<1> QED
  BY <1>1, <1>3 DEF ParserInv, LineInv, LineStart, LineIsRead

(* clear(), and what a restart leaves of a line.                           *)
LEMMA ClearSteps ==
  ASSUME ParserInv
  PROVE  /\ new_data /\ clear => ParserInv'
         /\ ParserLost => ParserInv'
         /\ UNCHANGED parserVars => ParserInv'
<1>1. ASSUME new_data, clear PROVE ParserInv'
  <2>1. /\ LineStart' /\ new_data' = FALSE /\ params' = 0 /\ clean' = TRUE
        /\ UNCHANGED <<chars, ndx, value_ix>> /\ value_ix = 0
    BY <1>1 DEF clear, LineStart, ParserInv, LineInv
  <2>2. ParserTypeOK'
    <3>1. 0 \in 0 .. ArgsCmds /\ 0 \in 0 .. Old /\ 0 \in 0 .. MaxFields
      BY ParserTypes
    <3> QED
      BY <2>1, <3>1, EmptyLine, ParserTypes DEF ParserInv, ParserTypeOK, LineStart
  <2>3. LineInv' /\ LineIsRead'
    BY <2>1, EmptyLine, ParserTypes DEF LineInv, LineStart, LineIsRead
  <2> QED
    BY <2>2, <2>3 DEF ParserInv
<1>2. ASSUME ParserLost PROVE ParserInv'
  <2>1. ParserInit' => ParserInv'
    BY ParserInits, PTL
  <2> QED
    BY <1>2, <2>1 DEF ParserLost, ParserInit
<1>3. ASSUME UNCHANGED parserVars PROVE ParserInv'
  <2>1. ParserTypeOK' = ParserTypeOK /\ LineInv' = LineInv /\ LineIsRead' = LineIsRead
    BY <1>3 DEF parserVars, ParserTypeOK, LineInv, LineStart, LineIsRead
  <2> QED
    BY <2>1 DEF ParserInv
<1> QED
  BY <1>1, <1>2, <1>3

-----------------------------------------------------------------------------
(* The terminal.  The values of a line without an empty field are those    *)
(* that were typed, so a setting all of whose values are there is given    *)
(* one value.                                                              *)
LEMMA TypedValues ==
  ASSUME ParserInv, NEW s \in Settings, NEW v \in 1 .. MaxValue - 1
  PROVE  /\ \A k \in KeysIn(s) : NewValues(s, v)[k] \in 0 .. MaxValue
         /\ clean /\ AllGiven(s) => \A k, l \in KeysIn(s) : NewValues(s, v)[k] = NewValues(s, v)[l]
<1>1. v \in 0 .. MaxValue /\ MaxValue \in 0 .. MaxValue /\ 0 \in 0 .. MaxValue
  BY ConfigTypes
<1>2. ASSUME NEW k \in KeysIn(s) PROVE NewValues(s, v)[k] \in {0, v, MaxValue}
  <2> DEFINE x == rx_vals[(CHOOSE i \in DOMAIN KeysOf[s] : KeysOf[s][i] = k) - 1]
  <2>1. NewValues(s, v)[k] = CASE x = 0 -> 0 [] x = Old -> MaxValue [] OTHER -> v
    BY Zenon DEF NewValues
  <2> HIDE DEF x
  <2> QED
    BY <2>1, Zenon
<1>3. ASSUME clean, AllGiven(s), NEW k \in KeysIn(s) PROVE NewValues(s, v)[k] = v
  <2> DEFINE i == CHOOSE i \in DOMAIN KeysOf[s] : KeysOf[s][i] = k
  <2>1. i \in DOMAIN KeysOf[s]
    BY DEF KeysIn
  <2>2. NewValues(s, v)[k] = CASE rx_vals[i - 1] = 0   -> 0
                               [] rx_vals[i - 1] = Old -> MaxValue
                               [] OTHER                -> v
    BY Zenon DEF NewValues
  <2> HIDE DEF i
  <2>3. Len(KeysOf[s]) \in Nat /\ i \in 1 .. Len(KeysOf[s]) /\ Len(KeysOf[s]) <= ArgsCmds
    BY <2>1, ConfigTypes, TerminalAssumption
  <2>4. i - 1 \in DOMAIN rx_vals
    BY <2>3, ParserTypes DEF ParserInv, ParserTypeOK
  <2>5. rx_vals[i - 1] # Old /\ rx_vals[i - 1] # 0
    BY <1>3, <2>3, <2>4 DEF ParserInv, LineInv, AllGiven
  <2> QED
    BY <2>2, <2>5, Zenon
<1> QED
  BY <1>1, <1>2, <1>3

LEMMA CommandStep ==
  ASSUME ParserInv, ConfigInv, WhenLocked \/ WhenRunning
  PROVE  ParserInv' /\ ConfigInv'
<1>1. ParserInv'
  BY ClearSteps DEF WhenLocked, WhenRunning, AfterCommand
<1>2. ASSUME WhenLocked PROVE ConfigInv'
  BY <1>2, LockSteps DEF WhenLocked
<1>3. ASSUME WhenRunning PROVE ConfigInv'
  <2>1. CASE cfgLock \/ UNCHANGED nvmVars
    BY <2>1, LockSteps
  <2>2. ASSUME rx_cmd \in Settings, NEW v \in 1 .. MaxValue - 1,
               SetSetting(rx_cmd, NewValues(rx_cmd, v), clean /\ AllGiven(rx_cmd))
        PROVE  ConfigInv'
    <3>1. mode = "run" /\ job.keys = <<>>
      BY <1>3 DEF WhenRunning, Idle
    <3>2. PICK s \in Settings : s = rx_cmd
      BY <2>2
    <3>3. PICK values : values = NewValues(s, v)
      OBVIOUS
    <3>4. /\ \A k \in KeysIn(s) : values[k] \in 0 .. MaxValue
          /\ clean /\ AllGiven(s) => \A k, l \in KeysIn(s) : values[k] = values[l]
      BY <2>2, <3>3, TypedValues
    <3>5. PICK alike \in BOOLEAN : alike = (clean /\ AllGiven(s))
      BY Zenon
    <3>6. SetSetting(s, values, alike)
      BY <2>2, <3>2, <3>3, <3>5, Zenon
    <3> QED
      BY <3>1, <3>4, <3>5, <3>6, SetStep
  <2> QED
    BY <1>3, <2>1, <2>2 DEF WhenRunning
<1> QED
  BY <1>1, <1>2, <1>3

LEMMA TerminalStep ==
  ASSUME ParserInv, ConfigInv, [TerminalNext]_terminalVars
  PROVE  ParserInv' /\ ConfigInv'
<1>1. CASE Receive
  BY <1>1, TypeCharStep, DelimiterStep, EndOfLineStep, LockSteps DEF Receive, checkSerial
<1>2. CASE WhenLocked \/ WhenRunning
  BY <1>2, CommandStep
<1>3. CASE doInit /\ UNCHANGED parserVars
  BY <1>3, DoInitStep, ClearSteps
<1>4. CASE ProcessKey /\ UNCHANGED parserVars
  BY <1>4, ProcessStep, ClearSteps
<1>5. CASE PowerFails /\ ParserLost
  BY <1>5, LockSteps, ClearSteps
<1>6. CASE UNCHANGED terminalVars
  BY <1>6, LockSteps, ClearSteps DEF terminalVars
<1> QED
  BY <1>1, <1>2, <1>3, <1>4, <1>5, <1>6 DEF TerminalNext

-----------------------------------------------------------------------------
(* The buttons.                                                            *)
LEMMA ButtonTypes ==
  /\ NUM_DX \in Nat \ {0} /\ RoundDone = NUM_DX + 1 /\ RoundDone \in 1 .. RoundDone /\ 1 \in 1 .. RoundDone
  /\ Samples \in Nat \ {0} /\ Period \in Nat \ {0} /\ 0 \in 0 .. Period /\ 0 \in 0 .. Samples
  /\ None \notin Btns /\ 0 \in 0 .. NUM_DX
  /\ \A d \in Dx : d \in 1 .. RoundDone /\ d + 1 \in 1 .. RoundDone /\ d \in 0 .. NUM_DX
BY ButtonsAssumption DEF RoundDone, None, Btns, Dx

LEMMA ButtonsInits == ButtonsInit => ButtonsInv
<1> SUFFICES ASSUME ButtonsInit PROVE ButtonsInv
  OBVIOUS
<1>1. ButtonsTypeOK
  BY ButtonTypes DEF ButtonsInit, ButtonsTypeOK
<1>2. SampledInv /\ ActiveInv /\ ReportIsFresh
  BY DEF ButtonsInit, SampledInv, ActiveInv, ReportIsFresh
<1> QED
  BY <1>1, <1>2 DEF ButtonsInv

(* A look at a dispenser: what it reads is held, or was sampled before.    *)
LEMMA LookStep ==
  ASSUME ButtonsInv, NEW d \in Dx, btnLoop(d)
  PROVE  ButtonsInv'
<1>0. ButtonsTypeOK /\ held[d] \in Btns \cup {None} /\ NewBuf(d) \in SUBSET Btns
      /\ NewBuf(d) \subseteq buf[d] \cup ({held[d]} \ {None})
  BY DEF ButtonsInv, ButtonsTypeOK, NewBuf
<1>1. NewCount(d) \in 0 .. Samples
  <2>1. count[d] \in 0 .. Samples
    BY <1>0 DEF ButtonsTypeOK
  <2> QED
    BY <2>1, MinOfTwo, ButtonTypes DEF NewCount
<1>2. PICK button \in Readings(d) :
        /\ FirstPass(d, button) \/ NoPass(d, button) \/ SecondPass(d, button)
        /\ IF IsEvent(d, button)
           THEN /\ seen' = [seen EXCEPT ![d] = {}]
                /\ serving' = "session" /\ active' = d /\ next' = RoundDone
           ELSE /\ seen' = [seen EXCEPT ![d] = @ \cup ({held[d]} \ {None})]
                /\ next' = IF serving = "idle" THEN d + 1 ELSE RoundDone
                /\ UNCHANGED <<serving, active>>
  BY DEF btnLoop
<1>3. button \in NewBuf(d) \cup {None}
  BY DEF Readings
<1>4. PICK b \in {NewBuf(d), {}}, c \in 0 .. Samples, phase \in {1, 2}, last \in {lastBtn[d], button} :
        /\ buf' = [buf EXCEPT ![d] = b] /\ count' = [count EXCEPT ![d] = c]
        /\ readPhase' = [readPhase EXCEPT ![d] = phase]
        /\ lastBtn' = [lastBtn EXCEPT ![d] = last]
        /\ elapsed' \in {0, elapsed}
        /\ IsEvent(d, button) => b = {} /\ last = None
  <2>1. readPhase[d] \in {1, 2} /\ lastBtn = [lastBtn EXCEPT ![d] = lastBtn[d]]
        /\ readPhase = [readPhase EXCEPT ![d] = readPhase[d]]
    BY <1>0 DEF ButtonsTypeOK
  <2>2. CASE FirstPass(d, button)
    <3>1. /\ buf' = [buf EXCEPT ![d] = NewBuf(d)] /\ count' = [count EXCEPT ![d] = NewCount(d)]
          /\ readPhase' = [readPhase EXCEPT ![d] = 2] /\ lastBtn' = [lastBtn EXCEPT ![d] = lastBtn[d]]
          /\ elapsed' = 0 /\ ~IsEvent(d, button)
      BY <2>1, <2>2 DEF FirstPass, Keeps, IsEvent
    <3> QED
      BY <1>1, <3>1
  <2>3. CASE NoPass(d, button)
    <3>1. ~IsEvent(d, button)
      BY <1>0, <2>3, ButtonTypes DEF NoPass, IsEvent, ButtonsTypeOK
    <3> QED
      BY <1>1, <2>1, <2>3, <3>1 DEF NoPass, Keeps
  <2>4. CASE SecondPass(d, button)
    BY <1>1, <2>1, <2>4, ButtonTypes DEF SecondPass, NewLast, IsEvent
  <2> QED
    BY <1>2, <2>2, <2>3, <2>4
<1>5. PICK fresh \in SUBSET Btns :
        /\ seen' = [seen EXCEPT ![d] = fresh]
        /\ IF IsEvent(d, button) THEN fresh = {} ELSE fresh = seen[d] \cup ({held[d]} \ {None})
  BY <1>0, <1>2 DEF ButtonsTypeOK
<1>6. b \subseteq fresh /\ (last # None => last \in fresh)
  BY <1>0, <1>3, <1>4, <1>5 DEF ButtonsInv, SampledInv, ReportIsFresh
<1>7. ButtonsTypeOK'
  <2>1. UNCHANGED held /\ next' \in 1 .. RoundDone /\ active' \in 0 .. NUM_DX
        /\ serving' \in {"idle", "session", "pouring"}
    BY <1>0, <1>2, ButtonTypes DEF btnLoop, ButtonsTypeOK
  <2>2. last \in Btns \cup {None} /\ b \in SUBSET Btns /\ elapsed' \in 0 .. Period
    BY <1>0, <1>3, <1>4, ButtonTypes DEF ButtonsTypeOK
  <2> QED
    BY <1>0, <1>4, <1>5, <2>1, <2>2 DEF ButtonsTypeOK
<1>8. ActiveInv'
  BY <1>2 DEF ButtonsInv, ActiveInv
<1>9. SampledInv' /\ ReportIsFresh'
  BY <1>0, <1>4, <1>5, <1>6 DEF ButtonsInv, ButtonsTypeOK, SampledInv, ReportIsFresh
<1> QED
  BY <1>7, <1>8, <1>9 DEF ButtonsInv

LEMMA ButtonsStep ==
  ASSUME ButtonsInv, [ButtonsNext]_btnVars
  PROVE  ButtonsInv'
<1>0. ButtonsTypeOK
  BY DEF ButtonsInv
<1>1. CASE \E d \in Dx : btnLoop(d)
  BY <1>1, LookStep
<1>2. ASSUME UNCHANGED <<buf, lastBtn, seen>>, ButtonsTypeOK', ActiveInv' PROVE ButtonsInv'
  BY <1>2 DEF ButtonsInv, SampledInv, ReportIsFresh
<1>3. CASE NextInterval
  <2>1. elapsed' \in 0 .. Period /\ next' \in 1 .. RoundDone
    <3>1. elapsed \in 0 .. Period
      BY <1>0 DEF ButtonsTypeOK
    <3>2. elapsed' = Min({elapsed + 1, Period})
      BY <1>3 DEF NextInterval
    <3>3. next' \in {1, RoundDone} \cup Dx
      BY <1>3 DEF NextInterval, ButtonsInv, ButtonsTypeOK, ActiveInv
    <3> QED
      BY <3>1, <3>2, <3>3, MinOfTwo, ButtonTypes
  <2>2. ActiveInv'
    BY <1>3 DEF NextInterval, ButtonsInv, ActiveInv
  <2> QED
    BY <1>0, <1>2, <1>3, <2>1, <2>2 DEF NextInterval, ButtonsTypeOK
<1>4. ASSUME NEW d \in Dx, Press(d) \/ Release(d) PROVE ButtonsInv'
  BY <1>0, <1>2, <1>4 DEF Press, Release, ButtonsInv, ButtonsTypeOK, ActiveInv
<1>5. CASE SessionMoves
  BY <1>0, <1>2, <1>5, ButtonTypes DEF SessionMoves, ButtonsInv, ButtonsTypeOK, ActiveInv
<1>6. CASE UNCHANGED btnVars
  BY <1>0, <1>2, <1>6 DEF btnVars, ButtonsInv, ButtonsTypeOK, ActiveInv
<1> QED
  BY <1>1, <1>3, <1>4, <1>5, <1>6 DEF ButtonsNext, Loops

-----------------------------------------------------------------------------
(* The panel.                                                              *)
PanelIInv == PanelInv /\ user \in {"technician", "customers"}

LEMMA PanelInits == PanelInit => PanelIInv
BY ParserInits, ConfigInits, ButtonsInits DEF PanelInit, PanelIInv, PanelInv

(* Whoever is at the machine, the other part stays as it is.               *)
LEMMA PanelStep ==
  ASSUME PanelIInv, [PanelNext]_panelVars
  PROVE  PanelIInv'
<1>1. user' = user /\ [TerminalNext]_terminalVars /\ [ButtonsNext]_btnVars
  BY DEF PanelNext, Customers, panelVars
<1> QED
  BY <1>1, TerminalStep, ButtonsStep DEF PanelIInv, PanelInv

THEOREM PanelInvariant == PanelSpec => []PanelIInv
<1>1. PanelIInv /\ [PanelNext]_panelVars => PanelIInv'
  BY PanelStep
<1> QED
  BY <1>1, PanelInits, PTL DEF PanelSpec

(* The types of the parser, the settings and the buttons.                  *)
THEOREM PanelTypeCorrect == PanelSpec => []PanelTypeOK
<1>1. PanelIInv => PanelTypeOK
  BY DEF PanelIInv, PanelInv, ParserInv, ConfigInv, ButtonsInv, PanelTypeOK
<1> QED
  BY <1>1, PanelInvariant, PTL

(* A line without an empty field is handled with its own values, for every *)
(* size of the buffers and every number of fields, whatever lines came     *)
(* before it (_recvEndMarker, _parseDelimValues, _clearRx).                *)
THEOREM LineIsReadAlways == PanelSpec => []LineIsRead
<1>1. PanelIInv => LineIsRead
  BY DEF PanelIInv, PanelInv, ParserInv
<1> QED
  BY <1>1, PanelInvariant, PTL

(* Once the device runs, a variable and its key in flash differ only while *)
(* the key is being written, for every set of settings (_processX,         *)
(* _loadCfgs).                                                             *)
THEOREM RamIsFlashAlways == PanelSpec => []RamIsFlash
<1>1. PanelIInv => RamIsFlash
  BY DEF PanelIInv, PanelInv, ConfigInv
<1> QED
  BY <1>1, PanelInvariant, PTL

(* A device only loads or runs after the PIN was given, since it was last  *)
(* locked, through all power failures (cfgIsLocked, cfgUnlock, cfgLock).   *)
THEOREM RunsWithPinAlways == PanelSpec => []RunsWithPin
<1>1. PanelIInv => RunsWithPin
  BY DEF PanelIInv, PanelInv, ConfigInv
<1> QED
  BY <1>1, PanelInvariant, PTL

(* The keys of a setting stay together unless the power failed while they  *)
(* were written or the line had an empty field (cfgFlowRate,               *)
(* cfgVoltageRanges, cfgStateMachine).                                     *)
THEOREM SettingIsWholeAlways == PanelSpec => []SettingIsWhole
<1>1. PanelIInv => SettingIsWhole
  BY DEF PanelIInv, PanelInv, ConfigInv, WholeInv, SettingIsWhole
<1> QED
  BY <1>1, PanelInvariant, PTL

(* An event names a button that was down since the last event of its       *)
(* dispenser, for every number of dispensers and buttons (_getButton,      *)
(* _filterReading).                                                        *)
THEOREM ReportIsFreshAlways == PanelSpec => []ReportIsFresh
<1>1. PanelIInv => ReportIsFresh
  BY DEF PanelIInv, PanelInv, ButtonsInv
<1> QED
  BY <1>1, PanelInvariant, PTL

-----------------------------------------------------------------------------
(* The refinement of SettingsContract: every step of the terminal is one of *)
(* its steps, or changes nothing that the contract sees.                    *)
StoredKeys == [k \in Keys |-> Stored(k)]
UsedKeys   == [k \in Keys |-> IF mode = "run" THEN ram[k] ELSE Stored(k)]

SStep == [Contract!SNext]_(Contract!svars)

LEMMA Unseen ==
  ASSUME UNCHANGED <<StoredKeys, UsedKeys>>, lock' = "id" <=> lock = "id", mode' = "run" <=> mode = "run"
  PROVE  SStep
<1>1. (lock' = "id") = (lock = "id") /\ (mode' = "run") = (mode = "run")
  OBVIOUS
<1> QED
  BY <1>1 DEF SStep, Contract!svars, StoredKeys, UsedKeys

LEMMA NothingSeen ==
  ASSUME UNCHANGED nvmVars
  PROVE  SStep
BY Unseen DEF nvmVars, StoredKeys, UsedKeys, Stored

(* What is stored is a value of each key, and the same as what is used     *)
(* where nothing is pending.                                               *)
LEMMA StoredTypes ==
  ASSUME ConfigInv
  PROVE  /\ StoredKeys \in [Keys -> 0 .. MaxValue] /\ UsedKeys \in [Keys -> 0 .. MaxValue]
         /\ mode # "run" \/ job.keys = <<>> => UsedKeys = StoredKeys
<1>1. nvm \in [Keys -> 0 .. Missing] /\ ram \in [Keys -> 0 .. MaxValue]
  BY DEF ConfigInv, ConfigTypeOK
<1>2. \A k \in Keys : Stored(k) \in 0 .. MaxValue
  BY <1>1, ConfigTypes DEF Stored
<1>3. ASSUME mode = "run", job.keys = <<>>, NEW k \in Keys PROVE Stored(k) = ram[k]
  <2>1. ram[k] = nvm[k]
    BY <1>3 DEF ConfigInv, RamIsFlash
  <2> QED
    BY <1>1, <2>1, ConfigTypes DEF Stored
<1> QED
  BY <1>1, <1>2, <1>3 DEF StoredKeys, UsedKeys

SettledKeys == mode # "run" \/ job.keys = <<>> => UsedKeys = StoredKeys

LEMMA SettledNow == ConfigInv => SettledKeys
BY StoredTypes DEF SettledKeys

LEMMA ProcessMaps ==
  ASSUME ConfigInv, ConfigInv', ProcessKey
  PROVE  SStep
<1>0. UNCHANGED lock
  BY DEF ProcessKey
<1>1. CASE mode = "run"
  <2>1. PICK h \in Keys : h = Head(job.keys)
    BY ProcessDoes
  <2>2. mode' = "run" /\ UNCHANGED ram /\ nvm' = [nvm EXCEPT ![h] = ram[h]]
    BY <1>1, <2>1, ProcessDoes
  <2>3. nvm \in [Keys -> 0 .. Missing] /\ ram \in [Keys -> 0 .. MaxValue]
    BY DEF ConfigInv, ConfigTypeOK
  <2>4. Stored(h)' = ram[h] /\ \A k \in Keys \ {h} : Stored(k)' = Stored(k)
    BY <2>2, <2>3, ConfigTypes DEF Stored
  <2>5. StoredKeys' = [StoredKeys EXCEPT ![h] = UsedKeys[h]] /\ UsedKeys' = UsedKeys
    BY <1>1, <2>2, <2>4 DEF StoredKeys, UsedKeys
  <2>6. Contract!Store(h)
    BY <1>0, <1>1, <2>2, <2>5 DEF Contract!Store, StoredKeys, UsedKeys
  <2> QED
    BY <2>6 DEF SStep, Contract!SNext
<1>2. CASE mode = "load"
  <2>1. StoredKeys' = StoredKeys
    BY <1>2, ProcessDoes DEF StoredKeys
  <2>2. UsedKeys = StoredKeys
    BY <1>2, StoredTypes
  <2>3. mode' \in {"load", "run"} /\ (mode' = "run" => job'.keys = <<>>)
    BY <1>2, ProcessDoes, HeadAndTail DEF ProcessKey, ConfigInv, ConfigTypeOK
  <2>4. UsedKeys' = StoredKeys'
    <3>1. ConfigInv' => SettledKeys'
      BY SettledNow, PTL
    <3> QED
      BY <2>3, <3>1 DEF SettledKeys
  <2>5. CASE mode' = "run"
    <3>1. lock = "id"
      BY <1>2 DEF ConfigInv, RunsWithPin, LockInv
    <3>2. Contract!Start
      BY <1>0, <1>2, <2>1, <2>2, <2>4, <2>5, <3>1 DEF Contract!Start, StoredKeys, UsedKeys
    <3> QED
      BY <3>2 DEF SStep, Contract!SNext
  <2>6. CASE mode' = "load"
    BY <1>0, <1>2, <2>1, <2>2, <2>4, <2>6, Unseen
  <2> QED
    BY <2>3, <2>5, <2>6
<1> QED
  BY <1>1, <1>2, ProcessDoes

LEMMA SetMaps ==
  ASSUME ConfigInv, ConfigInv', mode = "run", job.keys = <<>>, NEW s \in Settings, NEW values, NEW alike,
         SetSetting(s, values, alike)
  PROVE  SStep
<1>1. UNCHANGED <<nvm, lock, mode>>
  BY DEF SetSetting
<1>2. StoredKeys' = StoredKeys
  BY <1>1 DEF StoredKeys, Stored
<1>3. UsedKeys = StoredKeys
  BY StoredTypes
<1>4. UsedKeys' \in [Keys -> 0 .. MaxValue]
  BY <1>1 DEF UsedKeys, ConfigInv, ConfigTypeOK
<1>5. \A k \in Keys \ KeysIn(s) : UsedKeys'[k] = UsedKeys[k]
  BY <1>1 DEF UsedKeys, SetSetting
<1>6. Contract!Change(KeysIn(s))
  BY <1>1, <1>2, <1>3, <1>4, <1>5 DEF Contract!Change, StoredKeys, UsedKeys
<1>7. KeysIn(s) \in {KeysIn(t) : t \in Settings}
  OBVIOUS
<1> QED
  BY <1>6, <1>7 DEF SStep, Contract!SNext

(* A restart, with the lock as it is, closed, or opened.                   *)
LEMMA RestartMaps ==
  ASSUME ConfigInv, Restart, UNCHANGED nvm
  PROVE  /\ UNCHANGED lock => SStep
         /\ mode = "run" /\ job.keys = <<>> /\ lock' = "0" => SStep
         /\ mode = "locked" /\ lock' = "id" => SStep
<1>1. mode' = "off" /\ StoredKeys' = StoredKeys /\ UsedKeys' = StoredKeys
  BY DEF Restart, StoredKeys, UsedKeys, Stored
<1>2. ASSUME UNCHANGED lock PROVE SStep
  <2>1. Contract!Stop
    BY <1>1, <1>2 DEF Contract!Stop, StoredKeys, UsedKeys
  <2> QED
    BY <2>1 DEF SStep, Contract!SNext
<1>3. ASSUME mode = "run", job.keys = <<>>, lock' = "0" PROVE SStep
  <2>1. UsedKeys = StoredKeys
    BY <1>3, StoredTypes
  <2>2. Contract!Lock
    BY <1>1, <1>3, <2>1 DEF Contract!Lock, StoredKeys, UsedKeys
  <2> QED
    BY <2>2 DEF SStep, Contract!SNext
<1>4. ASSUME mode = "locked", lock' = "id" PROVE SStep
  <2>1. UsedKeys = StoredKeys /\ lock # "id"
    BY <1>4, StoredTypes DEF ConfigInv, LockInv
  <2>2. Contract!Unlock
    BY <1>1, <1>4, <2>1 DEF Contract!Unlock, StoredKeys, UsedKeys
  <2> QED
    BY <2>2 DEF SStep, Contract!SNext
<1> QED
  BY <1>2, <1>3, <1>4

LEMMA TerminalMaps ==
  ASSUME ConfigInv, ConfigInv', [TerminalNext]_terminalVars
  PROVE  SStep
<1>1. CASE Receive \/ UNCHANGED terminalVars
  BY <1>1, NothingSeen DEF Receive, terminalVars
<1>2. CASE WhenLocked
  <2>1. ASSUME NEW pin_ok \in BOOLEAN, cfgUnlock(pin_ok) PROVE SStep
    BY <1>2, <2>1, RestartMaps, NothingSeen DEF WhenLocked, cfgUnlock
  <2> QED
    BY <1>2, <2>1, NothingSeen DEF WhenLocked
<1>3. CASE WhenRunning
  <2>1. mode = "run" /\ job.keys = <<>>
    BY <1>3 DEF WhenRunning, Idle
  <2>2. CASE cfgLock
    BY <2>1, <2>2, RestartMaps DEF cfgLock
  <2>3. ASSUME rx_cmd \in Settings, NEW v \in 1 .. MaxValue - 1,
               SetSetting(rx_cmd, NewValues(rx_cmd, v), clean /\ AllGiven(rx_cmd))
        PROVE  SStep
    BY <2>1, <2>3, SetMaps
  <2> QED
    BY <1>3, <2>2, <2>3, NothingSeen DEF WhenRunning
<1>4. CASE doInit
  <2>1. mode = "off" /\ mode' \in {"load", "locked"} /\ UNCHANGED nvm /\ (lock' = "id" <=> lock = "id")
    BY <1>4 DEF doInit
  <2>2. UNCHANGED <<StoredKeys, UsedKeys>>
    BY <2>1 DEF StoredKeys, UsedKeys, Stored
  <2> QED
    BY <2>1, <2>2, Unseen
<1>5. CASE ProcessKey
  BY <1>5, ProcessMaps
<1>6. CASE PowerFails
  BY <1>6, RestartMaps DEF PowerFails
<1> QED
  BY <1>1, <1>2, <1>3, <1>4, <1>5, <1>6 DEF TerminalNext

LEMMA ContractInit ==
  ASSUME PanelIInv, PanelInit
  PROVE  Contract!SInit
<1>1. ConfigInv /\ job.keys = <<>>
  BY DEF PanelIInv, PanelInv, PanelInit, ConfigInit, SetUp, NoJob
<1>2. StoredKeys \in [Keys -> 0 .. MaxValue] /\ UsedKeys = StoredKeys
  BY <1>1, StoredTypes
<1>3. mode = "run" => lock = "id"
  BY DEF PanelInit, ConfigInit, SetUp
<1> QED
  BY <1>2, <1>3 DEF Contract!SInit, StoredKeys, UsedKeys

(* The settings keep the owner's contract, for every set of settings and   *)
(* keys and every order of loading them: through missing keys, power       *)
(* failures between two keys, locking and unlocking, what is stored only   *)
(* changes to what was set, and is what the next start works with          *)
(* (_processX, _loadCfgs, cfgLock, cfgUnlock).                             *)
THEOREM SettingsKept == PanelSpec => KeepsSettings
<1>1. PanelInit => PanelIInv /\ Contract!SInit
  BY PanelInits, ContractInit
<1>2. PanelIInv /\ [PanelNext]_panelVars => PanelIInv'
  BY PanelStep
<1>3. PanelIInv /\ PanelIInv' /\ [PanelNext]_panelVars => [Contract!SNext]_(Contract!svars)
  <2> SUFFICES ASSUME PanelIInv, PanelIInv', [PanelNext]_panelVars PROVE SStep
    BY DEF SStep
  <2>1. [TerminalNext]_terminalVars /\ ConfigInv /\ ConfigInv'
    BY DEF PanelNext, Customers, panelVars, PanelIInv, PanelInv
  <2> QED
    BY <2>1, TerminalMaps
<1> QED
  BY <1>1, <1>2, <1>3, PTL DEF PanelSpec, KeepsSettings, Contract!SSpec
=============================================================================
