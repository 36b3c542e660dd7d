-------------------------- MODULE DxDelivery_proofs --------------------------
(***************************************************************************)
(* In every execution in which no two calls of the outbox overlap,         *)
(* DxClientOutbox implements DeliveryContract: with or without the lock,   *)
(* for any number of records, any size of box and flash, and whatever      *)
(* fails.                                                                  *)
(***************************************************************************)
EXTENDS DxClientOutbox_proofs

(* The record m can be found in flash, or the flash is full.                 *)
StoredOrFull(m, lk, nl, str) == lk = NvmIds \/ \E k \in nl : str[k] = m

(* What task t may rely on at f.pc, with its locals f, of the box b and its  *)
(* count c, of the lookups lk in RAM and nl in flash, of the strings str,    *)
(* and of the records dl delivered.                                          *)
Carrying == {"publish", "republish", "fill", "bump", "put", "mark", "save"}
Storing  == {"scan", "put", "mark", "save"}
Clearing == {"unmark", "unsave", "shift"}
ScanKept(t, f, b, c, lk, nl, str) ==
  /\ f.pc \in Storing /\ f.ix # -1 =>
       t # "i2c" /\ \A i \in Slots : i < c /\ i < f.ix => StoredOrFull(b[i].msg, lk, nl, str)
  /\ f.pc = "scan" => f.ix # -1
  /\ f.pc \in {"put", "mark", "save"} =>
       IF f.ix = -1 THEN t = "i2c" ELSE f.ix \in 0 .. c - 1 /\ b[f.ix].msg = f.msg
  /\ f.pc = "reset" => \A i \in Slots : i < c => StoredOrFull(b[i].msg, lk, nl, str)
StoreKept(f, b, c, lk, nl, str) ==
  /\ f.pc = "bump" => b[c] = [mqtt |-> f.mqtt, nvm |-> f.nvm, msg |-> f.msg]
  /\ f.pc = "mark" => f.nvm \in NvmIds \ lk /\ str[f.nvm] = f.msg /\ f.seen = lk
  /\ f.pc = "save" => lk = nl \cup {f.nvm} /\ str[f.nvm] = f.msg
ClearKept(f, b, c, lk, nl, dl) ==
  /\ f.pc = "unmark" => f.seen = lk
  /\ f.pc = "unsave" => lk = nl \ {f.nvm}
  /\ f.pc \in {"unmark", "unsave"} => f.nvm = b[f.ix].nvm /\ f.nvm # None
  /\ f.pc \in Clearing => f.ix \in 0 .. c - 1 /\ b[f.ix].msg \in dl
LoopKept(t, f, lk, nl, str) ==
  t = "loop" /\ f.pc \in {"republish", "fill", "bump"} =>
    f.nvm \in lk /\ f.nvm \in nl /\ str[f.nvm] = f.msg
Kept(t, f, b, c, lk, nl, str, dl) ==
  /\ f.msg # NoRecord => f.pc \in Carrying
  /\ ScanKept(t, f, b, c, lk, nl, str)
  /\ StoreKept(f, b, c, lk, nl, str)
  /\ ClearKept(f, b, c, lk, nl, dl)
  /\ LoopKept(t, f, lk, nl, str)
AllKept ==
  \A t \in Tasks : Kept(t, task[t], box, count, lookup, nvmLookup, nvmMsg, delivered)

(* Between calls the flash has the lookup of the RAM.                        *)
Written == (\A t \in Tasks : task[t].pc \notin {"save", "unsave"}) => lookup = nvmLookup

(* An entry that came from the flash is still there, unless it is the one    *)
(* that onPublished has just cleared.                                        *)
Linked ==
  \A i \in InBox : box[i].nvm # None =>
    /\ nvmMsg[box[i].nvm] = box[i].msg
    /\ \/ box[i].nvm \in lookup
       \/ \E t \in Tasks : task[t].pc \in {"unsave", "shift"} /\ task[t].ix = i

(* Everything that is kept was received.                                     *)
Known ==
  /\ \A i \in InBox : box[i].msg \in taken
  /\ \A t \in Tasks : task[t].msg \in taken \cup {NoRecord}
  /\ \A t \in Tasks : task[t].pc \in Carrying => task[t].msg # NoRecord
  /\ \A k \in NvmIds : nvmMsg[k] \in taken \cup {Absent}
  /\ \A w \in wire : w.msg \in taken
  /\ delivered \subseteq taken

(* A packet id stands for the record it was given to, so a PUBACK tells that *)
(* the record of its entry was delivered.                                    *)
Holds(e, W, A, D) ==
  e.mqtt # None => /\ \A w \in W : w.mqtt = e.mqtt => w.msg = e.msg
                   /\ e.mqtt \in A => e.msg \in D
Acked ==
  /\ \A i \in InBox : Holds(box[i], wire, acks, delivered)
  /\ \A t \in Tasks : task[t].pc \in {"fill", "bump"} => Holds(task[t], wire, acks, delivered)

(* A record the I2C task has in hand is nowhere else.                        *)
Alone ==
  LET m == task["i2c"].msg IN
  m # NoRecord =>
    /\ \A t \in Tasks \ {"i2c"} : task[t].msg # m
    /\ \A i \in InBox : box[i].msg # m
    /\ \A k \in lookup : nvmMsg[k] = m => At("i2c", "save") /\ k = task["i2c"].nvm

Base == Inv /\ NetType /\ Steady /\ Resending
DInv == Base /\ AllKept /\ Written /\ Linked /\ Known /\ Acked /\ Alone
-----------------------------------------------------------------------------
(* What the outbox finds: a free id, a stored id, the entry of a PUBACK.     *)
LEMMA OpenId ==
  ASSUME StoreType
  PROVE  IF lookup = NvmIds THEN getOpenId = None
         ELSE getOpenId \in NvmIds \ lookup /\ getOpenId # None
<1>1. ASSUME lookup # NvmIds PROVE Least(NvmIds \ lookup) \in NvmIds \ lookup
  <2>1. NvmIds \ lookup \subseteq Nat
    BY OutboxAssumption DEF NvmIds
  <2>2. NvmIds \ lookup # {}
    BY <1>1 DEF StoreType
  <2> QED
    BY <2>1, <2>2, LeastExists
<1>2. None \notin NvmIds
  BY OutboxAssumption DEF NvmIds, None
<1> QED
  BY <1>1, <1>2 DEF getOpenId

LEMMA NextUnsent ==
  ASSUME StoreType, getNextUnsentId # None PROVE getNextUnsentId \in lookup
<1> DEFINE ahead == {k \in lookup : k > cursor}
<1>1. ahead # {} => Least(ahead) \in ahead
  <2>1. NvmIds \subseteq Nat /\ lookup \subseteq NvmIds
    BY OutboxAssumption DEF NvmIds, StoreType
  <2> QED
    BY <2>1, LeastExists
<1> QED
  BY <1>1 DEF getNextUnsentId

LEMMA HitFound ==
  ASSUME NEW id, {i \in InBox : box[i].mqtt = id} # {}
  PROVE  LET i == Least({k \in InBox : box[k].mqtt = id}) IN i \in InBox /\ box[i].mqtt = id
<1>1. {i \in InBox : box[i].mqtt = id} \subseteq Nat
  BY OutboxAssumption DEF InBox, Slots
<1> QED
  BY <1>1, LeastExists

(* Whoever runs a step of the outbox is the only one inside a call.          *)
LEMMA OnlyCaller ==
  ASSUME NEW t \in Tasks, Own(t)
  PROVE  \A u \in Tasks \ {t} : ~InsideCall(task[u])
BY CallParts DEF Own

(* So is the loop where it reads a stored record.                            *)
LEMMA OwnRead ==
  ASSUME ~Overlap, TaskType, task["loop"].pc = "idle", NEW f, Goto("loop", f),
         f.pc = "republish"
  PROVE  Own("loop")
BY DEF Overlap, Resends, At, Goto, TaskType, Tasks

LEMMA CallWritten ==
  ASSUME Written, NEW t \in Tasks, Own(t), task[t].pc \notin {"save", "unsave"}
  PROVE  lookup = nvmLookup
BY OnlyCaller DEF Written, InsideCall

LEMMA CallLinked ==
  ASSUME Linked, NEW t \in Tasks, Own(t), NEW i \in InBox, box[i].nvm # None
  PROVE  /\ nvmMsg[box[i].nvm] = box[i].msg
         /\ \/ box[i].nvm \in lookup
            \/ task[t].pc \in {"unsave", "shift"} /\ task[t].ix = i
BY OnlyCaller DEF Linked, InsideCall

LEMMA IdleKept ==
  ASSUME NEW t, NEW b, NEW c, NEW lk, NEW nl, NEW str, NEW dl
  PROVE  Kept(t, Idle, b, c, lk, nl, str, dl)
BY DEF Kept, ScanKept, StoreKept, ClearKept, LoopKept, Idle, Storing, Clearing

(* A step of t that overlaps no call: the others are outside of calls, where they   *)
(* rely on nothing but the id the loop is about to resend.                   *)
LEMMA KeptCall ==
  ASSUME TaskType, AllKept, NEW t \in Tasks, Own(t), NEW f, Goto(t, f),
         Kept(t, f, box', count', lookup', nvmLookup', nvmMsg', delivered'),
         t # "loop" => LoopKept("loop", task["loop"], lookup', nvmLookup', nvmMsg')
  PROVE  AllKept'
<1>1. task'[t] = f /\ \A u \in Tasks \ {t} : task'[u] = task[u]
  BY DEF Goto, TaskType
<1>2. ASSUME NEW u \in Tasks \ {t}
      PROVE  Kept(u, task[u], box', count', lookup', nvmLookup', nvmMsg', delivered')
  <2> DEFINE g == task[u]
  <2>1. g \in Frame /\ ~InsideCall(g)
    BY OnlyCaller DEF TaskType
  <2>2. Kept(u, g, box, count, lookup, nvmLookup, nvmMsg, delivered)
    BY DEF AllKept
  <2>3. u = "loop" => LoopKept(u, g, lookup', nvmLookup', nvmMsg')
    OBVIOUS
  <2> HIDE DEF g
  <2>4. /\ g.pc \notin {"bump", "mark", "save", "reset", "unmark", "unsave", "shift"}
        /\ g.pc = "scan" => g.ix = 0 /\ u # "i2c"
        /\ g.pc = "put" => g.ix = -1 /\ u = "i2c"
    BY <2>1, <2>2 DEF InsideCall, Frame, Kept, ScanKept, Storing
  <2>5. ScanKept(u, g, box', count', lookup', nvmLookup', nvmMsg')
    BY <2>4 DEF ScanKept, Storing, Slots
  <2>6. StoreKept(g, box', count', lookup', nvmLookup', nvmMsg')
    BY <2>4 DEF StoreKept
  <2>7. ClearKept(g, box', count', lookup', nvmLookup', delivered')
    BY <2>4 DEF ClearKept, Clearing
  <2>8. LoopKept(u, g, lookup', nvmLookup', nvmMsg')
    BY <2>3 DEF LoopKept
  <2> QED
    BY <2>2, <2>5, <2>6, <2>7, <2>8 DEF Kept, g
<1> QED
  BY <1>1, <1>2 DEF AllKept

(* A step that leaves box and flash alone.                                   *)
LEMMA KeptOutside ==
  ASSUME AllKept, TaskType, delivered \subseteq delivered', UNCHANGED <<box, count, lookup, nvmVars>>,
         \A u \in Tasks : \/ task'[u] = task[u]
                          \/ Kept(u, task'[u], box, count, lookup, nvmLookup, nvmMsg, delivered)
  PROVE  AllKept'
<1>1. ASSUME NEW u \in Tasks
      PROVE  Kept(u, task'[u], box, count, lookup, nvmLookup, nvmMsg, delivered')
  <2>1. Kept(u, task'[u], box, count, lookup, nvmLookup, nvmMsg, delivered)
    BY DEF AllKept
  <2> QED
    BY <2>1 DEF Kept, ClearKept
<1> QED
  BY <1>1 DEF AllKept, nvmVars
-----------------------------------------------------------------------------
(* What each step leaves its task to rely on: enqueueMsg().                  *)
LEMMA EnqueueKept ==
  ASSUME DInv, NEW t \in Tasks, Own(t), Fill(t) \/ Bump(t) PROVE AllKept'
<1> DEFINE f == task[t]
<1>0. /\ f \in Frame /\ TaskType /\ StoreType /\ count \in 0 .. BoxSize /\ AllKept
      /\ Kept(t, f, box, count, lookup, nvmLookup, nvmMsg, delivered)
      /\ LoopKept("loop", task["loop"], lookup, nvmLookup, nvmMsg)
  BY DEF DInv, Base, Inv, TaskType, Steady, AllKept, Kept, Tasks
<1>1. UNCHANGED <<lookup, nvmLookup, nvmMsg, delivered>>
  BY DEF Fill, Bump, nvmVars, history
<1> HIDE DEF f
<1>2. CASE Fill(t) /\ count < BoxSize
  <2> DEFINE g == [f EXCEPT !.pc = "bump", !.ix = count]
  <2>1. /\ f.pc = "fill" /\ Goto(t, g)
        /\ box' = [box EXCEPT ![count] = [mqtt |-> f.mqtt, nvm |-> f.nvm, msg |-> f.msg]]
        /\ count' = count
    BY <1>2 DEF Fill, At, f
  <2>2. count \in Slots /\ box \in [Slots -> Entry]
    BY <1>0, <1>2, OutboxAssumption DEF Slots, StoreType
  <2>3. box'[count] = [mqtt |-> f.mqtt, nvm |-> f.nvm, msg |-> f.msg]
    BY <2>1, <2>2
  <2>4. g.pc = "bump" /\ g.mqtt = f.mqtt /\ g.nvm = f.nvm /\ g.msg = f.msg
    BY <1>0 DEF Frame
  <2> HIDE DEF g
  <2>5. Kept(t, g, box', count', lookup', nvmLookup', nvmMsg', delivered')
    BY <1>0, <1>1, <2>1, <2>3, <2>4 DEF Kept, ScanKept, StoreKept, ClearKept, LoopKept,
       Carrying, Storing, Clearing
  <2> QED
    BY <1>0, <1>1, <2>1, <2>5, KeptCall
<1>3. CASE Bump(t) \/ (Fill(t) /\ ~(count < BoxSize))
  <2>1. Goto(t, Idle)
    BY <1>3 DEF Fill, Bump, Return
  <2> QED
    BY <1>0, <1>1, <2>1, IdleKept, KeptCall
<1> QED
  BY <1>2, <1>3

(* A frame as storeMsg() leaves it: the box up to ix is stored, or there was *)
(* no room.                                                                  *)
LEMMA AfterStoreKept ==
  ASSUME NEW t, NEW f \in Frame, f.ix # -1 => t # "i2c", NEW b, NEW c, NEW lk, NEW nl, NEW str,
         NEW dl, \A i \in Slots : i < c /\ i <= f.ix => StoredOrFull(b[i].msg, lk, nl, str)
  PROVE  Kept(t, AfterStore(f), b, c, lk, nl, str, dl)
<1>1. CASE f.ix >= 0
  <2> DEFINE g == AfterStore(f)
  <2>1. g.pc = "scan" /\ g.ix = f.ix + 1 /\ g.msg = NoRecord
    BY <1>1 DEF AfterStore, Idle
  <2>2. \A i \in Slots : i < f.ix + 1 => i <= f.ix
    BY DEF Slots, Frame
  <2>3. f.ix + 1 # -1 /\ f.ix # -1
    BY <1>1 DEF Frame
  <2> HIDE DEF g
  <2>4. ScanKept(t, g, b, c, lk, nl, str)
    BY <2>1, <2>2, <2>3 DEF ScanKept, Storing
  <2>5. StoreKept(g, b, c, lk, nl, str) /\ ClearKept(g, b, c, lk, nl, dl) /\ LoopKept(t, g, lk, nl, str)
    BY <2>1 DEF StoreKept, ClearKept, LoopKept, Clearing
  <2> QED
    BY <2>1, <2>4, <2>5 DEF Kept, g
<1>2. CASE ~(f.ix >= 0)
  BY <1>2, IdleKept DEF AfterStore
<1> QED
  BY <1>1, <1>2

(* storeMsg().                                                               *)
LEMMA StoreMsgKept ==
  ASSUME DInv, NEW t \in Tasks, Own(t), Put(t) \/ Mark(t) \/ Save(t) PROVE AllKept'
<1> DEFINE f == task[t]
<1>0. /\ f \in Frame /\ TaskType /\ StoreType /\ count \in 0 .. BoxSize /\ AllKept
      /\ Kept(t, f, box, count, lookup, nvmLookup, nvmMsg, delivered)
      /\ LoopKept("loop", task["loop"], lookup, nvmLookup, nvmMsg)
      /\ lookup \subseteq NvmIds
  BY DEF DInv, Base, Inv, TaskType, Steady, AllKept, Kept, Tasks, StoreType
<1>1. UNCHANGED <<box, count, delivered>>
  BY DEF Put, Mark, Save, ramVars, history
<1> HIDE DEF f
<1>2. CASE Put(t) /\ getOpenId = None
  <2>1. f.pc = "put" /\ Goto(t, AfterStore(f)) /\ UNCHANGED <<lookup, nvmLookup, nvmMsg>>
    BY <1>2 DEF Put, At, ramVars, f
  <2>2. lookup = NvmIds
    BY <1>0, <1>2, OpenId
  <2>3. f.ix # -1 => t # "i2c"
    BY <1>0, <2>1 DEF Kept, ScanKept, Storing
  <2>4. \A m : StoredOrFull(m, lookup, nvmLookup, nvmMsg)
    BY <2>2 DEF StoredOrFull
  <2>5. Kept(t, AfterStore(f), box, count, lookup, nvmLookup, nvmMsg, delivered)
    BY <1>0, <2>3, <2>4, AfterStoreKept
  <2> QED
    BY <1>0, <1>1, <2>1, <2>5, KeptCall
<1>3. CASE Put(t) /\ getOpenId # None
  <2> DEFINE id == getOpenId
             g == [f EXCEPT !.pc = "mark", !.nvm = id, !.seen = lookup]
  <2>1. /\ f.pc = "put" /\ Goto(t, g) /\ nvmMsg' = [nvmMsg EXCEPT ![id] = f.msg]
        /\ UNCHANGED <<lookup, nvmLookup>>
    BY <1>3 DEF Put, At, ramVars, f
  <2>2. id \in NvmIds \ lookup /\ lookup # NvmIds /\ lookup = nvmLookup
    <3>1. task[t].pc \notin {"save", "unsave"}
      BY <2>1 DEF f
    <3>2. lookup = nvmLookup
      BY <1>1, <3>1, CallWritten DEF DInv
    <3> QED
      BY <1>0, <1>3, <3>2, OpenId
  <2>3. nvmMsg'[id] = f.msg /\ \A k \in lookup : nvmMsg'[k] = nvmMsg[k]
    BY <1>0, <2>1, <2>2 DEF StoreType
  <2>4. \A m : StoredOrFull(m, lookup, nvmLookup, nvmMsg) => StoredOrFull(m, lookup', nvmLookup', nvmMsg')
    BY <2>1, <2>2, <2>3 DEF StoredOrFull
  <2>5. g.pc = "mark" /\ g.nvm = id /\ g.seen = lookup /\ g.msg = f.msg /\ g.ix = f.ix
    BY <1>0 DEF Frame
  <2> HIDE DEF g, id
  <2>6. ScanKept(t, g, box', count', lookup', nvmLookup', nvmMsg')
    BY <1>0, <1>1, <2>1, <2>4, <2>5 DEF Kept, ScanKept, Storing
  <2>7. /\ StoreKept(g, box', count', lookup', nvmLookup', nvmMsg')
        /\ ClearKept(g, box', count', lookup', nvmLookup', delivered')
        /\ LoopKept(t, g, lookup', nvmLookup', nvmMsg')
    BY <2>1, <2>2, <2>3, <2>5 DEF StoreKept, ClearKept, LoopKept, Clearing
  <2>8. Kept(t, g, box', count', lookup', nvmLookup', nvmMsg', delivered')
    BY <2>5, <2>6, <2>7 DEF Kept, Carrying
  <2>9. LoopKept("loop", task["loop"], lookup', nvmLookup', nvmMsg')
    BY <1>0, <2>1, <2>3 DEF LoopKept
  <2> QED
    BY <1>0, <1>1, <2>1, <2>8, <2>9, KeptCall
<1>4. CASE Mark(t)
  <2> DEFINE g == [f EXCEPT !.pc = "save", !.seen = {}]
  <2>1. f.pc = "mark" /\ Goto(t, g) /\ UNCHANGED <<nvmLookup, nvmMsg>>
    BY <1>4 DEF Mark, At, nvmVars, f
  <2>2. /\ f.nvm \in NvmIds \ lookup /\ nvmMsg[f.nvm] = f.msg /\ lookup' = lookup \cup {f.nvm}
    BY <1>0, <1>4, <2>1 DEF Mark, Kept, StoreKept, f
  <2>3. lookup = nvmLookup
    <3>1. task[t].pc \notin {"save", "unsave"}
      BY <2>1 DEF f
    <3> QED
      BY <1>1, <3>1, CallWritten DEF DInv
  <2>4. \A m : StoredOrFull(m, lookup, nvmLookup, nvmMsg) => StoredOrFull(m, lookup', nvmLookup', nvmMsg')
    BY <2>1, <2>2 DEF StoredOrFull
  <2>5. g.pc = "save" /\ g.nvm = f.nvm /\ g.msg = f.msg /\ g.ix = f.ix
    BY <1>0 DEF Frame
  <2> HIDE DEF g
  <2>6. ScanKept(t, g, box', count', lookup', nvmLookup', nvmMsg')
    BY <1>0, <1>1, <2>1, <2>4, <2>5 DEF Kept, ScanKept, Storing
  <2>7. /\ StoreKept(g, box', count', lookup', nvmLookup', nvmMsg')
        /\ ClearKept(g, box', count', lookup', nvmLookup', delivered')
        /\ LoopKept(t, g, lookup', nvmLookup', nvmMsg')
    BY <2>1, <2>2, <2>3, <2>5 DEF StoreKept, ClearKept, LoopKept, Clearing
  <2>8. Kept(t, g, box', count', lookup', nvmLookup', nvmMsg', delivered')
    BY <2>5, <2>6, <2>7 DEF Kept, Carrying
  <2>9. LoopKept("loop", task["loop"], lookup', nvmLookup', nvmMsg')
    BY <1>0, <2>1, <2>2 DEF LoopKept
  <2> QED
    BY <1>0, <1>1, <2>1, <2>8, <2>9, KeptCall
<1>5. CASE Save(t)
  <2>1. /\ f.pc = "save" /\ Goto(t, AfterStore(f)) /\ UNCHANGED <<lookup, nvmMsg>>
        /\ nvmLookup' = lookup
    BY <1>5 DEF Save, At, ramVars, f
  <2>2. lookup = nvmLookup \cup {f.nvm} /\ nvmMsg[f.nvm] = f.msg
    BY <1>0, <2>1 DEF Kept, StoreKept
  <2>3. ASSUME NEW i \in Slots, i < count, i <= f.ix
        PROVE  StoredOrFull(box[i].msg, lookup', nvmLookup', nvmMsg')
    <3>1. f.ix # -1 /\ f.ix \in 0 .. count - 1 /\ box[f.ix].msg = f.msg
      BY <1>0, <2>1, <2>3 DEF Kept, ScanKept, Slots
    <3>2. CASE i = f.ix
      BY <2>1, <2>2, <3>1, <3>2 DEF StoredOrFull
    <3>3. CASE i < f.ix
      <4>1. StoredOrFull(box[i].msg, lookup, nvmLookup, nvmMsg)
        BY <1>0, <2>1, <2>3, <3>1, <3>3 DEF Kept, ScanKept, Storing
      <4> QED
        BY <2>1, <2>2, <4>1 DEF StoredOrFull
    <3> QED
      BY <2>3, <3>1, <3>2, <3>3 DEF Slots
  <2>4. f.ix # -1 => t # "i2c"
    BY <1>0, <2>1 DEF Kept, ScanKept, Storing
  <2>5. Kept(t, AfterStore(f), box, count, lookup', nvmLookup', nvmMsg', delivered)
    BY <1>0, <2>3, <2>4, AfterStoreKept
  <2>6. LoopKept("loop", task["loop"], lookup', nvmLookup', nvmMsg')
    BY <1>0, <2>1 DEF LoopKept
  <2> QED
    BY <1>0, <1>1, <2>1, <2>5, <2>6, KeptCall
<1> QED
  BY <1>2, <1>3, <1>4, <1>5

(* enqueueBoxToStore(): what is behind the scan is stored.                   *)
LEMMA ScanningKept ==
  ASSUME DInv, NEW t \in Tasks, Own(t), Scan(t) \/ Reset(t) PROVE AllKept'
<1> DEFINE f == task[t]
<1>0. /\ f \in Frame /\ TaskType /\ StoreType /\ count \in 0 .. BoxSize /\ AllKept
      /\ Kept(t, f, box, count, lookup, nvmLookup, nvmMsg, delivered)
      /\ LoopKept("loop", task["loop"], lookup, nvmLookup, nvmMsg)
  BY DEF DInv, Base, Inv, TaskType, Steady, AllKept, Kept, Tasks
<1>1. UNCHANGED <<lookup, nvmLookup, nvmMsg, delivered>>
  BY DEF Scan, Reset, ramVars, nvmVars, history
<1> HIDE DEF f
<1>2. CASE Scan(t)
  <2>1. f.pc = "scan" /\ UNCHANGED <<box, count>>
    BY <1>2 DEF Scan, At, ramVars, f
  <2>2. \/ f.ix \in InBox /\ Goto(t, [Idle EXCEPT !.pc = "put", !.ix = f.ix, !.msg = box[f.ix].msg])
        \/ f.ix \notin InBox /\ f.ix > 0 /\ Goto(t, [Idle EXCEPT !.pc = "reset"])
        \/ Goto(t, Idle)
    BY <1>2 DEF Scan, Return, f
  <2>3. /\ f.ix # -1 /\ t # "i2c"
        /\ \A i \in Slots : i < count /\ i < f.ix => StoredOrFull(box[i].msg, lookup, nvmLookup, nvmMsg)
    BY <1>0, <2>1 DEF Kept, ScanKept, Storing
  <2>4. ASSUME f.ix \in InBox
        PROVE  Kept(t, [Idle EXCEPT !.pc = "put", !.ix = f.ix, !.msg = box[f.ix].msg],
                    box, count, lookup, nvmLookup, nvmMsg, delivered)
    <3> DEFINE g == [Idle EXCEPT !.pc = "put", !.ix = f.ix, !.msg = box[f.ix].msg]
    <3>1. g.pc = "put" /\ g.ix = f.ix /\ g.msg = box[f.ix].msg
      BY DEF Idle
    <3>2. f.ix \in 0 .. count - 1
      BY <1>0, <2>4 DEF InBox, Slots
    <3> HIDE DEF g
    <3>3. ScanKept(t, g, box, count, lookup, nvmLookup, nvmMsg)
      BY <2>3, <3>1, <3>2 DEF ScanKept, Storing
    <3>4. /\ StoreKept(g, box, count, lookup, nvmLookup, nvmMsg)
          /\ ClearKept(g, box, count, lookup, nvmLookup, delivered)
          /\ LoopKept(t, g, lookup, nvmLookup, nvmMsg)
      BY <3>1 DEF StoreKept, ClearKept, LoopKept, Clearing
    <3> QED
      BY <3>1, <3>3, <3>4 DEF Kept, Carrying, g
  <2>5. ASSUME f.ix \notin InBox, f.ix > 0
        PROVE  Kept(t, [Idle EXCEPT !.pc = "reset"], box, count, lookup, nvmLookup, nvmMsg, delivered)
    <3>1. \A i \in Slots : i < count => i < f.ix
      BY <1>0, <2>5, OutboxAssumption DEF InBox, Slots, Frame
    <3> QED
      BY <2>3, <3>1 DEF Kept, ScanKept, StoreKept, ClearKept, LoopKept, Idle, Storing, Clearing
  <2> QED
    BY <1>0, <1>1, <2>1, <2>2, <2>4, <2>5, IdleKept, KeptCall
<1>3. CASE Reset(t)
  BY <1>0, <1>1, <1>3, IdleKept, KeptCall DEF Reset, Return
<1> QED
  BY <1>2, <1>3

(* onPublished() and clearId(): the loop has no id in hand that is cleared.  *)
LEMMA ClearingKept ==
  ASSUME DInv, NEW t \in Tasks, Own(t), Unmark(t) \/ Unsave(t) \/ Shift(t) PROVE AllKept'
<1> DEFINE f == task[t]
<1>0. /\ f \in Frame /\ TaskType /\ StoreType /\ count \in 0 .. BoxSize /\ AllKept
      /\ Kept(t, f, box, count, lookup, nvmLookup, nvmMsg, delivered)
      /\ LoopKept("loop", task["loop"], lookup, nvmLookup, nvmMsg)
      /\ Brings("loop", task["loop"], box, count) /\ BoxSize \in Nat
  BY OutboxAssumption DEF DInv, Base, Inv, TaskType, Steady, Resending, AllKept, Kept, Tasks
<1>1. UNCHANGED <<nvmMsg, delivered>>
  BY DEF Unmark, Unsave, Shift, ramVars, nvmVars, history
<1> HIDE DEF f
<1>2. ASSUME f.pc \in {"unmark", "unsave"}
      PROVE  LoopKept("loop", task["loop"], lookup', nvmLookup', nvmMsg')
  <2>1. f.ix \in Slots /\ f.ix < count /\ box[f.ix].nvm # None
    BY <1>0, <1>2 DEF Kept, ClearKept, Clearing, Slots
  <2>2. ~NoneFromFlash(box, count)
    BY <2>1 DEF NoneFromFlash
  <2> QED
    BY <1>0, <2>2 DEF Brings, LoopKept
<1>3. CASE Unmark(t)
  <2> DEFINE g == [f EXCEPT !.pc = "unsave", !.seen = {}]
  <2>1. f.pc = "unmark" /\ Goto(t, g) /\ UNCHANGED <<box, count, nvmLookup>>
    BY <1>3 DEF Unmark, At, nvmVars, f
  <2>2. lookup' = lookup \ {f.nvm}
    BY <1>0, <1>3, <2>1 DEF Unmark, Kept, ClearKept, f
  <2>3. lookup = nvmLookup
    <3>1. task[t].pc \notin {"save", "unsave"}
      BY <2>1 DEF f
    <3> QED
      BY <1>1, <3>1, CallWritten DEF DInv
  <2>4. g.pc = "unsave" /\ g.nvm = f.nvm /\ g.msg = f.msg /\ g.ix = f.ix
    BY <1>0 DEF Frame
  <2> HIDE DEF g
  <2>5. f.msg = NoRecord
    BY <1>0, <2>1 DEF Kept, Carrying
  <2>6. ClearKept(g, box', count', lookup', nvmLookup', delivered')
    BY <1>0, <1>1, <2>1, <2>2, <2>3, <2>4 DEF Kept, ClearKept, Clearing
  <2>7. Kept(t, g, box', count', lookup', nvmLookup', nvmMsg', delivered')
    BY <2>4, <2>5, <2>6 DEF Kept, ScanKept, StoreKept, LoopKept, Storing
  <2> QED
    BY <1>0, <1>1, <1>2, <2>1, <2>7, KeptCall
<1>4. CASE Unsave(t)
  <2> DEFINE g == [Idle EXCEPT !.pc = "shift", !.ix = f.ix]
  <2>1. f.pc = "unsave" /\ Goto(t, g) /\ UNCHANGED <<box, count>>
    BY <1>4 DEF Unsave, At, ramVars, f
  <2>2. g.pc = "shift" /\ g.msg = NoRecord /\ g.ix = f.ix
    BY DEF Idle
  <2> HIDE DEF g
  <2>3. ClearKept(g, box', count', lookup', nvmLookup', delivered')
    BY <1>0, <1>1, <2>1, <2>2 DEF Kept, ClearKept, Clearing
  <2>4. Kept(t, g, box', count', lookup', nvmLookup', nvmMsg', delivered')
    BY <2>2, <2>3 DEF Kept, ScanKept, StoreKept, LoopKept, Storing
  <2> QED
    BY <1>0, <1>1, <1>2, <2>1, <2>4, KeptCall
<1>5. CASE Shift(t)
  <2>1. Goto(t, Idle) /\ UNCHANGED <<lookup, nvmLookup>>
    BY <1>5 DEF Shift, Return, nvmVars
  <2> QED
    BY <1>0, <1>1, <2>1, IdleKept, KeptCall
<1> QED
  BY <1>3, <1>4, <1>5
(* The callers, the network and the power.                                   *)
LEMMA CallersKept ==
  ASSUME ~Overlap, DInv, Next, \A t \in Tasks : ~OutboxStep(t) PROVE AllKept'
<1>0. /\ TaskType /\ StoreType /\ AllKept /\ count \in 0 .. BoxSize
      /\ "i2c" \in Tasks /\ "loop" \in Tasks /\ "mqtt" \in Tasks
      /\ task["i2c"] \in Frame /\ task["loop"] \in Frame /\ Fresh(task["i2c"], count)
      /\ LoopKept("loop", task["loop"], lookup, nvmLookup, nvmMsg)
  BY DEF DInv, Base, Inv, Steady, AllKept, Kept, Tasks, TaskType
<1>1. ASSUME NEW t \in Tasks, NEW f, Goto(t, f), UNCHANGED <<box, count, lookup, nvmVars, delivered>>,
             Kept(t, f, box, count, lookup, nvmLookup, nvmMsg, delivered)
      PROVE  AllKept'
  <2>1. task'[t] = f /\ \A u \in Tasks \ {t} : task'[u] = task[u]
    BY <1>0, <1>1 DEF Goto, TaskType
  <2> QED
    BY <1>0, <1>1, <2>1, KeptOutside
<1>2. ASSUME NEW m \in Records, Receive(m) PROVE AllKept'
  <2> DEFINE g == [Idle EXCEPT !.pc = "publish", !.msg = m]
  <2>1. Goto("i2c", g) /\ UNCHANGED <<box, count, lookup, nvmVars, delivered>>
    BY <1>2 DEF Receive, ramVars
  <2>2. g.pc = "publish"
    BY DEF Idle
  <2> HIDE DEF g
  <2>3. Kept("i2c", g, box, count, lookup, nvmLookup, nvmMsg, delivered)
    BY <2>2 DEF Kept, ScanKept, StoreKept, ClearKept, LoopKept, Carrying, Storing, Clearing
  <2> QED
    BY <1>0, <1>1, <2>1, <2>3
<1>3. CASE Publish
  <2> DEFINE f == task["i2c"]
             g == [f EXCEPT !.pc = "put"]
             h(id) == [f EXCEPT !.pc = "fill", !.mqtt = id]
  <2>1. f.ix = -1 /\ UNCHANGED <<box, count, lookup, nvmVars, delivered>>
    BY <1>0, <1>3 DEF Publish, At, Fresh, ramVars, history
  <2>2. Goto("i2c", Idle) \/ Goto("i2c", g) \/ \E id \in FreshIds : Goto("i2c", h(id))
    BY <1>3 DEF Publish, Return
  <2>3. g.pc = "put" /\ g.ix = f.ix /\ \A id : h(id).pc = "fill"
    BY <1>0 DEF Frame
  <2> HIDE DEF g, h
  <2>4. Kept("i2c", g, box, count, lookup, nvmLookup, nvmMsg, delivered)
    BY <2>1, <2>3 DEF Kept, ScanKept, StoreKept, ClearKept, LoopKept, Carrying, Storing, Clearing
  <2>5. \A id : Kept("i2c", h(id), box, count, lookup, nvmLookup, nvmMsg, delivered)
    BY <2>3 DEF Kept, ScanKept, StoreKept, ClearKept, LoopKept, Carrying, Storing, Clearing
  <2> QED
    BY <1>0, <1>1, <2>1, <2>2, <2>4, <2>5, IdleKept
<1>4. CASE Republish
  <2> DEFINE f == task["loop"]
             h(id) == [f EXCEPT !.pc = "fill", !.mqtt = id]
  <2>1. f.pc = "republish" /\ UNCHANGED <<box, count, lookup, nvmVars, delivered>>
    BY <1>4 DEF Republish, At, ramVars, history
  <2>2. Goto("loop", Idle) \/ \E id \in FreshIds : Goto("loop", h(id))
    BY <1>4 DEF Republish, Return
  <2>3. \A id : h(id).pc = "fill" /\ h(id).nvm = f.nvm /\ h(id).msg = f.msg
    BY <1>0 DEF Frame
  <2>4. f.nvm \in lookup /\ f.nvm \in nvmLookup /\ nvmMsg[f.nvm] = f.msg
    BY <1>0, <2>1 DEF LoopKept
  <2> HIDE DEF h
  <2>5. \A id : Kept("loop", h(id), box, count, lookup, nvmLookup, nvmMsg, delivered)
    BY <2>3, <2>4 DEF Kept, ScanKept, StoreKept, ClearKept, LoopKept, Carrying, Storing, Clearing
  <2> QED
    BY <1>0, <1>1, <2>1, <2>2, <2>5, IdleKept
<1>5. CASE LoopConnected
  <2> DEFINE k == getNextUnsentId
             g == [Idle EXCEPT !.pc = "republish", !.nvm = k, !.msg = nvmMsg[k]]
  <2>1. UNCHANGED <<box, count, lookup, nvmVars, delivered>> /\ task["loop"].pc = "idle"
    BY <1>5 DEF LoopConnected, At, history
  <2>2. task' = task \/ (k # None /\ Goto("loop", g))
    BY <1>5 DEF LoopConnected, ResendNext
  <2>3. CASE task' = task
    BY <1>0, <2>1, <2>3, KeptOutside
  <2>4. CASE k # None /\ Goto("loop", g)
    <3>2. g.pc = "republish" /\ g.nvm = k /\ g.msg = nvmMsg[k]
      BY DEF Idle
    <3>0. Own("loop")
      BY <1>0, <2>1, <2>4, <3>2, OwnRead
    <3>1. k \in lookup /\ lookup = nvmLookup
      BY <1>0, <2>1, <2>4, <3>0, NextUnsent, CallWritten DEF DInv
    <3> HIDE DEF g, k
    <3>3. Kept("loop", g, box, count, lookup, nvmLookup, nvmMsg, delivered)
      BY <3>1, <3>2 DEF Kept, ScanKept, StoreKept, ClearKept, LoopKept, Carrying, Storing, Clearing
    <3> QED
      BY <1>0, <1>1, <2>1, <2>4, <3>3
  <2> QED
    BY <2>2, <2>3, <2>4
<1>6. CASE LoopOffline \/ MqttError \/ WifiLost
  <2> DEFINE g == [Idle EXCEPT !.pc = "scan", !.ix = 0]
  <2>1. UNCHANGED <<box, count, lookup, nvmVars, delivered>>
    BY <1>6 DEF LoopOffline, MqttError, WifiLost, ramVars, history
  <2>2. PICK t \in Tasks \ {"i2c"} : Goto(t, g)
    BY <1>6 DEF LoopOffline, MqttError, WifiLost, Tasks
  <2>3. g.pc = "scan" /\ g.ix = 0 /\ g.msg = NoRecord
    BY DEF Idle
  <2> HIDE DEF g
  <2>4. ScanKept(t, g, box, count, lookup, nvmLookup, nvmMsg)
    BY <2>3, OutboxAssumption DEF ScanKept, Slots
  <2>5. Kept(t, g, box, count, lookup, nvmLookup, nvmMsg, delivered)
    BY <2>3, <2>4 DEF Kept, StoreKept, ClearKept, LoopKept, Clearing
  <2> QED
    BY <1>1, <2>1, <2>2, <2>5
<1>7. ASSUME \/ LoopStop \/ LoopStart \/ WifiGotIp \/ NetworkChanges
             \/ \E w \in wire : Delivery(w)
      PROVE  AllKept'
  <2>1. UNCHANGED <<box, count, lookup, nvmVars, task>> /\ delivered \subseteq delivered'
    BY <1>7 DEF LoopStop, LoopStart, WifiGotIp, NetworkChanges, Delivery, ramVars, history
  <2> QED
    BY <1>0, <2>1, KeptOutside
<1>8. ASSUME NEW id \in PacketIds, Published(id) PROVE AllKept'
  <2> DEFINE hits == {k \in InBox : box[k].mqtt = id}
             i == Least(hits)
             g == [Idle EXCEPT !.pc = "shift", !.ix = i]
             h == [Idle EXCEPT !.pc = "unmark", !.ix = i, !.nvm = box[i].nvm, !.seen = lookup]
  <2>1. UNCHANGED <<box, count, lookup, nvmVars, delivered>> /\ id \in acks
    BY <1>8 DEF Published, ramVars, history
  <2>2. \/ task' = task
        \/ hits # {} /\ Goto("mqtt", g)
        \/ hits # {} /\ box[i].nvm # None /\ Goto("mqtt", h)
    BY <1>8 DEF Published
  <2>3. CASE task' = task
    BY <1>0, <2>1, <2>3, KeptOutside
  <2>4. CASE hits # {}
    <3>1. i \in InBox /\ box[i].mqtt = id
      BY <2>4, HitFound
    <3>2. box[i].msg \in delivered
      BY <2>1, <3>1, OutboxAssumption DEF DInv, Acked, Holds, None
    <3>3. i \in 0 .. count - 1
      BY <1>0, <3>1 DEF InBox, Slots
    <3>4. /\ g.pc = "shift" /\ g.ix = i /\ g.msg = NoRecord
          /\ h.pc = "unmark" /\ h.ix = i /\ h.msg = NoRecord /\ h.nvm = box[i].nvm /\ h.seen = lookup
      BY DEF Idle
    <3> HIDE DEF g, h, i, hits
    <3>5. Kept("mqtt", g, box, count, lookup, nvmLookup, nvmMsg, delivered)
      BY <3>2, <3>3, <3>4 DEF Kept, ScanKept, StoreKept, ClearKept, LoopKept, Storing, Clearing
    <3>6. box[i].nvm # None => Kept("mqtt", h, box, count, lookup, nvmLookup, nvmMsg, delivered)
      BY <3>2, <3>3, <3>4 DEF Kept, ScanKept, StoreKept, ClearKept, LoopKept, Storing, Clearing
    <3> QED
      BY <1>0, <1>1, <2>1, <2>2, <2>3, <3>5, <3>6
  <2> QED
    BY <2>2, <2>3, <2>4
<1>9. CASE Restart
  <2>1. \A t \in Tasks : task'[t] = Idle
    BY <1>9 DEF Restart
  <2> QED
    BY <2>1, IdleKept DEF AllKept
<1> QED
  BY <1>2, <1>3, <1>4, <1>5, <1>6, <1>7, <1>8, <1>9 DEF Next

LEMMA KeptStep == ASSUME DInv, [Next /\ ~Overlap]_vars PROVE AllKept'
<1>1. CASE UNCHANGED vars
  BY <1>1, KeptOutside DEF DInv, Base, Inv, vars, ramVars, nvmVars, history
<1>2. CASE ~Overlap /\ \E t \in Tasks : OutboxStep(t)
  BY <1>2, OwnStep, EnqueueKept, StoreMsgKept, ScanningKept, ClearingKept DEF OutboxStep
<1>3. CASE Next /\ ~Overlap /\ \A t \in Tasks : ~OutboxStep(t)
  BY <1>3, CallersKept
<1> QED
  BY <1>1, <1>2, <1>3
-----------------------------------------------------------------------------
(* Callers leave box and flash alone; they move tasks that are not in a call. *)
LEMMA CallerMoves ==
  ASSUME DInv, Next, ~Restart, \A t \in Tasks : ~OutboxStep(t)
  PROVE  /\ UNCHANGED <<box, count, lookup, nvmMsg, nvmLookup>>
         /\ \A u \in Tasks : \/ task'[u] = task[u]
                             \/ /\ task[u].pc \in {"idle", "publish", "republish"}
                                /\ task'[u].pc \notin {"save", "unsave"}
<1>0. TaskType /\ task["i2c"] \in Frame /\ task["loop"] \in Frame
  BY DEF DInv, Base, Inv, TaskType, Tasks
<1>1. ASSUME NEW t \in Tasks, NEW f, Goto(t, f), UNCHANGED <<box, count, lookup, nvmMsg, nvmLookup>>,
             task[t].pc \in {"idle", "publish", "republish"}, f.pc \notin {"save", "unsave"}
      PROVE  \A u \in Tasks : \/ task'[u] = task[u]
                              \/ /\ task[u].pc \in {"idle", "publish", "republish"}
                                 /\ task'[u].pc \notin {"save", "unsave"}
  BY <1>0, <1>1 DEF Goto, TaskType
<1>2. UNCHANGED <<box, count, lookup, nvmMsg, nvmLookup>>
  BY DEF Next, Receive, Publish, Republish, LoopConnected, LoopOffline, LoopStop, LoopStart,
     MqttError, WifiLost, WifiGotIp, Published, NetworkChanges, Delivery, ramVars, nvmVars
<1>3. ASSUME NEW m \in Records, Receive(m)
      PROVE  \E t \in Tasks : \E f : Goto(t, f) /\ task[t].pc = "idle" /\ f.pc = "publish"
  <2>1. "i2c" \in Tasks /\ task["i2c"].pc = "idle" /\ Goto("i2c", [Idle EXCEPT !.pc = "publish", !.msg = m])
    BY <1>3 DEF Receive, At, Tasks
  <2>2. [Idle EXCEPT !.pc = "publish", !.msg = m].pc = "publish"
    BY DEF Idle
  <2> QED
    BY <2>1, <2>2
<1>4. ASSUME Publish
      PROVE  /\ task["i2c"].pc = "publish"
             /\ \E f : Goto("i2c", f) /\ f.pc \in {"idle", "put", "fill"}
  <2> DEFINE f == task["i2c"]
  <2>1. /\ f.pc = "publish"
        /\ \/ Goto("i2c", Idle) \/ Goto("i2c", [f EXCEPT !.pc = "put"])
           \/ \E id \in FreshIds : Goto("i2c", [f EXCEPT !.pc = "fill", !.mqtt = id])
    BY <1>4 DEF Publish, At, Return
  <2>2. /\ Idle.pc = "idle" /\ [f EXCEPT !.pc = "put"].pc = "put"
        /\ \A id : [f EXCEPT !.pc = "fill", !.mqtt = id].pc = "fill"
    BY <1>0 DEF Frame, Idle
  <2> QED
    BY <2>1, <2>2
<1>5. ASSUME Republish
      PROVE  /\ task["loop"].pc = "republish"
             /\ \E f : Goto("loop", f) /\ f.pc \in {"idle", "fill"}
  <2> DEFINE f == task["loop"]
  <2>1. /\ f.pc = "republish"
        /\ \/ Goto("loop", Idle)
           \/ \E id \in FreshIds : Goto("loop", [f EXCEPT !.pc = "fill", !.mqtt = id])
    BY <1>5 DEF Republish, At, Return
  <2>2. Idle.pc = "idle" /\ \A id : [f EXCEPT !.pc = "fill", !.mqtt = id].pc = "fill"
    BY <1>0 DEF Frame, Idle
  <2> QED
    BY <2>1, <2>2
<1>6. ASSUME LoopConnected
      PROVE  \/ task' = task
             \/ task["loop"].pc = "idle" /\ \E f : Goto("loop", f) /\ f.pc = "republish"
  <2>1. /\ task["loop"].pc = "idle"
        /\ \/ task' = task
           \/ Goto("loop", [Idle EXCEPT !.pc = "republish", !.nvm = getNextUnsentId,
                                        !.msg = nvmMsg[getNextUnsentId]])
    BY <1>6 DEF LoopConnected, ResendNext, At
  <2>2. [Idle EXCEPT !.pc = "republish", !.nvm = getNextUnsentId,
                     !.msg = nvmMsg[getNextUnsentId]].pc = "republish"
    BY DEF Idle
  <2> QED
    BY <2>1, <2>2
<1>7. ASSUME LoopOffline \/ MqttError \/ WifiLost
      PROVE  \E t \in Tasks : \E f : Goto(t, f) /\ task[t].pc = "idle" /\ f.pc = "scan"
  <2>1. PICK t \in Tasks : /\ task[t].pc = "idle"
                           /\ Goto(t, [Idle EXCEPT !.pc = "scan", !.ix = 0])
    BY <1>7 DEF LoopOffline, MqttError, WifiLost, At, Tasks
  <2>2. [Idle EXCEPT !.pc = "scan", !.ix = 0].pc = "scan"
    BY DEF Idle
  <2> QED
    BY <2>1, <2>2
<1>8. ASSUME NEW id \in PacketIds, Published(id)
      PROVE  \/ task' = task
             \/ task["mqtt"].pc = "idle" /\ \E f : Goto("mqtt", f) /\ f.pc \in {"shift", "unmark"}
  <2> DEFINE i == Least({k \in InBox : box[k].mqtt = id})
             g == [Idle EXCEPT !.pc = "shift", !.ix = i]
             h == [Idle EXCEPT !.pc = "unmark", !.ix = i, !.nvm = box[i].nvm, !.seen = lookup]
  <2>1. task["mqtt"].pc = "idle" /\ (task' = task \/ Goto("mqtt", g) \/ Goto("mqtt", h))
    BY <1>8 DEF Published, At
  <2>2. g.pc = "shift" /\ h.pc = "unmark"
    BY DEF Idle
  <2> QED
    BY <2>1, <2>2
<1>9. ASSUME LoopStop \/ LoopStart \/ WifiGotIp \/ NetworkChanges \/ \E w \in wire : Delivery(w)
      PROVE  task' = task
  BY <1>9 DEF LoopStop, LoopStart, WifiGotIp, NetworkChanges, Delivery
<1>10. "i2c" \in Tasks /\ "loop" \in Tasks /\ "mqtt" \in Tasks
  BY DEF Tasks
<1>11. \/ task' = task
       \/ \E t \in Tasks : \E f : /\ Goto(t, f) /\ task[t].pc \in {"idle", "publish", "republish"}
                                  /\ f.pc \notin {"save", "unsave"}
  <2>1. CASE \E m \in Records : Receive(m)
    BY <1>3, <2>1
  <2>2. CASE Publish \/ Republish
    BY <1>4, <1>5, <1>10, <2>2
  <2>3. CASE LoopConnected \/ \E id \in PacketIds : Published(id)
    BY <1>6, <1>8, <1>10, <2>3
  <2>4. CASE LoopOffline \/ MqttError \/ WifiLost
    BY <1>7, <2>4
  <2> QED
    BY <1>9, <2>1, <2>2, <2>3, <2>4 DEF Next
<1> QED
  BY <1>1, <1>2, <1>11

(* RAM and flash agree between calls, and every entry from the flash is      *)
(* still there or has just been cleared.                                     *)
LEMMA WrittenStep == ASSUME DInv, [Next /\ ~Overlap]_vars PROVE Written'
<1>0. TaskType /\ AllKept
  BY DEF DInv, Base, Inv
<1>1. CASE UNCHANGED vars
  BY <1>1 DEF DInv, Written, vars, ramVars, nvmVars
<1>2. ASSUME ~Overlap, NEW t \in Tasks, OutboxStep(t) PROVE Written'
  <2> DEFINE f == task[t]
  <2>1. f \in Frame /\ Kept(t, f, box, count, lookup, nvmLookup, nvmMsg, delivered)
    BY <1>0 DEF TaskType, AllKept
  <2>2. CASE Mark(t) \/ Unmark(t)
    <3>1. [f EXCEPT !.pc = "save", !.seen = {}].pc = "save" /\ [f EXCEPT !.pc = "unsave", !.seen = {}].pc = "unsave"
      BY <2>1 DEF Frame
    <3>2. task'[t].pc \in {"save", "unsave"}
      BY <1>0, <2>2, <3>1 DEF Mark, Unmark, Goto, TaskType
    <3> QED
      BY <3>2 DEF Written
  <2>3. CASE Save(t) \/ Unsave(t)
    BY <2>3 DEF Save, Unsave, ramVars, Written
  <2>4. CASE Fill(t) \/ Bump(t) \/ Put(t) \/ Scan(t) \/ Reset(t) \/ Shift(t)
    <3>1. f.pc \notin {"save", "unsave"} /\ UNCHANGED <<lookup, nvmLookup>>
      BY <2>4 DEF Fill, Bump, Put, Scan, Reset, Shift, At, ramVars, nvmVars
    <3> QED
      BY <1>2, <3>1, OwnStep, CallWritten DEF DInv, Written
  <2> QED
    BY <1>2, <2>2, <2>3, <2>4 DEF OutboxStep
<1>3. CASE Restart
  BY <1>3 DEF Restart, nvmVars, Written
<1>4. CASE Next /\ ~Overlap /\ ~Restart /\ \A t \in Tasks : ~OutboxStep(t)
  <2>1. \A u \in Tasks : task[u].pc \in {"save", "unsave"} => task'[u].pc = task[u].pc
    BY <1>4, CallerMoves
  <2> QED
    BY <1>4, <2>1, CallerMoves DEF DInv, Written
<1> QED
  BY <1>1, <1>2, <1>3, <1>4

LEMMA LinkedStep == ASSUME DInv, [Next /\ ~Overlap]_vars PROVE Linked'
<1>0. /\ TaskType /\ StoreType /\ AllKept /\ count \in 0 .. BoxSize /\ BoxSize \in 2 .. 254
      /\ OneFromFlash(box, count) /\ Linked
  BY OutboxAssumption DEF DInv, Base, Inv, Steady, Resending
<1>1. CASE UNCHANGED vars
  BY <1>0, <1>1 DEF Linked, InBox, vars, ramVars, nvmVars
<1>2. ASSUME ~Overlap, NEW t \in Tasks, OutboxStep(t) PROVE Linked'
  <2> DEFINE f == task[t]
             Linked2(i) == /\ nvmMsg[box[i].nvm] = box[i].msg
                           /\ \/ box[i].nvm \in lookup
                              \/ f.pc \in {"unsave", "shift"} /\ f.ix = i
  <2>1. /\ f \in Frame /\ Kept(t, f, box, count, lookup, nvmLookup, nvmMsg, delivered)
        /\ Brings(t, f, box, count) /\ Fresh(f, count)
    BY DEF DInv, Base, Inv, TaskType, AllKept, Resending, Steady
  <2>2. UNCHANGED delivered
    BY <1>2 DEF OutboxStep, Fill, Bump, Put, Mark, Save, Scan, Reset, Unmark, Unsave, Shift, history
  <2>3. \A i \in InBox : box[i].nvm # None => Linked2(i)
    BY <1>0, <1>2, OwnStep, CallLinked
  <2>4. ASSUME \A i \in InBox' : box'[i].nvm # None =>
                 nvmMsg'[box'[i].nvm] = box'[i].msg /\ box'[i].nvm \in lookup'
        PROVE  Linked'
    BY <2>4 DEF Linked
  <2> HIDE DEF f
  <2>5. CASE Fill(t) \/ Put(t) \/ Mark(t) \/ Save(t) \/ Scan(t)
    <3>1. f.pc \notin {"unsave", "shift"} /\ count' = count
      BY <2>5 DEF Fill, Put, Mark, Save, Scan, At, ramVars, f
    <3>2. \A i \in InBox : box'[i] = box[i]
      <4>1. CASE Fill(t) /\ count < BoxSize
        <5>1. \A i \in InBox : i # count
          BY <1>0 DEF InBox, Slots
        <5> QED
          BY <1>0, <4>1, <5>1 DEF Fill, InBox, StoreType
      <4>2. CASE (Fill(t) /\ ~(count < BoxSize)) \/ Put(t) \/ Mark(t) \/ Save(t) \/ Scan(t)
        BY <4>2 DEF Fill, Put, Mark, Save, Scan, ramVars
      <4> QED
        BY <2>5, <4>1, <4>2
    <3>3. lookup \subseteq lookup'
      BY <2>1, <2>5 DEF Fill, Put, Mark, Save, Scan, ramVars, Kept, StoreKept, f, At
    <3>4. \A k \in lookup : nvmMsg'[k] = nvmMsg[k]
      <4>1. CASE Put(t)
        BY <4>1, <1>0, OpenId DEF Put, StoreType
      <4>2. CASE Fill(t) \/ Mark(t) \/ Save(t) \/ Scan(t)
        BY <4>2 DEF Fill, Mark, Save, Scan, nvmVars
      <4> QED
        BY <2>5, <4>1, <4>2
    <3> QED
      BY <2>3, <2>4, <3>1, <3>2, <3>3, <3>4 DEF InBox
  <2>6. CASE Bump(t)
    <3>1. f.pc = "bump" /\ UNCHANGED <<box, lookup, nvmMsg>>
      BY <2>6 DEF Bump, At, nvmVars, f
    <3>2. f.ix = count /\ count' = (count + 1) % 256 /\ count < BoxSize
      BY <2>1, <2>6, <3>1 DEF Bump, Fresh, f
    <3>3. \A i \in InBox' : i \in InBox \/ i = count
      BY <1>0, <3>2 DEF InBox, Slots
    <3>4. ASSUME box[count].nvm # None
          PROVE  nvmMsg[box[count].nvm] = box[count].msg /\ box[count].nvm \in lookup
      BY <2>1, <3>1, <3>4 DEF Kept, StoreKept, LoopKept, Brings
    <3> QED
      BY <2>3, <2>4, <3>1, <3>3, <3>4
  <2>7. CASE Reset(t)
    BY <2>7 DEF Reset, Linked, InBox, Slots
  <2>8. CASE Unmark(t)
    <3> DEFINE g == [f EXCEPT !.pc = "unsave", !.seen = {}]
    <3>1. f.pc = "unmark" /\ UNCHANGED <<box, count, nvmMsg>> /\ Goto(t, g)
      BY <2>8 DEF Unmark, At, nvmVars, f
    <3>2. lookup' = lookup \ {f.nvm} /\ f.nvm = box[f.ix].nvm /\ f.nvm # None /\ f.ix \in InBox
      BY <1>0, <2>1, <2>8, <3>1 DEF Unmark, Kept, ClearKept, Clearing, f, InBox, Slots
    <3>3. g.pc = "unsave" /\ g.ix = f.ix
      BY <2>1 DEF Frame
    <3> HIDE DEF g
    <3>4. task'[t].pc = "unsave" /\ task'[t].ix = f.ix
      BY <1>0, <3>1, <3>3 DEF Goto, TaskType
    <3>5. \A i \in InBox : box[i].nvm # None =>
            nvmMsg[box[i].nvm] = box[i].msg /\ (box[i].nvm \in lookup' \/ i = f.ix)
      BY <1>0, <2>3, <3>1, <3>2 DEF OneFromFlash, InBox
    <3> QED
      BY <3>1, <3>4, <3>5 DEF Linked, InBox
  <2>9. CASE Unsave(t)
    <3> DEFINE g == [Idle EXCEPT !.pc = "shift", !.ix = f.ix]
    <3>1. f.pc = "unsave" /\ UNCHANGED <<box, count, lookup, nvmMsg>> /\ Goto(t, g)
      BY <2>9 DEF Unsave, At, ramVars, f
    <3>2. g.pc = "shift" /\ g.ix = f.ix
      BY DEF Idle
    <3> HIDE DEF g
    <3>3. task'[t].pc = "shift" /\ task'[t].ix = f.ix
      BY <1>0, <3>1, <3>2 DEF Goto, TaskType
    <3> QED
      BY <2>3, <3>1, <3>3 DEF Linked, InBox
  <2>10. CASE Shift(t)
    <3>1. f.pc = "shift" /\ UNCHANGED <<lookup, nvmMsg>> /\ f.ix \in 0 .. count - 1
      BY <2>1, <2>10 DEF Shift, At, nvmVars, Fresh, f
    <3>2. count' = count - 1
      BY <1>0, <2>10, <3>1 DEF Shift
    <3>3. ASSUME NEW i \in InBox'
          PROVE  \E j \in InBox : j # f.ix /\ box'[i] = box[j]
      <4>1. i \in Slots /\ i < count - 1
        BY <3>2 DEF InBox
      <4>2. box'[i] = IF f.ix <= i THEN box[i + 1] ELSE box[i]
        BY <2>10, <3>2, <4>1 DEF Shift, Forget, f
      <4>3. i + 1 \in InBox /\ i \in InBox
        BY <1>0, <4>1 DEF InBox, Slots
      <4>4. CASE f.ix <= i
        <5>1. i + 1 # f.ix
          BY <3>1, <4>1, <4>4 DEF Slots
        <5> QED
          BY <4>2, <4>3, <4>4, <5>1
      <4>5. CASE ~(f.ix <= i)
        <5>1. i # f.ix
          BY <3>1, <4>1, <4>5 DEF Slots
        <5> QED
          BY <4>2, <4>3, <4>5, <5>1
      <4> QED
        BY <4>4, <4>5
    <3> QED
      BY <2>3, <2>4, <3>1, <3>3
  <2> QED
    BY <1>2, <2>5, <2>6, <2>7, <2>8, <2>9, <2>10 DEF OutboxStep
<1>3. CASE Restart
  BY <1>3 DEF Restart, Linked, InBox, Slots
<1>4. CASE Next /\ ~Overlap /\ ~Restart /\ \A t \in Tasks : ~OutboxStep(t)
  <2>1. \A u \in Tasks : task[u].pc \in {"unsave", "shift"} => task'[u] = task[u]
    BY <1>4, CallerMoves
  <2> QED
    BY <1>0, <1>4, <2>1, CallerMoves DEF Linked, InBox
<1> QED
  BY <1>1, <1>2, <1>3, <1>4
-----------------------------------------------------------------------------
(* What a step moves, seen by the records: first the outbox.                 *)
Others(t) == \A u \in Tasks \ {t} : task'[u] = task[u]

LetsGo(t) == Others(t) /\ task'[t].msg = NoRecord /\ task'[t].pc \notin Carrying

HoldsOn(t) ==
  /\ Others(t) /\ task'[t].msg = task[t].msg /\ task'[t].mqtt = task[t].mqtt
  /\ task[t].pc \notin {"bump", "save", "republish"} /\ task'[t].pc # "republish"
  /\ task'[t].pc \in Carrying => task[t].pc \in Carrying
  /\ task'[t].pc \in {"fill", "bump"} => task[t].pc = "fill"

TakesUp(t) ==
  /\ Others(t) /\ task[t].pc = "scan" /\ task'[t].pc = "put"
  /\ \E i \in InBox : task'[t].msg = box[i].msg

BoxFrom(t) ==
  \A i \in InBox' :
    \/ \E j \in InBox : box'[i] = box[j]
    \/ /\ task[t].pc = "bump" /\ box'[i].mqtt = task[t].mqtt /\ box'[i].msg = task[t].msg

FlashFrom(t) ==
  \A k \in NvmIds :
    nvmMsg'[k] = nvmMsg[k] \/ (k \notin lookup /\ task[t].pc = "put" /\ nvmMsg'[k] = task[t].msg)

LookupFrom(t) ==
  \A k \in lookup' \ lookup :
    /\ task[t].pc = "mark" /\ k = task[t].nvm /\ nvmMsg[k] = task[t].msg
    /\ task'[t].pc = "save" /\ task'[t].nvm = k

LEMMA OutboxData ==
  ASSUME DInv, NEW t \in Tasks, Own(t), OutboxStep(t)
  PROVE  /\ LetsGo(t) \/ HoldsOn(t) \/ TakesUp(t)
         /\ BoxFrom(t) /\ FlashFrom(t) /\ LookupFrom(t)
         /\ UNCHANGED <<wire, acks, hub, taken, delivered>>
<1> DEFINE f == task[t]
<1>0. /\ f \in Frame /\ TaskType /\ StoreType /\ count \in 0 .. BoxSize /\ BoxSize \in 2 .. 254
      /\ Kept(t, f, box, count, lookup, nvmLookup, nvmMsg, delivered)
      /\ Fresh(f, count)
  BY OutboxAssumption DEF DInv, Base, Inv, TaskType, Steady, AllKept
<1>1. UNCHANGED <<wire, acks, hub, taken, delivered>>
  BY DEF OutboxStep, Fill, Bump, Put, Mark, Save, Scan, Reset, Unmark, Unsave, Shift, netVars, history
<1>2. ASSUME NEW g, Goto(t, g) PROVE Others(t) /\ task'[t] = g
  BY <1>0, <1>2 DEF Goto, TaskType, Others
<1> HIDE DEF f
<1>3. UNCHANGED <<box, count>> => BoxFrom(t)
  BY DEF BoxFrom, InBox
<1>4. UNCHANGED nvmMsg => FlashFrom(t)
  BY DEF FlashFrom
<1>5. lookup' \subseteq lookup => LookupFrom(t)
  BY DEF LookupFrom
<1>6. ASSUME Goto(t, Idle) PROVE LetsGo(t)
  BY <1>2, <1>6 DEF LetsGo, Idle, Carrying
<1>7. ASSUME Goto(t, AfterStore(f)) PROVE LetsGo(t)
  <2>1. AfterStore(f).msg = NoRecord /\ AfterStore(f).pc \in {"idle", "scan"}
    BY DEF AfterStore, Idle
  <2> QED
    BY <1>2, <1>7, <2>1 DEF LetsGo, Carrying
<1>8. CASE Fill(t)
  <2>1. f.pc = "fill" /\ UNCHANGED <<count, lookup, nvmMsg>>
    BY <1>8 DEF Fill, At, nvmVars, f
  <2>2. BoxFrom(t)
    <3>1. \A i \in InBox : box'[i] = box[i]
      <4>1. CASE count < BoxSize
        <5>1. \A i \in InBox : i # count
          BY <1>0 DEF InBox, Slots
        <5> QED
          BY <1>0, <1>8, <4>1, <5>1 DEF Fill, InBox, StoreType
      <4>2. CASE ~(count < BoxSize)
        BY <1>8, <4>2 DEF Fill
      <4> QED
        BY <4>1, <4>2
    <3> QED
      BY <2>1, <3>1 DEF BoxFrom, InBox
  <2>3. LetsGo(t) \/ HoldsOn(t)
    <3>1. Goto(t, [f EXCEPT !.pc = "bump", !.ix = count]) \/ Goto(t, Idle)
      BY <1>8 DEF Fill, Return, f
    <3>2. ASSUME Goto(t, [f EXCEPT !.pc = "bump", !.ix = count]) PROVE HoldsOn(t)
      <4> DEFINE g == [f EXCEPT !.pc = "bump", !.ix = count]
      <4>1. g.pc = "bump" /\ g.msg = f.msg /\ g.mqtt = f.mqtt
        BY <1>0 DEF Frame
      <4>2. Goto(t, g)
        BY <3>2
      <4> HIDE DEF g
      <4> QED
        BY <1>2, <2>1, <4>1, <4>2 DEF HoldsOn, Carrying, f
    <3> QED
      BY <1>6, <3>1, <3>2
  <2> QED
    BY <1>1, <1>4, <1>5, <2>1, <2>2, <2>3
<1>9. CASE Bump(t)
  <2>1. f.pc = "bump" /\ UNCHANGED <<box, lookup, nvmMsg>> /\ Goto(t, Idle)
    BY <1>9 DEF Bump, At, nvmVars, Return, f
  <2>2. f.ix = count /\ count' = (count + 1) % 256 /\ count < BoxSize
    BY <1>0, <1>9, <2>1 DEF Bump, Fresh, f
  <2>3. \A i \in InBox' : i \in InBox \/ i = count
    BY <1>0, <2>2 DEF InBox, Slots
  <2>4. box[count].mqtt = f.mqtt /\ box[count].msg = f.msg
    BY <1>0, <2>1 DEF Kept, StoreKept
  <2>5. BoxFrom(t)
    BY <2>1, <2>3, <2>4 DEF BoxFrom, f
  <2> QED
    BY <1>1, <1>4, <1>5, <1>6, <2>1, <2>5
<1>10. CASE Put(t)
  <2>1. f.pc = "put" /\ UNCHANGED <<box, count, lookup>>
    BY <1>10 DEF Put, At, ramVars, f
  <2>2. CASE getOpenId = None
    BY <1>1, <1>3, <1>4, <1>5, <1>7, <1>10, <2>1, <2>2 DEF Put, f
  <2>3. CASE getOpenId # None
    <3> DEFINE id == getOpenId
               g == [f EXCEPT !.pc = "mark", !.nvm = id, !.seen = lookup]
    <3>1. Goto(t, g) /\ nvmMsg' = [nvmMsg EXCEPT ![id] = f.msg]
      BY <1>10, <2>3 DEF Put, f
    <3>2. id \in NvmIds \ lookup
      BY <1>0, <2>3, OpenId
    <3>3. g.pc = "mark" /\ g.msg = f.msg /\ g.mqtt = f.mqtt
      BY <1>0 DEF Frame
    <3> HIDE DEF g, id
    <3>4. FlashFrom(t)
      BY <1>0, <2>1, <3>1, <3>2 DEF FlashFrom, StoreType, f
    <3>5. HoldsOn(t)
      BY <1>2, <2>1, <3>1, <3>3 DEF HoldsOn, Carrying, f
    <3> QED
      BY <1>1, <1>3, <1>5, <2>1, <3>4, <3>5
  <2> QED
    BY <2>2, <2>3
<1>11. CASE Mark(t)
  <2> DEFINE g == [f EXCEPT !.pc = "save", !.seen = {}]
  <2>1. f.pc = "mark" /\ Goto(t, g) /\ UNCHANGED <<box, count, nvmMsg>>
    BY <1>11 DEF Mark, At, nvmVars, f
  <2>2. nvmMsg[f.nvm] = f.msg /\ lookup' = lookup \cup {f.nvm}
    BY <1>0, <1>11, <2>1 DEF Mark, Kept, StoreKept, f
  <2>3. g.pc = "save" /\ g.msg = f.msg /\ g.mqtt = f.mqtt /\ g.nvm = f.nvm
    BY <1>0 DEF Frame
  <2> HIDE DEF g
  <2>4. HoldsOn(t) /\ LookupFrom(t)
    BY <1>2, <2>1, <2>2, <2>3 DEF HoldsOn, LookupFrom, Carrying, f
  <2> QED
    BY <1>1, <1>3, <1>4, <2>1, <2>4
<1>12. CASE Save(t)
  BY <1>1, <1>3, <1>4, <1>5, <1>7, <1>12 DEF Save, ramVars, f
<1>13. CASE Scan(t)
  <2>1. f.pc = "scan" /\ UNCHANGED <<box, count, lookup, nvmMsg>>
    BY <1>13 DEF Scan, At, ramVars, nvmVars, f
  <2>2. \/ f.ix \in InBox /\ Goto(t, [Idle EXCEPT !.pc = "put", !.ix = f.ix, !.msg = box[f.ix].msg])
        \/ Goto(t, [Idle EXCEPT !.pc = "reset"])
        \/ Goto(t, Idle)
    BY <1>13 DEF Scan, Return, f
  <2>3. ASSUME f.ix \in InBox, Goto(t, [Idle EXCEPT !.pc = "put", !.ix = f.ix, !.msg = box[f.ix].msg])
        PROVE  TakesUp(t)
    <3> DEFINE g == [Idle EXCEPT !.pc = "put", !.ix = f.ix, !.msg = box[f.ix].msg]
    <3>1. g.pc = "put" /\ g.msg = box[f.ix].msg /\ Goto(t, g)
      BY <2>3 DEF Idle
    <3> HIDE DEF g
    <3> QED
      BY <1>2, <2>1, <2>3, <3>1 DEF TakesUp, f
  <2>4. ASSUME Goto(t, [Idle EXCEPT !.pc = "reset"]) PROVE LetsGo(t)
    BY <1>2, <2>4 DEF LetsGo, Idle, Carrying
  <2> QED
    BY <1>1, <1>3, <1>4, <1>5, <1>6, <2>1, <2>2, <2>3, <2>4
<1>14. CASE Reset(t)
  <2>1. Goto(t, Idle) /\ UNCHANGED <<lookup, nvmMsg>>
    BY <1>14 DEF Reset, Return, nvmVars
  <2>2. BoxFrom(t)
    BY <1>14 DEF Reset, BoxFrom, InBox, Slots
  <2> QED
    BY <1>1, <1>4, <1>5, <1>6, <2>1, <2>2
<1>15. CASE Unmark(t)
  <2> DEFINE g == [f EXCEPT !.pc = "unsave", !.seen = {}]
  <2>1. f.pc = "unmark" /\ Goto(t, g) /\ UNCHANGED <<box, count, nvmMsg>>
    BY <1>15 DEF Unmark, At, nvmVars, f
  <2>2. lookup' = lookup \ {f.nvm}
    BY <1>0, <1>15, <2>1 DEF Unmark, Kept, ClearKept, f
  <2>3. g.pc = "unsave" /\ g.msg = f.msg /\ g.mqtt = f.mqtt
    BY <1>0 DEF Frame
  <2> HIDE DEF g
  <2>4. HoldsOn(t)
    BY <1>2, <2>1, <2>3 DEF HoldsOn, Carrying, f
  <2> QED
    BY <1>1, <1>3, <1>4, <1>5, <2>1, <2>2, <2>4
<1>16. CASE Unsave(t)
  <2>1. Goto(t, [Idle EXCEPT !.pc = "shift", !.ix = f.ix]) /\ UNCHANGED <<box, count, lookup, nvmMsg>>
    BY <1>16 DEF Unsave, ramVars, f
  <2>2. LetsGo(t)
    <3> DEFINE g == [Idle EXCEPT !.pc = "shift", !.ix = f.ix]
    <3>1. g.pc = "shift" /\ g.msg = NoRecord /\ Goto(t, g)
      BY <2>1 DEF Idle
    <3> HIDE DEF g
    <3> QED
      BY <1>2, <3>1 DEF LetsGo, Carrying
  <2> QED
    BY <1>1, <1>3, <1>4, <1>5, <2>1, <2>2
<1>17. CASE Shift(t)
  <2>1. /\ f.pc = "shift" /\ UNCHANGED <<lookup, nvmMsg>> /\ f.ix \in 0 .. count - 1
        /\ Goto(t, Idle)
    BY <1>0, <1>17 DEF Shift, At, nvmVars, Fresh, Return, f
  <2>2. count' = count - 1
    BY <1>0, <1>17, <2>1 DEF Shift
  <2>3. ASSUME NEW i \in InBox' PROVE \E j \in InBox : box'[i] = box[j]
    <3>1. i \in Slots /\ i < count - 1
      BY <2>2 DEF InBox
    <3>2. box'[i] = IF f.ix <= i THEN box[i + 1] ELSE box[i]
      BY <1>17, <2>2, <3>1 DEF Shift, Forget, f
    <3>3. i + 1 \in InBox /\ i \in InBox
      BY <1>0, <3>1 DEF InBox, Slots
    <3> QED
      BY <3>2, <3>3
  <2>4. BoxFrom(t)
    BY <2>3 DEF BoxFrom
  <2> QED
    BY <1>1, <1>4, <1>5, <1>6, <2>1, <2>4
<1> QED
  BY <1>8, <1>9, <1>10, <1>11, <1>12, <1>13, <1>14, <1>15, <1>16, <1>17 DEF OutboxStep
(* Then the callers and what is around them.                                 *)
Nobody == task' = task /\ UNCHANGED taken /\ wire' \subseteq wire

Around ==
  \/ Nobody /\ acks' \subseteq acks /\ UNCHANGED delivered
  \/ \E w \in wire : /\ Nobody /\ acks' \subseteq acks \cup {w.mqtt}
                     /\ delivered' = delivered \cup {w.msg} /\ UNCHANGED hub

SetsOut(t) ==
  /\ LetsGo(t) /\ UNCHANGED <<wire, taken, delivered, hub>> /\ acks' \subseteq acks
  /\ task[t].pc \in {"idle", "republish"} \/ (task[t].pc = "publish" /\ ~hub)

Received(m) ==
  /\ m \notin taken /\ taken' = taken \cup {m} /\ UNCHANGED <<wire, acks, delivered, hub>>
  /\ Others("i2c") /\ task["i2c"].pc = "idle"
  /\ task'["i2c"].pc = "publish" /\ task'["i2c"].msg = m

Publishes(t) ==
  /\ Others(t) /\ UNCHANGED <<acks, taken, delivered, hub>>
  /\ task[t].pc \in {"publish", "republish"} /\ task'[t].msg = task[t].msg
  /\ \/ task'[t].pc = "put" /\ UNCHANGED wire
     \/ \E id \in FreshIds : /\ task'[t].pc = "fill" /\ task'[t].mqtt = id
                             /\ wire' = wire \cup {[mqtt |-> id, msg |-> task[t].msg]}

ReadsBack ==
  /\ Others("loop") /\ UNCHANGED <<wire, acks, taken, delivered, hub>> /\ Own("loop")
  /\ task["loop"].pc = "idle" /\ task'["loop"].pc = "republish"
  /\ \E k \in lookup : nvmMsg[k] \in Records /\ task'["loop"].msg = nvmMsg[k]

LEMMA CallerData ==
  ASSUME ~Overlap, DInv, Next, ~Restart, \A t \in Tasks : ~OutboxStep(t)
  PROVE  \/ Around
         \/ \E t \in Tasks : SetsOut(t) \/ Publishes(t)
         \/ \E m \in Records : Received(m)
         \/ ReadsBack
<1>0. /\ TaskType /\ StoreType /\ NetType /\ task["i2c"] \in Frame /\ task["loop"] \in Frame
      /\ "i2c" \in Tasks /\ "loop" \in Tasks /\ "mqtt" \in Tasks
  BY DEF DInv, Base, Inv, TaskType, Tasks
<1>1. ASSUME NEW t \in Tasks, NEW g, Goto(t, g) PROVE Others(t) /\ task'[t] = g
  BY <1>0, <1>1 DEF Goto, TaskType, Others
<1>2. ASSUME NEW m \in Records, Receive(m) PROVE Received(m)
  <2> DEFINE g == [Idle EXCEPT !.pc = "publish", !.msg = m]
  <2>1. /\ Goto("i2c", g) /\ m \notin taken /\ taken' = taken \cup {m} /\ task["i2c"].pc = "idle"
        /\ UNCHANGED <<wire, acks, delivered, hub>>
    BY <1>2 DEF Receive, At, netVars
  <2>2. g.pc = "publish" /\ g.msg = m
    BY DEF Idle
  <2> HIDE DEF g
  <2> QED
    BY <1>0, <1>1, <2>1, <2>2 DEF Received
<1>3. ASSUME NEW t \in Tasks, Goto(t, Idle), UNCHANGED <<wire, acks, taken, delivered, hub>>,
             task[t].pc = "republish" \/ (task[t].pc = "publish" /\ ~hub)
      PROVE  SetsOut(t)
  BY <1>1, <1>3 DEF SetsOut, LetsGo, Idle, Carrying
<1>4. ASSUME NEW t \in Tasks, task[t] \in Frame, task[t].pc \in {"publish", "republish"}, NEW id \in FreshIds,
             Goto(t, [task[t] EXCEPT !.pc = "fill", !.mqtt = id]), UNCHANGED <<acks, taken, delivered, hub>>,
             wire' = wire \cup {[mqtt |-> id, msg |-> task[t].msg]}
      PROVE  Publishes(t)
  <2> DEFINE g == [task[t] EXCEPT !.pc = "fill", !.mqtt = id]
  <2>1. g.pc = "fill" /\ g.mqtt = id /\ g.msg = task[t].msg /\ Goto(t, g)
    BY <1>4 DEF Frame
  <2> HIDE DEF g
  <2> QED
    BY <1>1, <1>4, <2>1 DEF Publishes
<1>5. CASE Publish
  <2>1. task["i2c"].pc = "publish" /\ UNCHANGED <<acks, taken, delivered, hub>>
    BY <1>5 DEF Publish, At, history
  <2>2. CASE Goto("i2c", Idle) /\ UNCHANGED wire /\ ~hub
    BY <1>0, <1>3, <2>1, <2>2
  <2>3. CASE Goto("i2c", [task["i2c"] EXCEPT !.pc = "put"]) /\ UNCHANGED wire
    <3> DEFINE g == [task["i2c"] EXCEPT !.pc = "put"]
    <3>1. g.pc = "put" /\ g.msg = task["i2c"].msg /\ Goto("i2c", g)
      BY <1>0, <2>3 DEF Frame
    <3> HIDE DEF g
    <3>2. Publishes("i2c")
      BY <1>0, <1>1, <2>1, <2>3, <3>1 DEF Publishes
    <3> QED
      BY <1>0, <3>2
  <2>4. CASE \E id \in FreshIds :
               /\ wire' = wire \cup {[mqtt |-> id, msg |-> task["i2c"].msg]}
               /\ Goto("i2c", [task["i2c"] EXCEPT !.pc = "fill", !.mqtt = id])
    BY <1>0, <1>4, <2>1, <2>4
  <2> QED
    BY <1>5, <2>2, <2>3, <2>4 DEF Publish, Return
<1>6. CASE Republish
  <2>1. task["loop"].pc = "republish" /\ UNCHANGED <<acks, taken, delivered, hub>>
    BY <1>6 DEF Republish, At, history
  <2>2. CASE Goto("loop", Idle) /\ UNCHANGED wire
    BY <1>0, <1>3, <2>1, <2>2
  <2>3. CASE \E id \in FreshIds :
               /\ wire' = wire \cup {[mqtt |-> id, msg |-> task["loop"].msg]}
               /\ Goto("loop", [task["loop"] EXCEPT !.pc = "fill", !.mqtt = id])
    BY <1>0, <1>4, <2>1, <2>3
  <2> QED
    BY <1>6, <2>2, <2>3 DEF Republish, Return
<1>7. CASE LoopConnected
  <2> DEFINE k == getNextUnsentId
             g == [Idle EXCEPT !.pc = "republish", !.nvm = k, !.msg = nvmMsg[k]]
  <2>1. UNCHANGED <<wire, acks, taken, delivered, hub>> /\ task["loop"].pc = "idle"
    BY <1>7 DEF LoopConnected, At, netVars, history
  <2>2. task' = task \/ (k # None /\ nvmMsg[k] \in Records /\ Goto("loop", g))
    BY <1>7 DEF LoopConnected, ResendNext
  <2>3. g.pc = "republish" /\ g.msg = nvmMsg[k]
    BY DEF Idle
  <2>4. k # None => k \in lookup
    BY <1>0, NextUnsent
  <2> HIDE DEF g, k
  <2>5. CASE task' = task
    BY <2>1, <2>5 DEF Around, Nobody
  <2>6. CASE k # None /\ nvmMsg[k] \in Records /\ Goto("loop", g)
    BY <1>0, <1>1, <2>1, <2>3, <2>4, <2>6, OwnRead DEF ReadsBack
  <2> QED
    BY <2>2, <2>5, <2>6
<1>8. CASE LoopOffline \/ MqttError \/ WifiLost
  <2> DEFINE g == [Idle EXCEPT !.pc = "scan", !.ix = 0]
  <2>1. PICK t \in Tasks : Goto(t, g) /\ task[t].pc = "idle"
    BY <1>8 DEF LoopOffline, MqttError, WifiLost, At, Tasks
  <2>2. UNCHANGED <<wire, acks, taken, delivered, hub>>
    BY <1>8 DEF LoopOffline, MqttError, WifiLost, netVars, history
  <2>3. g.pc = "scan" /\ g.msg = NoRecord
    BY DEF Idle
  <2> HIDE DEF g
  <2>4. SetsOut(t)
    BY <1>1, <2>1, <2>2, <2>3 DEF SetsOut, LetsGo, Carrying
  <2> QED
    BY <2>4
<1>9. ASSUME NEW id \in PacketIds, Published(id)
      PROVE  Around \/ SetsOut("mqtt")
  <2> DEFINE i == Least({k \in InBox : box[k].mqtt = id})
             g == [Idle EXCEPT !.pc = "shift", !.ix = i]
             h == [Idle EXCEPT !.pc = "unmark", !.ix = i, !.nvm = box[i].nvm, !.seen = lookup]
  <2>1. /\ task' = task \/ Goto("mqtt", g) \/ Goto("mqtt", h)
        /\ UNCHANGED <<wire, taken, delivered, hub>> /\ acks' \subseteq acks
        /\ task["mqtt"].pc = "idle"
    BY <1>9 DEF Published, At, history
  <2>2. g.pc = "shift" /\ h.pc = "unmark" /\ g.msg = NoRecord /\ h.msg = NoRecord
    BY DEF Idle
  <2> HIDE DEF g, h
  <2>3. CASE task' = task
    BY <2>1, <2>3 DEF Around, Nobody
  <2>4. CASE Goto("mqtt", g) \/ Goto("mqtt", h)
    BY <1>0, <1>1, <2>1, <2>2, <2>4 DEF SetsOut, LetsGo, Carrying
  <2> QED
    BY <2>1, <2>3, <2>4
<1>10. CASE LoopStop \/ LoopStart \/ WifiGotIp \/ NetworkChanges
  BY <1>10 DEF LoopStop, LoopStart, WifiGotIp, NetworkChanges, history, Around, Nobody
<1>11. ASSUME NEW w \in wire, Delivery(w) PROVE Around
  BY <1>11 DEF Delivery, Around, Nobody
<1> QED
  BY <1>0, <1>2, <1>5, <1>6, <1>7, <1>8, <1>9, <1>10, <1>11 DEF Next
-----------------------------------------------------------------------------
(* What is kept was received, over a step.                                   *)
LEMMA DataTypes ==
  ASSUME DInv
  PROVE  /\ taken \subseteq Records /\ NoRecord \notin Records
         /\ NoRecord \notin taken /\ Absent \notin taken /\ Absent \notin Records
         /\ TaskType /\ StoreType /\ NetType
         /\ "i2c" \in Tasks /\ "loop" \in Tasks /\ lookup \subseteq NvmIds
BY OutboxAssumption DEF DInv, Base, Inv, NetType, Tasks, StoreType

LEMMA KnownStep == ASSUME DInv, [Next /\ ~Overlap]_vars PROVE Known'
<1>0. Known
  BY DEF DInv
<1>1. CASE UNCHANGED vars
  BY <1>0, <1>1 DEF Known, InBox, vars, ramVars, nvmVars, netVars, history
<1>2. ASSUME ~Overlap, NEW t \in Tasks, OutboxStep(t) PROVE Known'
  <2>1. /\ LetsGo(t) \/ HoldsOn(t) \/ TakesUp(t)
        /\ BoxFrom(t) /\ FlashFrom(t) /\ UNCHANGED <<wire, taken, delivered>>
    BY <1>2, OwnStep, OutboxData
  <2>2. task[t].pc \in Carrying => task[t].msg \in taken
    BY <1>0 DEF Known
  <2>3. \A i \in InBox' : box'[i].msg \in taken
    BY <1>0, <2>1, <2>2 DEF Known, BoxFrom, Carrying
  <2>4. \A k \in NvmIds : nvmMsg'[k] \in taken \cup {Absent}
    BY <1>0, <2>1, <2>2 DEF Known, FlashFrom, Carrying
  <2>5. \A u \in Tasks : /\ task'[u].msg \in taken \cup {NoRecord}
                         /\ task'[u].pc \in Carrying => task'[u].msg # NoRecord
    BY <1>0, <2>1, <2>2, DataTypes DEF Known, LetsGo, HoldsOn, TakesUp, Others
  <2> QED
    BY <1>0, <2>1, <2>3, <2>4, <2>5 DEF Known
<1>3. CASE Restart
  BY <1>0, <1>3 DEF Restart, Known, InBox, Slots, Idle, Carrying, nvmVars
<1>4. CASE Next /\ ~Overlap /\ ~Restart /\ \A t \in Tasks : ~OutboxStep(t)
  <2>1. UNCHANGED <<box, count, lookup, nvmMsg, nvmLookup>>
    BY <1>4, CallerMoves
  <2>2. CASE Around
    BY <1>0, <2>1, <2>2 DEF Around, Nobody, Known, InBox
  <2>3. ASSUME NEW t \in Tasks, SetsOut(t) PROVE Known'
    BY <1>0, <2>1, <2>3 DEF SetsOut, LetsGo, Others, Known, InBox
  <2>4. ASSUME NEW t \in Tasks, Publishes(t) PROVE Known'
    <3>1. task[t].msg \in taken /\ task[t].msg # NoRecord
      BY <1>0, <2>4 DEF Publishes, Known, Carrying
    <3>2. \A u \in Tasks : /\ task'[u].msg \in taken \cup {NoRecord}
                           /\ task'[u].pc \in Carrying => task'[u].msg # NoRecord
      BY <1>0, <2>4, <3>1 DEF Publishes, Others, Known
    <3>3. \A w \in wire' : w.msg \in taken
      BY <1>0, <2>4, <3>1 DEF Publishes, Known
    <3> QED
      BY <1>0, <2>1, <2>4, <3>2, <3>3 DEF Publishes, Known, InBox
  <2>5. ASSUME NEW m \in Records, Received(m) PROVE Known'
    BY <1>0, <2>1, <2>5, DataTypes DEF Received, Others, Known, InBox
  <2>6. CASE ReadsBack
    BY <1>0, <2>1, <2>6, DataTypes DEF ReadsBack, Others, Known, InBox
  <2> QED
    BY <1>4, <2>2, <2>3, <2>4, <2>5, <2>6, CallerData
<1> QED
  BY <1>1, <1>2, <1>3, <1>4

(* A packet id stands for one record.                                        *)
LEMMA AckedStep == ASSUME DInv, [Next /\ ~Overlap]_vars PROVE Acked'
<1>0. Acked /\ Known /\ TaskType /\ StoreType
  BY DataTypes DEF DInv
<1>1. CASE UNCHANGED vars
  BY <1>0, <1>1 DEF Acked, InBox, vars, ramVars, netVars, history
<1>2. ASSUME ~Overlap, NEW t \in Tasks, OutboxStep(t) PROVE Acked'
  <2>1. /\ LetsGo(t) \/ HoldsOn(t) \/ TakesUp(t)
        /\ BoxFrom(t) /\ UNCHANGED <<wire, acks, taken, delivered>>
    BY <1>2, OwnStep, OutboxData
  <2>2. task[t].pc \in {"fill", "bump"} => Holds(task[t], wire, acks, delivered)
    BY <1>0 DEF Acked
  <2>3. \A i \in InBox' : Holds(box'[i], wire, acks, delivered)
    BY <1>0, <2>1, <2>2 DEF Acked, BoxFrom, Holds
  <2>4. \A u \in Tasks : task'[u].pc \in {"fill", "bump"} => Holds(task'[u], wire, acks, delivered)
    BY <1>0, <2>1, <2>2 DEF Acked, Holds, LetsGo, HoldsOn, TakesUp, Others, Carrying
  <2> QED
    BY <2>1, <2>3, <2>4 DEF Acked
<1>3. CASE Restart
  BY <1>3 DEF Restart, Acked, InBox, Slots, Idle
<1>4. CASE Next /\ ~Overlap /\ ~Restart /\ \A t \in Tasks : ~OutboxStep(t)
  <2>1. UNCHANGED <<box, count, lookup, nvmMsg, nvmLookup>>
    BY <1>4, CallerMoves
  <2>2. CASE Around
    <3>1. \A e : Holds(e, wire, acks, delivered) => Holds(e, wire', acks', delivered')
      BY <2>2 DEF Around, Nobody, Holds
    <3> QED
      BY <1>0, <2>1, <2>2, <3>1 DEF Around, Nobody, Acked, InBox
  <2>3. ASSUME NEW t \in Tasks, SetsOut(t) PROVE Acked'
    <3>1. \A e : Holds(e, wire, acks, delivered) => Holds(e, wire', acks', delivered')
      BY <2>3 DEF SetsOut, Holds
    <3> QED
      BY <1>0, <2>1, <2>3, <3>1 DEF SetsOut, LetsGo, Others, Acked, InBox, Carrying
  <2>4. ASSUME NEW t \in Tasks, Publishes(t) PROVE Acked'
    <3>1. CASE task'[t].pc = "put" /\ UNCHANGED wire
      BY <1>0, <2>1, <2>4, <3>1 DEF Publishes, Others, Acked, InBox
    <3>2. ASSUME NEW id \in FreshIds, task'[t].pc = "fill", task'[t].mqtt = id,
                 wire' = wire \cup {[mqtt |-> id, msg |-> task[t].msg]}
          PROVE  Acked'
      <4>1. ASSUME NEW e, e.mqtt # id, Holds(e, wire, acks, delivered)
            PROVE  Holds(e, wire', acks', delivered')
        BY <2>4, <3>2, <4>1 DEF Publishes, Holds
      <4>2. /\ \A w \in wire : w.mqtt # id
            /\ id \notin acks
            /\ \A i \in InBox : box[i].mqtt # id
            /\ \A u \in Tasks : task[u].mqtt # id
        BY <3>2 DEF FreshIds
      <4>3. Holds(task'[t], wire', acks', delivered')
        BY <2>4, <3>2, <4>2 DEF Publishes, Holds
      <4>4. \A u \in Tasks : task'[u].pc \in {"fill", "bump"} => Holds(task'[u], wire', acks', delivered')
        BY <1>0, <2>4, <4>1, <4>2, <4>3 DEF Publishes, Others, Acked
      <4>5. \A i \in InBox' : Holds(box'[i], wire', acks', delivered')
        BY <1>0, <2>1, <4>1, <4>2 DEF Acked, InBox
      <4> QED
        BY <4>4, <4>5 DEF Acked
    <3> QED
      BY <2>4, <3>1, <3>2 DEF Publishes
  <2>5. ASSUME NEW m \in Records, Received(m) PROVE Acked'
    BY <1>0, <2>1, <2>5 DEF Received, Others, Acked, InBox
  <2>6. CASE ReadsBack
    BY <1>0, <2>1, <2>6 DEF ReadsBack, Others, Acked, InBox
  <2> QED
    BY <1>4, <2>2, <2>3, <2>4, <2>5, <2>6, CallerData
<1> QED
  BY <1>1, <1>2, <1>3, <1>4

(* The record the I2C task has in hand is nowhere else: nobody else had it   *)
(* when it came, and what the others move is in the box or in flash already. *)
LEMMA AloneStep == ASSUME DInv, [Next /\ ~Overlap]_vars PROVE Alone'
<1>0. /\ Alone /\ Known /\ TaskType /\ StoreType
      /\ "i2c" \in Tasks /\ "loop" \in Tasks /\ lookup \subseteq NvmIds
  BY DataTypes DEF DInv
<1>1. CASE UNCHANGED vars
  BY <1>0, <1>1 DEF Alone, At, InBox, vars, ramVars, nvmVars
<1> DEFINE m == task["i2c"].msg
<1>2. ASSUME ~Overlap, NEW t \in Tasks, OutboxStep(t) PROVE Alone'
  <2>1. /\ LetsGo(t) \/ HoldsOn(t) \/ TakesUp(t)
        /\ BoxFrom(t) /\ FlashFrom(t) /\ LookupFrom(t)
    BY <1>2, OwnStep, OutboxData
  <2>2. CASE t = "i2c"
    <3>1. CASE LetsGo(t)
      BY <2>2, <3>1 DEF LetsGo, Alone
    <3>2. CASE HoldsOn(t)
      <4>1. task'["i2c"].msg = m /\ \A u \in Tasks \ {"i2c"} : task'[u] = task[u]
        BY <2>2, <3>2 DEF HoldsOn, Others
      <4>2. SUFFICES ASSUME m # NoRecord PROVE Alone'
        BY <4>1 DEF Alone
      <4>3. \A i \in InBox' : box'[i].msg # m
        BY <1>0, <2>1, <2>2, <3>2, <4>2 DEF HoldsOn, BoxFrom, Alone
      <4>4. \A k \in lookup : nvmMsg[k] # m /\ nvmMsg'[k] = nvmMsg[k]
        BY <1>0, <2>1, <2>2, <3>2, <4>2 DEF HoldsOn, FlashFrom, Alone, At
      <4>5. \A k \in lookup' \ lookup : task'["i2c"].pc = "save" /\ k = task'["i2c"].nvm
        BY <2>1, <2>2 DEF LookupFrom
      <4> QED
        BY <1>0, <4>1, <4>2, <4>3, <4>4, <4>5 DEF Alone, At
    <3>3. CASE TakesUp(t)
      <4>1. Kept("i2c", task["i2c"], box, count, lookup, nvmLookup, nvmMsg, delivered)
        BY <1>0 DEF DInv, AllKept
      <4> QED
        BY <2>2, <3>3, <4>1 DEF TakesUp, Kept, ScanKept, Storing
    <3> QED
      BY <2>1, <3>1, <3>2, <3>3
  <2>3. CASE t # "i2c"
    <3>1. task'["i2c"] = task["i2c"] /\ ~InsideCall(task["i2c"])
      BY <1>0, <1>2, <2>1, <2>3, OwnStep, OnlyCaller DEF LetsGo, HoldsOn, TakesUp, Others
    <3>2. SUFFICES ASSUME m # NoRecord PROVE Alone'
      BY <3>1 DEF Alone
    <3>3. task[t].msg # m /\ \A i \in InBox : box[i].msg # m
      BY <1>0, <2>3, <3>2 DEF Alone
    <3>4. \A k \in lookup : nvmMsg[k] # m
      BY <1>0, <3>1, <3>2 DEF Alone, At, InsideCall
    <3>5. \A u \in Tasks \ {"i2c"} : task'[u].msg # m
      BY <1>0, <2>1, <2>3, <3>2, <3>3 DEF Alone, LetsGo, HoldsOn, TakesUp, Others
    <3>6. \A i \in InBox' : box'[i].msg # m
      BY <2>1, <3>3 DEF BoxFrom
    <3>7. \A k \in NvmIds : nvmMsg'[k] = nvmMsg[k] \/ nvmMsg'[k] # m
      BY <2>1, <3>3 DEF FlashFrom
    <3>8. \A k \in lookup' : k \in NvmIds /\ nvmMsg'[k] # m
      <4>1. \A k \in lookup' \ lookup : k \in NvmIds /\ nvmMsg[k] # m
        <5>1. Inv'
          BY <1>2, StepInv DEF DInv, Base, Next
        <5>2. lookup' \subseteq NvmIds
          BY <5>1 DEF Inv, StoreType
        <5> QED
          BY <2>1, <3>3, <5>2 DEF LookupFrom
      <4> QED
        BY <1>0, <3>4, <3>7, <4>1
    <3> QED
      BY <3>1, <3>5, <3>6, <3>8 DEF Alone
  <2> QED
    BY <2>2, <2>3
<1>3. CASE Restart
  BY <1>3 DEF Restart, Alone, Idle, Tasks
<1>4. CASE Next /\ ~Overlap /\ ~Restart /\ \A t \in Tasks : ~OutboxStep(t)
  <2>1. UNCHANGED <<box, count, lookup, nvmMsg, nvmLookup>>
    BY <1>4, CallerMoves
  <2>2. CASE Around
    BY <1>0, <2>1, <2>2 DEF Around, Nobody, Alone, At, InBox
  <2>3. ASSUME NEW t \in Tasks, SetsOut(t) PROVE Alone'
    BY <1>0, <2>1, <2>3 DEF SetsOut, LetsGo, Others, Alone, At, InBox
  <2>4. ASSUME NEW t \in Tasks, Publishes(t) PROVE Alone'
    <3>1. /\ task'[t].msg = task[t].msg /\ \A u \in Tasks \ {t} : task'[u] = task[u]
          /\ task[t].pc # "save"
      BY <2>4 DEF Publishes, Others
    <3> QED
      BY <1>0, <2>1, <3>1 DEF Alone, At, InBox
  <2>5. ASSUME NEW r \in Records, Received(r) PROVE Alone'
    <3>1. r \notin taken /\ r # NoRecord /\ r # Absent /\ task'["i2c"].msg = r
      BY <2>5, DataTypes DEF Received
    <3>2. \A u \in Tasks \ {"i2c"} : task'[u].msg # r
      BY <1>0, <2>5, <3>1 DEF Received, Others, Known
    <3> QED
      BY <1>0, <2>1, <3>1, <3>2 DEF Alone, Known, InBox
  <2>6. CASE ReadsBack
    <3>1. task'["i2c"] = task["i2c"] /\ ~InsideCall(task["i2c"])
      BY <1>0, <2>6, OnlyCaller DEF ReadsBack, Others
    <3>2. m # NoRecord => \A k \in lookup : nvmMsg[k] # m
      BY <1>0, <3>1 DEF Alone, At, InsideCall
    <3> QED
      BY <1>0, <2>1, <2>6, <3>1, <3>2 DEF ReadsBack, Others, Alone, At, InBox
  <2> QED
    BY <1>4, <2>2, <2>3, <2>4, <2>5, <2>6, CallerData
<1> QED
  BY <1>1, <1>2, <1>3, <1>4

(* The whole invariant.                                                      *)
LEMMA InitDInv == ASSUME Init PROVE DInv
<1>1. Base
  <2>1. Inv
    BY InitInv
  <2>2. NetType
    BY DEF Init, NetType
  <2>3. Steady
    BY OutboxAssumption DEF Init, Steady, InsideCall, Fresh, Idle
  <2>4. Resending
    BY DEF Init, Resending, OneFromFlash, EmptyEntry, Slots, Brings, Idle
  <2> QED
    BY <2>1, <2>2, <2>3, <2>4 DEF Base
<1>2. AllKept
  BY IdleKept DEF Init, AllKept
<1>3. Written /\ Linked /\ Known /\ Acked /\ Alone
  BY DEF Init, Written, Linked, Known, Acked, Alone, InBox, Slots, Idle, Carrying, Tasks
<1> QED
  BY <1>1, <1>2, <1>3 DEF DInv

LEMMA DInvStep == ASSUME DInv, [Next /\ ~Overlap]_vars PROVE DInv'
<1>0. StoreType /\ TaskType
  BY DEF DInv, Base, Inv
<1>1. Inv' /\ NetType'
  BY StepInv, NetStep DEF DInv, Base
<1>2. Steady' /\ Resending'
  <2>1. CASE UNCHANGED vars
    BY <2>1 DEF vars, ramVars, Steady, Resending, DInv, Base
  <2>2. CASE ~Overlap /\ \E t \in Tasks : OutboxStep(t)
    BY <1>0, <2>2, OwnStep, SteadyStep, ResendingStep DEF DInv, Base
  <2>3. CASE Next /\ ~Overlap /\ \A t \in Tasks : ~OutboxStep(t)
    BY <1>0, <2>3, SteadyCallers, ResendingCallers DEF DInv, Base
  <2> QED
    BY <2>1, <2>2, <2>3 DEF Next
<1> QED
  BY <1>1, <1>2, KeptStep, WrittenStep, LinkedStep, KnownStep, AckedStep, AloneStep DEF DInv, Base
-----------------------------------------------------------------------------
(* What a step of the outbox writes to the lookup in flash: the id of a      *)
(* record that was stored, or away with one whose record was delivered.      *)
LEMMA OutboxFlash ==
  ASSUME DInv, NEW t \in Tasks, Own(t), OutboxStep(t)
  PROVE  /\ \A k \in nvmLookup : nvmMsg[k] \in delivered \/ k \in nvmLookup'
         /\ \A k \in nvmLookup : nvmMsg'[k] = nvmMsg[k]
         /\ \A k \in nvmLookup' \ nvmLookup : task[t].pc = "save" /\ nvmMsg[k] = task[t].msg
         /\ nvmMsg' = nvmMsg \/ nvmLookup' = nvmLookup
<1> DEFINE f == task[t]
<1>0. /\ StoreType /\ FlashFrom(t)
      /\ Kept(t, f, box, count, lookup, nvmLookup, nvmMsg, delivered)
  BY OutboxData DEF DInv, Base, Inv, AllKept
<1> HIDE DEF f
<1>1. \A k \in nvmLookup : nvmMsg'[k] = nvmMsg[k]
  <2>1. f.pc = "put" => lookup = nvmLookup
    BY <1>0, CallWritten DEF DInv, f
  <2>2. nvmLookup \subseteq NvmIds
    BY <1>0 DEF StoreType
  <2> QED
    BY <1>0, <2>1, <2>2 DEF FlashFrom, f
<1>2. CASE Save(t)
  <2>1. f.pc = "save" /\ nvmLookup' = lookup /\ nvmMsg' = nvmMsg
    BY <1>2 DEF Save, At, f
  <2> QED
    BY <1>0, <2>1 DEF Kept, StoreKept, f
<1>3. CASE Unsave(t)
  <2>1. f.pc = "unsave" /\ nvmLookup' = lookup /\ nvmMsg' = nvmMsg
    BY <1>3 DEF Unsave, At, f
  <2>2. /\ lookup = nvmLookup \ {f.nvm} /\ f.nvm = box[f.ix].nvm /\ f.nvm # None
        /\ f.ix \in 0 .. count - 1 /\ box[f.ix].msg \in delivered
    BY <1>0, <2>1 DEF Kept, ClearKept, Clearing
  <2>3. f.ix \in InBox
    BY <2>2, OutboxAssumption DEF DInv, Base, Steady, InBox, Slots
  <2>4. nvmMsg[f.nvm] \in delivered
    BY <2>2, <2>3 DEF DInv, Linked
  <2> QED
    BY <2>1, <2>2, <2>4
<1>4. CASE Fill(t) \/ Bump(t) \/ Put(t) \/ Mark(t) \/ Scan(t) \/ Reset(t) \/ Unmark(t) \/ Shift(t)
  <2>1. nvmLookup' = nvmLookup
    BY <1>4 DEF Fill, Bump, Put, Mark, Scan, Reset, Unmark, Shift, nvmVars
  <2> QED
    BY <1>1, <2>1
<1> QED
  BY <1>1, <1>2, <1>3, <1>4 DEF OutboxStep

(* With or without the lock, as long as no two calls overlap: an id of the   *)
(* flash is only given away when its record has arrived, and until then its  *)
(* string is not overwritten, wherever the power fails (getOpenId, clearId,  *)
(* onPublished).                                                             *)
THEOREM FlashIsKeptAlways == Spec /\ [][~Overlap]_vars => FlashIsKept
<1> DEFINE Keeps == \A k \in nvmLookup :
             nvmMsg[k] \in delivered \/ (k \in nvmLookup' /\ nvmMsg'[k] = nvmMsg[k])
<1>1. DInv /\ [Next]_vars /\ [~Overlap]_vars => [Keeps]_vars
  <2> SUFFICES ASSUME DInv, Next, ~Overlap PROVE Keeps
    OBVIOUS
  <2>1. CASE Restart
    BY <2>1 DEF Restart, nvmVars
  <2>2. CASE ~Restart /\ \A t \in Tasks : ~OutboxStep(t)
    BY <2>2, CallerMoves
  <2>3. ASSUME NEW t \in Tasks, OutboxStep(t) PROVE Keeps
    BY <2>3, OwnStep, OutboxFlash
  <2> QED
    BY <2>1, <2>2, <2>3
<1>2. Init => DInv
  BY InitDInv
<1>3. DInv /\ [Next]_vars /\ [~Overlap]_vars => DInv'
  <2> SUFFICES ASSUME DInv, [Next /\ ~Overlap]_vars PROVE DInv'
    OBVIOUS
  <2> QED
    BY DInvStep
<1> QED
  BY <1>1, <1>2, <1>3, PTL DEF Spec, FlashIsKept

-----------------------------------------------------------------------------
(* What the contract sees of a step: nothing, or one record that moves.      *)
LEMMA Quiet ==
  ASSUME \A m \in Records : Status(m)' = Status(m), hub' \in {hub, TRUE}
  PROVE  Contract!DNext
<1>1. [m \in Records |-> Status(m)]' = [m \in Records |-> Status(m)]
  OBVIOUS
<1>2. (count >= BoxSize)' \in BOOLEAN /\ (lookup = NvmIds)' \in BOOLEAN
  OBVIOUS
<1>3. Contract!Go
  BY <1>1, <1>2 DEF Contract!Go
<1> QED
  BY <1>3 DEF Contract!DNext

LEMMA Moved ==
  ASSUME NEW m \in Records, NEW from, NEW to, Status(m) \in from, Status(m)' = to,
         \A n \in Records \ {m} : Status(n)' = Status(n), hub' = hub
  PROVE  Contract!Move({m}, from, to)
<1>1. \A n \in {m} : [k \in Records |-> Status(k)][n] \in from
  OBVIOUS
<1>2. [k \in Records |-> Status(k)]'
        = [k \in Records |-> IF k \in {m} THEN to ELSE [n \in Records |-> Status(n)][k]]
  OBVIOUS
<1>3. (count >= BoxSize)' \in BOOLEAN /\ (lookup = NvmIds)' \in BOOLEAN
  OBVIOUS
<1> QED
  BY <1>1, <1>2, <1>3 DEF Contract!Move
-----------------------------------------------------------------------------
(* Where a record that is on its way stays put, and what a task that lets go *)
(* of the record it had in hand leaves behind.                               *)
Underway(m) == m \in taken \ delivered

LEMMA Stays ==
  ASSUME NEW m, UNCHANGED <<taken, delivered>>,
         Underway(m) =>
           /\ InFlash(m)' <=> InFlash(m)
           /\ ~InFlash(m) => (Boxed(m)' <=> Boxed(m))
           /\ ~InFlash(m) /\ ~Boxed(m) => (InHand(m)' <=> InHand(m))
  PROVE  Status(m)' = Status(m)
BY DEF Status, Underway

LEMMA HandHeld ==
  ASSUME NEW t \in Tasks, HoldsOn(t), NEW m PROVE InHand(m)' <=> InHand(m)
BY DEF HoldsOn, Others, InHand, At

LEMMA HandFreed ==
  ASSUME NEW t \in Tasks, LetsGo(t), NEW m, m # NoRecord,
         m = task[t].msg => task[t].pc = "republish"
  PROVE  InHand(m)' <=> InHand(m)
BY DEF LetsGo, Others, InHand, At

LEMMA HandOf ==
  ASSUME NEW t \in Tasks, task[t].pc # "republish" PROVE InHand(task[t].msg)
BY DEF InHand, At

LEMMA KnownMsg ==
  ASSUME DInv, NEW t \in Tasks
  PROVE  /\ task[t].msg # NoRecord => task[t].msg \in taken /\ task[t].pc \in Carrying
         /\ task[t].pc \in Carrying => task[t].msg \in taken
         /\ taken \subseteq Records /\ NoRecord \notin Records
BY DataTypes DEF DInv, Known, AllKept, Kept

LEMMA Released ==
  ASSUME DInv, NEW t \in Tasks, LetsGo(t), UNCHANGED <<hub, taken, delivered>>,
         \A m \in Records : Underway(m) =>
           /\ InFlash(m)' <=> InFlash(m)
           /\ ~InFlash(m) => (Boxed(m)' <=> Boxed(m)),
         \/ task[t].pc \notin Carrying \/ task[t].pc = "republish"
         \/ count >= BoxSize \/ lookup = NvmIds \/ ~hub
  PROVE  Contract!DNext
<1>0. PICK m : m = task[t].msg
  OBVIOUS
<1>1. ASSUME NEW n \in Records, n = m => task[t].pc = "republish"
      PROVE  Status(n)' = Status(n)
  BY <1>0, <1>1, KnownMsg, HandFreed, Stays
<1>2. CASE task[t].pc = "republish" \/ m = NoRecord
  <2>1. \A n \in Records : Status(n)' = Status(n)
    BY <1>0, <1>1, <1>2, KnownMsg
  <2> QED
    BY <2>1, Quiet
<1>3. CASE task[t].pc # "republish" /\ m # NoRecord
  <2>1. m \in Records /\ m \in taken /\ task[t].pc \in Carrying
    BY <1>0, <1>3, KnownMsg
  <2>2. count >= BoxSize \/ lookup = NvmIds \/ ~hub
    BY <1>3, <2>1 DEF Carrying
  <2>3. CASE Status(m)' = Status(m)
    <3>1. \A n \in Records : Status(n)' = Status(n)
      BY <1>1, <2>3
    <3> QED
      BY <3>1, Quiet
  <2>4. CASE Status(m)' # Status(m)
    <3>1. Underway(m) /\ ~InFlash(m) /\ ~Boxed(m)
      BY <1>0, <1>3, <2>1, <2>4, Stays, HandOf DEF Status, Underway
    <3>2. Status(m) = "hand"
      BY <1>0, <1>3, <2>1, <3>1, HandOf DEF Status, Underway
    <3>3. Status(m)' = "lost"
      BY <2>1, <2>4, <3>1, <3>2 DEF Status, Underway
    <3>4. Contract!Move({m}, {"hand"}, "lost")
      BY <1>1, <2>1, <3>2, <3>3, Moved
    <3>5. Contract!Drop(m)
      BY <2>2, <3>4 DEF Contract!Drop
    <3> QED
      BY <2>1, <3>5 DEF Contract!DNext
  <2> QED
    BY <2>3, <2>4
<1> QED
  BY <1>2, <1>3
-----------------------------------------------------------------------------
(* The outbox: only enqueueMsg() brings a record into the box, only          *)
(* enqueueBoxToStore() takes one out that is on its way, and only            *)
(* setLookup() one into the flash.                                           *)
LEMMA FlashSame ==
  ASSUME DInv, NEW t \in Tasks, Own(t), OutboxStep(t), task[t].pc # "save",
         NEW m, Underway(m)
  PROVE  InFlash(m)' <=> InFlash(m)
BY OutboxFlash DEF InFlash, Underway

LEMMA BoxKeeps ==
  ASSUME DInv, NEW t \in Tasks, Own(t), OutboxStep(t), task[t].pc # "reset"
  PROVE  \A i \in InBox : box[i].msg \in delivered \/ \E j \in InBox' : box'[j] = box[i]
<1> DEFINE f == task[t]
<1>0. /\ StoreType /\ f \in Frame /\ count \in 0 .. BoxSize /\ BoxSize \in 2 .. 254
      /\ Kept(t, f, box, count, lookup, nvmLookup, nvmMsg, delivered)
      /\ Fresh(f, count)
  BY OutboxAssumption DEF DInv, Base, Inv, TaskType, Steady, AllKept
<1> HIDE DEF f
<1>1. CASE Fill(t)
  <2>1. \A i \in InBox : i # count
    BY <1>0 DEF InBox, Slots
  <2> QED
    BY <1>0, <1>1, <2>1 DEF Fill, InBox, StoreType
<1>2. CASE Bump(t)
  <2>1. /\ box' = box /\ f.ix = count /\ count' = (count + 1) % 256
    BY <1>0, <1>2 DEF Bump, Fresh, At, f
  <2>2. InBox \subseteq InBox'
    BY <1>0, <2>1 DEF InBox, Slots
  <2> QED
    BY <2>1, <2>2
<1>3. CASE Put(t) \/ Mark(t) \/ Save(t) \/ Scan(t) \/ Unmark(t) \/ Unsave(t)
  <2>1. UNCHANGED <<box, count>>
    BY <1>3 DEF Put, Mark, Save, Scan, Unmark, Unsave, ramVars
  <2> QED
    BY <2>1 DEF InBox
<1>4. CASE Shift(t)
  <2>1. f.pc = "shift" /\ f.ix \in 0 .. count - 1 /\ box[f.ix].msg \in delivered
    BY <1>0, <1>4 DEF Shift, At, Kept, ClearKept, Clearing, f
  <2>2. count' = count - 1
    BY <1>0, <1>4, <2>1 DEF Shift
  <2>3. ASSUME NEW j \in Slots, j < count'
        PROVE  j \in InBox' /\ box'[j] = IF f.ix <= j THEN box[j + 1] ELSE box[j]
    BY <1>4, <2>2, <2>3 DEF Shift, Forget, InBox, f
  <2>4. ASSUME NEW i \in InBox
        PROVE  box[i].msg \in delivered \/ \E j \in InBox' : box'[j] = box[i]
    <3>1. CASE i < f.ix
      <4>1. i \in Slots /\ i < count' /\ ~(f.ix <= i)
        BY <1>0, <2>1, <2>2, <3>1 DEF InBox, Slots
      <4> QED
        BY <2>3, <4>1
    <3>2. CASE i > f.ix
      <4>1. i - 1 \in Slots /\ i - 1 < count' /\ f.ix <= i - 1 /\ (i - 1) + 1 = i
        BY <1>0, <2>1, <2>2, <3>2 DEF InBox, Slots
      <4>2. i - 1 \in InBox' /\ box'[i - 1] = box[(i - 1) + 1]
        BY <2>3, <4>1
      <4> QED
        BY <4>1, <4>2
    <3>3. i = f.ix \/ i < f.ix \/ i > f.ix
      BY <1>0, <2>1 DEF InBox, Slots
    <3> QED
      BY <2>1, <3>1, <3>2, <3>3
  <2> QED
    BY <2>4
<1>5. ~Reset(t)
  BY DEF Reset, At
<1> QED
  BY <1>1, <1>2, <1>3, <1>4, <1>5 DEF OutboxStep

LEMMA BoxSame ==
  ASSUME DInv, NEW t \in Tasks, Own(t), OutboxStep(t), task[t].pc \notin {"reset", "bump"},
         NEW m, Underway(m)
  PROVE  Boxed(m)' <=> Boxed(m)
<1>1. BoxFrom(t)
  BY OutboxData
<1> QED
  BY <1>1, BoxKeeps DEF Boxed, BoxFrom, Underway

LEMMA HoldsMaps ==
  ASSUME DInv, NEW t \in Tasks, Own(t), OutboxStep(t), HoldsOn(t), task[t].pc # "reset"
  PROVE  Contract!DNext
<1>1. task[t].pc \notin {"bump", "save", "reset"} /\ UNCHANGED <<hub, taken, delivered>>
  BY OutboxData DEF HoldsOn
<1>2. \A m \in Records : Status(m)' = Status(m)
  BY <1>1, FlashSame, BoxSame, HandHeld, Stays
<1> QED
  BY <1>1, <1>2, Quiet

(* A record taken up from the box is still there.                            *)
LEMMA TakesMaps ==
  ASSUME DInv, NEW t \in Tasks, Own(t), OutboxStep(t), TakesUp(t)
  PROVE  Contract!DNext
<1>1. task[t].pc = "scan" /\ task[t].msg = NoRecord /\ UNCHANGED <<hub, taken, delivered>>
  BY OutboxData, KnownMsg DEF TakesUp, Carrying
<1>2. \A m \in Records : ~Boxed(m) => (InHand(m)' <=> InHand(m))
  BY <1>1, KnownMsg DEF TakesUp, Others, InHand, At, Boxed
<1>3. \A m \in Records : Status(m)' = Status(m)
  BY <1>1, <1>2, FlashSame, BoxSame, Stays
<1> QED
  BY <1>1, <1>3, Quiet
LEMMA LetsMaps ==
  ASSUME DInv, NEW t \in Tasks, Own(t), OutboxStep(t), LetsGo(t),
         task[t].pc \notin {"bump", "save", "reset"}
  PROVE  Contract!DNext
<1> DEFINE f == task[t]
<1>0. f \in Frame /\ TaskType /\ StoreType /\ UNCHANGED <<hub, taken, delivered>>
  BY OutboxData DEF DInv, Base, Inv, TaskType
<1>1. \A m \in Records : Underway(m) =>
        /\ InFlash(m)' <=> InFlash(m)
        /\ ~InFlash(m) => (Boxed(m)' <=> Boxed(m))
  BY FlashSame, BoxSame
<1> HIDE DEF f
<1>2. f.pc \notin Carrying \/ f.pc = "republish" \/ count >= BoxSize \/ lookup = NvmIds
  <2>1. f.pc = "fill" => count >= BoxSize
    <3>1. [f EXCEPT !.pc = "bump", !.ix = count].pc \in Carrying
      BY <1>0 DEF Frame, Carrying
    <3>2. ~Goto(t, [f EXCEPT !.pc = "bump", !.ix = count])
      BY <1>0, <3>1 DEF LetsGo, Goto, TaskType
    <3>3. f.pc = "fill" => Fill(t)
      BY DEF OutboxStep, Bump, Put, Mark, Save, Scan, Reset, Unmark, Unsave, Shift, At, f
    <3>4. Fill(t) => ~(count < BoxSize)
      BY <3>2 DEF Fill, f
    <3>5. count \in 0 .. BoxSize /\ BoxSize \in 2 .. 254
      BY OutboxAssumption DEF DInv, Base, Steady
    <3> QED
      BY <3>3, <3>4, <3>5
  <2>2. f.pc = "put" => lookup = NvmIds
    <3> DEFINE g == [f EXCEPT !.pc = "mark", !.nvm = getOpenId, !.seen = lookup]
    <3>1. g.pc \in Carrying
      BY <1>0 DEF Frame, Carrying
    <3> HIDE DEF g
    <3>2. ~Goto(t, g)
      BY <1>0, <3>1 DEF LetsGo, Goto, TaskType
    <3>3. f.pc = "put" => Put(t)
      BY DEF OutboxStep, Fill, Bump, Mark, Save, Scan, Reset, Unmark, Unsave, Shift, At, f
    <3>4. Put(t) => getOpenId = None
      BY <3>2 DEF Put, f, g
    <3> QED
      BY <1>0, <3>3, <3>4, OpenId
  <2>3. f.pc # "mark"
    <3>1. [f EXCEPT !.pc = "save", !.seen = {}].pc \in Carrying
      BY <1>0 DEF Frame, Carrying
    <3>2. f.pc = "mark" => Mark(t)
      BY DEF OutboxStep, Fill, Bump, Put, Save, Scan, Reset, Unmark, Unsave, Shift, At, f
    <3>3. Mark(t) => Goto(t, [f EXCEPT !.pc = "save", !.seen = {}])
      BY DEF Mark, f
    <3> QED
      BY <1>0, <3>1, <3>2, <3>3 DEF LetsGo, Goto, TaskType
  <2>4. f.pc # "publish"
    BY DEF OutboxStep, Fill, Bump, Put, Mark, Save, Scan, Reset, Unmark, Unsave, Shift, At, f
  <2>5. f.pc \notin {"bump", "save"}
    BY DEF f
  <2> QED
    BY <2>1, <2>2, <2>3, <2>4, <2>5 DEF Carrying
<1> QED
  BY <1>0, <1>1, <1>2, Released DEF f

(* enqueueMsg(): the record in hand is in the box.                           *)
LEMMA BumpMaps ==
  ASSUME DInv, NEW t \in Tasks, Own(t), Bump(t) PROVE Contract!DNext
<1>0. /\ OutboxStep(t) /\ task[t].pc = "bump" /\ LetsGo(t) /\ BoxFrom(t)
      /\ UNCHANGED <<hub, taken, delivered>>
  <2>1. OutboxStep(t) /\ task[t].pc = "bump"
    BY DEF OutboxStep, Bump, At
  <2> QED
    BY <2>1, OutboxData DEF HoldsOn, TakesUp
<1>1. PICK m : m = task[t].msg
  OBVIOUS
<1>2. m \in taken /\ m \in Records /\ InHand(m)
  BY <1>0, <1>1, KnownMsg, HandOf DEF Carrying
<1>3. \A n \in Records \ {m} : Status(n)' = Status(n)
  <2>1. ASSUME NEW n \in Records \ {m}, Underway(n) PROVE Boxed(n)' <=> Boxed(n)
    BY <1>0, <1>1, <2>1, BoxKeeps DEF Boxed, BoxFrom, Underway
  <2>2. \A n \in Records \ {m} : InHand(n)' <=> InHand(n)
    BY <1>0, <1>1, HandFreed, KnownMsg
  <2> QED
    BY <1>0, <2>1, <2>2, FlashSame, Stays
<1>4. Boxed(m)'
  <2>1. /\ box' = box /\ count' = count + 1 /\ count \in Slots
        /\ box[count].msg = m
    <3>1. /\ Fresh(task[t], count) /\ count \in 0 .. BoxSize /\ BoxSize \in 2 .. 254
          /\ Kept(t, task[t], box, count, lookup, nvmLookup, nvmMsg, delivered)
      BY OutboxAssumption DEF DInv, Base, Steady, AllKept
    <3>2. /\ box' = box /\ task[t].ix = count /\ count < BoxSize
          /\ count' = (count + 1) % 256 /\ box[count].msg = task[t].msg
      BY <1>0, <3>1 DEF Bump, Fresh, Kept, StoreKept
    <3> QED
      BY <1>1, <3>1, <3>2 DEF Slots
  <2>2. count \in InBox'
    BY <2>1 DEF InBox, Slots
  <2> QED
    BY <2>1, <2>2 DEF Boxed
<1>5. CASE Status(m)' = Status(m)
  <2>1. \A n \in Records : Status(n)' = Status(n)
    BY <1>3, <1>5
  <2> QED
    BY <1>0, <2>1, Quiet
<1>6. CASE Status(m)' # Status(m)
  <2>1. Underway(m) /\ ~InFlash(m) /\ ~Boxed(m)
    BY <1>0, <1>2, <1>4, <1>6, FlashSame DEF Status, Underway
  <2>2. Status(m) = "hand" /\ Status(m)' = "box"
    BY <1>0, <1>2, <1>4, <2>1, FlashSame DEF Status, Underway
  <2>3. Contract!Enqueue(m)
    BY <1>0, <1>2, <1>3, <2>2, Moved DEF Contract!Enqueue
  <2> QED
    BY <1>2, <2>3 DEF Contract!DNext
<1> QED
  BY <1>5, <1>6

(* storeMsg(): with the lookup in flash, the record is in flash.             *)
LEMMA SaveMaps ==
  ASSUME DInv, NEW t \in Tasks, Own(t), Save(t) PROVE Contract!DNext
<1>0. /\ OutboxStep(t) /\ task[t].pc = "save" /\ LetsGo(t)
      /\ UNCHANGED <<hub, taken, delivered>>
  <2>1. OutboxStep(t) /\ task[t].pc = "save"
    BY DEF OutboxStep, Save, At
  <2> QED
    BY <2>1, OutboxData DEF HoldsOn, TakesUp
<1>1. PICK m : m = task[t].msg
  OBVIOUS
<1>2. m \in taken /\ m \in Records /\ InHand(m)
  BY <1>0, <1>1, KnownMsg, HandOf DEF Carrying
<1>3. \A n \in Records \ {m} : Status(n)' = Status(n)
  <2>1. ASSUME NEW n \in Records \ {m}, Underway(n) PROVE InFlash(n)' <=> InFlash(n)
    BY <1>0, <1>1, <2>1, OutboxFlash DEF InFlash, Underway
  <2>2. \A n \in Records \ {m} : InHand(n)' <=> InHand(n)
    BY <1>0, <1>1, HandFreed, KnownMsg
  <2> QED
    BY <1>0, <2>1, <2>2, BoxSame, Stays
<1>4. InFlash(m)'
  <2>1. Kept(t, task[t], box, count, lookup, nvmLookup, nvmMsg, delivered)
    BY DEF DInv, AllKept
  <2>2. /\ lookup = nvmLookup \cup {task[t].nvm} /\ nvmMsg[task[t].nvm] = m
    BY <1>0, <1>1, <2>1 DEF Kept, StoreKept
  <2> QED
    BY <2>2 DEF Save, InFlash
<1>5. CASE Status(m)' = Status(m)
  <2>1. \A n \in Records : Status(n)' = Status(n)
    BY <1>3, <1>5
  <2> QED
    BY <1>0, <2>1, Quiet
<1>6. CASE Status(m)' # Status(m)
  <2>1. Underway(m) /\ ~InFlash(m)
    BY <1>0, <1>2, <1>4, <1>6 DEF Status, Underway
  <2>2. Status(m) \in {"hand", "box"} /\ Status(m)' = "flash"
    BY <1>0, <1>2, <1>4, <2>1 DEF Status, Underway
  <2>3. Contract!Store(m)
    BY <1>0, <1>2, <1>3, <2>2, Moved DEF Contract!Store, Contract!Ram
  <2> QED
    BY <1>2, <2>3 DEF Contract!DNext
<1> QED
  BY <1>5, <1>6
(* Outside of calls a record that is not in flash is in hand of the I2C task *)
(* only.                                                                     *)
LEMMA HandOutside ==
  ASSUME DInv, NEW t \in Tasks, Own(t), NEW u \in Tasks \ {t},
         task[u].msg # NoRecord, ~InFlash(task[u].msg)
  PROVE  u = "i2c"
<1> DEFINE f == task[u]
<1>1. /\ f \in Frame /\ ~InsideCall(f) /\ f.pc \in Carrying
      /\ Kept(u, f, box, count, lookup, nvmLookup, nvmMsg, delivered) /\ Brings(u, f, box, count)
  BY OnlyCaller, KnownMsg DEF DInv, Base, Inv, TaskType, AllKept, Resending
<1>2. u = "loop" => f.pc \notin {"republish", "fill", "bump"}
  BY <1>1 DEF Kept, LoopKept, InFlash
<1> HIDE DEF f
<1>3. f.pc \in {"publish", "republish", "fill", "put"}
  BY <1>1 DEF InsideCall, Carrying
<1>4. f.pc = "put" => u = "i2c"
  BY <1>1 DEF InsideCall, Kept, ScanKept, Frame
<1> QED
  BY <1>1, <1>2, <1>3, <1>4 DEF Brings

(* enqueueBoxToStore(): with room in flash everything was stored; else what  *)
(* is in the box only is lost.                                               *)
LEMMA ResetMaps ==
  ASSUME DInv, NEW t \in Tasks, Own(t), Reset(t) PROVE Contract!DNext
<1>0. /\ OutboxStep(t) /\ task[t].pc = "reset" /\ LetsGo(t)
      /\ UNCHANGED <<hub, taken, delivered>>
  <2>1. OutboxStep(t) /\ task[t].pc = "reset" /\ Goto(t, Idle) /\ TaskType
    BY DEF OutboxStep, Reset, At, Return, DInv, Base, Inv
  <2>2. LetsGo(t)
    BY <2>1 DEF Goto, TaskType, LetsGo, Others, Idle, Carrying
  <2> QED
    BY <2>1, <2>2, OutboxData
<1>1. \A m : ~Boxed(m)'
  BY DEF Reset, Boxed, InBox, Slots
<1>2. CASE lookup # NvmIds
  <2>1. lookup = nvmLookup
    BY <1>0, CallWritten DEF DInv
  <2>2. \A i \in InBox : \E k \in nvmLookup : nvmMsg[k] = box[i].msg
    BY <1>0, <1>2 DEF DInv, AllKept, Kept, ScanKept, StoredOrFull, InBox
  <2>3. \A m : Boxed(m) => InFlash(m)
    BY <2>2 DEF Boxed, InFlash
  <2>4. \A m \in Records : Underway(m) =>
          /\ InFlash(m)' <=> InFlash(m)
          /\ ~InFlash(m) => (Boxed(m)' <=> Boxed(m))
    BY <1>0, <1>1, <2>3, FlashSame
  <2> QED
    BY <1>0, <2>4, Released DEF Carrying
<1>3. CASE lookup = NvmIds
  <2>0. PICK S : S = {m \in Records : Status(m) = "box"}
    OBVIOUS
  <2>1. ASSUME NEW m \in S PROVE Status(m)' = "lost"
    <3>1. Underway(m) /\ ~InFlash(m) /\ Boxed(m) /\ m # NoRecord
      BY <2>0, <2>1, OutboxAssumption DEF Status, Underway
    <3>2. ~InHand(m)'
      <4>1. SUFFICES ASSUME NEW u \in Tasks \ {t}, task[u].msg = m PROVE FALSE
        BY <1>0, <3>1 DEF LetsGo, Others, InHand
      <4>2. u = "i2c"
        BY <1>0, <3>1, <4>1, HandOutside
      <4> QED
        BY <3>1, <4>1, <4>2 DEF DInv, Alone, Boxed
    <3> QED
      BY <1>0, <1>1, <3>1, <3>2, FlashSame DEF Status, Underway
  <2>2. ASSUME NEW m \in Records \ S PROVE Status(m)' = Status(m)
    <3>1. Underway(m) => InFlash(m) \/ ~Boxed(m)
      BY <2>0, <2>2 DEF Status, Underway
    <3>2. InHand(m)' <=> InHand(m)
      BY <1>0, <2>2, HandFreed, KnownMsg DEF Carrying
    <3> QED
      BY <1>0, <1>1, <3>1, <3>2, FlashSame, Stays
  <2>3. Contract!Move(S, {"box"}, "lost")
    <3>1. \A m \in S : [k \in Records |-> Status(k)][m] \in {"box"}
      BY <2>0
    <3>2. [k \in Records |-> Status(k)]'
            = [k \in Records |-> IF k \in S THEN "lost" ELSE [n \in Records |-> Status(n)][k]]
      BY <2>1, <2>2
    <3>3. (count >= BoxSize)' \in BOOLEAN /\ (lookup = NvmIds)' \in BOOLEAN
      OBVIOUS
    <3> QED
      BY <1>0, <3>1, <3>2, <3>3 DEF Contract!Move
  <2>4. Contract!DropBox(S) /\ S \in SUBSET Records
    BY <1>3, <2>0, <2>3 DEF Contract!DropBox
  <2> QED
    BY <2>4 DEF Contract!DNext
<1> QED
  BY <1>2, <1>3

LEMMA OutboxMaps ==
  ASSUME DInv, NEW t \in Tasks, Own(t), OutboxStep(t) PROVE Contract!DNext
<1>1. /\ task[t].pc = "bump" => Bump(t)
      /\ task[t].pc = "save" => Save(t)
      /\ task[t].pc = "reset" => Reset(t)
  BY DEF OutboxStep, Fill, Bump, Put, Mark, Save, Scan, Reset, Unmark, Unsave, Shift, At
<1> QED
  BY <1>1, OutboxData, BumpMaps, SaveMaps, ResetMaps, HoldsMaps, TakesMaps, LetsMaps
-----------------------------------------------------------------------------
(* The callers: box and flash stay.                                          *)
LEMMA CallerMaps ==
  ASSUME ~Overlap, DInv, Next, ~Restart, \A t \in Tasks : ~OutboxStep(t)
  PROVE  Contract!DNext
<1>0. UNCHANGED <<box, count, lookup, nvmMsg, nvmLookup>>
  BY CallerMoves
<1>1. \A m : (InFlash(m)' <=> InFlash(m)) /\ (Boxed(m)' <=> Boxed(m))
  BY <1>0 DEF InFlash, Boxed, InBox
<1>2. hub' \in {hub, TRUE}
  BY DEF Next, Receive, Publish, Republish, LoopConnected, LoopOffline, LoopStop, LoopStart,
     MqttError, WifiLost, WifiGotIp, Published, NetworkChanges, Delivery, netVars
<1>3. CASE Around
  <2>1. task' = task /\ taken' = taken
    BY <1>3 DEF Around, Nobody
  <2>2. \A m : InHand(m)' <=> InHand(m)
    BY <2>1 DEF InHand, At
  <2>3. CASE delivered' = delivered
    <3>1. \A m \in Records : Status(m)' = Status(m)
      BY <1>1, <2>1, <2>2, <2>3, Stays
    <3> QED
      BY <1>2, <3>1, Quiet
  <2>4. ASSUME NEW w \in wire, delivered' = delivered \cup {w.msg}, hub' = hub
        PROVE  Contract!DNext
    <3>1. w.msg \in taken /\ taken \subseteq Records
      BY DataTypes DEF DInv, Known
    <3>2. PICK m : m = w.msg
      OBVIOUS
    <3>3. Status(m)' = "delivered" /\ m \in Records
      BY <2>1, <2>4, <3>1, <3>2 DEF Status
    <3>4. Status(m) \in Contract!Places \ {"new"}
      BY <3>1, <3>2 DEF Status, Contract!Places, Contract!Ram
    <3>5. \A n \in Records \ {m} : Status(n)' = Status(n)
      BY <1>1, <2>1, <2>2, <2>4, <3>2 DEF Status
    <3>6. Contract!Deliver(m)
      BY <2>4, <3>3, <3>4, <3>5, Moved DEF Contract!Deliver
    <3> QED
      BY <3>3, <3>6 DEF Contract!DNext
  <2> QED
    BY <1>3, <2>3, <2>4 DEF Around
<1>4. ASSUME NEW t \in Tasks, SetsOut(t) PROVE Contract!DNext
  BY <1>1, <1>4, Released DEF SetsOut, Carrying
<1>5. ASSUME NEW t \in Tasks, Publishes(t) PROVE Contract!DNext
  <2>1. \A u \in Tasks \ {t} : task'[u] = task[u]
    BY <1>5 DEF Publishes, Others
  <2>2. /\ task'[t].msg = task[t].msg /\ task'[t].pc \in {"put", "fill"}
        /\ task[t].pc \in {"publish", "republish"} /\ UNCHANGED <<taken, delivered, hub>>
    BY <1>5 DEF Publishes
  <2>3. task[t].pc = "republish" => InFlash(task[t].msg)
    BY DEF DInv, AllKept, Kept, LoopKept, Base, Resending, Brings, InFlash
  <2>4. \A m : ~InFlash(m) => (InHand(m)' <=> InHand(m))
    BY <2>1, <2>2, <2>3 DEF InHand, At
  <2>5. \A m \in Records : Status(m)' = Status(m)
    BY <1>1, <2>2, <2>4, Stays
  <2> QED
    BY <1>2, <2>5, Quiet
<1>6. ASSUME NEW m \in Records, Received(m) PROVE Contract!DNext
  <2>1. /\ m \notin taken /\ taken' = taken \cup {m} /\ delivered' = delivered /\ hub' = hub
        /\ \A u \in Tasks \ {"i2c"} : task'[u] = task[u]
        /\ task'["i2c"].msg = m /\ task'["i2c"].pc = "publish" /\ task["i2c"].pc = "idle"
    BY <1>6 DEF Received, Others
  <2>2. task["i2c"].msg = NoRecord /\ "i2c" \in Tasks /\ NoRecord \notin Records
    BY <2>1, KnownMsg, DataTypes DEF Carrying
  <2>3. InHand(m)' /\ \A n \in Records \ {m} : InHand(n)' <=> InHand(n)
    BY <2>1, <2>2 DEF InHand, At
  <2>4. ~InFlash(m) /\ ~Boxed(m) /\ m \notin delivered
    <3>1. m # Absent /\ nvmLookup \subseteq NvmIds
      BY DataTypes DEF StoreType
    <3> QED
      BY <2>1, <3>1 DEF DInv, Known, InFlash, Boxed
  <2>5. Status(m) = "new" /\ Status(m)' = "hand"
    BY <1>1, <2>1, <2>3, <2>4 DEF Status
  <2>6. \A n \in Records \ {m} : Status(n)' = Status(n)
    BY <1>1, <2>1, <2>3 DEF Status
  <2>7. Contract!Accept(m)
    BY <2>1, <2>5, <2>6, Moved DEF Contract!Accept
  <2> QED
    BY <2>7 DEF Contract!DNext
<1>7. CASE ReadsBack
  <2>1. /\ UNCHANGED <<taken, delivered, hub>> /\ \A u \in Tasks \ {"loop"} : task'[u] = task[u]
        /\ task'["loop"].pc = "republish" /\ task["loop"].pc = "idle"
    BY <1>7 DEF ReadsBack, Others
  <2>2. task["loop"].msg = NoRecord /\ NoRecord \notin Records
    BY <2>1, KnownMsg, DataTypes DEF Carrying
  <2>3. \A m \in Records : InHand(m)' <=> InHand(m)
    BY <2>1, <2>2 DEF InHand, At
  <2>4. \A m \in Records : Status(m)' = Status(m)
    BY <1>1, <2>1, <2>3, Stays
  <2> QED
    BY <1>2, <2>4, Quiet
<1> QED
  BY <1>3, <1>4, <1>5, <1>6, <1>7, CallerData

(* Power fails: what is not in flash yet is lost.                            *)
LEMMA RestartMaps ==
  ASSUME DInv, Restart PROVE Contract!DNext
<1>1. /\ UNCHANGED <<nvmMsg, nvmLookup, taken, delivered>> /\ hub' = FALSE
      /\ count' = 0 /\ task' = [t \in Tasks |-> Idle]
  BY DEF Restart, nvmVars
<1>2. \A m \in Records : (InFlash(m)' <=> InFlash(m)) /\ ~Boxed(m)' /\ ~InHand(m)'
  BY <1>1, DataTypes DEF InFlash, Boxed, InBox, Slots, InHand, Idle
<1>3. \A m \in Records : Status(m)' = IF Status(m) \in {"hand", "box"} THEN "lost" ELSE Status(m)
  BY <1>1, <1>2 DEF Status
<1>4. [k \in Records |-> Status(k)]'
        = [k \in Records |-> IF [n \in Records |-> Status(n)][k] \in Contract!Ram
                             THEN "lost" ELSE [n \in Records |-> Status(n)][k]]
  BY <1>3 DEF Contract!Ram
<1>5. (count >= BoxSize)' \in BOOLEAN /\ (lookup = NvmIds)' \in BOOLEAN
  OBVIOUS
<1>6. Contract!PowerFails
  BY <1>1, <1>4, <1>5 DEF Contract!PowerFails
<1> QED
  BY <1>6 DEF Contract!DNext

LEMMA StepMaps ==
  ASSUME DInv, [Next /\ ~Overlap]_vars PROVE [Contract!DNext]_(Contract!dvars)
<1>1. CASE UNCHANGED vars
  <2>1. /\ UNCHANGED <<count, lookup, hub, taken, delivered>>
        /\ \A m : (InFlash(m)' <=> InFlash(m)) /\ (Boxed(m)' <=> Boxed(m)) /\ (InHand(m)' <=> InHand(m))
    BY <1>1 DEF vars, ramVars, nvmVars, netVars, history, InFlash, Boxed, InBox, InHand, At
  <2>2. \A m \in Records : Status(m)' = Status(m)
    BY <2>1, Stays
  <2> QED
    BY <2>1, <2>2, Quiet
<1>2. CASE Next /\ ~Overlap
  BY <1>2, OwnStep, OutboxMaps, CallerMaps, RestartMaps
<1> QED
  BY <1>1, <1>2

(* With or without the lock, every execution in which no two calls of the    *)
(* outbox happen to overlap keeps what DeliveryContract promises: a record   *)
(* received is kept until the broker has it, unless the device is not        *)
(* provisioned, box or flash are full, or the power fails while the record   *)
(* is in RAM (sendMsgFormI2C, azure_iot_send_telemetry, enqueueMsg,          *)
(* storeMsg, enqueueBoxToStore, onPublished together).  What an overlap does *)
(* StoringLosesNone shows.                                                   *)
THEOREM RecordsKept == Spec /\ [][~Overlap]_vars => KeepsRecords
<1>1. Init => Contract!DInit
  <2> SUFFICES ASSUME Init PROVE Contract!DInit
    OBVIOUS
  <2>1. \A m \in Records : Status(m) = "new"
    BY DEF Init, Status
  <2>2. (count >= BoxSize) = FALSE /\ (lookup = NvmIds) = FALSE /\ hub = FALSE
    <3>1. 0 \in NvmIds /\ ~(0 >= BoxSize)
      BY OutboxAssumption DEF NvmIds
    <3> QED
      BY <3>1 DEF Init
  <2> QED
    BY <2>1, <2>2 DEF Contract!DInit
<1>2. Init => DInv
  BY InitDInv
<1>3. DInv /\ [Next]_vars /\ [~Overlap]_vars
        => DInv' /\ [Contract!DNext]_(Contract!dvars)
  <2> SUFFICES ASSUME DInv, [Next /\ ~Overlap]_vars
               PROVE  DInv' /\ [Contract!DNext]_(Contract!dvars)
    OBVIOUS
  <2> QED
    BY DInvStep, StepMaps
<1> QED
  BY <1>1, <1>2, <1>3, PTL DEF Spec, KeepsRecords, Contract!DSpec
=============================================================================
