------------------------ MODULE DxClientOutbox_proofs ------------------------
(***************************************************************************)
(* Theorems about DxClientOutbox, for any number of records, any size of   *)
(* box and flash, with and without the lock, and whatever fails.           *)
(***************************************************************************)
EXTENDS DxClientOutbox, WellFoundedInduction, TLAPS

(* A set of naturals that is not empty has a least element, and Least gives  *)
(* it.                                                                       *)
LEMMA LeastExists ==
  ASSUME NEW S, S \subseteq Nat, S # {}
  PROVE  Least(S) \in S /\ \A j \in S : Least(S) <= j
<1>1. PICK i \in S : \A j \in S : <<j, i>> \notin OpToRel(<, Nat)
  BY NatLessThanWellFounded, WFMin
<1>2. \A j \in S : ~(j < i)
  <2> SUFFICES ASSUME NEW j \in S, j < i
               PROVE  <<j, i>> \in OpToRel(<, Nat)
    BY <1>1
  <2>1. <<j, i>> \in Nat \X Nat /\ <<j, i>>[1] < <<j, i>>[2]
    OBVIOUS
  <2> QED
    BY <2>1 DEF OpToRel
<1>3. \A j \in S : i <= j
  BY <1>2
<1> QED
  BY <1>3 DEF Least

-----------------------------------------------------------------------------
(* Type correctness by parts: what is in RAM and flash, the flags, and what  *)
(* the network holds.                                                        *)
StoreType ==
  /\ box \in [Slots -> Entry]
  /\ count \in 0 .. 255
  /\ lookup \in SUBSET NvmIds /\ nvmLookup \in SUBSET NvmIds
  /\ cursor \in NvmIds \cup {None}
  /\ nvmMsg \in [NvmIds -> Records \cup {NoRecord, Absent}]
TaskType == task \in [Tasks -> Frame]
FlagType ==
  /\ latchStore \in BOOLEAN /\ latchError \in BOOLEAN
  /\ wifi \in BOOLEAN /\ wifiSeen \in BOOLEAN /\ hub \in BOOLEAN
  /\ client \in {"none", "ready", "lost"}
NetType ==
  /\ wire \subseteq [mqtt : PacketIds, msg : Records]
  /\ acks \subseteq PacketIds
  /\ taken \subseteq Records /\ delivered \subseteq Records

LEMMA TypeParts == TypeOK <=> StoreType /\ TaskType /\ FlagType /\ NetType
BY Zenon DEF TypeOK, StoreType, TaskType, FlagType, NetType

(* The invariant: ids found, in RAM or in flash, have their record in flash. *)
Found == lookup \cup nvmLookup \subseteq Readable
Inv == StoreType /\ TaskType /\ LocalsUsable /\ Found

LEMMA FoundIsStored == StoreType => (Found <=> StoredIsReadable)
BY DEF StoreType, Found, StoredIsReadable, Readable

(* A frame a task may be left in, given what is readable.                    *)
Good(f, R) == f \in Frame /\ Usable(f, R)

LEMMA IdleGood == ASSUME NEW R PROVE Good(Idle, R)
BY OutboxAssumption DEF Good, Usable, Idle, Frame, Pcs, None

(* One task moves to a good frame and what was readable stays readable: the  *)
(* locals of every task stay usable.                                         *)
LEMMA GotoGood ==
  ASSUME TaskType, LocalsUsable, NEW t \in Tasks, NEW f,
         Goto(t, f), Readable \subseteq Readable', Good(f, Readable')
  PROVE  TaskType' /\ LocalsUsable'
<1>1. TaskType' /\ task'[t] = f /\ \A u \in Tasks \ {t} : task'[u] = task[u]
  BY DEF TaskType, Goto, Good
<1>2. \A u \in Tasks \ {t} : Usable(task[u], Readable')
  BY DEF LocalsUsable, Usable
<1> QED
  BY <1>1, <1>2 DEF LocalsUsable, Good

(* Nothing happens to the tasks.                                             *)
LEMMA StayGood ==
  ASSUME TaskType, LocalsUsable, task' = task, Readable \subseteq Readable'
  PROVE  TaskType' /\ LocalsUsable'
BY DEF TaskType, LocalsUsable, Usable

(* Flash untouched is as readable as before.                                 *)
LEMMA SameFlash == nvmMsg' = nvmMsg => Readable' = Readable
BY DEF Readable

(* A box stays a box when what lies behind the count is forgotten.           *)
LEMMA ForgetType ==
  ASSUME NEW b \in [Slots -> Entry], NEW n PROVE Forget(b, n) \in [Slots -> Entry]
<1>1. EmptyEntry \in Entry
  BY DEF EmptyEntry, Entry
<1> QED
  BY <1>1 DEF Forget

(* What getOpenId and getNextUnsentId return.                                *)
LEMMA IdTypes ==
  ASSUME StoreType
  PROVE  /\ getOpenId \in NvmIds \cup {None}
         /\ getNextUnsentId \in NvmIds \cup {None}
<1>1. ASSUME NEW S, S \subseteq NvmIds, S # {} PROVE Least(S) \in NvmIds
  <2>1. S \subseteq Nat
    BY <1>1, OutboxAssumption DEF NvmIds
  <2> QED
    BY <2>1, <1>1, LeastExists
<1>2. lookup \subseteq NvmIds
  BY DEF StoreType
<1>3. getOpenId \in NvmIds \cup {None}
  BY <1>1, <1>2 DEF getOpenId
<1>4. getNextUnsentId \in NvmIds \cup {None}
  BY <1>1, <1>2 DEF getNextUnsentId
<1> QED
  BY <1>3, <1>4

(* The first entry with some packet id is in the box.                        *)
LEMMA HitInBox ==
  ASSUME NEW id, {i \in InBox : box[i].mqtt = id} # {}
  PROVE  Least({i \in InBox : box[i].mqtt = id}) \in InBox
<1>1. {i \in InBox : box[i].mqtt = id} \subseteq Nat
  BY OutboxAssumption DEF InBox, Slots
<1> QED
  BY <1>1, LeastExists

-----------------------------------------------------------------------------
(* The invariant over one step: one lemma per operation of the outbox, one   *)
(* for the callers, one for what happens around them.                        *)

LEMMA InitInv == Init => Inv
<1> SUFFICES ASSUME Init PROVE Inv
  OBVIOUS
<1>1. StoreType
  BY OutboxAssumption DEF Init, StoreType, Entry, EmptyEntry, None
<1>2. TaskType /\ LocalsUsable
  BY IdleGood DEF Init, TaskType, LocalsUsable, Good
<1>3. Found
  BY DEF Init, Found
<1> QED
  BY <1>1, <1>2, <1>3 DEF Inv

(* enqueueMsg().                                                             *)
LEMMA EnqueueInv ==
  ASSUME Inv, NEW t \in Tasks, Fill(t) \/ Bump(t) PROVE Inv'
<1> DEFINE f == task[t]
<1>0. f \in Frame /\ Usable(f, Readable) /\ count \in 0 .. 255
  BY DEF Inv, TaskType, LocalsUsable, StoreType
<1>1. CASE Fill(t) /\ count < BoxSize
  <2>0. count \in -1 .. 255
    BY <1>0
  <2>1. [f EXCEPT !.pc = "bump", !.ix = count] \in Frame
    BY <1>0, <2>0, Zenon DEF Frame, Pcs
  <2>2. Good([f EXCEPT !.pc = "bump", !.ix = count], Readable')
    BY <1>0, <1>1, <2>1, SameFlash DEF Good, Usable, Frame, Fill, nvmVars
  <2>3. TaskType' /\ LocalsUsable'
    BY <1>1, <2>2, GotoGood, SameFlash DEF Fill, Inv, nvmVars
  <2>4. [mqtt |-> f.mqtt, nvm |-> f.nvm, msg |-> f.msg] \in Entry /\ count \in Slots
    BY <1>0, <1>1, OutboxAssumption DEF Frame, Entry, Slots
  <2>5. StoreType'
    BY <1>1, <2>4 DEF Fill, Inv, StoreType, nvmVars
  <2> QED
    BY <1>1, <2>3, <2>5, SameFlash DEF Fill, Inv, Found, nvmVars
<1>2. CASE Fill(t) /\ ~(count < BoxSize)
  <2>1. TaskType' /\ LocalsUsable'
    BY <1>2, IdleGood, GotoGood, SameFlash DEF Fill, Return, Inv, nvmVars
  <2> QED
    BY <1>2, <2>1, SameFlash DEF Fill, Inv, Found, StoreType, nvmVars
<1>3. CASE Bump(t)
  <2>1. TaskType' /\ LocalsUsable'
    BY <1>3, IdleGood, GotoGood, SameFlash DEF Bump, Return, Inv, nvmVars
  <2>2. count' \in 0 .. 255
    BY <1>0, <1>3 DEF Bump, Frame
  <2> QED
    BY <1>3, <2>1, <2>2, SameFlash DEF Bump, Inv, Found, StoreType, nvmVars
<1> QED
  BY <1>1, <1>2, <1>3

(* Where a store returns to.                                                 *)
LEMMA AfterStoreGood ==
  ASSUME NEW R, NEW f \in Frame, f.ix < BoxSize
  PROVE  Good(AfterStore(f), R)
<1>1. CASE f.ix >= 0
  <2>1. f.ix + 1 \in -1 .. 255
    BY <1>1, OutboxAssumption DEF Frame
  <2>2. Idle \in Frame
    BY IdleGood DEF Good
  <2>3. [Idle EXCEPT !.pc = "scan", !.ix = f.ix + 1] \in Frame
    BY <2>1, <2>2, Zenon DEF Frame, Pcs
  <2> QED
    BY <1>1, <2>3 DEF AfterStore, Good, Usable, Idle
<1>2. CASE ~(f.ix >= 0)
  BY <1>2, IdleGood DEF AfterStore
<1> QED
  BY <1>1, <1>2

(* storeMsg(): the string first, so the id it marks afterwards is readable.  *)
LEMMA StoreInv ==
  ASSUME Inv, NEW t \in Tasks, Put(t) \/ Mark(t) \/ Save(t) PROVE Inv'
<1> DEFINE f == task[t]
<1>0. f \in Frame /\ Usable(f, Readable) /\ StoreType
  BY DEF Inv, TaskType, LocalsUsable
<1>1. CASE Put(t) /\ getOpenId = None
  <2>1. Good(AfterStore(f), Readable)
    BY <1>0, <1>1, AfterStoreGood DEF Put, At, Usable
  <2>2. TaskType' /\ LocalsUsable'
    BY <1>1, <2>1, GotoGood, SameFlash DEF Put, Inv
  <2> QED
    BY <1>1, <2>2, SameFlash DEF Put, Inv, Found, StoreType, ramVars
<1>2. CASE Put(t) /\ getOpenId # None
  <2> DEFINE id == getOpenId
             g == [f EXCEPT !.pc = "mark", !.nvm = id, !.seen = lookup]
  <2>1. id \in NvmIds
    BY <1>0, <1>2, IdTypes
  <2>2. /\ f.msg \in Records \cup {NoRecord}
        /\ nvmMsg' = [nvmMsg EXCEPT ![id] = f.msg]
        /\ nvmMsg \in [NvmIds -> Records \cup {NoRecord, Absent}]
    BY <1>0, <1>2 DEF Put, Frame, StoreType
  <2>3. nvmMsg' \in [NvmIds -> Records \cup {NoRecord, Absent}]
    BY <2>1, <2>2
  <2>4. Readable \subseteq Readable' /\ id \in Readable'
    BY <2>1, <2>2, OutboxAssumption DEF Readable
  <2>5. lookup \in SUBSET NvmIds /\ lookup \subseteq Readable'
    BY <1>0, <2>4 DEF StoreType, Inv, Found
  <2>6. g \in Frame
    BY <1>0, <2>1, <2>5 DEF Frame, Pcs
  <2>7. Good(g, Readable')
    BY <1>0, <1>2, <2>4, <2>5, <2>6 DEF Good, Usable, Frame, Put, At
  <2>8. TaskType' /\ LocalsUsable'
    BY <1>2, <2>4, <2>7, GotoGood DEF Put, Inv
  <2>9. StoreType'
    BY <1>0, <1>2, <2>3 DEF Put, StoreType, ramVars
  <2> QED
    BY <1>2, <2>4, <2>8, <2>9 DEF Put, Inv, Found, ramVars
<1>3. CASE Mark(t)
  <2>1. [f EXCEPT !.pc = "save", !.seen = {}] \in Frame
    BY <1>0 DEF Frame, Pcs
  <2>2. Good([f EXCEPT !.pc = "save", !.seen = {}], Readable')
    BY <1>0, <1>3, <2>1 DEF Good, Usable, Frame, Mark, At
  <2>3. TaskType' /\ LocalsUsable'
    BY <1>3, <2>2, GotoGood, SameFlash DEF Mark, Inv, nvmVars
  <2>4. lookup' \subseteq Readable
    BY <1>0, <1>3 DEF Mark, At, Usable, Inv, Found
  <2>5. StoreType'
    BY <1>0, <1>3, <2>4 DEF Mark, StoreType, Readable, nvmVars
  <2> QED
    BY <1>3, <2>3, <2>4, <2>5, SameFlash DEF Mark, Inv, Found, nvmVars
<1>4. CASE Save(t)
  <2>1. Good(AfterStore(f), Readable)
    BY <1>0, <1>4, AfterStoreGood DEF Save, At, Usable
  <2>2. TaskType' /\ LocalsUsable'
    BY <1>4, <2>1, GotoGood, SameFlash DEF Save, Inv
  <2> QED
    BY <1>0, <1>4, <2>2, SameFlash DEF Save, Inv, Found, StoreType, ramVars
<1> QED
  BY <1>1, <1>2, <1>3, <1>4

(* enqueueBoxToStore().                                                      *)
LEMMA ScanInv ==
  ASSUME Inv, NEW t \in Tasks, Scan(t) \/ Reset(t) PROVE Inv'
<1> DEFINE f == task[t]
<1>0. f \in Frame /\ Usable(f, Readable) /\ StoreType
  BY DEF Inv, TaskType, LocalsUsable
<1>1. CASE Scan(t)
  <2> DEFINE put == [Idle EXCEPT !.pc = "put", !.ix = f.ix, !.msg = box[f.ix].msg]
             reset == [Idle EXCEPT !.pc = "reset"]
  <2>1. Idle \in Frame
    BY IdleGood DEF Good
  <2>2. Good(reset, Readable')
    <3>1. reset \in Frame
      BY <2>1, Zenon DEF Frame, Pcs
    <3> QED
      BY <3>1, OutboxAssumption DEF Good, Usable, Idle
  <2>3. ASSUME f.ix \in InBox PROVE Good(put, Readable')
    <3>1. f.ix \in Slots /\ f.ix \in -1 .. 255 /\ f.ix < BoxSize
      BY <1>0, <2>3, OutboxAssumption DEF InBox, Slots, Frame
    <3>2. box[f.ix].msg \in Records \cup {NoRecord}
      BY <1>0, <3>1 DEF StoreType, Entry
    <3>3. put \in Frame
      BY <2>1, <3>1, <3>2, Zenon DEF Frame, Pcs
    <3> QED
      BY <3>1, <3>3 DEF Good, Usable, Idle
  <2>4. Goto(t, reset) \/ Return(t) \/ (f.ix \in InBox /\ Goto(t, put))
    BY <1>1 DEF Scan
  <2>5. Readable \subseteq Readable'
    BY <1>1, SameFlash DEF Scan, nvmVars
  <2>6. TaskType' /\ LocalsUsable'
    BY <2>2, <2>3, <2>4, <2>5, IdleGood, GotoGood DEF Return, Inv
  <2> QED
    BY <1>0, <1>1, <2>6, SameFlash DEF Scan, Inv, Found, StoreType, ramVars, nvmVars
<1>2. CASE Reset(t)
  <2>1. TaskType' /\ LocalsUsable'
    BY <1>2, IdleGood, GotoGood, SameFlash DEF Reset, Return, Inv, nvmVars
  <2>2. StoreType'
    BY <1>0, <1>2, ForgetType DEF Reset, StoreType, nvmVars
  <2> QED
    BY <1>2, <2>1, <2>2, SameFlash DEF Reset, Inv, Found, nvmVars
<1> QED
  BY <1>1, <1>2

(* onPublished() with clearId(): bits are only cleared.                      *)
LEMMA PublishedInv ==
  ASSUME Inv, NEW id, Published(id) PROVE Inv'
<1> DEFINE hits == {i \in InBox : box[i].mqtt = id}
           i == Least(hits)
           shift == [Idle EXCEPT !.pc = "shift", !.ix = i]
           unmark == [Idle EXCEPT !.pc = "unmark", !.ix = i, !.nvm = box[i].nvm,
                                  !.seen = lookup]
<1>0. StoreType /\ Idle \in Frame /\ "mqtt" \in Tasks
  BY IdleGood DEF Inv, Good, Tasks
<1>1. Readable' = Readable /\ StoreType' /\ Found'
  BY SameFlash DEF Published, Inv, StoreType, Found, ramVars, nvmVars
<1>2. CASE hits = {}
  BY <1>1, <1>2, StayGood DEF Published, Inv
<1>3. CASE hits # {}
  <2> HIDE DEF i
  <2>1. i \in Slots /\ i \in -1 .. 255 /\ i < BoxSize
    BY <1>3, HitInBox, OutboxAssumption DEF i, InBox, Slots
  <2>2. box[i].nvm \in NvmIds \cup {None} /\ lookup \in SUBSET NvmIds
    BY <1>0, <2>1 DEF StoreType, Entry
  <2>3. shift \in Frame
    BY <1>0, <2>1, Zenon DEF Frame, Pcs
  <2>6. unmark \in Frame
    BY <1>0, <2>1, <2>2 DEF Frame, Pcs
  <2>4. Good(shift, Readable') /\ Good(unmark, Readable')
    BY <1>1, <2>1, <2>3, <2>6 DEF Good, Usable, Idle, Inv, Found
  <2>5. Goto("mqtt", shift) \/ Goto("mqtt", unmark)
    BY <1>3, Zenon DEF Published, i
  <2> QED
    BY <1>0, <1>1, <2>4, <2>5, GotoGood DEF Inv
<1> QED
  BY <1>2, <1>3

LEMMA ClearInv ==
  ASSUME Inv, NEW t \in Tasks, Unmark(t) \/ Unsave(t) \/ Shift(t) PROVE Inv'
<1> DEFINE f == task[t]
<1>0. f \in Frame /\ Usable(f, Readable) /\ StoreType /\ Idle \in Frame
  BY IdleGood DEF Inv, TaskType, LocalsUsable, Good
<1>1. CASE Unmark(t)
  <2>1. [f EXCEPT !.pc = "unsave", !.seen = {}] \in Frame
    BY <1>0 DEF Frame, Pcs
  <2>2. Good([f EXCEPT !.pc = "unsave", !.seen = {}], Readable')
    BY <1>0, <1>1, <2>1 DEF Good, Usable, Frame, Unmark, At
  <2>3. TaskType' /\ LocalsUsable'
    BY <1>1, <2>2, GotoGood, SameFlash DEF Unmark, Inv, nvmVars
  <2>4. lookup' \subseteq Readable
    BY <1>0, <1>1 DEF Unmark, Usable, Inv, Found
  <2>5. StoreType'
    BY <1>0, <1>1, <2>4 DEF Unmark, StoreType, Readable, nvmVars
  <2> QED
    BY <1>1, <2>3, <2>4, <2>5, SameFlash DEF Unmark, Inv, Found, nvmVars
<1>2. CASE Unsave(t)
  <2> DEFINE g == [Idle EXCEPT !.pc = "shift", !.ix = f.ix]
  <2>1. f.ix \in -1 .. 255 /\ f.ix < BoxSize
    BY <1>0, <1>2 DEF Frame, Unsave, At, Usable
  <2>2. g \in Frame
    BY <1>0, <2>1, Zenon DEF Frame, Pcs
  <2>3. Good(g, Readable')
    BY <2>1, <2>2 DEF Good, Usable, Idle
  <2>4. TaskType' /\ LocalsUsable'
    BY <1>2, <2>3, GotoGood, SameFlash DEF Unsave, Inv
  <2> QED
    BY <1>0, <1>2, <2>4, SameFlash DEF Unsave, Inv, Found, StoreType, ramVars
<1>3. CASE Shift(t)
  <2> DEFINE b == [i \in Slots |-> IF f.ix <= i /\ i < count - 1 THEN box[i + 1] ELSE box[i]]
  <2>1. TaskType' /\ LocalsUsable'
    BY <1>3, IdleGood, GotoGood, SameFlash DEF Shift, Return, Inv, nvmVars
  <2>2. count' \in 0 .. 255
    BY <1>0, <1>3 DEF Shift, StoreType
  <2>0. count <= BoxSize /\ count \in Nat /\ BoxSize \in Nat
    BY <1>0, <1>3, OutboxAssumption DEF Shift, MayRun, StoreType
  <2>3. \A i \in Slots : i < count - 1 => i + 1 \in Slots
    BY <2>0 DEF Slots
  <2>4. b \in [Slots -> Entry]
    BY <1>0, <2>3 DEF StoreType
  <2>5. box' = Forget(b, count')
    BY <1>3 DEF Shift
  <2>6. box' \in [Slots -> Entry]
    BY <2>4, <2>5, ForgetType
  <2>7. StoreType'
    BY <1>0, <1>3, <2>2, <2>6 DEF Shift, StoreType, nvmVars
  <2> QED
    BY <1>3, <2>1, <2>7, SameFlash DEF Shift, Inv, Found, nvmVars
<1> QED
  BY <1>1, <1>2, <1>3

(* A caller that leaves box and flash alone and puts a task in a good frame. *)
LEMMA CallerGood ==
  ASSUME Inv, NEW t \in Tasks, NEW f, Goto(t, f), Good(f, Readable'),
         UNCHANGED <<box, count, lookup, nvmLookup, nvmMsg>>,
         cursor' \in NvmIds \cup {None}
  PROVE  Inv'
<1>1. Readable' = Readable
  BY SameFlash
<1>2. TaskType' /\ LocalsUsable'
  BY <1>1, GotoGood DEF Inv
<1>3. StoreType' /\ Found'
  BY <1>1 DEF Inv, StoreType, Found
<1> QED
  BY <1>2, <1>3 DEF Inv

(* A step that touches neither box, flash nor tasks.                         *)
LEMMA AsideInv ==
  ASSUME Inv, UNCHANGED <<box, count, lookup, nvmLookup, nvmMsg, task>>,
         cursor' \in NvmIds \cup {None}
  PROVE  Inv'
<1>1. Readable' = Readable
  BY SameFlash
<1>2. TaskType' /\ LocalsUsable'
  BY <1>1, StayGood DEF Inv
<1>3. StoreType' /\ Found'
  BY <1>1 DEF Inv, StoreType, Found
<1> QED
  BY <1>2, <1>3 DEF Inv

(* The frames the callers start an operation with.                           *)
LEMMA StartFrames ==
  ASSUME NEW R
  PROVE  /\ \A m \in Records : Good([Idle EXCEPT !.pc = "publish", !.msg = m], R)
         /\ Good([Idle EXCEPT !.pc = "scan", !.ix = 0], R)
         /\ \A m \in Records, k \in NvmIds :
              Good([Idle EXCEPT !.pc = "republish", !.nvm = k, !.msg = m], R)
<1>0. Idle \in Frame /\ 0 \in -1 .. 255 /\ 0 < BoxSize /\ -1 < BoxSize
  BY IdleGood, OutboxAssumption DEF Good
<1>1. ASSUME NEW m \in Records PROVE Good([Idle EXCEPT !.pc = "publish", !.msg = m], R)
  <2>1. [Idle EXCEPT !.pc = "publish", !.msg = m] \in Frame
    BY <1>0, Zenon DEF Frame, Pcs
  <2> QED
    BY <1>0, <2>1 DEF Good, Usable, Idle
<1>2. Good([Idle EXCEPT !.pc = "scan", !.ix = 0], R)
  <2>1. [Idle EXCEPT !.pc = "scan", !.ix = 0] \in Frame
    BY <1>0, Zenon DEF Frame, Pcs
  <2> QED
    BY <1>0, <2>1 DEF Good, Usable, Idle
<1>3. ASSUME NEW m \in Records, NEW k \in NvmIds
      PROVE  Good([Idle EXCEPT !.pc = "republish", !.nvm = k, !.msg = m], R)
  <2>1. [Idle EXCEPT !.pc = "republish", !.nvm = k, !.msg = m] \in Frame
    BY <1>0, Zenon DEF Frame, Pcs
  <2> QED
    BY <1>0, <2>1 DEF Good, Usable, Idle
<1> QED
  BY <1>1, <1>2, <1>3

(* The two publishers.                                                       *)
LEMMA PublishInv == ASSUME Inv, Publish \/ Republish PROVE Inv'
<1>0. /\ \A t \in Tasks : task[t] \in Frame /\ Usable(task[t], Readable)
      /\ "i2c" \in Tasks /\ "loop" \in Tasks /\ Readable' = Readable
      /\ UNCHANGED <<box, count, lookup, nvmLookup, nvmMsg, cursor>>
      /\ cursor' \in NvmIds \cup {None}
  BY SameFlash DEF Inv, TaskType, LocalsUsable, StoreType, Tasks, Publish, Republish,
                   ramVars, nvmVars
<1>1. ASSUME NEW t \in Tasks, NEW id \in PacketIds, task[t].pc # "scan"
      PROVE  Good([task[t] EXCEPT !.pc = "fill", !.mqtt = id], Readable')
  <2> DEFINE f == task[t]
  <2>1. f \in Frame /\ Usable(f, Readable') /\ f.pc # "scan"
    BY <1>0, <1>1
  <2> HIDE DEF f
  <2>2. [f EXCEPT !.pc = "fill", !.mqtt = id] \in Frame
    BY <2>1 DEF Frame, Pcs
  <2>3. Good([f EXCEPT !.pc = "fill", !.mqtt = id], Readable')
    BY <2>1, <2>2 DEF Good, Usable, Frame
  <2> QED
    BY <2>3 DEF f
<1>2. CASE Publish
  <2> DEFINE f == task["i2c"]
             put == [f EXCEPT !.pc = "put"]
  <2>0. f \in Frame /\ Usable(f, Readable') /\ f.pc = "publish"
    BY <1>0, <1>2 DEF Publish, At
  <2>2. Good(put, Readable')
    <3> HIDE DEF f
    <3>1. put \in Frame
      BY <2>0 DEF Frame, Pcs
    <3> QED
      BY <2>0, <3>1 DEF Good, Usable, Frame
  <2>3. \/ Return("i2c") \/ Goto("i2c", put)
        \/ \E id \in PacketIds : Goto("i2c", [task["i2c"] EXCEPT !.pc = "fill", !.mqtt = id])
    BY <1>2 DEF Publish, FreshIds
  <2>4. task["i2c"].pc # "scan"
    BY <1>2 DEF Publish, At
  <2> QED
    BY <1>0, <1>1, <2>2, <2>3, <2>4, IdleGood, CallerGood DEF Return
<1>3. CASE Republish
  <2>1. \/ Return("loop")
        \/ \E id \in PacketIds : Goto("loop", [task["loop"] EXCEPT !.pc = "fill", !.mqtt = id])
    BY <1>3 DEF Republish, FreshIds
  <2>2. task["loop"].pc # "scan"
    BY <1>3 DEF Republish, At
  <2> QED
    BY <1>0, <1>1, <2>1, <2>2, IdleGood, CallerGood DEF Return
<1> QED
  BY <1>2, <1>3

(* The loop on a connection: only the cursor moves and a resend may begin.   *)
LEMMA LoopConnectedInv == ASSUME Inv, LoopConnected PROVE Inv'
<1>1. /\ "loop" \in Tasks /\ getNextUnsentId \in NvmIds \cup {None}
      /\ UNCHANGED <<box, count, lookup, nvmLookup, nvmMsg>>
      /\ cursor \in NvmIds \cup {None}
  BY IdTypes DEF Inv, StoreType, Tasks, LoopConnected, nvmVars
<1>2. /\ cursor' \in NvmIds \cup {None}
      /\ \/ task' = task
         \/ \E k \in NvmIds, m \in Records :
              Goto("loop", [Idle EXCEPT !.pc = "republish", !.nvm = k, !.msg = m])
  BY <1>1, Zenon DEF LoopConnected, ResendNext
<1> QED
  BY <1>1, <1>2, StartFrames, CallerGood, AsideInv

(* Everything else around the outbox.                                        *)
LEMMA AroundInv ==
  ASSUME Inv,
         \/ \E m \in Records : Receive(m)
         \/ LoopOffline \/ LoopStop \/ LoopStart \/ MqttError \/ WifiLost \/ WifiGotIp
         \/ NetworkChanges \/ (\E w \in wire : Delivery(w))
         \/ UNCHANGED vars
  PROVE  Inv'
<1>1. /\ UNCHANGED <<box, count, lookup, nvmLookup, nvmMsg, cursor>>
      /\ cursor' \in NvmIds \cup {None}
      /\ {"i2c", "loop", "mqtt", "wifi"} \subseteq Tasks
  BY DEF Inv, StoreType, Tasks, Receive, LoopOffline, LoopStop, LoopStart, MqttError,
         WifiLost, WifiGotIp, NetworkChanges, Delivery, ramVars, nvmVars, vars
<1>2. \/ task' = task
      \/ \E m \in Records : Goto("i2c", [Idle EXCEPT !.pc = "publish", !.msg = m])
      \/ \E t \in Tasks : Goto(t, [Idle EXCEPT !.pc = "scan", !.ix = 0])
  BY Zenon DEF Tasks, Receive, LoopOffline, LoopStop, LoopStart, MqttError,
         WifiLost, WifiGotIp, NetworkChanges, Delivery, vars
<1> QED
  BY <1>1, <1>2, StartFrames, CallerGood, AsideInv

(* A restart finds what the flash holds.                                     *)
LEMMA RestartInv == ASSUME Inv, Restart PROVE Inv'
<1>1. Readable' = Readable
  BY SameFlash DEF Restart, nvmVars
<1>2. StoreType'
  BY OutboxAssumption DEF Restart, Inv, StoreType, Entry, EmptyEntry, None, nvmVars
<1>3. TaskType' /\ LocalsUsable'
  BY IdleGood DEF Restart, TaskType, LocalsUsable, Good
<1> QED
  BY <1>1, <1>2, <1>3 DEF Restart, Inv, Found, nvmVars

LEMMA StepInv == Inv /\ [Next]_vars => Inv'
<1> SUFFICES ASSUME Inv, [Next]_vars PROVE Inv'
  OBVIOUS
<1>1. ASSUME NEW t \in Tasks, OutboxStep(t) PROVE Inv'
  BY <1>1, EnqueueInv, StoreInv, ScanInv, ClearInv DEF OutboxStep
<1> QED
  BY <1>1, PublishedInv, PublishInv, LoopConnectedInv, AroundInv, RestartInv DEF Next

(* For any number of records, any size of box and flash, with or without the *)
(* lock, whatever fails: an id marked as used, in RAM or in flash, has its   *)
(* record in flash, although four tasks are inside storeMsg, clearId and     *)
(* enqueueBoxToStore at once and power fails between any two writes.         *)
THEOREM StoredReadable == Spec => []StoredIsReadable
<1>1. Inv => StoredIsReadable
  BY FoundIsStored DEF Inv
<1> QED
  BY <1>1, InitInv, StepInv, PTL DEF Spec

-----------------------------------------------------------------------------
(* The other types follow.                                                   *)

LEMMA FlagStep == FlagType /\ [Next]_vars => FlagType'
<1> SUFFICES ASSUME FlagType, [Next]_vars PROVE FlagType'
  OBVIOUS
<1>1. ASSUME NEW t \in Tasks, OutboxStep(t) PROVE FlagType'
  <2>1. CASE Scan(t) \/ Reset(t)
    <3>1. wifiSeen' = FALSE \/ wifiSeen' = wifiSeen
      BY <2>1, Zenon DEF Scan, Reset
    <3>2. UNCHANGED <<latches, wifi, hub, client>>
      BY <2>1, Zenon DEF Scan, Reset
    <3> QED
      BY <3>1, <3>2, Zenon DEF FlagType, latches
  <2>2. CASE Fill(t) \/ Bump(t) \/ Put(t) \/ Mark(t) \/ Save(t)
    <3>1. UNCHANGED <<latches, netVars>>
      BY <2>2, Zenon DEF Fill, Bump, Put, Mark, Save
    <3> QED
      BY <3>1, Zenon DEF FlagType, latches, netVars
  <2>3. CASE Unmark(t) \/ Unsave(t) \/ Shift(t)
    <3>1. UNCHANGED <<latches, netVars>>
      BY <2>3, Zenon DEF Unmark, Unsave, Shift
    <3> QED
      BY <3>1, Zenon DEF FlagType, latches, netVars
  <2> QED
    BY <1>1, <2>1, <2>2, <2>3, Zenon DEF OutboxStep
<1>2. ASSUME \/ \E m \in Records : Receive(m)
             \/ Publish \/ Republish \/ LoopConnected \/ LoopOffline
      PROVE  FlagType'
  BY <1>2, Zenon DEF FlagType, Receive, Publish, Republish, LoopConnected, LoopOffline,
                     latches, netVars
<1>3. ASSUME LoopStop \/ LoopStart \/ MqttError \/ WifiLost \/ WifiGotIp PROVE FlagType'
  BY <1>3, Zenon DEF FlagType, LoopStop, LoopStart, MqttError, WifiLost, WifiGotIp,
                     latches, netVars
<1>4. ASSUME \/ \E id \in PacketIds : Published(id)
             \/ (\E w \in wire : Delivery(w)) \/ Restart \/ UNCHANGED vars
      PROVE  FlagType'
  BY <1>4, Zenon DEF FlagType, Published, Delivery, Restart, latches, netVars, vars
<1>5. CASE NetworkChanges
  <2>1. wifi' \in BOOLEAN /\ client' \in {"none", "ready", "lost"}
    BY <1>5, Zenon DEF FlagType, NetworkChanges
  <2> QED
    BY <1>5, <2>1, Zenon DEF FlagType, NetworkChanges, latches
<1> QED
  BY <1>1, <1>2, <1>3, <1>4, <1>5 DEF Next

LEMMA NetStep == Inv /\ NetType /\ [Next]_vars => NetType'
<1> SUFFICES ASSUME Inv, NetType, [Next]_vars PROVE NetType'
  OBVIOUS
<1>1. ASSUME NEW t \in Tasks, OutboxStep(t) PROVE NetType'
  BY <1>1 DEF NetType, OutboxStep, Fill, Bump, Put, Mark, Save, Scan, Reset, Unmark,
              Unsave, Shift, netVars, history
<1>2. ASSUME NEW m \in Records, Receive(m) PROVE NetType'
  BY <1>2 DEF NetType, Receive, netVars
<1>3. CASE Publish \/ Republish
  <2>1. /\ At("i2c", "publish") => task["i2c"].msg \in Records
        /\ At("loop", "republish") => task["loop"].msg \in Records
    BY DEF Inv, LocalsUsable, Usable, At, Tasks
  <2>2. UNCHANGED <<acks, taken, delivered>>
    BY <1>3 DEF Publish, Republish, history
  <2>3. \/ wire' = wire
        \/ \E id \in PacketIds, m \in Records : wire' = wire \cup {[mqtt |-> id, msg |-> m]}
    BY <1>3, <2>1 DEF Publish, Republish, FreshIds
  <2> QED
    BY <2>2, <2>3 DEF NetType
<1>4. ASSUME NEW id \in PacketIds, Published(id) PROVE NetType'
  BY <1>4 DEF NetType, Published, history
<1>5. ASSUME NEW w \in wire, Delivery(w) PROVE NetType'
  BY <1>5 DEF NetType, Delivery
<1>6. ASSUME \/ LoopConnected \/ LoopOffline \/ LoopStop \/ LoopStart \/ MqttError
             \/ WifiLost \/ WifiGotIp \/ NetworkChanges \/ Restart \/ UNCHANGED vars
      PROVE  NetType'
  BY <1>6 DEF NetType, LoopConnected, LoopOffline, LoopStop, LoopStart, MqttError,
              WifiLost, WifiGotIp, NetworkChanges, Restart, netVars, history, vars
<1> QED
  BY <1>1, <1>2, <1>3, <1>4, <1>5, <1>6 DEF Next

(* Every variable keeps its type, whatever the tasks do at the same time: no *)
(* slot behind the box is written, no id outside the flash is used (all of   *)
(* dxclientoutbox.h).                                                        *)
THEOREM TypeCorrect == Spec => []TypeOK
<1>1. Init => FlagType /\ NetType
  BY Zenon DEF Init, FlagType, NetType
<1>2. Inv /\ FlagType /\ NetType => TypeOK
  BY TypeParts DEF Inv
<1> QED
  BY <1>1, <1>2, InitInv, StepInv, FlagStep, NetStep, PTL DEF Spec

-----------------------------------------------------------------------------
(* Without the lock, in an execution where no two calls happen to overlap:   *)
(* the count.  One task at a time is inside a call; between the steps of its *)
(* call nobody else changes the count, so what it read still holds: a free   *)
(* slot where it adds, an entry where it removes.                            *)
InsideCall(f) ==
  \/ f.pc \in {"bump", "mark", "save", "reset", "unmark", "unsave", "shift"}
  \/ f.pc = "scan" /\ f.ix >= 1
  \/ f.pc = "put" /\ f.ix >= 0
Fresh(f, c) ==
  /\ f.pc = "bump" => f.ix = c /\ c < BoxSize
  /\ f.pc \in {"unmark", "unsave", "shift"} => f.ix \in 0 .. c - 1
  /\ f.pc = "publish" => f.ix = -1
Steady ==
  /\ count \in 0 .. BoxSize
  /\ \A t, u \in Tasks : InsideCall(task[t]) /\ InsideCall(task[u]) => t = u
  /\ \A t \in Tasks : Fresh(task[t], count)

LEMMA OwnStep ==
  ASSUME ~Overlap, NEW t \in Tasks, OutboxStep(t) PROVE Own(t)
BY DEF Overlap

LEMMA CallParts == \A t \in Tasks : InCall(t) <=> InsideCall(task[t])
  BY DEF InCall, InsideCall, At

(* A step that overlaps no call: whoever takes it is alone. *)
LEMMA AloneSteady ==
  ASSUME TaskType, Steady, NEW t \in Tasks, Own(t), NEW f, Goto(t, f),
         count' \in 0 .. BoxSize, Fresh(f, count')
  PROVE  Steady'
<1>1. task'[t] = f /\ \A u \in Tasks \ {t} : task'[u] = task[u] /\ ~InsideCall(task[u])
  BY CallParts DEF Goto, TaskType, Own
<1>2. \A u \in Tasks \ {t} : Fresh(task[u], count')
  BY <1>1 DEF Steady, Fresh, InsideCall
<1> QED
  BY <1>1, <1>2 DEF Steady

(* A step of a caller before it enters the outbox. *)
LEMMA OutsideSteady ==
  ASSUME TaskType, Steady, NEW t \in Tasks, NEW f, Goto(t, f), ~InsideCall(f),
         count' = count, Fresh(f, count)
  PROVE  Steady'
<1>1. task'[t] = f /\ \A u \in Tasks \ {t} : task'[u] = task[u]
  BY DEF Goto, TaskType
<1> QED
  BY <1>1 DEF Steady

LEMMA SteadyStep ==
  ASSUME TaskType, Steady, NEW t \in Tasks, Own(t), OutboxStep(t)
  PROVE  Steady'
<1> DEFINE f == task[t]
<1>0. f \in Frame /\ Fresh(f, count) /\ count \in 0 .. BoxSize
  BY DEF TaskType, Steady
<1> HIDE DEF f
<1>1. CASE Fill(t)
  <2>1. count' = count
    BY <1>1 DEF Fill
  <2>2. CASE count < BoxSize
    <3>1. Goto(t, [f EXCEPT !.pc = "bump", !.ix = count])
      BY <1>1, <2>2 DEF Fill, f
    <3>2. Fresh([f EXCEPT !.pc = "bump", !.ix = count], count')
      BY <1>0, <2>1, <2>2 DEF Fresh, Frame
    <3> QED
      BY <1>0, <2>1, <3>1, <3>2, AloneSteady
  <2>3. CASE ~(count < BoxSize)
    BY <1>0, <1>1, <2>1, <2>3, AloneSteady DEF Fill, Return, Fresh, Idle
  <2> QED
    BY <2>2, <2>3
<1>2. CASE Bump(t)
  <2>1. f.ix = count /\ count < BoxSize
    BY <1>0, <1>2 DEF Bump, At, Fresh, f
  <2>2. Goto(t, Idle) /\ count' = (count + 1) % 256
    BY <1>2, <2>1 DEF Bump, Return, f
  <2>3. count' \in 0 .. BoxSize
    BY <1>0, <2>1, <2>2, OutboxAssumption
  <2> QED
    BY <2>2, <2>3, AloneSteady DEF Fresh, Idle
<1>3. CASE Put(t)
  <2>1. count' = count
    BY <1>3 DEF Put, ramVars
  <2>2. CASE getOpenId = None
    BY <1>0, <1>3, <2>1, <2>2, AloneSteady DEF Put, AfterStore, Fresh, Idle
  <2>3. CASE getOpenId # None
    <3>1. Goto(t, [f EXCEPT !.pc = "mark", !.nvm = getOpenId, !.seen = lookup])
      BY <1>3, <2>3 DEF Put, f
    <3>2. Fresh([f EXCEPT !.pc = "mark", !.nvm = getOpenId, !.seen = lookup], count')
      BY <1>0 DEF Fresh, Frame
    <3> QED
      BY <1>0, <2>1, <3>1, <3>2, AloneSteady
  <2> QED
    BY <2>2, <2>3
<1>4. CASE Mark(t)
  <2>1. count' = count /\ Goto(t, [f EXCEPT !.pc = "save", !.seen = {}])
    BY <1>4 DEF Mark, f
  <2>2. Fresh([f EXCEPT !.pc = "save", !.seen = {}], count')
    BY <1>0 DEF Fresh, Frame
  <2> QED
    BY <1>0, <2>1, <2>2, AloneSteady
<1>5. CASE Save(t)
  BY <1>0, <1>5, AloneSteady DEF Save, ramVars, AfterStore, Fresh, Idle
<1>6. CASE Scan(t)
  <2>1. count' = count
    BY <1>6 DEF Scan, ramVars
  <2>2. \/ Goto(t, [Idle EXCEPT !.pc = "put", !.ix = f.ix, !.msg = box[f.ix].msg])
        \/ Goto(t, [Idle EXCEPT !.pc = "reset"])
        \/ Goto(t, Idle)
    BY <1>6 DEF Scan, Return, f
  <2> QED
    BY <1>0, <2>1, <2>2, AloneSteady DEF Fresh, Idle
<1>7. CASE Reset(t)
  BY <1>7, OutboxAssumption, AloneSteady DEF Reset, Return, Fresh, Idle
<1>8. CASE Unmark(t)
  <2>1. /\ count' = count /\ f.pc = "unmark"
        /\ Goto(t, [f EXCEPT !.pc = "unsave", !.seen = {}])
    BY <1>8 DEF Unmark, At, f
  <2>2. Fresh([f EXCEPT !.pc = "unsave", !.seen = {}], count')
    BY <1>0, <2>1 DEF Fresh, Frame
  <2> QED
    BY <1>0, <2>1, <2>2, AloneSteady
<1>9. CASE Unsave(t)
  <2>1. /\ count' = count /\ f.pc = "unsave"
        /\ Goto(t, [Idle EXCEPT !.pc = "shift", !.ix = f.ix])
    BY <1>9 DEF Unsave, At, ramVars, f
  <2>2. Fresh([Idle EXCEPT !.pc = "shift", !.ix = f.ix], count')
    BY <1>0, <2>1 DEF Fresh, Idle
  <2> QED
    BY <1>0, <2>1, <2>2, AloneSteady
<1>10. CASE Shift(t)
  <2>1. f.ix \in 0 .. count - 1
    BY <1>0, <1>10 DEF Shift, At, Fresh, f
  <2>2. Goto(t, Idle) /\ count' = (count - 1) % 256
    BY <1>10 DEF Shift, Return
  <2>3. count' \in 0 .. BoxSize
    BY <1>0, <2>1, <2>2, OutboxAssumption
  <2> QED
    BY <2>2, <2>3, AloneSteady DEF Fresh, Idle
<1> QED
  BY <1>1, <1>2, <1>3, <1>4, <1>5, <1>6, <1>7, <1>8, <1>9, <1>10 DEF OutboxStep

(* The callers enter the outbox, and a PUBACK finds its entry.               *)
LEMMA SteadyCallers ==
  ASSUME ~Overlap, TaskType, Steady, Next, \A t \in Tasks : ~OutboxStep(t)
  PROVE  Steady'
<1>0. /\ task["i2c"] \in Frame /\ task["loop"] \in Frame
      /\ Fresh(task["i2c"], count) /\ count \in 0 .. BoxSize
  BY DEF TaskType, Steady, Tasks
<1>1. ASSUME NEW m \in Records, Receive(m) PROVE Steady'
  BY <1>1, OutsideSteady DEF Receive, ramVars, InsideCall, Fresh, Idle, Tasks
<1>2. CASE Publish
  <2> DEFINE f == task["i2c"]
  <2>1. f \in Frame /\ f.ix = -1 /\ count' = count
    BY <1>0, <1>2 DEF Publish, At, Fresh, ramVars
  <2>2. \/ Goto("i2c", Idle) \/ Goto("i2c", [f EXCEPT !.pc = "put"])
        \/ \E id \in FreshIds : Goto("i2c", [f EXCEPT !.pc = "fill", !.mqtt = id])
    BY <1>2 DEF Publish, Return
  <2> HIDE DEF f
  <2>3. CASE Goto("i2c", Idle)
    BY <2>1, <2>3, OutsideSteady DEF InsideCall, Fresh, Idle, Tasks
  <2>4. CASE Goto("i2c", [f EXCEPT !.pc = "put"])
    <3>1. ~InsideCall([f EXCEPT !.pc = "put"]) /\ Fresh([f EXCEPT !.pc = "put"], count)
      BY <2>1 DEF InsideCall, Fresh, Frame
    <3> QED
      BY <2>1, <2>4, <3>1, OutsideSteady DEF Tasks
  <2>5. ASSUME NEW id, Goto("i2c", [f EXCEPT !.pc = "fill", !.mqtt = id]) PROVE Steady'
    <3>1. /\ ~InsideCall([f EXCEPT !.pc = "fill", !.mqtt = id])
          /\ Fresh([f EXCEPT !.pc = "fill", !.mqtt = id], count)
      BY <2>1 DEF InsideCall, Fresh, Frame
    <3> QED
      BY <2>1, <2>5, <3>1, OutsideSteady DEF Tasks
  <2> QED
    BY <2>2, <2>3, <2>4, <2>5
<1>3. CASE Republish
  <2> DEFINE f == task["loop"]
  <2>1. f \in Frame /\ count' = count
    BY <1>0, <1>3 DEF Republish, ramVars
  <2>2. \/ Goto("loop", Idle)
        \/ \E id \in FreshIds : Goto("loop", [f EXCEPT !.pc = "fill", !.mqtt = id])
    BY <1>3 DEF Republish, Return
  <2> HIDE DEF f
  <2>3. CASE Goto("loop", Idle)
    BY <2>1, <2>3, OutsideSteady DEF InsideCall, Fresh, Idle, Tasks
  <2>4. ASSUME NEW id, Goto("loop", [f EXCEPT !.pc = "fill", !.mqtt = id]) PROVE Steady'
    <3>1. /\ ~InsideCall([f EXCEPT !.pc = "fill", !.mqtt = id])
          /\ Fresh([f EXCEPT !.pc = "fill", !.mqtt = id], count)
      BY <2>1 DEF InsideCall, Fresh, Frame
    <3> QED
      BY <2>1, <2>4, <3>1, OutsideSteady DEF Tasks
  <2> QED
    BY <2>2, <2>3, <2>4
<1>4. CASE LoopConnected
  <2>1. count' = count
    BY <1>4 DEF LoopConnected
  <2>2. \/ task' = task
        \/ Goto("loop", [Idle EXCEPT !.pc = "republish", !.nvm = getNextUnsentId,
                                     !.msg = nvmMsg[getNextUnsentId]])
    BY <1>4 DEF LoopConnected, ResendNext
  <2>3. CASE task' = task
    BY <2>1, <2>3 DEF Steady
  <2> QED
    BY <2>1, <2>2, <2>3, OutsideSteady DEF InsideCall, Fresh, Idle, Tasks
<1>5. CASE LoopOffline \/ MqttError \/ WifiLost
  <2>1. count' = count
    BY <1>5 DEF LoopOffline, MqttError, WifiLost, ramVars
  <2>2. PICK t \in Tasks : Goto(t, [Idle EXCEPT !.pc = "scan", !.ix = 0])
    BY <1>5 DEF LoopOffline, MqttError, WifiLost, Tasks
  <2>3. /\ ~InsideCall([Idle EXCEPT !.pc = "scan", !.ix = 0])
        /\ Fresh([Idle EXCEPT !.pc = "scan", !.ix = 0], count)
    BY DEF InsideCall, Fresh, Idle
  <2> QED
    BY <2>1, <2>2, <2>3, OutsideSteady
<1>6. ASSUME \/ LoopStop \/ LoopStart \/ WifiGotIp \/ NetworkChanges
             \/ \E w \in wire : Delivery(w)
      PROVE  Steady'
  <2>1. count' = count /\ task' = task
    BY <1>6 DEF LoopStop, LoopStart, WifiGotIp, NetworkChanges, Delivery, ramVars
  <2> QED
    BY <2>1 DEF Steady
<1>7. ASSUME NEW id \in PacketIds, Published(id) PROVE Steady'
  <2> DEFINE hits == {i \in InBox : box[i].mqtt = id}
             i == Least(hits)
  <2>1. Own("mqtt") /\ count' = count
    BY <1>7 DEF Published, ramVars, Overlap, Tasks
  <2>2. CASE hits = {}
    <3>1. task' = task
      BY <1>7, <2>2 DEF Published
    <3> QED
      BY <2>1, <3>1 DEF Steady
  <2>3. CASE hits # {}
    <3>0. i \in InBox
      BY <2>3, HitInBox
    <3>1. i \in 0 .. count - 1
      BY <1>0, <3>0 DEF InBox, Slots
    <3>2. \/ Goto("mqtt", [Idle EXCEPT !.pc = "shift", !.ix = i])
          \/ Goto("mqtt", [Idle EXCEPT !.pc = "unmark", !.ix = i,
                             !.nvm = box[i].nvm, !.seen = lookup])
      BY <1>7, <2>3 DEF Published
    <3> HIDE DEF i
    <3> QED
      BY <1>0, <2>1, <3>1, <3>2, AloneSteady DEF Fresh, Idle, Tasks
  <2> QED
    BY <2>2, <2>3
<1>8. CASE Restart
  BY <1>8, OutboxAssumption DEF Restart, Steady, InsideCall, Fresh, Idle
<1> QED
  BY <1>1, <1>2, <1>3, <1>4, <1>5, <1>6, <1>7, <1>8 DEF Next

(* With or without the lock, as long as no two calls overlap, the count never *)
(* leaves the array, for any sizes: enqueueMsg adds only where there is room *)
(* and onPublished removes only what it has found.  The overlap of           *)
(* onPublished with enqueueBoxToStore, which the code does not rule out,     *)
(* takes the count to 255 (dxclientoutbox.h:101).                            *)
THEOREM CountFits == Spec /\ [][~Overlap]_vars => [](count <= BoxSize)
<1>1. Init => Steady
  BY OutboxAssumption DEF Init, Steady, InsideCall, Fresh, Idle
<1>2. Inv /\ Steady /\ [Next]_vars /\ [~Overlap]_vars => Steady'
  <2> SUFFICES ASSUME Inv, Steady, [Next]_vars, [~Overlap]_vars PROVE Steady'
    OBVIOUS
  <2>1. CASE UNCHANGED vars
    BY <2>1 DEF vars, ramVars, Steady
  <2>2. CASE Next /\ ~Overlap
    BY <2>2, OwnStep, SteadyStep, SteadyCallers DEF Inv
  <2> QED
    BY <2>1, <2>2
<1>3. Steady => count <= BoxSize
  BY OutboxAssumption DEF Steady
<1> QED
  BY <1>1, <1>2, <1>3, InitInv, StepInv, PTL DEF Spec
-----------------------------------------------------------------------------
(* The entries that came from the flash, if no calls overlap.  Once the loop *)
(* holds one to resend there is none in the box, and only the loop brings one: an  *)
(* entry of the I2C task has no id of the flash.                             *)
NoneFromFlash(b, c) == \A i \in Slots : i < c => b[i].nvm = None
OneFromFlash(b, c) ==
  \A i, j \in Slots :
    i < c /\ j < c /\ b[i].nvm # None /\ b[j].nvm # None => i = j
Brings(t, f, b, c) ==
  /\ f.pc = "publish" => t = "i2c"
  /\ f.pc = "republish" => t = "loop"
  /\ f.pc \in {"fill", "bump"} => t \in {"i2c", "loop"}
  /\ t = "i2c" /\ f.pc \in {"publish", "fill"} => f.nvm = None
  /\ t = "i2c" /\ f.pc = "bump" => b[c].nvm = None
  /\ t = "loop" /\ f.pc \in {"republish", "fill", "bump"} => NoneFromFlash(b, c)
Resending == OneFromFlash(box, count) /\ \A t \in Tasks : Brings(t, task[t], box, count)

LEMMA OneFromFlashIs == OneFromFlash(box, count) => OneResend
BY DEF OneFromFlash, OneResend, InBox

LEMMA IdleBrings == ASSUME NEW t, NEW b, NEW c PROVE Brings(t, Idle, b, c)
BY DEF Brings, Idle

(* A step that leaves the box alone. *)
LEMMA SameBoxResending ==
  ASSUME TaskType, Resending, NEW t \in Tasks, NEW f, Goto(t, f),
         box' = box, count' = count, Brings(t, f, box, count)
  PROVE  Resending'
<1>1. task'[t] = f /\ \A u \in Tasks \ {t} : task'[u] = task[u]
  BY DEF Goto, TaskType
<1> QED
  BY <1>1 DEF Resending

(* A step that changes it, where nobody else is adding an entry.            *)
LEMMA BoxResending ==
  ASSUME TaskType, Resending, NEW t \in Tasks, Own(t), NEW f, Goto(t, f),
         OneFromFlash(box', count'), Brings(t, f, box', count'),
         t # "loop" /\ NoneFromFlash(box, count) => NoneFromFlash(box', count')
  PROVE  Resending'
<1>1. task'[t] = f /\ \A u \in Tasks \ {t} : task'[u] = task[u] /\ ~InsideCall(task[u])
  BY CallParts DEF Goto, TaskType, Own
<1>2. ASSUME NEW u \in Tasks \ {t} PROVE Brings(u, task[u], box', count')
  <2>1. Brings(u, task[u], box, count) /\ task[u].pc # "bump"
    BY <1>1 DEF Resending, InsideCall
  <2> QED
    BY <2>1 DEF Brings
<1> QED
  BY <1>1, <1>2 DEF Resending

LEMMA ResendingStep ==
  ASSUME StoreType, TaskType, Steady, Resending, NEW t \in Tasks, Own(t), OutboxStep(t)
  PROVE  Resending'
<1> DEFINE f == task[t]
<1>0. /\ f \in Frame /\ Fresh(f, count) /\ count \in 0 .. BoxSize /\ BoxSize \in 2 .. 254
      /\ Brings(t, f, box, count) /\ OneFromFlash(box, count)
      /\ box \in [Slots -> Entry]
  BY OutboxAssumption DEF TaskType, Steady, Resending, StoreType
<1> HIDE DEF f
<1>1. CASE Fill(t) /\ count < BoxSize
  <2> DEFINE g == [f EXCEPT !.pc = "bump", !.ix = count]
  <2>1. /\ count' = count /\ f.pc = "fill" /\ Goto(t, g)
        /\ box' = [box EXCEPT ![count] = [mqtt |-> f.mqtt, nvm |-> f.nvm, msg |-> f.msg]]
    BY <1>1 DEF Fill, At, f
  <2>2. count \in Slots
    BY <1>0, <1>1 DEF Slots
  <2>3. box'[count].nvm = f.nvm /\ \A i \in Slots : i < count => box'[i] = box[i]
    BY <1>0, <2>1, <2>2 DEF Slots
  <2>4. OneFromFlash(box', count') /\ (NoneFromFlash(box, count) => NoneFromFlash(box', count'))
    BY <1>0, <2>1, <2>3 DEF OneFromFlash, NoneFromFlash
  <2>5. g.pc = "bump"
    BY <1>0 DEF Frame
  <2>6. Brings(t, g, box', count')
    BY <1>0, <2>1, <2>3, <2>4, <2>5 DEF Brings
  <2> QED
    BY <2>1, <2>4, <2>6, BoxResending
<1>2. CASE Fill(t) /\ ~(count < BoxSize)
  BY <1>2, IdleBrings, SameBoxResending DEF Fill, Return
<1>3. CASE Bump(t)
  <2>1. f.ix = count /\ count < BoxSize /\ f.pc = "bump"
    BY <1>0, <1>3 DEF Bump, At, Fresh, f
  <2>2. Goto(t, Idle) /\ count' = (count + 1) % 256 /\ box' = box
    BY <1>3, <2>1 DEF Bump, Return, f
  <2>3. count' = count + 1 /\ \A i \in Slots : i < count' => i < count \/ i = count
    BY <1>0, <2>1, <2>2 DEF Slots
  <2>4. \/ t = "i2c" /\ box[count].nvm = None
        \/ t = "loop" /\ NoneFromFlash(box, count)
    BY <1>0, <2>1 DEF Brings
  <2>5. OneFromFlash(box', count')
    BY <1>0, <2>2, <2>3, <2>4 DEF OneFromFlash, NoneFromFlash
  <2>6. t # "loop" /\ NoneFromFlash(box, count) => NoneFromFlash(box', count')
    BY <2>2, <2>3, <2>4 DEF NoneFromFlash
  <2> QED
    BY <2>2, <2>5, <2>6, IdleBrings, BoxResending
<1>4. CASE Put(t)
  <2>1. box' = box /\ count' = count
    BY <1>4 DEF Put, ramVars
  <2>2. CASE getOpenId = None
    BY <1>4, <2>1, <2>2, SameBoxResending DEF Put, AfterStore, Brings, Idle
  <2>3. CASE getOpenId # None
    <3>1. Goto(t, [f EXCEPT !.pc = "mark", !.nvm = getOpenId, !.seen = lookup])
      BY <1>4, <2>3 DEF Put, f
    <3>2. [f EXCEPT !.pc = "mark", !.nvm = getOpenId, !.seen = lookup].pc = "mark"
      BY <1>0 DEF Frame
    <3> QED
      BY <2>1, <3>1, <3>2, SameBoxResending DEF Brings
  <2> QED
    BY <2>2, <2>3
<1>5. CASE Mark(t)
  <2>1. box' = box /\ count' = count /\ Goto(t, [f EXCEPT !.pc = "save", !.seen = {}])
    BY <1>5 DEF Mark, f
  <2>2. [f EXCEPT !.pc = "save", !.seen = {}].pc = "save"
    BY <1>0 DEF Frame
  <2> QED
    BY <2>1, <2>2, SameBoxResending DEF Brings
<1>6. CASE Save(t)
  BY <1>6, SameBoxResending DEF Save, ramVars, AfterStore, Brings, Idle
<1>7. CASE Scan(t)
  <2>1. box' = box /\ count' = count
    BY <1>7 DEF Scan, ramVars
  <2>2. \/ Goto(t, [Idle EXCEPT !.pc = "put", !.ix = f.ix, !.msg = box[f.ix].msg])
        \/ Goto(t, [Idle EXCEPT !.pc = "reset"])
        \/ Goto(t, Idle)
    BY <1>7 DEF Scan, Return, f
  <2> QED
    BY <2>1, <2>2, SameBoxResending DEF Brings, Idle
<1>8. CASE Reset(t)
  <2>1. OneFromFlash(box', count') /\ NoneFromFlash(box', count')
    BY <1>8 DEF Reset, OneFromFlash, NoneFromFlash, Slots
  <2> QED
    BY <1>8, <2>1, IdleBrings, BoxResending DEF Reset, Return
<1>9. CASE Unmark(t)
  <2>1. box' = box /\ count' = count /\ Goto(t, [f EXCEPT !.pc = "unsave", !.seen = {}])
    BY <1>9 DEF Unmark, f
  <2>2. [f EXCEPT !.pc = "unsave", !.seen = {}].pc = "unsave"
    BY <1>0 DEF Frame
  <2> QED
    BY <2>1, <2>2, SameBoxResending DEF Brings
<1>10. CASE Unsave(t)
  BY <1>10, SameBoxResending DEF Unsave, ramVars, Brings, Idle
<1>11. CASE Shift(t)
  <2> DEFINE b == [i \in Slots |-> IF f.ix <= i /\ i < count - 1 THEN box[i + 1] ELSE box[i]]
  <2>1. f.ix \in 0 .. count - 1
    BY <1>0, <1>11 DEF Shift, At, Fresh, f
  <2>2. Goto(t, Idle) /\ count' = (count - 1) % 256 /\ box' = Forget(b, count')
    BY <1>11 DEF Shift, Return, f
  <2>3. count' = count - 1
    BY <1>0, <2>1, <2>2
  <2>4. ASSUME NEW i \in Slots, i < count'
        PROVE  box'[i] = IF f.ix <= i THEN box[i + 1] ELSE box[i]
    BY <2>2, <2>3, <2>4 DEF Forget
  <2>5. \A i \in Slots : i < count' => i + 1 \in Slots /\ i + 1 < count /\ i < count
    BY <1>0, <2>3 DEF Slots
  <2>6. NoneFromFlash(box, count) => NoneFromFlash(box', count')
    BY <2>4, <2>5 DEF NoneFromFlash
  <2>7. ASSUME NEW i \in Slots, NEW j \in Slots, i < count', j < count',
               box'[i].nvm # None, box'[j].nvm # None
        PROVE  i = j
    <3>1. CASE f.ix <= i /\ f.ix <= j
      <4>1. box[i + 1].nvm # None /\ box[j + 1].nvm # None
        BY <2>4, <2>7, <3>1
      <4>2. i + 1 = j + 1
        BY <1>0, <2>5, <2>7, <4>1 DEF OneFromFlash
      <4> QED
        BY <4>2 DEF Slots
    <3>2. CASE f.ix <= i /\ ~(f.ix <= j)
      <4>1. box[i + 1].nvm # None /\ box[j].nvm # None
        BY <2>4, <2>7, <3>2
      <4>2. i + 1 = j
        BY <1>0, <2>5, <2>7, <4>1 DEF OneFromFlash
      <4> QED
        BY <2>1, <3>2, <4>2 DEF Slots
    <3>3. CASE ~(f.ix <= i) /\ f.ix <= j
      <4>1. box[i].nvm # None /\ box[j + 1].nvm # None
        BY <2>4, <2>7, <3>3
      <4>2. i = j + 1
        BY <1>0, <2>5, <2>7, <4>1 DEF OneFromFlash
      <4> QED
        BY <2>1, <3>3, <4>2 DEF Slots
    <3>4. CASE ~(f.ix <= i) /\ ~(f.ix <= j)
      <4>1. box[i].nvm # None /\ box[j].nvm # None
        BY <2>4, <2>7, <3>4
      <4> QED
        BY <1>0, <2>5, <2>7, <4>1 DEF OneFromFlash
    <3> QED
      BY <3>1, <3>2, <3>3, <3>4
  <2>8. OneFromFlash(box', count')
    BY <2>7 DEF OneFromFlash
  <2> QED
    BY <2>2, <2>6, <2>8, IdleBrings, BoxResending
<1> QED
  BY <1>1, <1>2, <1>3, <1>4, <1>5, <1>6, <1>7, <1>8, <1>9, <1>10, <1>11 DEF OutboxStep

(* The callers: the I2C task publishes without an id of the flash, and the   *)
(* loop takes one out of it only when the box is empty.                      *)
LEMMA ResendingCallers ==
  ASSUME ~Overlap, StoreType, TaskType, Resending, Next, \A t \in Tasks : ~OutboxStep(t)
  PROVE  Resending'
<1>0. /\ task["i2c"] \in Frame /\ task["loop"] \in Frame
      /\ Brings("i2c", task["i2c"], box, count) /\ Brings("loop", task["loop"], box, count)
      /\ "i2c" \in Tasks /\ "loop" \in Tasks /\ "mqtt" \in Tasks
  BY DEF TaskType, Resending, Tasks
<1>1. ASSUME NEW m \in Records, Receive(m) PROVE Resending'
  BY <1>0, <1>1, SameBoxResending DEF Receive, ramVars, Brings, Idle
<1>2. CASE Publish
  <2> DEFINE f == task["i2c"]
  <2>1. f \in Frame /\ f.nvm = None /\ box' = box /\ count' = count
    BY <1>0, <1>2 DEF Publish, At, Brings, ramVars
  <2>2. \/ Goto("i2c", Idle) \/ Goto("i2c", [f EXCEPT !.pc = "put"])
        \/ \E id \in FreshIds : Goto("i2c", [f EXCEPT !.pc = "fill", !.mqtt = id])
    BY <1>2 DEF Publish, Return
  <2> HIDE DEF f
  <2>3. Brings("i2c", [f EXCEPT !.pc = "put"], box, count)
    BY <2>1 DEF Brings, Frame
  <2>4. ASSUME NEW id PROVE Brings("i2c", [f EXCEPT !.pc = "fill", !.mqtt = id], box, count)
    BY <2>1 DEF Brings, Frame
  <2> QED
    BY <1>0, <2>1, <2>2, <2>3, <2>4, IdleBrings, SameBoxResending
<1>3. CASE Republish
  <2> DEFINE f == task["loop"]
  <2>1. f \in Frame /\ NoneFromFlash(box, count) /\ box' = box /\ count' = count
    BY <1>0, <1>3 DEF Republish, At, Brings, ramVars
  <2>2. \/ Goto("loop", Idle)
        \/ \E id \in FreshIds : Goto("loop", [f EXCEPT !.pc = "fill", !.mqtt = id])
    BY <1>3 DEF Republish, Return
  <2> HIDE DEF f
  <2>3. ASSUME NEW id PROVE Brings("loop", [f EXCEPT !.pc = "fill", !.mqtt = id], box, count)
    BY <2>1 DEF Brings, Frame
  <2> QED
    BY <1>0, <2>1, <2>2, <2>3, IdleBrings, SameBoxResending
<1>4. CASE LoopConnected
  <2>1. box' = box /\ count' = count
    BY <1>4 DEF LoopConnected
  <2>2. \/ task' = task
        \/ /\ isEnqueueBoxEmpty
           /\ Goto("loop", [Idle EXCEPT !.pc = "republish", !.nvm = getNextUnsentId,
                                        !.msg = nvmMsg[getNextUnsentId]])
    BY <1>4 DEF LoopConnected, ResendNext
  <2>3. CASE task' = task
    BY <2>1, <2>3 DEF Resending
  <2>4. isEnqueueBoxEmpty => NoneFromFlash(box, count)
    BY DEF isEnqueueBoxEmpty, NoneFromFlash, Slots
  <2> QED
    BY <1>0, <2>1, <2>2, <2>3, <2>4, SameBoxResending DEF Brings, Idle
<1>5. CASE LoopOffline \/ MqttError \/ WifiLost
  <2>1. box' = box /\ count' = count
    BY <1>5 DEF LoopOffline, MqttError, WifiLost, ramVars
  <2>2. PICK t \in Tasks : Goto(t, [Idle EXCEPT !.pc = "scan", !.ix = 0])
    BY <1>5 DEF LoopOffline, MqttError, WifiLost, Tasks
  <2> QED
    BY <2>1, <2>2, SameBoxResending DEF Brings, Idle
<1>6. ASSUME \/ LoopStop \/ LoopStart \/ WifiGotIp \/ NetworkChanges
             \/ \E w \in wire : Delivery(w)
      PROVE  Resending'
  <2>1. box' = box /\ count' = count /\ task' = task
    BY <1>6 DEF LoopStop, LoopStart, WifiGotIp, NetworkChanges, Delivery, ramVars
  <2> QED
    BY <2>1 DEF Resending
<1>7. ASSUME NEW id \in PacketIds, Published(id) PROVE Resending'
  <2> DEFINE i == Least({k \in InBox : box[k].mqtt = id})
  <2>1. box' = box /\ count' = count
    BY <1>7 DEF Published, ramVars
  <2>2. \/ task' = task
        \/ Goto("mqtt", [Idle EXCEPT !.pc = "shift", !.ix = i])
        \/ Goto("mqtt", [Idle EXCEPT !.pc = "unmark", !.ix = i,
                           !.nvm = box[i].nvm, !.seen = lookup])
    BY <1>7 DEF Published
  <2> HIDE DEF i
  <2>3. CASE task' = task
    BY <2>1, <2>3 DEF Resending
  <2> QED
    BY <1>0, <2>1, <2>2, <2>3, SameBoxResending DEF Brings, Idle
<1>8. CASE Restart
  BY <1>8 DEF Restart, Resending, OneFromFlash, EmptyEntry, Slots, Brings, Idle
<1> QED
  BY <1>1, <1>2, <1>3, <1>4, <1>5, <1>6, <1>7, <1>8 DEF Next

(* With or without the lock, as long as no two calls overlap, at most one    *)
(* entry of the box came from the flash, for any sizes and whatever fails:   *)
(* the record is read when the box is empty, and what the other tasks add in *)
(* the meantime, between the calls of the loop, is new                       *)
(* (azure_iot_resend_telemetry, isEnqueueBoxEmpty).                          *)
THEOREM OneResendAlways == Spec /\ [][~Overlap]_vars => []OneResend
<1>1. Init => Steady /\ Resending
  <2> SUFFICES ASSUME Init PROVE Steady /\ Resending
    OBVIOUS
  <2>1. Steady
    BY OutboxAssumption DEF Init, Steady, InsideCall, Fresh, Idle
  <2>2. Resending
    BY DEF Init, Resending, OneFromFlash, EmptyEntry, Slots, Brings, Idle
  <2> QED
    BY <2>1, <2>2
<1>2. Inv /\ Steady /\ Resending /\ [Next]_vars /\ [~Overlap]_vars
        => (Steady /\ Resending)'
  <2> SUFFICES ASSUME Inv, Steady, Resending, [Next]_vars, [~Overlap]_vars
               PROVE  Steady' /\ Resending'
    OBVIOUS
  <2>1. CASE UNCHANGED vars
    BY <2>1 DEF vars, ramVars, Steady, Resending
  <2>2. CASE ~Overlap /\ \E t \in Tasks : OutboxStep(t)
    BY <2>2, OwnStep, SteadyStep, ResendingStep DEF Inv
  <2>3. CASE Next /\ ~Overlap /\ \A t \in Tasks : ~OutboxStep(t)
    BY <2>3, SteadyCallers, ResendingCallers DEF Inv
  <2> QED
    BY <2>1, <2>2, <2>3
<1>3. Resending => OneResend
  BY OneFromFlashIs DEF Resending
<1> QED
  BY <1>1, <1>2, <1>3, InitInv, StepInv, PTL DEF Spec
=============================================================================
