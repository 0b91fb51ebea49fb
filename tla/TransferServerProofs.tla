------------------------ MODULE TransferServerProofs ------------------------
(***************************************************************************)
(* Theorems about TransferServer, for every value of its constants: the    *)
(* types, and that an item that has ended stays ended; then that what its  *)
(* receipts say is true, that what is on disk is what is in memory, and    *)
(* that the quotas hold.                                                   *)
(***************************************************************************)
EXTENDS TransferServer, FiniteSetTheorems, WellFoundedInduction, TLAPS

MaybeItem == Item \cup {None}
MaybeReceipt == Receipt \cup {None}
MaybeDir == Dir \cup {None}

(***************************************************************************)
(* Types of what the helpers of the model return.                          *)
(***************************************************************************)
\* finish_item builds a well-formed receipt.
LEMMA ReceiptOfType ==
    ASSUME NEW it \in Item, NEW st \in Final, now \in Nat
    PROVE  ReceiptOf(it, st) \in Receipt
BY EnvelopeAssumption DEF ReceiptOf, Receipt, Item

\* Adding receipts for present items keeps a map of receipts.
LEMMA WithReceiptsType ==
    ASSUME NEW R \in [Id -> MaybeReceipt], NEW its \in [Id -> MaybeItem],
           NEW S \in SUBSET Id, \A i \in S : its[i] \in Item,
           NEW st \in Final, now \in Nat
    PROVE  WithReceipts(R, its, S, st) \in [Id -> MaybeReceipt]
<1>1. \A i \in S : ReceiptOf(its[i], st) \in Receipt
  BY ReceiptOfType DEF MaybeItem
<1>2. QED
  BY <1>1 DEF WithReceipts, MaybeReceipt

\* Trimming only forgets.
LEMMA TrimForgets ==
    ASSUME NEW R \in [Id -> MaybeReceipt]
    PROVE  /\ Trim(R) \in [Id -> MaybeReceipt]
           /\ \A i \in Id : Trim(R)[i] = None \/ Trim(R)[i] = R[i]
BY DEF Trim, MaybeReceipt

\* The receipts after finishing some items.
LEMMA ConcludedType ==
    ASSUME NEW R \in [Id -> MaybeReceipt], NEW its \in [Id -> MaybeItem],
           NEW S \in SUBSET Id, \A i \in S : its[i] \in Item,
           NEW st \in Final, now \in Nat
    PROVE  Concluded(R, its, S, st) \in [Id -> MaybeReceipt]
BY WithReceiptsType, TrimForgets DEF Concluded

\* Deleting folders, whatever stays behind, leaves well-formed folders.
LEMMA DeletedType ==
    ASSUME disk \in [Id -> MaybeDir], NEW S \in SUBSET Id,
           NEW stay \in SUBSET Id, NEW kept \in SUBSET DirFile
    PROVE  Deleted(S, stay, kept) \in [Id -> MaybeDir]
<1>1. ASSUME NEW d \in Dir PROVE Remains(d, kept) \in Dir
  BY DEF Remains, Dir, NoFile
<1>2. QED
  BY <1>1 DEF Deleted, MaybeDir

\* load_store restores well-formed items.
LEMMA RecoverType ==
    ASSUME NEW d \in [Id -> MaybeDir], NEW l, NEW i \in Id
    PROVE  Recover(d, l, i) \in MaybeItem
BY DEF Recover, MaybeDir, MaybeItem, Dir

(***************************************************************************)
(* Type correctness.                                                       *)
(***************************************************************************)
\* The part of TypeOK that finish_item, load_store and gc write.
StoreType ==
    /\ items \in [Id -> MaybeItem]
    /\ receipts \in [Id -> MaybeReceipt]
    /\ cancelReq \subseteq Id
    /\ disk \in [Id -> MaybeDir]
    /\ ledger \in [Id -> MaybeReceipt]
    /\ aside \in [Id -> Nat \cup {None}]
    /\ upsets \in Nat
    /\ toldHeld \subseteq Id

\* The rest of TypeOK.
OtherType ==
    /\ uploading \subseteq Id
    /\ task \in [Conn -> Task]
    /\ gc \in [busy : BOOLEAN, idle : SUBSET Id]
    /\ cfg \in Config
    /\ mounted \in BOOLEAN /\ now \in Nat /\ arrivals \in Nat
    /\ read \in [Id -> SUBSET Device]

LEMMA TypeSplit == TypeOK <=> StoreType /\ OtherType
BY DEF TypeOK, StoreType, OtherType, MaybeItem, MaybeReceipt, MaybeDir

\* finish_item keeps the store well formed.
LEMMA FinishType ==
    ASSUME StoreType, now \in Nat,
           NEW S \in SUBSET Id, NEW st \in Final, NEW its \in [Id -> MaybeItem],
           \A i \in S : its[i] \in Item,
           Finish(S, st, its)
    PROVE  StoreType'
<1>1. items' \in [Id -> MaybeItem]
  BY DEF Finish, Without, MaybeItem
<1>2. receipts' \in [Id -> MaybeReceipt]
  <2>1. Concluded(receipts, its, S, st) \in [Id -> MaybeReceipt]
    BY ConcludedType DEF StoreType
  <2>2. QED
    BY <2>1 DEF Finish
<1>3. ledger' \in [Id -> MaybeReceipt]
  <2>1. WithReceipts(ledger, its, S, st) \in [Id -> MaybeReceipt]
    BY WithReceiptsType DEF StoreType
  <2>2. QED
    BY <2>1 DEF Finish, StoreType
<1>4. disk' \in [Id -> MaybeDir]
  <2>1. Deleted(S, {}, {}) \in [Id -> MaybeDir]
    BY DeletedType DEF StoreType
  <2>2. \A kept \in SUBSET DirFile : Deleted(S, S, kept) \in [Id -> MaybeDir]
    BY DeletedType DEF StoreType
  <2>3. \A stay \in {{}, S} : Deleted(S, stay, DirFile) \in [Id -> MaybeDir]
    BY DeletedType DEF StoreType
  <2>4. QED
    BY <2>1, <2>2, <2>3 DEF Finish
<1>5. upsets' \in Nat /\ aside' \in [Id -> Nat \cup {None}]
  BY DEF Finish, StoreType
<1>6. cancelReq' \subseteq Id /\ toldHeld' \subseteq Id
  BY DEF Finish, StoreType
<1>7. QED
  BY <1>1, <1>2, <1>3, <1>4, <1>5, <1>6 DEF StoreType

\* load_store rebuilds a well-formed store.
LEMMA LoadType ==
    ASSUME StoreType, now \in Nat,
           NEW d \in [Id -> MaybeDir], NEW l \in [Id -> MaybeReceipt], NEW bad,
           Load(d, l, bad)
    PROVE  /\ items' \in [Id -> MaybeItem]
           /\ receipts' \in [Id -> MaybeReceipt]
           /\ ledger' \in [Id -> MaybeReceipt]
           /\ uploading' = {} /\ cancelReq' = {}
           /\ disk' \in [Id -> MaybeDir]
           /\ aside' \in [Id -> Nat \cup {None}]
<1>1. items' \in [Id -> MaybeItem]
  <2>1. \A i \in Id : Recover(d, l, i) \in MaybeItem
    BY RecoverType
  <2>2. QED
    BY <2>1 DEF Load, MaybeItem
<1>2. disk' \in [Id -> MaybeDir]
  BY DEF Load, MaybeDir
<1>3. aside' \in [Id -> Nat \cup {None}]
  BY DEF Load, StoreType
<1>4. QED
  BY <1>1, <1>2, <1>3 DEF Load

\* A handler at work has an envelope; it may go to any step of its own.
LEMMA TaskType ==
    ASSUME task \in [Conn -> Task], NEW c \in Conn, task[c].pc # "idle"
    PROVE  /\ task[c].env \in Envelope
           /\ task[c].env.id \in Id
           /\ task[c].have \in Nat
           /\ task[c] \in Task \ {IdleTask}
           /\ \A pc \in {"failed", "renamed", "held", "drop", "unbell"} :
                 [task EXCEPT ![c] = [task[c] EXCEPT !.pc = pc]] \in [Conn -> Task]
BY EnvelopeAssumption DEF Task, IdleTask

\* save_item writes a well-formed folder.
LEMMA SavedType ==
    ASSUME disk \in [Id -> MaybeDir], NEW i \in Id, NEW it \in Item
    PROVE  Saved(disk, i, it) \in [Id -> MaybeDir]
BY DEF Saved, EmptyDir, MaybeDir, Dir, NoFile

\* A new item is well formed.
LEMMA NewItemType ==
    ASSUME now \in Nat, NEW e \in Envelope, NEW all \in BOOLEAN
    PROVE  NewItem(e, all) \in Item
BY BoundAssumption DEF NewItem, Item, Hold

\* Keep (the item stays, its record may fail to be written) is type correct.
LEMMA KeepType ==
    ASSUME StoreType, NEW i \in Id, NEW it \in Item, Keep(i, it)
    PROVE  StoreType'
<1>1. items' \in [Id -> MaybeItem]
  BY DEF Keep, StoreType, MaybeItem
<1>2. disk' \in [Id -> MaybeDir] /\ upsets' \in Nat
  BY SavedType DEF Keep, StoreType
<1>3. QED
  BY <1>1, <1>2 DEF Keep, StoreType

\* Every step of a deposit handler before it streams.
LEMMA AdmissionType ==
    ASSUME StoreType, OtherType, NEW c \in Conn,
           \/ AdmitResume(c) \/ AdmitNew(c) \/ AdmitFault(c)
           \/ AdmitHeld(c) \/ AdmitRefuse(c)
    PROVE  StoreType' /\ OtherType'
<1> USE DEF store, root, env
<1>0. task[c].pc = "arrived" /\ task[c].pc # "idle"
  BY DEF AdmitResume, AdmitNew, AdmitFault, AdmitHeld, AdmitRefuse
<1>1. /\ task[c].env \in Envelope /\ task[c].env.id \in Id
      /\ task[c] \in Task \ {IdleTask}
  BY <1>0, TaskType DEF OtherType
<1>2. IdleTask \in Task
  BY DEF Task
<1>3. CASE AdmitResume(c)
  <2>1. PartLength(task[c].env.id) \in Nat
    BY <1>1 DEF PartLength, StoreType, MaybeDir, Dir
  <2>2. QED
    BY <1>1, <1>3, <2>1 DEF AdmitResume, Become, StoreType, OtherType, Task, IdleTask
<1>4. CASE AdmitNew(c)
  <2> DEFINE e == task[c].env
             it == NewItem(e, task[c].all)
             old == IF disk[e.id] = None THEN EmptyDir ELSE disk[e.id]
  <2>1. it \in Item
    BY <1>1, NewItemType DEF OtherType, Task
  <2>2. [old EXCEPT !.header = TRUE, !.record = it] \in Dir
    BY <1>1, <2>1 DEF EmptyDir, StoreType, MaybeDir, Dir, NoFile
  <2>3. items' \in [Id -> MaybeItem] /\ disk' \in [Id -> MaybeDir]
    BY <1>1, <1>4, <2>1, <2>2 DEF AdmitNew, StoreType, MaybeItem, MaybeDir
  <2>4. task' \in [Conn -> Task]
    BY <1>1, <1>4 DEF AdmitNew, Become, OtherType, Task, IdleTask
  <2>5. read' \in [Id -> SUBSET Device] /\ uploading' \subseteq Id
    BY <1>1, <1>4 DEF AdmitNew, OtherType
  <2>6. QED
    BY <1>4, <2>3, <2>4, <2>5 DEF AdmitNew, StoreType, OtherType
<1>5. CASE AdmitFault(c)
  BY <1>1, <1>2, <1>5 DEF AdmitFault, Become, StoreType, OtherType, MaybeDir
<1>6. CASE AdmitHeld(c)
  BY <1>1, <1>2, <1>6 DEF AdmitHeld, Become, StoreType, OtherType
<1>7. CASE AdmitRefuse(c)
  BY <1>1, <1>2, <1>7 DEF AdmitRefuse, Become, StoreType, OtherType
<1>8. QED
  BY <1>3, <1>4, <1>5, <1>6, <1>7

\* Writing to payload.part or payload leaves a well-formed folder.
LEMMA FileType ==
    ASSUME NEW d \in Dir, NEW n \in Nat \cup {NoFile}, NEW t \in Nat
    PROVE  /\ [d EXCEPT !.part = n, !.touched = t] \in Dir
           /\ [d EXCEPT !.payload = n] \in Dir
           /\ [d EXCEPT !.payload = d.part, !.part = NoFile, !.touched = 0] \in Dir
BY DEF Dir, NoFile

\* finish_item of one item.
LEMMA FinishOneType ==
    ASSUME StoreType, now \in Nat, NEW i \in Id, NEW st \in Final,
           items[i] # None, Finish({i}, st, items)
    PROVE  StoreType'
<1>1. {i} \in SUBSET Id /\ items \in [Id -> MaybeItem]
  BY DEF StoreType
<1>2. \A j \in {i} : items[j] \in Item
  BY DEF StoreType, MaybeItem
<1>3. QED
  BY <1>1, <1>2, FinishType

\* Every step of a deposit handler from the answer to the admission on.
LEMMA UploadType ==
    ASSUME StoreType, OtherType, NEW c \in Conn,
           \/ StartStream(c) \/ ReplyLost(c) \/ Stream(c) \/ StreamFail(c)
           \/ Rename(c) \/ LocalStore(c) \/ AfterFail(c) \/ MarkHeld(c)
           \/ ReplyHeld(c) \/ DropMark(c) \/ DropBell(c)
    PROVE  StoreType' /\ OtherType'
<1> USE DEF store, root, env
<1> DEFINE i == task[c].env.id
<1>0. task[c].pc # "idle"
  BY DEF StartStream, ReplyLost, Stream, StreamFail, Rename, LocalStore,
         AfterFail, MarkHeld, ReplyHeld, DropMark, DropBell
<1>1. /\ task[c].env \in Envelope /\ i \in Id /\ task[c].have \in Nat
      /\ task[c] \in Task \ {IdleTask}
  BY <1>0, TaskType DEF OtherType
<1>2. \A pc \in {"failed", "renamed", "held", "drop", "unbell"} :
         At(c, pc) => task' \in [Conn -> Task]
  <2>1. \A pc \in {"failed", "renamed", "held", "drop", "unbell"} :
           [task EXCEPT ![c] = [task[c] EXCEPT !.pc = pc]] \in [Conn -> Task]
    BY <1>0, TaskType DEF OtherType
  <2>2. QED
    BY <2>1 DEF At, Become
<1>3. CASE StartStream(c)
  <2>1. disk' \in [Id -> MaybeDir]
    <3>1. disk[i] # None => [disk[i] EXCEPT !.part = task[c].have, !.touched = now] \in Dir
      BY <1>1, FileType DEF StoreType, OtherType, MaybeDir
    <3>2. QED
      BY <1>1, <1>3, <3>1 DEF StartStream, StoreType, MaybeDir
  <2>2. task' \in [Conn -> Task]
    <3>1. \A pc \in {"stream", "failed"} :
             [task[c] EXCEPT !.pc = pc, !.bell = TRUE] \in Task
      BY <1>1 DEF Task
    <3>2. QED
      BY <1>3, <3>1 DEF StartStream, Become, OtherType
  <2>3. QED
    BY <1>3, <2>1, <2>2 DEF StartStream, StoreType, OtherType
<1>4. CASE ReplyLost(c)
  BY <1>2, <1>4 DEF ReplyLost, StoreType, OtherType
<1>5. CASE Stream(c)
  <2>1. disk' \in [Id -> MaybeDir]
    <3>0. task[c].have + 1 \in Nat
      BY <1>1
    <3>1. disk[i] # None
          => [disk[i] EXCEPT !.part = task[c].have + 1, !.touched = now] \in Dir
      BY <1>1, <3>0, FileType DEF StoreType, OtherType, MaybeDir
    <3>2. QED
      BY <1>1, <1>5, <3>1 DEF Stream, StoreType, MaybeDir
  <2>2. task' \in [Conn -> Task]
    BY <1>1, <1>5 DEF Stream, Become, OtherType, Task, IdleTask
  <2>3. QED
    BY <1>5, <2>1, <2>2 DEF Stream, StoreType, OtherType
<1>6. CASE StreamFail(c)
  BY <1>2, <1>6 DEF StreamFail, StoreType, OtherType
<1>7. CASE Rename(c)
  <2>1. disk' \in [Id -> MaybeDir]
    <3>1. disk[i] # None
          => [disk[i] EXCEPT !.payload = disk[i].part, !.part = NoFile, !.touched = 0] \in Dir
      BY <1>1, FileType DEF StoreType, MaybeDir, NoFile
    <3>2. QED
      BY <1>1, <1>7, <3>1 DEF Rename, StoreType, MaybeDir
  <2>2. task' \in [Conn -> Task]
    BY <1>2, <1>7 DEF Rename
  <2>3. QED
    BY <1>7, <2>1, <2>2 DEF Rename, StoreType, OtherType
<1>8. CASE LocalStore(c)
  <2>1. task' \in [Conn -> Task]
    BY <1>2, <1>8 DEF LocalStore
  <2>2. StoreType' /\ uploading' = uploading
    <3>1. CASE mounted /\ Finish({i}, "rejected", items) /\ UNCHANGED uploading /\ items[i] # None
      BY <1>1, <3>1, FinishOneType DEF OtherType, Final
    <3>2. CASE UNCHANGED <<store, root, upsets, toldHeld>>
      BY <3>2 DEF StoreType
    <3>3. CASE /\ disk' = [disk EXCEPT ![i] = [@ EXCEPT !.payload = 0]]
               /\ disk[i] # None
               /\ UNCHANGED <<store, ledger, aside, upsets, toldHeld>>
      <4>1. [disk[i] EXCEPT !.payload = 0] \in Dir
        BY <1>1, <3>3, FileType DEF StoreType, MaybeDir
      <4>2. QED
        BY <1>1, <3>3, <4>1 DEF StoreType, MaybeDir
    <3>4. QED
      BY <1>8, <3>1, <3>2, <3>3 DEF LocalStore
  <2>3. QED
    BY <1>8, <2>1, <2>2 DEF LocalStore, OtherType
<1>9. CASE AfterFail(c)
  <2>1. task' \in [Conn -> Task]
    BY <1>2, <1>9 DEF AfterFail
  <2>2. StoreType' /\ uploading' = uploading
    <3>1. CASE Finish({i}, "canceled", items) /\ UNCHANGED uploading /\ items[i] # None
      BY <1>1, <3>1, FinishOneType DEF OtherType, Final
    <3>2. CASE /\ cancelReq' \subseteq cancelReq
               /\ UNCHANGED <<items, receipts, uploading, root, upsets, toldHeld>>
      BY <3>2 DEF StoreType
    <3>3. QED
      BY <1>9, <3>1, <3>2 DEF AfterFail
  <2>3. QED
    BY <1>9, <2>1, <2>2 DEF AfterFail, OtherType
<1>10. CASE MarkHeld(c)
  <2>1. task' \in [Conn -> Task]
    BY <1>2, <1>10 DEF MarkHeld
  <2>2. StoreType'
    <3> DEFINE it == [items[i] EXCEPT !.state = "held"]
    <3>1. CASE Finish({i}, "canceled", items) /\ items[i] # None
      BY <1>1, <3>1, FinishOneType DEF OtherType, Final
    <3>2. CASE /\ cancelReq' \subseteq cancelReq
               /\ UNCHANGED <<items, receipts, root, upsets, toldHeld>>
      BY <3>2 DEF StoreType
    <3>3. CASE Keep(i, it) /\ items[i] # None
      <4>1. it \in Item
        BY <1>1, <3>3 DEF StoreType, MaybeItem, Item
      <4>2. QED
        BY <1>1, <3>3, <4>1, KeepType
    <3>4. QED
      BY <1>10, <3>1, <3>2, <3>3 DEF MarkHeld, Keep
  <2>3. QED
    BY <1>10, <2>1, <2>2 DEF MarkHeld, OtherType
<1>11. CASE ReplyHeld(c)
  BY <1>1, <1>2, <1>11 DEF ReplyHeld, StoreType, OtherType
<1>12. CASE DropMark(c)
  BY <1>2, <1>12 DEF DropMark, StoreType, OtherType
<1>13. CASE DropBell(c)
  <2>1. task' \in [Conn -> Task]
    <3>1. ASSUME NEW t \in Task, t.env # None
          PROVE  [t EXCEPT !.bell = FALSE] \in Task
      <4>1. t # IdleTask
        BY <3>1 DEF IdleTask
      <4>2. QED
        BY <4>1 DEF Task
    <3>2. IdleTask \in Task
      BY DEF Task
    <3>3. QED
      BY <1>13, <3>1, <3>2 DEF DropBell, OtherType
  <2>2. QED
    BY <1>13, <2>1 DEF DropBell, StoreType, OtherType
<1>14. QED
  BY <1>3, <1>4, <1>5, <1>6, <1>7, <1>8, <1>9, <1>10, <1>11, <1>12, <1>13

\* The requests of senders and recipients.
LEMMA RequestType ==
    ASSUME StoreType, OtherType, NEW i \in Id, NEW d \in Device,
           Cancel(i) \/ Fetch(d, i) \/ AckOk(d, i) \/ AckRefuse(d, i)
    PROVE  StoreType' /\ OtherType'
<1> USE DEF store, root, env
<1>0. now \in Nat /\ i \in Id /\ items \in [Id -> MaybeItem]
  BY DEF StoreType, OtherType
<1>1. CASE Cancel(i)
  <2>1. StoreType'
    <3>1. CASE i \in uploading
      BY <1>1, <3>1 DEF Cancel, StoreType
    <3>2. CASE i \notin uploading
      <4>1. items[i] # None /\ Finish({i}, "canceled", items)
        BY <1>1, <3>2 DEF Cancel
      <4>2. QED
        BY <1>0, <4>1, FinishOneType DEF Final
    <3>3. QED
      BY <3>1, <3>2
  <2>2. QED
    BY <1>1, <2>1 DEF Cancel, OtherType
<1>2. CASE Fetch(d, i)
  BY <1>2 DEF Fetch, StoreType, OtherType
<1>3. ASSUME NEW it \in Item, NEW st \in Final,
             Finish({i}, st, [items EXCEPT ![i] = it]) \/ Keep(i, it)
      PROVE  StoreType'
  <2>1. [items EXCEPT ![i] = it] \in [Id -> MaybeItem]
    BY <1>0 DEF MaybeItem
  <2>2. \A j \in {i} : [items EXCEPT ![i] = it][j] \in Item
    BY <1>0
  <2>3. {i} \in SUBSET Id
    BY <1>0
  <2>4. Finish({i}, st, [items EXCEPT ![i] = it]) => StoreType'
    BY <1>0, <2>1, <2>2, <2>3, FinishType
  <2>5. QED
    BY <1>3, <2>4, KeepType
<1>4. CASE AckOk(d, i)
  <2> DEFINE it == [items[i] EXCEPT !.delivered = @ \cup {d}]
  <2>1. it \in Item
    BY <1>4 DEF AckOk, StoreType, MaybeItem, Item
  <2>2. StoreType'
    BY <1>3, <1>4, <2>1 DEF AckOk, Final
  <2>3. QED
    BY <1>4, <2>2 DEF AckOk, OtherType
<1>5. CASE AckRefuse(d, i)
  <2> DEFINE it == [items[i] EXCEPT !.refused = @ \cup {d}]
             st == IF it.delivered = {} THEN "rejected" ELSE "delivered"
  <2>1. it \in Item
    BY <1>5 DEF AckRefuse, StoreType, MaybeItem, Item
  <2>2. StoreType'
    <3>1. st \in Final
      BY DEF Final
    <3>2. Finish({i}, st, [items EXCEPT ![i] = it]) \/ Keep(i, it)
      BY <1>5 DEF AckRefuse
    <3>3. QED
      BY <1>3, <2>1, <3>1, <3>2
  <2>3. QED
    BY <1>5, <2>2 DEF AckRefuse, OtherType
<1>6. QED
  BY <1>1, <1>2, <1>4, <1>5

\* Present items are items.
LEMMA LiveType ==
    ASSUME StoreType
    PROVE  /\ Live \subseteq Id
           /\ \A i \in Live : items[i] \in Item
           /\ Overdue \subseteq Live
           /\ \A p : Doomed(p) \subseteq Live
BY DEF StoreType, Live, MaybeItem, Overdue, Doomed, PersonItems

\* finish_item of some of the present items.
LEMMA FinishSomeType ==
    ASSUME StoreType, now \in Nat, NEW S \in SUBSET Live, NEW st \in Final,
           Finish(S, st, items)
    PROVE  StoreType'
<1>1. S \in SUBSET Id /\ items \in [Id -> MaybeItem] /\ \A i \in S : items[i] \in Item
  BY LiveType DEF StoreType
<1>2. QED
  BY <1>1, FinishType

\* The collector.
LEMMA CollectorType ==
    ASSUME StoreType, OtherType, GcScan \/ GcApply
    PROVE  StoreType' /\ OtherType'
<1> USE DEF store, root, env
<1>1. CASE GcScan
  BY <1>1 DEF GcScan, StoreType, OtherType, Live
<1>2. CASE GcApply /\ ~mounted
  BY <1>2 DEF GcApply, NoGc, StoreType, OtherType
<1>3. CASE GcApply /\ mounted
  <2> DEFINE C == Concluded(receipts, items, Overdue, "expired")
             done == {i \in Id : Fresh(C)[i] # None}
  <2>1. Overdue \in SUBSET Id /\ \A i \in Overdue : items[i] \in Item
    BY LiveType
  <2>2. now \in Nat /\ "expired" \in Final /\ items \in [Id -> MaybeItem]
        /\ receipts \in [Id -> MaybeReceipt] /\ ledger \in [Id -> MaybeReceipt]
        /\ disk \in [Id -> MaybeDir] /\ aside \in [Id -> Nat \cup {None}]
    BY DEF StoreType, OtherType, Final
  <2>3. C \in [Id -> MaybeReceipt]
        /\ WithReceipts(ledger, items, Overdue, "expired") \in [Id -> MaybeReceipt]
    BY <2>1, <2>2, ConcludedType, WithReceiptsType
  <2>4. Fresh(C) \in [Id -> MaybeReceipt]
    BY <2>3 DEF Fresh, MaybeReceipt
  <2>5. /\ Deleted(Overdue \cup done, {}, {}) \in [Id -> MaybeDir]
        /\ Deleted(Overdue \cup done, Overdue \cup done, DirFile) \in [Id -> MaybeDir]
    <3>1. Overdue \cup done \in SUBSET Id /\ DirFile \in SUBSET DirFile
      BY <2>1
    <3>2. QED
      BY <2>2, <3>1, DeletedType
  <2>6. items' \in [Id -> MaybeItem] /\ aside' \in [Id -> Nat \cup {None}]
    BY <1>3, <2>2 DEF GcApply, Without, MaybeItem
  <2>7. /\ receipts' \in [Id -> MaybeReceipt] /\ ledger' \in [Id -> MaybeReceipt]
        /\ disk' \in [Id -> MaybeDir]
    BY <1>3, <2>3, <2>4, <2>5 DEF GcApply
  <2>8. /\ upsets' \in Nat /\ cancelReq' \subseteq Id
        /\ toldHeld' \subseteq Id
    BY <1>3 DEF GcApply, StoreType
  <2>9. QED
    BY <1>3, <2>6, <2>7, <2>8 DEF GcApply, NoGc, StoreType, OtherType
<1>4. QED
  BY <1>1, <1>2, <1>3 DEF OtherType

\* server_disable: what is not wiped is loaded again.
LEMMA DisableType ==
    ASSUME StoreType, OtherType, NEW S \in SUBSET Live, Disable(S)
    PROVE  StoreType' /\ OtherType'
<1>1. S \in SUBSET Id /\ {} \in SUBSET Id /\ {} \in SUBSET DirFile
      /\ \A i \in S : items[i] \in Item
  BY LiveType
<1>2. Deleted(S, {}, {}) \in [Id -> MaybeDir]
  BY <1>1, DeletedType DEF StoreType
<1>3. WithReceipts(ledger, items, S, "rejected") \in [Id -> MaybeReceipt]
  BY <1>1, WithReceiptsType DEF StoreType, OtherType, Final
<1>4. now \in Nat /\ Load(Deleted(S, {}, {}), WithReceipts(ledger, items, S, "rejected"), {})
  BY DEF Disable, OtherType
<1>5. /\ items' \in [Id -> MaybeItem] /\ receipts' \in [Id -> MaybeReceipt]
      /\ ledger' \in [Id -> MaybeReceipt] /\ uploading' = {} /\ cancelReq' = {}
      /\ disk' \in [Id -> MaybeDir] /\ aside' \in [Id -> Nat \cup {None}]
  BY <1>2, <1>3, <1>4, LoadType
<1>6. cfg' \in Config
  BY DEF Disable, OtherType, Config
<1>7. upsets' \in Nat /\ toldHeld' \subseteq Id
  BY DEF Disable, StoreType
<1>8. StoreType'
  BY <1>5, <1>7 DEF StoreType
<1>9. OtherType'
  BY <1>5, <1>6 DEF Disable, OtherType
<1>10. QED
  BY <1>8, <1>9

\* The owner's commands.
LEMMA OwnerType ==
    ASSUME StoreType, OtherType,
           \/ \E p \in Person : RemovePerson(p) \/ RestorePerson(p)
           \/ Wipe \/ Pause \/ Disable({}) \/ Disable(Live \ uploading) \/ Enable
    PROVE  StoreType' /\ OtherType'
<1> USE DEF store, root, env
<1>0. now \in Nat /\ "rejected" \in Final
  BY DEF OtherType, Final
<1>1. ASSUME NEW p \in Person, RemovePerson(p)
      PROVE  StoreType' /\ OtherType'
  <2>1. Doomed(p) \ uploading \in SUBSET Live
    BY LiveType
  <2>2. PICK S \in SUBSET Live : Finish(S, "rejected", items)
    BY <1>1, <2>1 DEF RemovePerson
  <2>3. StoreType'
    BY <1>0, <2>2, FinishSomeType
  <2>4. /\ UNCHANGED <<uploading, task, gc, mounted, now, arrivals, read>>
        /\ cfg' = [cfg EXCEPT !.members = @ \ {p}, !.through = @ \ {p}]
    BY <1>1 DEF RemovePerson
  <2>5. QED
    BY <2>3, <2>4 DEF OtherType, Config
<1>2. ASSUME NEW p \in Person, RestorePerson(p)
      PROVE  StoreType' /\ OtherType'
  BY <1>2 DEF RestorePerson, StoreType, OtherType, Config
<1>3. CASE Wipe
  <2>1. Live \ uploading \in SUBSET Live
    OBVIOUS
  <2>2. Finish(Live \ uploading, "rejected", items)
    BY <1>3 DEF Wipe
  <2>3. StoreType'
    BY <1>0, <2>1, <2>2, FinishSomeType
  <2>4. QED
    BY <1>3, <2>3 DEF Wipe, OtherType
<1>4. CASE Pause
  BY <1>4 DEF Pause, StoreType, OtherType, Config
<1>5. CASE Disable({}) \/ Disable(Live \ uploading)
  <2>1. {} \in SUBSET Live /\ Live \ uploading \in SUBSET Live
    OBVIOUS
  <2>2. QED
    BY <1>5, <2>1, DisableType
<1>6. CASE Enable
  BY <1>6 DEF Enable, StoreType, OtherType, Config
<1>7. QED
  BY <1>1, <1>2, <1>3, <1>4, <1>5, <1>6

\* Arrivals, the clock, restarts and the drive.
LEMMA WorldType ==
    ASSUME StoreType, OtherType,
           \/ \E c \in Conn, q \in Request : Deposit(c, q)
           \/ \E c, b \in Conn : Supersede(c, b)
           \/ Tick \/ Crash \/ Unmount \/ Mount
    PROVE  StoreType' /\ OtherType'
<1> USE DEF store, root, env
<1>1. ASSUME NEW c \in Conn, NEW q \in Request, Deposit(c, q)
      PROVE  StoreType' /\ OtherType'
  <2>1. [IdleTask EXCEPT !.pc = "arrived", !.env = q.env, !.all = q.all, !.cfg = cfg] \in Task
    BY EnvelopeAssumption DEF OtherType, IdleTask, Task
  <2>2. task' \in [Conn -> Task]
    BY <1>1, <2>1 DEF Deposit, Become, OtherType
  <2>3. arrivals' \in Nat
    <3>1. arrivals' = arrivals + 1
      BY <1>1, Zenon DEF Deposit
    <3>2. QED
      BY <3>1 DEF OtherType
  <2>4. StoreType' /\ OtherType'
    BY <1>1, <2>2, <2>3 DEF Deposit, StoreType, OtherType
  <2>5. QED
    BY <2>4
<1>2. ASSUME NEW c \in Conn, NEW b \in Conn, Supersede(c, b)
      PROVE  StoreType' /\ OtherType'
  <2>1. task[b].pc # "idle" /\ task' = [task EXCEPT ![b] = [task[b] EXCEPT !.pc = "failed"]]
    BY <1>2 DEF Supersede, At, Become
  <2>2. task' \in [Conn -> Task]
    BY <2>1, TaskType DEF OtherType
  <2>3. QED
    BY <1>2, <2>2 DEF Supersede, StoreType, OtherType
<1>3. CASE Tick \/ Unmount \/ Mount
  <2>1. StoreType'
    BY <1>3 DEF Tick, Unmount, Mount, StoreType
  <2>2. now' \in Nat
    BY <1>3 DEF Tick, Unmount, Mount, OtherType
  <2>3. mounted' \in BOOLEAN
    BY <1>3, Zenon DEF Tick, Unmount, Mount, OtherType
  <2>4. OtherType'
    BY <1>3, <2>2, <2>3 DEF Tick, Unmount, Mount, OtherType
  <2>5. QED
    BY <2>1, <2>4
<1>4. CASE Crash
  <2>1. disk \in [Id -> MaybeDir] /\ ledger \in [Id -> MaybeReceipt] /\ now \in Nat
    BY DEF StoreType, OtherType
  <2>2. \E bad : Load(disk, ledger, bad)
    BY <1>4 DEF Crash
  <2>3. /\ items' \in [Id -> MaybeItem] /\ receipts' \in [Id -> MaybeReceipt]
        /\ ledger' \in [Id -> MaybeReceipt] /\ uploading' = {} /\ cancelReq' = {}
        /\ disk' \in [Id -> MaybeDir] /\ aside' \in [Id -> Nat \cup {None}]
    BY <2>1, <2>2, LoadType
  <2>4. task' \in [Conn -> Task]
    BY <1>4 DEF Crash, Task
  <2>5. QED
    BY <1>4, <2>3, <2>4 DEF Crash, NoGc, StoreType, OtherType
<1>5. QED
  BY <1>1, <1>2, <1>3, <1>4

\* Every step of the server keeps the types.
LEMMA TypeStep ==
    ASSUME TypeOK, [Next]_vars
    PROVE  TypeOK'
<1>1. StoreType /\ OtherType
  BY TypeSplit
<1>2. StoreType' /\ OtherType'
  <2>1. CASE UNCHANGED vars
    BY <1>1, <2>1 DEF vars, store, root, env, StoreType, OtherType
  <2>2. ASSUME NEW c \in Conn, Progress(c)
        PROVE  StoreType' /\ OtherType'
    BY <1>1, <2>2, AdmissionType, UploadType DEF Progress
  <2>3. ASSUME NEW i \in Id, Cancel(i)
        PROVE  StoreType' /\ OtherType'
    BY <1>1, <2>3, RequestType, DeviceAssumption
  <2>4. ASSUME NEW i \in Id, NEW d \in Device, Fetch(d, i) \/ AckOk(d, i) \/ AckRefuse(d, i)
        PROVE  StoreType' /\ OtherType'
    BY <1>1, <2>4, RequestType
  <2>5. QED
    BY <1>1, <2>1, <2>2, <2>3, <2>4, CollectorType, OwnerType, WorldType DEF Next
<1>3. QED
  BY <1>2 DEF TypeOK, StoreType, OtherType, MaybeItem, MaybeReceipt, MaybeDir

\* The variables of the Transfer Server always have their types: no handler,
\* fault or restart builds a malformed item, receipt, folder or task.
THEOREM TypeCorrect == Spec => []TypeOK
<1>1. Init => TypeOK
  BY BoundAssumption DEF Init, TypeOK, Task, NoGc, Config
<1>2. TypeOK /\ [Next]_vars => TypeOK'
  BY TypeStep
<1>3. QED
  BY <1>1, <1>2, PTL DEF Spec

(***************************************************************************)
(* The fate of an item: kept or concluded, and concluded for good.         *)
(***************************************************************************)
\* A receipt in memory has its line in the ledger, unless appending can fail.
LedgerKept == "receipt" \in Upsets \/ \A i \in Receipted : ledger[i] # None

Fate == OneFate /\ LedgerKept

\* What a step may do to concluded items.
StayConcluded == \A i \in Receipted : items'[i] = None

\* The goal of every step below.
Kept == OneFate' /\ LedgerKept' /\ (LedgerKept /\ "receipt" \notin Upsets => StayConcluded)

\* Finishing items trims or adds receipts, and forgets the items it finishes.
LEMMA ConcludedFate ==
    ASSUME NEW R, NEW its, NEW S \in SUBSET Id, NEW st, NEW i \in Id,
           R \in [Id -> MaybeReceipt]
    PROVE  /\ Without(its, S)[i] # None => i \notin S /\ its[i] # None
           /\ Concluded(R, its, S, st)[i] # None
              => Concluded(R, its, S, st)[i] = WithReceipts(R, its, S, st)[i]
           /\ i \notin S => WithReceipts(R, its, S, st)[i] = R[i]
           /\ i \in S => WithReceipts(R, its, S, st)[i] = ReceiptOf(its[i], st)
BY DEF Without, Concluded, Trim, WithReceipts

\* A step that leaves index, receipts and ledger alone.
LEMMA FateSame ==
    ASSUME Fate, UNCHANGED <<items, receipts, ledger>>
    PROVE  Kept
BY DEF Fate, OneFate, LedgerKept, Kept, StayConcluded, Live, Receipted

\* A step that rewrites one present item.
LEMMA FateChange ==
    ASSUME StoreType, Fate, NEW i \in Id, NEW it, items[i] # None,
           items' = [items EXCEPT ![i] = it], UNCHANGED <<receipts, ledger>>
    PROVE  Kept
<1>1. \A j \in Id : items'[j] # None => items[j] # None
  BY DEF StoreType
<1>2. QED
  BY <1>1 DEF Fate, OneFate, LedgerKept, Kept, StayConcluded, Live, Receipted

\* finish_item, where the items of its were all present.
LEMMA FateFinish ==
    ASSUME StoreType, Fate, NEW S \in SUBSET Id, NEW st, NEW its,
           \A i \in Id : its[i] # None => items[i] # None,
           Finish(S, st, its)
    PROVE  Kept
<1>1. /\ items' = Without(its, S)
      /\ receipts' = Concluded(receipts, its, S, st)
      /\ "receipt" \notin Upsets => ledger' = WithReceipts(ledger, its, S, st)
  BY DEF Finish, Upset
<1>2. receipts \in [Id -> MaybeReceipt] /\ ledger \in [Id -> MaybeReceipt]
  BY DEF StoreType
<1>3. ASSUME NEW i \in Id, items'[i] # None
      PROVE  items[i] # None /\ receipts'[i] = None
  <2>1. i \notin S /\ items[i] # None
    BY <1>1, <1>2, <1>3, ConcludedFate
  <2>2. receipts[i] = None
    BY <2>1 DEF Fate, OneFate, Live, Receipted
  <2>3. QED
    BY <1>1, <1>2, <2>1, <2>2, ConcludedFate
<1>4. ASSUME NEW i \in Id, receipts'[i] # None, "receipt" \notin Upsets
      PROVE  ledger'[i] # None
  <2>1. receipts'[i] = WithReceipts(receipts, its, S, st)[i]
    BY <1>1, <1>2, <1>4, ConcludedFate
  <2>2. CASE i \in S
    BY <1>1, <1>2, <1>4, <2>1, <2>2, ConcludedFate
  <2>3. CASE i \notin S
    <3>1. receipts[i] # None
      <4>1. WithReceipts(receipts, its, S, st)[i] = receipts[i]
        BY <2>3 DEF WithReceipts
      <4>2. QED
        BY <1>4, <2>1, <4>1
    <3>2. ledger[i] # None
      BY <1>4, <3>1 DEF Fate, LedgerKept, Receipted
    <3>3. WithReceipts(ledger, its, S, st)[i] = ledger[i]
      BY <2>3 DEF WithReceipts
    <3>4. QED
      BY <1>1, <1>4, <3>2, <3>3
  <2>4. QED
    BY <2>2, <2>3
<1>5. QED
  BY <1>3, <1>4 DEF Fate, OneFate, LedgerKept, Kept, StayConcluded, Live, Receipted

\* load_store, on a ledger that still knows what the receipts knew.
LEMMA FateLoad ==
    ASSUME Fate, NEW d, NEW l, NEW bad, Load(d, l, bad),
           \A i \in Receipted : ledger[i] # None => l[i] # None
    PROVE  Kept
<1>1. \A i \in Id : items'[i] # None => l[i] = None
  BY DEF Load, Recover
<1>2. receipts' = l /\ ledger' = l
  BY DEF Load
<1>3. QED
  BY <1>1, <1>2 DEF Fate, OneFate, LedgerKept, Kept, StayConcluded, Live, Receipted

\* admit takes in an id only when it has no receipt.
LEMMA FateAdmit ==
    ASSUME StoreType, Fate, NEW c \in Conn, AdmitNew(c), task[c].env.id \in Id
    PROVE  Kept
<1> DEFINE k == task[c].env.id
<1>1. receipts[k] = None
  BY DEF AdmitNew, CanStore
<1>2. PICK it : items' = [items EXCEPT ![k] = it]
  BY DEF AdmitNew
<1>3. receipts' = receipts /\ ledger' = ledger
  BY DEF AdmitNew
<1>4. \A j \in Id : items'[j] # None => items[j] # None \/ j = k
  BY <1>2 DEF StoreType
<1>5. QED
  BY <1>1, <1>3, <1>4 DEF Fate, OneFate, LedgerKept, Kept, StayConcluded, Live, Receipted

\* The collector's second lock.
LEMMA FateCollect ==
    ASSUME StoreType, Fate, GcApply
    PROVE  Kept
<1> DEFINE C == Concluded(receipts, items, Overdue, "expired")
           L == WithReceipts(ledger, items, Overdue, "expired")
<1>1. CASE ~mounted
  BY <1>1, FateSame DEF GcApply, root
<1>2. CASE mounted
  <2>1. /\ items' = Without(items, Overdue)
        /\ receipts' = Fresh(C)
        /\ "receipt" \notin Upsets => ledger' = receipts'
    BY <1>2 DEF GcApply, Upset
  <2>2. Overdue \in SUBSET Id /\ receipts \in [Id -> MaybeReceipt]
    BY LiveType DEF StoreType
  <2>3. ASSUME NEW i \in Id, items'[i] # None
        PROVE  items[i] # None /\ receipts'[i] = None
    <3>1. i \notin Overdue /\ items[i] # None
      BY <2>1, <2>2, <2>3, ConcludedFate
    <3>2. receipts[i] = None
      BY <3>1 DEF Fate, OneFate, Live, Receipted
    <3>3. C[i] = None
      <4>1. WithReceipts(receipts, items, Overdue, "expired")[i] = None
        BY <3>1, <3>2 DEF WithReceipts
      <4>2. QED
        BY <3>2, <4>1 DEF Concluded, Trim
    <3>4. QED
      BY <2>1, <3>1, <3>3 DEF Fresh
  <2>4. QED
    BY <2>1, <2>3 DEF Fate, OneFate, LedgerKept, Kept, StayConcluded, Live, Receipted
<1>3. QED
  BY <1>1, <1>2

\* Every step keeps the fates.
LEMMA FateStep ==
    ASSUME TypeOK, Fate, [Next]_vars
    PROVE  Kept
<1> USE DEF store, root, env
<1>0. StoreType /\ OtherType
  BY TypeSplit
<1>1. CASE UNCHANGED vars
  BY <1>1, FateSame DEF vars
<1>2. ASSUME NEW c \in Conn, Progress(c)
      PROVE  Kept
  <2> DEFINE k == task[c].env.id
  <2>0. k \in Id
    <3>1. task[c].pc # "idle"
      BY <1>2 DEF Progress, AdmitResume, AdmitNew, AdmitFault, AdmitHeld, AdmitRefuse,
             StartStream, ReplyLost, Stream, StreamFail, Rename, LocalStore,
             AfterFail, MarkHeld, ReplyHeld, DropMark, DropBell
    <3>2. QED
      BY <1>0, <3>1, TaskType DEF OtherType
  <2>1. CASE AdmitResume(c) \/ AdmitFault(c) \/ AdmitHeld(c) \/ AdmitRefuse(c)
    BY <2>1, FateSame DEF Fate, AdmitResume, AdmitFault, AdmitHeld, AdmitRefuse
  <2>2. CASE AdmitNew(c)
    BY <1>0, <2>0, <2>2, FateAdmit
  <2>3. CASE StartStream(c) \/ ReplyLost(c) \/ Stream(c) \/ StreamFail(c) \/ Rename(c)
    BY <2>3, FateSame DEF StartStream, ReplyLost, Stream, StreamFail, Rename
  <2>4. CASE ReplyHeld(c) \/ DropMark(c) \/ DropBell(c)
    BY <2>4, FateSame DEF ReplyHeld, DropMark, DropBell
  <2>5. CASE LocalStore(c) \/ AfterFail(c) \/ MarkHeld(c)
    <3>1. \/ UNCHANGED <<items, receipts, ledger>>
          \/ \E st : Finish({k}, st, items)
          \/ /\ items[k] # None /\ UNCHANGED <<receipts, ledger>>
             /\ \E it : items' = [items EXCEPT ![k] = it]
      BY <2>5 DEF LocalStore, AfterFail, MarkHeld
    <3>2. {k} \in SUBSET Id
      BY <2>0
    <3>3. QED
      BY <1>0, <2>0, <3>1, <3>2, FateSame, FateFinish, FateChange
  <2>6. QED
    BY <1>2, <2>1, <2>2, <2>3, <2>4, <2>5 DEF Progress
<1>3. ASSUME NEW i \in Id, Cancel(i) \/ \E d \in Device : Fetch(d, i)
      PROVE  Kept
  <2>1. UNCHANGED <<items, receipts, ledger>> \/ \E st : Finish({i}, st, items)
    BY <1>3 DEF Cancel, Fetch
  <2>2. {i} \in SUBSET Id
    OBVIOUS
  <2>3. QED
    BY <1>0, <2>1, <2>2, FateSame, FateFinish
<1>4. ASSUME NEW i \in Id, NEW d \in Device, AckOk(d, i) \/ AckRefuse(d, i)
      PROVE  Kept
  <2>1. /\ items[i] # None
        /\ \E it, st : Finish({i}, st, [items EXCEPT ![i] = it]) \/ Keep(i, it)
    BY <1>4 DEF AckOk, AckRefuse
  <2>2. PICK it, st : Finish({i}, st, [items EXCEPT ![i] = it]) \/ Keep(i, it)
    BY <2>1
  <2>3. CASE Keep(i, it)
    BY <1>0, <2>1, <2>3, FateChange DEF Keep
  <2>4. CASE Finish({i}, st, [items EXCEPT ![i] = it])
    <3>1. \A j \in Id : [items EXCEPT ![i] = it][j] # None => items[j] # None
      BY <1>0, <2>1 DEF StoreType
    <3>2. {i} \in SUBSET Id
      OBVIOUS
    <3>3. QED
      BY <1>0, <2>4, <3>1, <3>2, FateFinish
  <2>5. QED
    BY <2>2, <2>3, <2>4
<1>5. CASE GcScan
  BY <1>5, FateSame DEF GcScan
<1>6. CASE GcApply
  BY <1>0, <1>6, FateCollect
<1>7. CASE Wipe \/ \E p \in Person : RemovePerson(p)
  <2>1. \E S \in SUBSET Live : \E st : Finish(S, st, items)
    BY <1>0, <1>7, LiveType DEF Wipe, RemovePerson
  <2>2. QED
    BY <1>0, <2>1, LiveType, FateFinish
<1>8. CASE Disable({}) \/ Disable(Live \ uploading)
  <2>1. PICK S \in SUBSET Live : Disable(S)
    BY <1>8
  <2>2. \A i \in Receipted :
           ledger[i] # None => WithReceipts(ledger, items, S, "rejected")[i] # None
    <3>1. \A i \in Receipted : i \in Id /\ i \notin S
      BY DEF Fate, OneFate, Receipted
    <3>2. QED
      BY <3>1 DEF WithReceipts
  <2>3. QED
    BY <2>1, <2>2, FateLoad DEF Disable
<1>9. CASE Pause \/ Enable \/ Tick \/ Unmount \/ Mount \/ \E p \in Person : RestorePerson(p)
  BY <1>9, FateSame DEF Pause, Enable, Tick, Unmount, Mount, RestorePerson
<1>10. CASE Crash
  <2>1. \E bad : Load(disk, ledger, bad)
    BY <1>10 DEF Crash
  <2>2. QED
    BY <2>1, FateLoad
<1>11. CASE \/ \E c \in Conn, q \in Request : Deposit(c, q)
            \/ \E c, b \in Conn : Supersede(c, b)
  BY <1>11, FateSame DEF Deposit, Supersede
<1>12. QED
  BY <1>1, <1>2, <1>3, <1>4, <1>5, <1>6, <1>7, <1>8, <1>9, <1>10, <1>11 DEF Next

\* No item is ever both in the index and concluded by a receipt, whatever
\* fails: what admit and finish_item check and write keeps them apart.
THEOREM OneFateAlways == Spec => []OneFate
<1>1. Init => Fate
  BY DEF Init, Fate, OneFate, LedgerKept, Live, Receipted
<1>2. TypeOK /\ Fate /\ [Next]_vars => Fate'
  BY FateStep DEF Kept, Fate
<1>3. Fate => OneFate
  BY DEF Fate
<1>4. QED
  BY <1>1, <1>2, <1>3, TypeCorrect, PTL DEF Spec

\* When the ledger can be written, a concluded item never comes back while its
\* receipt is kept: not by a late re-deposit, not by a restart that finds the
\* folder a failed delete left behind.
THEOREM NeverResurrectedAlways ==
    ASSUME "receipt" \notin Upsets
    PROVE  Spec => NeverResurrected
<1>1. Init => Fate
  BY DEF Init, Fate, OneFate, LedgerKept, Live, Receipted
<1>2. TypeOK /\ Fate /\ [Next]_vars => Fate'
  BY FateStep DEF Kept, Fate
<1>3. TypeOK /\ Fate /\ [Next]_vars => [\A i \in Receipted : items'[i] = None]_vars
  BY FateStep DEF Kept, Fate, StayConcluded
<1>4. QED
  BY <1>1, <1>2, <1>3, TypeCorrect, PTL DEF Spec, NeverResurrected

(***************************************************************************)
(* What the steps do to an item, its receipt and its folder, as long as    *)
(* the ledger can be written and no receipt is trimmed.                    *)
(***************************************************************************)
\* The ledger can be written, and the newest receipts are all there are.
ReceiptsKept ==
    /\ "receipt" \notin Upsets
    /\ IsFiniteSet(Id) /\ Cardinality(Id) <= ReceiptMax

\* The receipts in memory are the lines of the ledger.
LedgerTrue == ledger = receipts

\* No more receipts than are kept: none is trimmed.
LEMMA NoTrim ==
    ASSUME ReceiptsKept, NEW R \in [Id -> MaybeReceipt]
    PROVE  Trim(R) = R
<1> DEFINE Above(i) == {j \in Id : R[j] # None /\ Newer(R, j, i)}
<1>1. ASSUME NEW i \in Id, R[i] # None
      PROVE  Cardinality(Above(i)) < ReceiptMax
  <2>1. R[i].at \in Nat /\ i \in Nat
    BY <1>1, IdAssumption DEF MaybeReceipt, Receipt
  <2>2. i \notin Above(i)
    BY <2>1 DEF Newer
  <2>3. Above(i) \in SUBSET Id /\ Above(i) # Id
    BY <2>2
  <2> HIDE DEF Above
  <2>4. /\ IsFiniteSet(Above(i))
        /\ Cardinality(Above(i)) <= Cardinality(Id) /\ Cardinality(Above(i)) # Cardinality(Id)
    BY <2>3, FS_Subset DEF ReceiptsKept
  <2>5. Cardinality(Above(i)) \in Nat /\ Cardinality(Id) \in Nat
    BY <2>4, FS_CardinalityType DEF ReceiptsKept
  <2>6. QED
    BY <2>4, <2>5, BoundAssumption DEF ReceiptsKept
<1>2. \A i \in Id : R[i] # None => ~ (Cardinality(Above(i)) >= ReceiptMax)
  <2>1. ASSUME NEW i \in Id, R[i] # None
        PROVE  ~ (Cardinality(Above(i)) >= ReceiptMax)
    <3>1. Cardinality(Above(i)) < ReceiptMax
      BY <1>1, <2>1
    <3>2. IsFiniteSet(Above(i))
      BY FS_Subset DEF ReceiptsKept
    <3>3. Cardinality(Above(i)) \in Nat /\ ReceiptMax \in Nat
      BY <3>2, FS_CardinalityType, BoundAssumption
    <3> HIDE DEF Above
    <3>4. QED
      BY <3>1, <3>3
  <2>2. QED
    BY <2>1
<1>3. QED
  BY <1>2 DEF Trim

\* A record on disk is one that was there before.
RecordKept(i) ==
    disk'[i] # None /\ disk'[i].record # None
    => disk[i] # None /\ disk'[i].record = disk[i].record

\* A delete, whatever it leaves, writes no record.
LEMMA DeletedKeeps ==
    ASSUME disk \in [Id -> MaybeDir], NEW S, NEW stay, NEW kept, NEW i \in Id
    PROVE  LET d == Deleted(S, stay, kept)
           IN  /\ i \notin S => d[i] = disk[i]
               /\ d[i] # None /\ d[i].record # None
                  => disk[i] # None /\ d[i].record = disk[i].record
BY DEF Deleted, Remains

\* Item i ends with the receipt that st gives it.
Ends(i, it, st) ==
    /\ items'[i] = None
    /\ receipts'[i] = ReceiptOf(it, st) /\ receipts'[i] \in Receipt /\ receipts'[i] # None
    /\ receipts'[i].at = now

\* Item i, its receipt and its folder stay.
StaysPut(i) ==
    items'[i] = items[i] /\ receipts'[i] = receipts[i] /\ disk'[i] = disk[i]

\* A receipt is a receipt, of now.
LEMMA ReceiptIs ==
    ASSUME NEW it \in Item, NEW st \in Final, now \in Nat
    PROVE  /\ ReceiptOf(it, st) \in Receipt /\ ReceiptOf(it, st) # None
           /\ ReceiptOf(it, st).at = now /\ ReceiptOf(it, st).state = st
           /\ ReceiptOf(it, st).deliveredTo = it.delivered
<1>1. ReceiptOf(it, st) \in Receipt
  BY ReceiptOfType
<1>2. QED
  BY <1>1, NoneAssumption DEF ReceiptOf

\* finish_item.
LEMMA FinishEffect ==
    ASSUME ReceiptsKept, StoreType, now \in Nat, LedgerTrue,
           NEW S \in SUBSET Id, NEW st \in Final, NEW its \in [Id -> MaybeItem],
           \A i \in S : its[i] \in Item, \A i \in Id \ S : its[i] = items[i],
           Finish(S, st, its)
    PROVE  /\ LedgerTrue'
           /\ \A i \in Id \ S : StaysPut(i)
           /\ \A i \in S : Ends(i, its[i], st)
           /\ \A i \in Id : RecordKept(i)
           /\ aside' = aside /\ toldHeld' = toldHeld \ S
<1>1. receipts' = WithReceipts(receipts, its, S, st)
  <2>1. WithReceipts(receipts, its, S, st) \in [Id -> MaybeReceipt]
    BY WithReceiptsType DEF StoreType
  <2>2. S = {} => WithReceipts(receipts, its, S, st) = receipts
    BY DEF WithReceipts, StoreType
  <2>3. QED
    BY <2>1, <2>2, NoTrim DEF Finish, Concluded
<1>2. LedgerTrue'
  BY <1>1 DEF Finish, LedgerTrue, ReceiptsKept, Upset
<1>3. ASSUME NEW i \in S
      PROVE  Ends(i, its[i], st)
  BY <1>1, ReceiptIs DEF Ends, WithReceipts, Finish, Without
<1>4. \A i \in Id : RecordKept(i) /\ (i \notin S => disk'[i] = disk[i])
  <2>1. \E stay, kept : disk' = Deleted(S, stay, kept)
    BY DEF Finish
  <2>2. QED
    BY <2>1, DeletedKeeps DEF RecordKept, StoreType
<1>5. ASSUME NEW i \in Id \ S
      PROVE  StaysPut(i)
  BY <1>1, <1>4 DEF StaysPut, WithReceipts, Finish, Without
<1>6. QED
  BY <1>2, <1>3, <1>4, <1>5 DEF Finish

\* The collector's second lock.
LEMMA CollectEffect ==
    ASSUME ReceiptsKept, StoreType, now \in Nat, LedgerTrue, OneFate, mounted, GcApply
    PROVE  /\ LedgerTrue'
           /\ \A i \in Overdue : Ends(i, items[i], "expired")
           /\ \A i \in Id \ Overdue :
                 /\ items'[i] = items[i]
                 /\ receipts'[i] \in {receipts[i], None}
                 /\ receipts[i] # None /\ receipts[i].at = now => receipts'[i] = receipts[i]
                 /\ items[i] # None => disk'[i] = disk[i]
           /\ \A i \in Id : RecordKept(i)
           /\ \A i \in Id : aside'[i] = aside[i] \/ i \in Aged
           /\ toldHeld' = toldHeld \ (Overdue \cup Aged)
<1> DEFINE W == WithReceipts(receipts, items, Overdue, "expired")
           R == Fresh(Concluded(receipts, items, Overdue, "expired"))
           done == {i \in Id : R[i] # None}
<1>0. /\ Overdue \in SUBSET Id /\ \A i \in Overdue : items[i] \in Item
      /\ "expired" \in Final /\ items \in [Id -> MaybeItem]
  BY LiveType DEF StoreType, Final
<1>1. Concluded(receipts, items, Overdue, "expired") = W
  <2>1. W \in [Id -> MaybeReceipt]
    BY <1>0, WithReceiptsType DEF StoreType
  <2>2. Overdue = {} => W = receipts
    BY DEF WithReceipts, StoreType
  <2>3. QED
    BY <2>1, <2>2, NoTrim DEF Concluded
<1>2. receipts' = Fresh(W) /\ ledger' = receipts' /\ items' = Without(items, Overdue)
  BY <1>1 DEF GcApply, ReceiptsKept, Upset
<1>3. ASSUME NEW i \in Overdue
      PROVE  Ends(i, items[i], "expired")
  <2>1. W[i] = ReceiptOf(items[i], "expired")
    BY <1>0 DEF WithReceipts
  <2>2. W[i].at = now /\ W[i] \in Receipt /\ W[i] # None
    BY <1>0, <2>1, ReceiptIs
  <2>3. Fresh(W)[i] = W[i]
    BY <1>0, <2>2, BoundAssumption DEF Fresh
  <2>4. QED
    BY <1>0, <1>2, <2>1, <2>2, <2>3 DEF Ends, Without
<1>4. ASSUME NEW i \in Id \ Overdue
      PROVE  /\ items'[i] = items[i]
             /\ receipts'[i] \in {receipts[i], None}
             /\ receipts[i] # None /\ receipts[i].at = now => receipts'[i] = receipts[i]
  <2>1. W[i] = receipts[i]
    BY DEF WithReceipts
  <2>2. Fresh(W)[i] \in {W[i], None}
    BY DEF Fresh
  <2>3. receipts[i] # None /\ receipts[i].at = now => Fresh(W)[i] = W[i]
    BY <2>1, BoundAssumption DEF Fresh
  <2>4. QED
    BY <1>2, <2>1, <2>2, <2>3 DEF Without
<1>5. \A i \in Id : RecordKept(i) /\ (i \notin Overdue \cup done => disk'[i] = disk[i])
  <2>1. \E stay, kept : disk' = Deleted(Overdue \cup done, stay, kept)
    BY DEF GcApply
  <2> HIDE DEF done
  <2>2. QED
    BY <2>1, DeletedKeeps DEF RecordKept, StoreType
<1>6. \A i \in Id \ Overdue : items[i] # None => disk'[i] = disk[i]
  <2>1. ASSUME NEW i \in Id \ Overdue, items[i] # None
        PROVE  i \notin done
    <3>1. receipts[i] = None
      BY <2>1 DEF OneFate, Live, Receipted
    <3>2. R[i] \in {receipts[i], None}
      BY <1>1 DEF Fresh, WithReceipts
    <3>3. QED
      BY <3>1, <3>2
  <2>2. QED
    BY <1>5, <2>1
<1>7. (\A i \in Id : aside'[i] = aside[i] \/ i \in Aged) /\ toldHeld' = toldHeld \ (Overdue \cup Aged)
  BY DEF GcApply
<1>8. QED
  BY <1>2, <1>3, <1>4, <1>5, <1>6, <1>7 DEF LedgerTrue

\* load_store: what it restores was on disk, whole and without a receipt.
LEMMA LoadEffect ==
    ASSUME NEW d, NEW l, NEW bad, Load(d, l, bad), NEW i \in Id
    PROVE  /\ receipts' = l /\ ledger' = l
           /\ items'[i] # None =>
                 /\ i \notin bad /\ l[i] = None /\ d[i] # None
                 /\ d[i].header /\ items'[i] = d[i].record /\ disk'[i] = d[i]
                 /\ items'[i].state = "held" => d[i].payload = items'[i].env.size
           /\ disk'[i] \in {d[i], None}
           /\ /\ d[i] # None /\ l[i] = None /\ d[i].header
              /\ d[i].record # None /\ i \notin bad
              /\ d[i].record.state = "held" => d[i].payload = d[i].record.env.size
              => items'[i] = d[i].record
           /\ aside'[i] = aside[i] \/ aside'[i] = now
           /\ i \in bad /\ d[i] # None /\ l[i] = None => aside'[i] = now
BY DEF Load, Recover, SetAside

(***************************************************************************)
(* Receipts are true.                                                      *)
(***************************************************************************)
\* The devices an item or a record counts as served have read it.
Read(it, i) == it.delivered \subseteq read[i] /\ it.refused \subseteq read[i]

TruthOf(i) ==
    /\ items[i] # None => Read(items[i], i)
    /\ disk[i] # None /\ disk[i].record # None => Read(disk[i].record, i)
    /\ receipts[i] # None =>
          /\ receipts[i].deliveredTo \subseteq read[i]
          /\ receipts[i].state = "delivered" => receipts[i].deliveredTo # {}

Truth == \A i \in Id : TruthOf(i)

\* What a step may say of an item that was sent to every device.
Delivers(i) ==
    (/\ items[i] # None /\ items[i].all
     /\ receipts'[i] # None /\ receipts'[i].state = "delivered")
    => items[i].env.to \subseteq read[i]

\* The goal of every step.
Truthful == LedgerTrue' /\ Truth' /\ \A i \in Id : Delivers(i)

\* Whatever item stays as it is stays true.
LEMMA TruthStays ==
    ASSUME Truth, OneFate, NEW i \in Id, RecordKept(i), read'[i] = read[i],
           items'[i] = items[i], receipts'[i] \in {receipts[i], None}
    PROVE  TruthOf(i)' /\ Delivers(i)
BY DEF Truth, TruthOf, Read, RecordKept, Delivers, OneFate, Live, Receipted

\* An item ends.
LEMMA TruthEnds ==
    ASSUME Truth, NEW i \in Id, RecordKept(i), read' = read, now \in Nat,
           NEW it \in Item, NEW st \in Final, Ends(i, it, st), Read(it, i),
           st = "delivered" => it.delivered # {},
           st = "delivered" /\ items[i] # None /\ items[i].all => items[i].env.to \subseteq read[i]
    PROVE  TruthOf(i)' /\ Delivers(i)
BY ReceiptIs DEF Truth, TruthOf, Read, RecordKept, Ends, Delivers

\* finish_item.
LEMMA TruthFinish ==
    ASSUME ReceiptsKept, StoreType, now \in Nat, LedgerTrue, Truth, OneFate, read' = read,
           NEW S \in SUBSET Id, NEW st \in Final, NEW its \in [Id -> MaybeItem],
           \A i \in S : its[i] \in Item, \A i \in Id \ S : its[i] = items[i],
           Finish(S, st, its),
           \A i \in S : /\ Read(its[i], i)
                        /\ st = "delivered" => its[i].delivered # {}
                        /\ st = "delivered" /\ items[i] # None /\ items[i].all
                           => items[i].env.to \subseteq read[i]
    PROVE  Truthful
<1>1. /\ LedgerTrue'
      /\ \A i \in Id \ S : StaysPut(i)
      /\ \A i \in S : Ends(i, its[i], st)
      /\ \A i \in Id : RecordKept(i)
  BY FinishEffect
<1>2. \A i \in Id \ S : TruthOf(i)' /\ Delivers(i)
  BY <1>1, TruthStays DEF StaysPut
<1>3. \A i \in S : TruthOf(i)' /\ Delivers(i)
  BY <1>1, TruthEnds
<1>4. QED
  BY <1>1, <1>2, <1>3 DEF Truthful, Truth

\* finish_item of present items, but not as delivered.
LEMMA TruthDrop ==
    ASSUME ReceiptsKept, StoreType, now \in Nat, LedgerTrue, Truth, OneFate, read' = read,
           NEW S \in SUBSET Live, NEW st \in Final \ {"delivered"}, Finish(S, st, items)
    PROVE  Truthful
<1>1. S \in SUBSET Id /\ items \in [Id -> MaybeItem] /\ \A i \in S : items[i] \in Item
  BY LiveType DEF StoreType
<1>2. \A i \in S : Read(items[i], i)
  BY <1>1 DEF Truth, TruthOf, Live
<1>3. QED
  BY <1>1, <1>2, TruthFinish

\* A step that leaves index, receipts, records and reads alone.
LEMMA TruthSame ==
    ASSUME LedgerTrue, Truth, OneFate, UNCHANGED <<items, receipts, ledger, read>>,
           \A i \in Id : RecordKept(i)
    PROVE  Truthful
BY TruthStays DEF Truthful, Truth, LedgerTrue

\* An item changes and stays, its record written or not.
LEMMA TruthKeep ==
    ASSUME StoreType, LedgerTrue, Truth, OneFate, read' = read, NEW i \in Id, NEW it \in Item,
           items[i] # None, items' = [items EXCEPT ![i] = it], Read(it, i),
           disk' = disk \/ disk' = Saved(disk, i, it), UNCHANGED <<receipts, ledger>>
    PROVE  Truthful
<1>1. \A j \in Id \ {i} : disk'[j] = disk[j] /\ items'[j] = items[j]
  BY DEF Saved, StoreType
<1>2. \A j \in Id \ {i} : TruthOf(j)' /\ Delivers(j)
  BY <1>1, TruthStays DEF RecordKept
<1>3. items'[i] = it /\ receipts'[i] = None
  BY DEF StoreType, OneFate, Live, Receipted
<1>4. disk'[i] # None /\ disk'[i].record # None
      => disk'[i].record = it \/ (disk[i] # None /\ disk'[i].record = disk[i].record)
  BY DEF Saved, StoreType, MaybeDir, Dir, EmptyDir
<1>5. TruthOf(i)' /\ Delivers(i)
  BY <1>3, <1>4 DEF Truth, TruthOf, Read, Delivers
<1>6. QED
  BY <1>2, <1>5 DEF Truthful, Truth, LedgerTrue

\* load_store from the folders d and a ledger l as true as the receipts.
LEMMA TruthLoad ==
    ASSUME Truth, read' = read, NEW d, NEW l, NEW bad, Load(d, l, bad),
           \A i \in Id : d[i] # None /\ d[i].record # None
                         => disk[i] # None /\ d[i].record = disk[i].record,
           \A i \in Id : l[i] # None =>
                /\ l[i].deliveredTo \subseteq read[i]
                /\ l[i].state = "delivered" => l[i].deliveredTo # {}
                /\ l[i].state = "delivered" => items[i] = None
    PROVE  Truthful
<1>1. ASSUME NEW i \in Id
      PROVE  TruthOf(i)' /\ Delivers(i)
  <2>1. /\ receipts' = l
        /\ items'[i] # None => d[i] # None /\ items'[i] = d[i].record
        /\ disk'[i] \in {d[i], None}
    BY LoadEffect
  <2>2. d[i] # None /\ d[i].record # None => Read(d[i].record, i)
    BY DEF Truth, TruthOf
  <2>3. QED
    BY <2>1, <2>2 DEF TruthOf, Read, Delivers
<1>2. QED
  BY <1>1 DEF Truthful, Truth, LedgerTrue, Load

\* The acknowledgements.
LEMMA TruthAck ==
    ASSUME ReceiptsKept, StoreType, now \in Nat, LedgerTrue, Truth, OneFate,
           NEW i \in Id, NEW d \in Device, AckOk(d, i) \/ AckRefuse(d, i)
    PROVE  Truthful
<1>1. /\ items[i] \in Item /\ items[i] # None /\ Read(items[i], i) /\ d \in read[i] /\ read' = read
      /\ {i} \in SUBSET Id
  BY DEF AckOk, AckRefuse, StoreType, MaybeItem, Truth, TruthOf
<1>2. ASSUME NEW it \in Item, NEW st \in Final, Read(it, i),
             Finish({i}, st, [items EXCEPT ![i] = it]),
             st = "delivered" => it.delivered # {},
             st = "delivered" /\ items[i].all => items[i].env.to \subseteq read[i]
      PROVE  Truthful
  <2> DEFINE its == [items EXCEPT ![i] = it]
  <2>1. its \in [Id -> MaybeItem] /\ its[i] = it /\ \A j \in Id \ {i} : its[j] = items[j]
    BY DEF StoreType, MaybeItem
  <2> HIDE DEF its
  <2>2. Finish({i}, st, its)
    BY <1>2 DEF its
  <2>3. QED
    BY <1>1, <1>2, <2>1, <2>2, TruthFinish
<1>3. CASE AckOk(d, i)
  <2> DEFINE it == [items[i] EXCEPT !.delivered = @ \cup {d}]
  <2>1. /\ it \in Item /\ Read(it, i) /\ it.delivered # {}
        /\ it.env = items[i].env /\ it.all = items[i].all
    BY <1>1 DEF Item, Read
  <2>2. Settled(it) => items[i].env.to \subseteq read[i]
    BY <2>1 DEF Settled, WaitingFor, Read
  <2>3. \/ Keep(i, it)
        \/ (~it.all \/ Settled(it)) /\ Finish({i}, "delivered", [items EXCEPT ![i] = it])
    BY <1>3 DEF AckOk
  <2> HIDE DEF it
  <2>4. CASE Keep(i, it)
    BY <1>1, <2>1, <2>4, TruthKeep DEF Keep
  <2>5. CASE (~it.all \/ Settled(it)) /\ Finish({i}, "delivered", [items EXCEPT ![i] = it])
    BY <1>2, <2>1, <2>2, <2>5 DEF Final
  <2>6. QED
    BY <2>3, <2>4, <2>5
<1>4. CASE AckRefuse(d, i)
  <2> DEFINE it == [items[i] EXCEPT !.refused = @ \cup {d}]
             st == IF it.delivered = {} THEN "rejected" ELSE "delivered"
  <2>1. it \in Item /\ Read(it, i) /\ it.env = items[i].env
    BY <1>1 DEF Item, Read
  <2>2. Settled(it) => items[i].env.to \subseteq read[i]
    BY <2>1 DEF Settled, WaitingFor, Read
  <2>3. st \in Final /\ (st = "delivered" => it.delivered # {})
    BY DEF Final
  <2>4. \/ Keep(i, it)
        \/ Settled(it) /\ Finish({i}, st, [items EXCEPT ![i] = it])
    BY <1>4 DEF AckRefuse
  <2> HIDE DEF it, st
  <2>5. CASE Keep(i, it)
    BY <1>1, <2>1, <2>5, TruthKeep DEF Keep
  <2>6. CASE Settled(it) /\ Finish({i}, st, [items EXCEPT ![i] = it])
    BY <1>2, <2>1, <2>2, <2>3, <2>6
  <2>7. QED
    BY <2>4, <2>5, <2>6
<1>5. QED
  BY <1>3, <1>4

\* A handler that opens, writes or renames the payload's file, or whose new item
\* cannot be written, leaves the records that stay.
LEMMA FileSteps ==
    ASSUME StoreType, NEW c \in Conn, NEW k \in Id, k = task[c].env.id,
           AdmitFault(c) \/ StartStream(c) \/ Stream(c) \/ Rename(c)
    PROVE  \A i \in Id : RecordKept(i)
<1> USE DEF store, root, env
<1>0. k \in Id
  OBVIOUS
<1>1. disk \in [Id -> MaybeDir] /\ (disk[k] # None => disk[k] \in Dir)
  BY <1>0 DEF StoreType, MaybeDir
<1>2. \A j \in Id \ {k} : disk'[j] = disk[j]
  BY <1>1 DEF AdmitFault, StartStream, Stream, Rename
<1>3. ASSUME disk'[k] # None, disk[k] = None
      PROVE  FALSE
  BY <1>0, <1>1, <1>3 DEF AdmitFault, StartStream, Stream, Rename
<1>4. disk'[k] # None => disk[k] \in Dir /\ disk'[k].record = disk[k].record
  <2>1. CASE AdmitFault(c)
    BY <1>0, <1>1, <2>1 DEF AdmitFault
  <2>2. CASE StartStream(c)
    <3>1. disk[k] # None => disk' = [disk EXCEPT ![k] = [disk[k] EXCEPT
                                        !.part = task[c].have, !.touched = now]]
      BY <2>2 DEF StartStream
    <3>2. PICK n, t : n = task[c].have /\ t = now
      OBVIOUS
    <3>3. CASE disk[k] # None
      <4>1. PICK d : d = disk[k]
        OBVIOUS
      <4>2. d \in Dir
        BY <1>1, <3>3, <4>1
      <4>3. PICK w : w = [d EXCEPT !.part = n, !.touched = t]
        OBVIOUS
      <4>4. w.record = d.record
        BY <4>2, <4>3 DEF Dir
      <4>5. disk' = [disk EXCEPT ![k] = w]
        BY <3>1, <3>2, <3>3, <4>1, <4>3
      <4>6. disk'[k] = w
        BY <1>0, <1>1, <4>5
      <4>7. QED
        BY <4>1, <4>2, <4>4, <4>6
    <3>4. QED
      BY <1>3, <3>3
  <2>3. CASE Stream(c)
    BY <1>0, <1>1, <1>3, <2>3 DEF Stream, Dir
  <2>4. CASE Rename(c)
    <3>1. disk[k] # None => \/ disk' = disk
                            \/ disk' = [disk EXCEPT ![k] = [disk[k] EXCEPT
                                    !.payload = disk[k].part, !.part = NoFile, !.touched = 0]]
      BY <2>4 DEF Rename
    <3>2. CASE disk[k] # None
      <4>1. PICK d : d = disk[k]
        OBVIOUS
      <4>2. d \in Dir
        BY <1>1, <3>2, <4>1
      <4>3. PICK w : w = [d EXCEPT !.payload = d.part, !.part = NoFile, !.touched = 0]
        OBVIOUS
      <4>4. w.record = d.record
        BY <4>2, <4>3 DEF Dir
      <4>5. disk' = disk \/ disk' = [disk EXCEPT ![k] = w]
        BY <3>1, <3>2, <4>1, <4>3
      <4>6. disk'[k] = d \/ disk'[k] = w
        BY <1>0, <1>1, <4>1, <4>5
      <4>7. QED
        BY <4>1, <4>2, <4>4, <4>6
    <3>3. QED
      BY <1>3, <3>2
  <2>5. QED
    BY <2>1, <2>2, <2>3, <2>4
<1>5. QED
  BY <1>2, <1>3, <1>4 DEF RecordKept

\* The steps of a deposit handler.
LEMMA TruthDeposit ==
    ASSUME ReceiptsKept, StoreType, OtherType, LedgerTrue, Truth, OneFate,
           NEW c \in Conn, Progress(c), NEW k, k = task[c].env.id
    PROVE  Truthful
<1> USE DEF store, root, env
<1>0. k \in Id /\ task[c].env \in Envelope /\ task[c] \in Task \ {IdleTask} /\ now \in Nat
  <2>1. task[c].pc # "idle"
    BY DEF Progress, AdmitResume, AdmitNew, AdmitFault, AdmitHeld, AdmitRefuse,
           StartStream, ReplyLost, Stream, StreamFail, Rename, LocalStore,
           AfterFail, MarkHeld, ReplyHeld, DropMark, DropBell
  <2>2. QED
    BY <2>1, TaskType DEF OtherType
<1>1. CASE AdmitResume(c) \/ AdmitHeld(c) \/ AdmitRefuse(c) \/ ReplyLost(c) \/ StreamFail(c)
           \/ ReplyHeld(c) \/ DropMark(c) \/ DropBell(c)
  <2>1. UNCHANGED <<items, receipts, ledger, read, disk>>
    BY <1>1 DEF AdmitResume, AdmitHeld, AdmitRefuse, ReplyLost, StreamFail, ReplyHeld, DropMark, DropBell
  <2>2. QED
    BY <2>1, TruthSame DEF RecordKept
<1>2. CASE AdmitFault(c) \/ StartStream(c) \/ Stream(c) \/ Rename(c)
  <2>1. UNCHANGED <<items, receipts, ledger, read>>
    BY <1>2 DEF AdmitFault, StartStream, Stream, Rename
  <2>2. \A i \in Id : RecordKept(i)
    BY <1>0, <1>2, FileSteps
  <2>3. QED
    BY <2>1, <2>2, TruthSame
<1>3. CASE AdmitNew(c)
  <2> DEFINE it == NewItem(task[c].env, task[c].all)
  <2>1. /\ items' = [items EXCEPT ![k] = it] /\ read' = [read EXCEPT ![k] = {}]
        /\ UNCHANGED <<receipts, ledger>> /\ receipts[k] = None /\ items[k] = None
    BY <1>3 DEF AdmitNew, CanStore
  <2>2. \A j \in Id \ {k} : items'[j] = items[j] /\ read'[j] = read[j] /\ disk'[j] = disk[j]
    BY <1>3, <2>1 DEF AdmitNew, StoreType, OtherType
  <2>3. \A j \in Id \ {k} : TruthOf(j)' /\ Delivers(j)
    BY <2>1, <2>2, TruthStays DEF RecordKept
  <2>4. disk'[k].record = it
    BY <1>0, <1>3 DEF AdmitNew, StoreType, MaybeDir, Dir, EmptyDir
  <2>5. items'[k] = it /\ it.delivered = {} /\ it.refused = {}
    BY <1>0, <2>1 DEF NewItem, StoreType
  <2>6. TruthOf(k)' /\ Delivers(k)
    <3> HIDE DEF it
    <3>1. receipts'[k] = None
      BY <2>1
    <3>2. items'[k].delivered = {} /\ items'[k].refused = {}
          /\ disk'[k].record.delivered = {} /\ disk'[k].record.refused = {}
      BY <2>4, <2>5
    <3>3. QED
      BY <3>1, <3>2 DEF TruthOf, Read, Delivers
  <2>7. (\A j \in Id : TruthOf(j)' /\ Delivers(j)) /\ LedgerTrue'
    <3> HIDE DEF it
    <3>1. QED
      BY <2>1, <2>3, <2>6 DEF LedgerTrue
  <2>8. QED
    BY <2>7 DEF Truthful, Truth
<1>4. CASE LocalStore(c) \/ AfterFail(c) \/ MarkHeld(c)
  <2>0. read' = read
    BY <1>4 DEF LocalStore, AfterFail, MarkHeld
  <2>1. \/ /\ items[k] # None
           /\ \E st \in Final \ {"delivered"} : Finish({k}, st, items)
        \/ UNCHANGED <<items, receipts, ledger, disk>>
        \/ /\ UNCHANGED <<items, receipts, ledger>> /\ disk[k] # None
           /\ disk' = [disk EXCEPT ![k] = [@ EXCEPT !.payload = 0]]
        \/ /\ items[k] # None /\ UNCHANGED <<receipts, ledger>>
           /\ LET it == [items[k] EXCEPT !.state = "held"]
              IN  /\ items' = [items EXCEPT ![k] = it]
                  /\ disk' = disk \/ disk' = Saved(disk, k, it)
    BY <1>4 DEF LocalStore, AfterFail, MarkHeld, Final
  <2>2. CASE items[k] # None /\ \E st \in Final \ {"delivered"} : Finish({k}, st, items)
    <3>1. {k} \in SUBSET Live
      BY <1>0, <2>2 DEF Live
    <3>2. QED
      BY <1>0, <2>0, <2>2, <3>1, TruthDrop
  <2>3. CASE UNCHANGED <<items, receipts, ledger, disk>>
    BY <2>0, <2>3, TruthSame DEF RecordKept
  <2>4. CASE /\ UNCHANGED <<items, receipts, ledger>> /\ disk[k] # None
             /\ disk' = [disk EXCEPT ![k] = [@ EXCEPT !.payload = 0]]
    <3>1. \A i \in Id : RecordKept(i)
      BY <1>0, <2>4 DEF RecordKept, StoreType, MaybeDir, Dir
    <3>2. QED
      BY <2>0, <2>4, <3>1, TruthSame
  <2>5. CASE /\ items[k] # None /\ UNCHANGED <<receipts, ledger>>
             /\ LET it == [items[k] EXCEPT !.state = "held"]
                IN  /\ items' = [items EXCEPT ![k] = it]
                    /\ disk' = disk \/ disk' = Saved(disk, k, it)
    <3> DEFINE it == [items[k] EXCEPT !.state = "held"]
    <3>1. items[k] \in Item /\ Read(items[k], k)
      BY <1>0, <2>5 DEF StoreType, MaybeItem, Truth, TruthOf
    <3>2. it \in Item /\ Read(it, k)
      BY <3>1 DEF Item, Read
    <3>3. items' = [items EXCEPT ![k] = it] /\ (disk' = disk \/ disk' = Saved(disk, k, it))
      BY <2>5
    <3> HIDE DEF it
    <3>4. QED
      BY <1>0, <2>0, <2>5, <3>2, <3>3, TruthKeep
  <2>6. QED
    BY <2>1, <2>2, <2>3, <2>4, <2>5
<1>5. QED
  BY <1>1, <1>2, <1>3, <1>4 DEF Progress

\* Every step.
LEMMA TruthStep ==
    ASSUME ReceiptsKept, TypeOK, LedgerTrue, Truth, OneFate, [Next]_vars
    PROVE  Truthful
<1> USE DEF store, root, env
<1>0. StoreType /\ OtherType /\ now \in Nat
  BY TypeSplit DEF OtherType
<1>1. ASSUME UNCHANGED <<items, receipts, ledger, read, disk>>
      PROVE  Truthful
  BY <1>1, TruthSame DEF RecordKept
<1>2. CASE \/ UNCHANGED vars
           \/ \E c \in Conn, q \in Request : Deposit(c, q)
           \/ \E c, b \in Conn : Supersede(c, b)
           \/ GcScan \/ Pause \/ Enable \/ Tick \/ Unmount \/ Mount
           \/ \E p \in Person : RestorePerson(p)
  <2>1. UNCHANGED <<items, receipts, ledger, read, disk>>
    BY <1>2 DEF vars, Deposit, Supersede, GcScan, Pause, Enable, Tick, Unmount, Mount, RestorePerson
  <2>2. QED
    BY <1>1, <2>1
<1>3. ASSUME NEW i \in Id, NEW d \in Device, Fetch(d, i)
      PROVE  Truthful
  <2>1. UNCHANGED <<items, receipts, ledger, disk>> /\ read' = [read EXCEPT ![i] = @ \cup {d}]
    BY <1>3 DEF Fetch
  <2>2. \A j \in Id : read[j] \subseteq read'[j]
    BY <1>0, <2>1 DEF OtherType
  <2>3. QED
    BY <2>1, <2>2 DEF Truthful, Truth, TruthOf, Read, Delivers, LedgerTrue, OneFate, Live, Receipted
<1>4. ASSUME NEW i \in Id, Cancel(i)
      PROVE  Truthful
  <2>1. /\ items[i] # None /\ read' = read
        /\ UNCHANGED <<items, receipts, ledger, disk>> \/ Finish({i}, "canceled", items)
    BY <1>4 DEF Cancel
  <2>2. {i} \in SUBSET Live /\ "canceled" \in Final \ {"delivered"}
    BY <2>1 DEF Live, Final
  <2>3. QED
    BY <1>0, <1>1, <2>1, <2>2, TruthDrop
<1>5. CASE GcApply
  <2>0. read' = read
    BY <1>5 DEF GcApply
  <2>1. CASE ~mounted
    BY <1>1, <1>5, <2>0, <2>1 DEF GcApply
  <2>2. CASE mounted
    <3>1. /\ LedgerTrue'
          /\ \A i \in Overdue : Ends(i, items[i], "expired")
          /\ \A i \in Id \ Overdue :
                items'[i] = items[i] /\ receipts'[i] \in {receipts[i], None}
          /\ \A i \in Id : RecordKept(i)
      BY <1>0, <1>5, <2>2, CollectEffect
    <3>2. \A i \in Id \ Overdue : TruthOf(i)' /\ Delivers(i)
      BY <2>0, <3>1, TruthStays
    <3>3. \A i \in Overdue : i \in Id /\ items[i] \in Item /\ Read(items[i], i)
      BY <1>0, LiveType DEF Truth, TruthOf, Live
    <3>4. \A i \in Overdue : TruthOf(i)' /\ Delivers(i)
      BY <1>0, <2>0, <3>1, <3>3, TruthEnds DEF Final
    <3>5. QED
      BY <3>1, <3>2, <3>4 DEF Truthful, Truth
  <2>3. QED
    BY <2>1, <2>2
<1>6. CASE Wipe \/ \E p \in Person : RemovePerson(p)
  <2>1. read' = read /\ \E S \in SUBSET Live : Finish(S, "rejected", items)
    BY <1>0, <1>6, LiveType DEF Wipe, RemovePerson
  <2>2. QED
    BY <1>0, <2>1, TruthDrop DEF Final
<1>7. ASSUME NEW l, NEW i \in Id, LedgerTrue, l[i] = ledger[i], l[i] # None
      PROVE  /\ l[i].deliveredTo \subseteq read[i]
             /\ l[i].state = "delivered" => l[i].deliveredTo # {}
             /\ l[i].state = "delivered" => items[i] = None
  BY <1>7 DEF LedgerTrue, Truth, TruthOf, OneFate, Live, Receipted
<1>8. CASE Disable({}) \/ Disable(Live \ uploading)
  <2>1. PICK S \in SUBSET Live : Disable(S)
    BY <1>8
  <2>2. \A i \in Id : Deleted(S, {}, {})[i] # None /\ Deleted(S, {}, {})[i].record # None
             => disk[i] # None /\ Deleted(S, {}, {})[i].record = disk[i].record
    BY <1>0, DeletedKeeps DEF StoreType
  <2> DEFINE l == WithReceipts(ledger, items, S, "rejected")
  <2>3. ASSUME NEW i \in Id, l[i] # None
        PROVE  /\ l[i].deliveredTo \subseteq read[i]
               /\ l[i].state = "delivered" => l[i].deliveredTo # {}
               /\ l[i].state = "delivered" => items[i] = None
    <3>1. CASE i \in S
      <4>1. l[i] = ReceiptOf(items[i], "rejected")
        BY <3>1 DEF WithReceipts
      <4>2. items[i] \in Item /\ Read(items[i], i)
        BY <1>0, <3>1, LiveType DEF Truth, TruthOf, Live
      <4>3. l[i].state = "rejected" /\ l[i].deliveredTo = items[i].delivered
        BY <4>1 DEF ReceiptOf
      <4>4. QED
        BY <4>2, <4>3 DEF Read
    <3>2. CASE i \notin S
      <4>1. l[i] = ledger[i]
        BY <3>2 DEF WithReceipts
      <4> HIDE DEF l
      <4>2. QED
        BY <1>7, <2>3, <4>1
    <3>3. QED
      BY <3>1, <3>2
  <2>4. Load(Deleted(S, {}, {}), l, {}) /\ read' = read
    BY <2>1 DEF Disable
  <2> HIDE DEF l
  <2>5. QED
    BY <2>2, <2>3, <2>4, TruthLoad
<1>9. CASE Crash
  <2>1. read' = read /\ \E bad : Load(disk, ledger, bad)
    BY <1>9 DEF Crash
  <2>2. \A i \in Id : ledger[i] # None =>
             /\ ledger[i].deliveredTo \subseteq read[i]
             /\ ledger[i].state = "delivered" => ledger[i].deliveredTo # {}
             /\ ledger[i].state = "delivered" => items[i] = None
    BY <1>7
  <2>3. QED
    BY <2>1, <2>2, TruthLoad
<1>10. ASSUME NEW i \in Id, NEW d \in Device, AckOk(d, i) \/ AckRefuse(d, i)
       PROVE  Truthful
  BY <1>0, <1>10, TruthAck
<1>11. ASSUME NEW c \in Conn, Progress(c)
       PROVE  Truthful
  <2>1. \E k : k = task[c].env.id
    OBVIOUS
  <2>2. QED
    BY <1>0, <1>11, <2>1, TruthDeposit
<1>12. QED
  BY <1>2, <1>3, <1>4, <1>5, <1>6, <1>8, <1>9, <1>10, <1>11 DEF Next

Honest == Fate /\ LedgerTrue /\ Truth

LEMMA HonestStart ==
    ASSUME Init
    PROVE  Honest
BY DEF Init, Honest, Fate, OneFate, LedgerKept, LedgerTrue, Truth, TruthOf, Live, Receipted

LEMMA HonestStep ==
    ASSUME ReceiptsKept, TypeOK, Honest, [Next]_vars
    PROVE  Honest' /\ \A i \in Id : Delivers(i)
BY TruthStep, FateStep DEF Honest, Fate, Kept, Truthful

\* While the ledger can be written and no receipt is trimmed, a receipt
\* "delivered" names at least one device, and only devices that have read the
\* item: whatever order acks, refusals, re-deposits and restarts come in.
THEOREM DeliveredIsTrueAlways ==
    ASSUME ReceiptsKept
    PROVE  Spec => []DeliveredIsTrue
<1>1. Init => Honest
  BY HonestStart
<1>2. TypeOK /\ Honest /\ [Next]_vars => Honest'
  BY HonestStep
<1>3. Honest => DeliveredIsTrue
  BY DEF Honest, Truth, TruthOf, DeliveredIsTrue, Receipted
<1>4. QED
  BY <1>1, <1>2, <1>3, TypeCorrect, PTL DEF Spec

\* Under the same conditions an item sent to every device ends as delivered only
\* when each of its devices has read it.
THEOREM EveryDeviceFirstAlways ==
    ASSUME ReceiptsKept
    PROVE  Spec => EveryDeviceFirst
<1>1. Init => Honest
  BY HonestStart
<1>2. TypeOK /\ Honest /\ [Next]_vars => Honest'
  BY HonestStep
<1>3. TypeOK /\ Honest /\ [Next]_vars
      => [\A i \in Live :
             (/\ items[i].all
              /\ receipts'[i] # None /\ receipts'[i].state = "delivered")
             => items[i].env.to \subseteq read[i]]_vars
  BY HonestStep DEF Delivers, Live
<1>4. QED
  BY <1>1, <1>2, <1>3, TypeCorrect, PTL DEF Spec, EveryDeviceFirst

(***************************************************************************)
(* Memory and disk agree, and an upload has its item to itself.            *)
(***************************************************************************)
\* Records are written too, and the server is not switched off while it works.
Sound == ReceiptsKept /\ "record" \notin Upsets /\ "toggle" \notin Upsets

\* An item in memory is on disk as it is; nobody has read an upload that was
\* not complete; a promised item is held.
Stored(i) ==
    /\ items[i] # None =>
          /\ disk[i] # None /\ disk[i].header /\ disk[i].record = items[i]
          /\ items[i].state = "held" => disk[i].payload = items[i].env.size
    /\ disk[i] # None /\ disk[i].record # None /\ disk[i].record.state = "uploading"
       => read[i] = {}
    /\ i \in toldHeld => aside[i] # None \/ (items[i] # None /\ items[i].state = "held")

\* What a handler may count on.
Works(c) ==
    LET t == task[c]
        i == t.env.id
    IN  /\ t.pc \in {"admitted", "stream", "failed", "renamed"} =>
              items[i] # None /\ items[i].state = "uploading" /\ items[i].env = t.env
        /\ t.pc = "stream" => disk[i].part = t.have
        /\ t.pc = "renamed" => disk[i].payload = t.env.size
        /\ t.pc = "held" /\ items[i] # None => items[i].state = "held"
        /\ Guarding(c) /\ items[i] = None => receipts[i] # None /\ receipts[i].at = now

\* Its guard is its own.
Guarded(c) ==
    Guarding(c) =>
        /\ task[c].env.id \in uploading
        /\ \A b \in Conn \ {c} : Guarding(b) => task[b].env.id # task[c].env.id

Durable ==
    /\ \A i \in Id : Stored(i)
    /\ \A c \in Conn : Works(c) /\ Guarded(c)

\* A task that has not moved, and one that goes on to another step.
SameTask(c) == task'[c].pc = task[c].pc /\ task'[c].env = task[c].env /\ task'[c].have = task[c].have
GoesTo(c, pc) ==
    /\ task'[c].pc = pc /\ task'[c].env = task[c].env /\ task'[c].have = task[c].have
    /\ \A b \in Conn \ {c} : SameTask(b)

LEMMA AtEffect ==
    ASSUME task \in [Conn -> Task], NEW c \in Conn, task[c].pc # "idle", NEW pc, At(c, pc)
    PROVE  GoesTo(c, pc)
<1>1. task[c] \in Task \ {IdleTask}
  BY TaskType
<1>2. task' = [task EXCEPT ![c] = [task[c] EXCEPT !.pc = pc]]
  BY DEF At, Become
<1>3. [task[c] EXCEPT !.pc = pc].pc = pc /\ [task[c] EXCEPT !.pc = pc].env = task[c].env
      /\ [task[c] EXCEPT !.pc = pc].have = task[c].have
  BY <1>1 DEF Task
<1>4. QED
  BY <1>2, <1>3 DEF GoesTo, SameTask

\* A handler at work has an item id.
LEMMA GuardingType ==
    ASSUME task \in [Conn -> Task], NEW c \in Conn, Guarding(c)
    PROVE  task[c].env \in Envelope /\ task[c].env.id \in Id /\ task[c].have \in Nat
BY TaskType DEF Guarding

\* Guards stay exclusive when no handler takes one.
LEMMA GuardsStay ==
    ASSUME NEW c \in Conn, \A b \in Conn : Guarded(b),
           \A b \in Conn : Guarding(b)' => Guarding(b) /\ task'[b].env = task[b].env,
           \A b \in Conn : Guarding(b)' => task[b].env.id \in uploading'
    PROVE  \A b \in Conn : Guarded(b)'
BY DEF Guarded

\* A handler whose item stays put goes on working.
LEMMA WorksStays ==
    ASSUME NEW c \in Conn, Works(c), SameTask(c), now' = now,
           Guarding(c) => StaysPut(task[c].env.id)
    PROVE  Works(c)'
BY DEF Works, SameTask, StaysPut, Guarding

\* A handler that only has its guard to drop does not miss its item.
LEMMA WorksLost ==
    ASSUME NEW c \in Conn, Works(c), task'[c].env = task[c].env, now' = now,
           task'[c].pc \in {"held", "drop"},
           NEW it, NEW st, Ends(task[c].env.id, it, st)
    PROVE  Works(c)'
BY DEF Works, Ends, Guarding

\* An item that stays put stays stored.
LEMMA StoredStays ==
    ASSUME NEW i \in Id, Stored(i), StaysPut(i), read'[i] = read[i],
           i \in toldHeld' => \/ i \in toldHeld /\ aside'[i] = aside[i]
                              \/ items[i] # None /\ items[i].state = "held"
    PROVE  Stored(i)'
BY DEF Stored, StaysPut

\* finish_item, of items whose handlers, if any, have only their guard to drop,
\* or of the item of the handler c itself.
LEMMA DurableFinish ==
    ASSUME Sound, TypeOK, LedgerTrue, Durable,
           UNCHANGED <<now, read, uploading>>,
           NEW S \in SUBSET Id, NEW st \in Final, NEW its \in [Id -> MaybeItem],
           \A i \in S : its[i] \in Item, \A i \in Id \ S : its[i] = items[i],
           Finish(S, st, its),
           \A c \in Conn : \/ /\ SameTask(c)
                              /\ Guarding(c) /\ task[c].env.id \in S => task[c].pc \in {"held", "drop"}
                           \/ /\ Guarding(c) /\ task[c].env.id \in S
                              /\ task'[c].env = task[c].env /\ task'[c].pc = "drop"
    PROVE  Durable'
<1>0. StoreType /\ OtherType /\ now \in Nat
  BY TypeSplit DEF OtherType
<1>1. /\ \A i \in Id \ S : StaysPut(i)
      /\ \A i \in S : Ends(i, its[i], st)
      /\ \A i \in Id : RecordKept(i)
      /\ aside' = aside /\ toldHeld' = toldHeld \ S
  BY <1>0, FinishEffect DEF Sound
<1>2. ASSUME NEW i \in Id
      PROVE  Stored(i)'
  <2>1. CASE i \in S
    BY <1>1, <2>1 DEF Durable, Stored, Ends, RecordKept
  <2>2. CASE i \notin S
    BY <1>1, <2>2, StoredStays DEF Durable
  <2>3. QED
    BY <2>1, <2>2
<1>3. ASSUME NEW c \in Conn
      PROVE  Works(c)'
  <2>1. Works(c)
    BY DEF Durable
  <2>2. CASE Guarding(c) /\ task[c].env.id \in S
    <3>1. task'[c].env = task[c].env /\ task'[c].pc \in {"held", "drop"}
      BY <2>2 DEF SameTask
    <3>2. QED
      BY <1>1, <2>1, <2>2, <3>1, WorksLost
  <2>3. CASE ~ (Guarding(c) /\ task[c].env.id \in S)
    <3>1. SameTask(c)
      BY <2>3
    <3>2. Guarding(c) => StaysPut(task[c].env.id)
      BY <1>0, <1>1, <2>3, GuardingType DEF OtherType
    <3>3. QED
      BY <2>1, <3>1, <3>2, WorksStays
  <2>4. QED
    BY <2>2, <2>3
<1>4. ASSUME NEW c \in Conn
      PROVE  Guarded(c)'
  <2>1. \A b \in Conn : Guarding(b)' => Guarding(b) /\ task'[b].env = task[b].env
    BY DEF SameTask, Guarding
  <2>2. \A b \in Conn : Guarded(b)
    BY DEF Durable
  <2>3. QED
    BY <2>1, <2>2, GuardsStay DEF Guarded
<1>5. QED
  BY <1>2, <1>3, <1>4 DEF Durable

\* finish_item of present items no upload is marked on.
LEMMA DurableDrop ==
    ASSUME Sound, TypeOK, LedgerTrue, Durable, UNCHANGED <<now, read, uploading, task>>,
           NEW S \in SUBSET (Live \ uploading), NEW st \in Final, Finish(S, st, items)
    PROVE  Durable'
<1>1. S \in SUBSET Id /\ items \in [Id -> MaybeItem] /\ \A i \in S : items[i] \in Item
  BY LiveType, TypeSplit DEF StoreType
<1>2. \A c \in Conn : SameTask(c) /\ (Guarding(c) => task[c].env.id \notin S)
  BY DEF SameTask, Durable, Guarded
<1>3. QED
  BY <1>1, <1>2, DurableFinish

\* Only of a held item is anyone told that it is held.
TellsTruly ==
    \A i \in Id : i \in toldHeld' =>
        i \in toldHeld \/ (items[i] # None /\ items[i].state = "held")

\* A step that moves tasks or marks, and no item.
LEMMA DurableSame ==
    ASSUME Durable, UNCHANGED <<items, receipts, disk, read, aside>>, TellsTruly,
           \A c \in Conn : Works(c)' /\ Guarded(c)'
    PROVE  Durable'
BY StoredStays DEF Durable, StaysPut, TellsTruly

\* A handler that holds a guard goes on to a step that asks for nothing more.
LEMMA DurableAt ==
    ASSUME TypeOK, Durable, UNCHANGED <<items, receipts, disk, read, aside, now, uploading>>,
           TellsTruly, NEW c \in Conn, NEW pc, GoesTo(c, pc),
           \/ Guarding(c) /\ pc = "drop"
           \/ task[c].pc \in {"admitted", "stream"} /\ pc = "failed"
    PROVE  Durable'
<1>1. ASSUME NEW b \in Conn \ {c}
      PROVE  Works(b)'
  BY WorksStays DEF Durable, GoesTo, StaysPut
<1>2. Works(c)'
  <2>1. Works(c)
    BY DEF Durable
  <2>2. CASE Guarding(c) /\ pc = "drop"
    BY <2>1, <2>2 DEF Works, GoesTo, Guarding
  <2>3. CASE task[c].pc \in {"admitted", "stream"} /\ pc = "failed"
    BY <2>1, <2>3 DEF Works, GoesTo, Guarding
  <2>4. QED
    BY <2>2, <2>3
<1>3. \A b \in Conn : Guarded(b)'
  <2>1. \A b \in Conn : Guarding(b)' => Guarding(b) /\ task'[b].env = task[b].env
    BY DEF GoesTo, SameTask, Guarding
  <2>2. \A b \in Conn : Guarded(b)
    BY DEF Durable
  <2>3. QED
    BY <2>1, <2>2, GuardsStay DEF Guarded
<1>4. QED
  BY <1>1, <1>2, <1>3, DurableSame

\* The handler c writes the files of the upload it guards.
LEMMA DurableFiles ==
    ASSUME TypeOK, Durable, UNCHANGED <<items, receipts, read, aside, now, uploading, toldHeld>>,
           NEW c \in Conn, NEW k \in Id, k = task[c].env.id, NEW pc, NEW d \in Dir,
           Guarding(c), task'[c].env = task[c].env, task'[c].pc = pc,
           \A b \in Conn \ {c} : SameTask(b),
           items[k] # None, items[k].state = "uploading",
           d.header = disk[k].header, d.record = disk[k].record, disk' = [disk EXCEPT ![k] = d],
           Works(c)'
    PROVE  Durable'
<1>0. task \in [Conn -> Task] /\ disk \in [Id -> MaybeDir]
  BY TypeSplit DEF StoreType, OtherType
<1>1. disk'[k] = d /\ \A i \in Id \ {k} : disk'[i] = disk[i]
  BY <1>0
<1>2. ASSUME NEW i \in Id
      PROVE  Stored(i)'
  <2>1. CASE i = k
    <3>1. Stored(k) /\ d # None
      BY NoneAssumption DEF Durable
    <3>2. QED
      BY <1>1, <2>1, <3>1 DEF Stored
  <2>2. CASE i # k
    BY <1>1, <2>2, StoredStays DEF Durable, StaysPut
  <2>3. QED
    BY <2>1, <2>2
<1>3. ASSUME NEW b \in Conn \ {c}
      PROVE  Works(b)'
  <2>1. Guarding(b) => task[b].env.id \in Id \ {k}
    BY <1>0, GuardingType DEF Durable, Guarded
  <2>2. QED
    BY <1>1, <2>1, WorksStays DEF Durable, StaysPut
<1>4. \A b \in Conn : Guarded(b)'
  <2>1. \A b \in Conn : Guarding(b)' => Guarding(b) /\ task'[b].env = task[b].env
    BY DEF SameTask, Guarding
  <2>2. \A b \in Conn : Guarded(b)
    BY DEF Durable
  <2>3. QED
    BY <2>1, <2>2, GuardsStay DEF Guarded
<1>5. QED
  BY <1>2, <1>3, <1>4 DEF Durable

\* A complete item changes, in memory and in its record.
LEMMA DurableKeep ==
    ASSUME TypeOK, Durable, UNCHANGED <<receipts, read, aside, now, uploading, toldHeld>>,
           NEW i \in Id, NEW it \in Item, items[i] # None, it.state = "held",
           it.env = items[i].env, disk[i].payload = it.env.size,
           items' = [items EXCEPT ![i] = it], disk' = Saved(disk, i, it),
           \A c \in Conn :
              /\ Guarding(c)' => Guarding(c) /\ task'[c].env = task[c].env
              /\ Guarding(c) /\ task[c].env.id # i => SameTask(c)
              /\ Guarding(c) /\ task[c].env.id = i => task'[c].pc \in {"held", "drop"}
    PROVE  Durable'
<1>0. /\ task \in [Conn -> Task] /\ disk \in [Id -> MaybeDir] /\ items \in [Id -> MaybeItem]
      /\ disk[i] \in Dir /\ disk[i].header
  BY TypeSplit DEF StoreType, OtherType, Durable, Stored, MaybeDir
<1>1. /\ items'[i] = it /\ disk'[i] = [disk[i] EXCEPT !.record = it] /\ disk'[i] # None
      /\ \A j \in Id \ {i} : items'[j] = items[j] /\ disk'[j] = disk[j]
  <2>1. disk[i] # None /\ [disk[i] EXCEPT !.record = it] \in Dir
    BY <1>0, NoneAssumption DEF Dir
  <2>2. QED
    BY <1>0, <2>1, NoneAssumption DEF Saved
<1>2. ASSUME NEW j \in Id
      PROVE  Stored(j)'
  <2>1. CASE j = i
    <3>1. disk'[i].header /\ disk'[i].record = it /\ disk'[i].payload = it.env.size
      BY <1>0, <1>1 DEF Dir
    <3>2. i \in toldHeld => aside[i] # None \/ it.state = "held"
      OBVIOUS
    <3>3. it # None
      BY NoneAssumption
    <3>4. QED
      BY ZenonT(60), <1>1, <2>1, <3>1, <3>2, <3>3 DEF Stored
  <2>2. CASE j # i
    BY <1>1, <2>2, StoredStays DEF Durable, StaysPut
  <2>3. QED
    BY <2>1, <2>2
<1>3. ASSUME NEW b \in Conn
      PROVE  Works(b)'
  <2>1. Works(b)
    BY DEF Durable
  <2>2. CASE Guarding(b) /\ task[b].env.id = i
    <3>1. task'[b].pc \in {"held", "drop"} /\ task'[b].env = task[b].env /\ it # None
      BY <2>2, NoneAssumption DEF Guarding
    <3>2. QED
      BY <1>1, <2>2, <3>1 DEF Works
  <2>3. CASE Guarding(b) /\ task[b].env.id # i
    BY <1>0, <1>1, <2>1, <2>3, GuardingType, WorksStays DEF StaysPut
  <2>4. CASE ~ Guarding(b)
    BY <2>4 DEF Works, Guarding
  <2>5. QED
    BY <2>2, <2>3, <2>4
<1>4. \A b \in Conn : Guarded(b)'
  <2>1. \A b \in Conn : Guarded(b)
    BY DEF Durable
  <2>2. QED
    BY <2>1, GuardsStay DEF Guarded
<1>5. QED
  BY <1>2, <1>3, <1>4 DEF Durable

\* A handler without a guard moves.
LEMMA DurableUnguarded ==
    ASSUME Durable, UNCHANGED <<items, receipts, disk, read, aside, now, uploading>>,
           TellsTruly, NEW c \in Conn, ~ Guarding(c), ~ Guarding(c)', \A b \in Conn \ {c} : SameTask(b)
    PROVE  Durable'
<1>1. ASSUME NEW b \in Conn
      PROVE  Works(b)'
  <2>1. CASE b = c
    BY <2>1 DEF Works, Guarding
  <2>2. CASE b # c
    BY <2>2, WorksStays DEF Durable, StaysPut
  <2>3. QED
    BY <2>1, <2>2
<1>2. \A b \in Conn : Guarded(b)'
  <2>1. \A b \in Conn : Guarding(b)' => Guarding(b) /\ task'[b].env = task[b].env
    BY DEF SameTask, Guarding
  <2>2. \A b \in Conn : Guarded(b)
    BY DEF Durable
  <2>3. QED
    BY <2>1, <2>2, GuardsStay DEF Guarded
<1>3. QED
  BY <1>1, <1>2, DurableSame

\* A handler is admitted and takes its guard.
LEMMA DurableAdmit ==
    ASSUME Sound, TypeOK, Durable, NEW c \in Conn, NEW k, k = task[c].env.id,
           AdmitResume(c) \/ AdmitNew(c)
    PROVE  Durable'
<1> USE DEF store, root, env
<1>0. /\ StoreType /\ OtherType /\ task[c].pc = "arrived" /\ k \in Id /\ task[c].env \in Envelope
      /\ task[c] \in Task \ {IdleTask} /\ now \in Nat
  <2>1. task[c].pc = "arrived" /\ task[c].pc # "idle"
    BY DEF AdmitResume, AdmitNew
  <2>2. QED
    BY <2>1, TypeSplit, TaskType DEF OtherType
<1>1. /\ uploading' = uploading \cup {k} /\ now' = now
      /\ task'[c].pc = "admitted" /\ task'[c].env = task[c].env
      /\ \A b \in Conn \ {c} : SameTask(b)
  <2>1. uploading' = uploading \cup {k} /\ now' = now
    BY DEF AdmitResume, AdmitNew
  <2>2. \E n : task' = [task EXCEPT ![c] = [task[c] EXCEPT !.pc = "admitted", !.cfg = None, !.have = n]]
    BY DEF AdmitResume, AdmitNew, Become
  <2>3. \A n : LET t == [task[c] EXCEPT !.pc = "admitted", !.cfg = None, !.have = n]
               IN  t.pc = "admitted" /\ t.env = task[c].env
    BY <1>0 DEF Task
  <2>4. QED
    BY <1>0, <2>1, <2>2, <2>3 DEF SameTask, OtherType
<1>2. ASSUME \A b \in Conn : Guarding(b) => task[b].env.id # k
      PROVE  \A b \in Conn : Guarded(b)'
  BY <1>0, <1>1, <1>2 DEF Durable, Guarded, SameTask, Guarding
<1>3. CASE AdmitResume(c)
  <2>1. UNCHANGED <<items, receipts, disk, read, aside, toldHeld>>
    BY <1>3 DEF AdmitResume
  <2>2. \A b \in Conn : Guarding(b) => task[b].env.id # k
    BY <1>3 DEF AdmitResume, CanResume, Durable, Guarded
  <2>3. Works(c)'
    BY <1>1, <1>3, <2>1 DEF AdmitResume, CanResume, Works, Guarding
  <2>4. \A b \in Conn \ {c} : Works(b)'
    BY <1>1, <2>1, WorksStays DEF Durable, StaysPut
  <2>5. QED
    BY <1>2, <2>1, <2>2, <2>3, <2>4, DurableSame DEF TellsTruly
<1>4. CASE AdmitNew(c)
  <2> DEFINE it == NewItem(task[c].env, task[c].all)
             old == IF disk[k] = None THEN EmptyDir ELSE disk[k]
             dir == [old EXCEPT !.header = TRUE, !.record = it]
  <2>1. /\ items' = [items EXCEPT ![k] = it] /\ disk' = [disk EXCEPT ![k] = dir]
        /\ read' = [read EXCEPT ![k] = {}] /\ toldHeld' = toldHeld \ {k}
        /\ UNCHANGED <<receipts, aside>> /\ receipts[k] = None /\ items[k] = None
    BY <1>4 DEF AdmitNew, CanStore
  <2>2. it \in Item /\ it.state = "uploading" /\ it.env = task[c].env
    BY <1>0, NewItemType DEF Task, NewItem
  <2>3. dir \in Dir /\ dir.header /\ dir.record = it
    BY <1>0, <2>2 DEF EmptyDir, StoreType, MaybeDir, Dir, NoFile
  <2> HIDE DEF it, dir
  <2>4. /\ items'[k] = it /\ disk'[k] = dir /\ read'[k] = {} /\ it # None /\ dir # None
        /\ \A j \in Id \ {k} : StaysPut(j) /\ read'[j] = read[j]
    BY <1>0, <2>1, <2>2, <2>3, NoneAssumption DEF StoreType, OtherType, StaysPut
  <2>5. \A b \in Conn : Guarding(b) => task[b].env.id # k
    BY <2>1 DEF Durable, Works
  <2>6. Works(c)'
    BY <1>1, <2>2, <2>4 DEF Works, Guarding
  <2>7. ASSUME NEW b \in Conn \ {c}
        PROVE  Works(b)'
    <3>1. Guarding(b) => task[b].env.id \in Id \ {k}
      BY <1>0, <2>5, GuardingType DEF OtherType
    <3>2. QED
      BY <1>1, <2>4, <3>1, WorksStays DEF Durable
  <2>8. ASSUME NEW j \in Id
        PROVE  Stored(j)'
    <3>1. CASE j = k
      BY <2>1, <2>2, <2>3, <2>4, <3>1 DEF Stored
    <3>2. CASE j # k
      BY <2>1, <2>4, <3>2, StoredStays DEF Durable
    <3>3. QED
      BY <3>1, <3>2
  <2>9. QED
    BY <1>2, <2>5, <2>6, <2>7, <2>8 DEF Durable
<1>5. QED
  BY <1>3, <1>4

\* What a handler's own step may do to its item.
LEMMA DurableUpload ==
    ASSUME TypeOK, Durable, NEW c \in Conn, NEW k, k = task[c].env.id,
           StartStream(c) \/ Stream(c) \/ Rename(c)
    PROVE  Durable'
<1> USE DEF store, root, env
<1>0. /\ StoreType /\ OtherType /\ Guarding(c) /\ k \in Id /\ task[c].env \in Envelope
      /\ task[c] \in Task \ {IdleTask} /\ now \in Nat /\ task[c].have \in Nat
  <2>1. Guarding(c) /\ task[c].pc # "idle"
    BY DEF StartStream, Stream, Rename, Guarding
  <2>2. QED
    BY <2>1, TypeSplit, TaskType DEF OtherType
<1>1. /\ items[k] # None /\ items[k].state = "uploading" /\ items[k].env = task[c].env
      /\ disk[k] # None /\ disk[k] \in Dir
  <2>1. items[k] # None /\ items[k].state = "uploading" /\ items[k].env = task[c].env
    BY DEF Durable, Works, StartStream, Stream, Rename
  <2>2. QED
    BY <1>0, <2>1 DEF Durable, Stored, StoreType, MaybeDir
<1>2. UNCHANGED <<items, receipts, read, aside, now, uploading, toldHeld>>
  BY DEF StartStream, Stream, Rename
<1>3. CASE StartStream(c)
  <2> DEFINE d == [disk[k] EXCEPT !.part = task[c].have, !.touched = now]
             t == [task[c] EXCEPT !.pc = "stream", !.bell = TRUE]
  <2>1. d \in Dir /\ d.header = disk[k].header /\ d.record = disk[k].record /\ d.part = task[c].have
    BY <1>0, <1>1 DEF Dir
  <2>2. t.pc = "stream" /\ t.env = task[c].env /\ t.have = task[c].have
    BY <1>0 DEF Task
  <2>3. disk' = [disk EXCEPT ![k] = d] /\ task' = [task EXCEPT ![c] = t]
    BY <1>1, <1>3 DEF StartStream, Become
  <2> HIDE DEF d, t
  <2>4. disk'[k] = d /\ task'[c] = t /\ \A b \in Conn \ {c} : SameTask(b)
    BY <1>0, <2>3 DEF StoreType, OtherType, SameTask
  <2>5. Works(c)'
    BY <1>1, <1>2, <2>1, <2>2, <2>4 DEF Works, Guarding
  <2>6. QED
    BY <1>0, <1>1, <1>2, <2>1, <2>2, <2>3, <2>4, <2>5, DurableFiles
<1>4. CASE Stream(c)
  <2> DEFINE d == [disk[k] EXCEPT !.part = task[c].have + 1, !.touched = now]
             t == [task[c] EXCEPT !.have = task[c].have + 1]
  <2>0. task[c].have + 1 \in Nat
    BY <1>0
  <2>1. d \in Dir /\ d.header = disk[k].header /\ d.record = disk[k].record /\ d.part = task[c].have + 1
    BY <1>0, <1>1, <2>0 DEF Dir
  <2>2. t.pc = "stream" /\ t.env = task[c].env /\ t.have = task[c].have + 1
    BY <1>0, <1>4 DEF Task, Stream
  <2>3. disk' = [disk EXCEPT ![k] = d] /\ task' = [task EXCEPT ![c] = t]
    BY <1>1, <1>4 DEF Stream, Become
  <2> HIDE DEF d, t
  <2>4. disk'[k] = d /\ task'[c] = t /\ \A b \in Conn \ {c} : SameTask(b)
    BY <1>0, <2>3 DEF StoreType, OtherType, SameTask
  <2>5. Works(c)'
    BY <1>1, <1>2, <2>1, <2>2, <2>4 DEF Works, Guarding
  <2>6. QED
    BY <1>0, <1>1, <1>2, <2>1, <2>2, <2>3, <2>4, <2>5, DurableFiles
<1>5. CASE Rename(c)
  <2> DEFINE d == [disk[k] EXCEPT !.payload = disk[k].part, !.part = NoFile, !.touched = 0]
  <2>0. disk[k].part = task[c].have /\ task[c].have = task[c].env.size /\ task[c].pc = "stream"
    BY <1>5 DEF Durable, Works, Rename
  <2>1. disk[k].part # NoFile
    BY <1>0, <2>0 DEF NoFile
  <2>2. d \in Dir /\ d.header = disk[k].header /\ d.record = disk[k].record
        /\ d.payload = task[c].env.size
    BY <1>0, <1>1, <2>0 DEF Dir, NoFile
  <2>3. disk' = [disk EXCEPT ![k] = d] /\ At(c, "renamed")
    BY <1>1, <1>5, <2>1 DEF Rename
  <2> HIDE DEF d
  <2>4. GoesTo(c, "renamed")
    BY <1>0, <2>0, <2>3, AtEffect DEF OtherType
  <2>5. disk'[k] = d
    BY <1>0, <2>3 DEF StoreType
  <2>6. Works(c)'
    BY <1>1, <1>2, <2>2, <2>4, <2>5 DEF Works, Guarding, GoesTo
  <2>7. QED
    BY <1>0, <1>1, <1>2, <2>2, <2>3, <2>4, <2>6, DurableFiles DEF GoesTo
<1>6. QED
  BY <1>3, <1>4, <1>5

\* The end of an upload: stored, canceled or refused.
LEMMA DurableEnd ==
    ASSUME Sound, TypeOK, LedgerTrue, Durable, NEW c \in Conn, NEW k, k = task[c].env.id,
           LocalStore(c) \/ AfterFail(c) \/ MarkHeld(c)
    PROVE  Durable'
<1> USE DEF store, root, env
<1>0. /\ StoreType /\ OtherType /\ Guarding(c) /\ k \in Id /\ task[c].env \in Envelope
      /\ task[c] \in Task \ {IdleTask} /\ now \in Nat /\ task[c].pc # "idle"
  <2>1. Guarding(c) /\ task[c].pc # "idle"
    BY DEF LocalStore, AfterFail, MarkHeld, Guarding
  <2>2. QED
    BY <2>1, TypeSplit, TaskType DEF OtherType
<1>1. /\ items[k] # None /\ items[k].state = "uploading" /\ items[k].env = task[c].env
      /\ disk[k] # None /\ disk[k] \in Dir /\ items[k] \in Item
  <2>1. items[k] # None /\ items[k].state = "uploading" /\ items[k].env = task[c].env
    BY DEF Durable, Works, LocalStore, AfterFail, MarkHeld
  <2>2. QED
    BY <1>0, <2>1 DEF Durable, Stored, StoreType, MaybeDir, MaybeItem
<1>2. UNCHANGED <<read, now, uploading>>
  BY <1>1 DEF LocalStore, AfterFail, MarkHeld
<1>3. ASSUME NEW st \in Final, Finish({k}, st, items), At(c, "drop")
      PROVE  Durable'
  <2>1. GoesTo(c, "drop")
    BY <1>0, <1>3, AtEffect DEF OtherType
  <2>2. /\ {k} \in SUBSET Id /\ items \in [Id -> MaybeItem]
        /\ \A i \in {k} : items[i] \in Item
    BY <1>0, <1>1 DEF StoreType
  <2>3. \A b \in Conn : \/ /\ SameTask(b)
                           /\ Guarding(b) /\ task[b].env.id \in {k} => task[b].pc \in {"held", "drop"}
                        \/ /\ Guarding(b) /\ task[b].env.id \in {k}
                           /\ task'[b].env = task[b].env /\ task'[b].pc = "drop"
    BY <1>0, <2>1 DEF GoesTo, Durable, Guarded
  <2>4. QED
    BY <1>2, <1>3, <2>2, <2>3, DurableFinish
<1>4. ASSUME UNCHANGED <<items, receipts, disk, aside, toldHeld>>, At(c, "drop")
      PROVE  Durable'
  <2>1. GoesTo(c, "drop")
    BY <1>0, <1>4, AtEffect DEF OtherType
  <2>2. QED
    BY <1>0, <1>2, <1>4, <2>1, DurableAt DEF TellsTruly
<1>5. CASE LocalStore(c)
  <2>1. CASE task[c].env.size = 0
    <3> DEFINE d == [disk[k] EXCEPT !.payload = 0]
    <3>1. d \in Dir /\ d.header = disk[k].header /\ d.record = disk[k].record /\ d.payload = 0
      BY <1>1 DEF Dir
    <3>2. disk' = [disk EXCEPT ![k] = d] /\ At(c, "renamed")
          /\ UNCHANGED <<items, receipts, aside, toldHeld>>
      BY <1>1, <1>5, <2>1 DEF LocalStore
    <3> HIDE DEF d
    <3>3. GoesTo(c, "renamed") /\ disk'[k] = d
      BY <1>0, <3>2, AtEffect DEF OtherType, StoreType
    <3>4. Works(c)'
      BY <1>1, <1>2, <2>1, <3>1, <3>2, <3>3 DEF Works, Guarding, GoesTo
    <3>5. QED
      BY <1>0, <1>1, <1>2, <3>1, <3>2, <3>3, <3>4, DurableFiles DEF GoesTo
  <2>2. CASE task[c].env.size # 0
    BY <1>1, <1>3, <1>4, <1>5, <2>2 DEF LocalStore, Final
  <2>3. QED
    BY <2>1, <2>2
<1>6. CASE AfterFail(c)
  BY <1>1, <1>3, <1>4, <1>6 DEF AfterFail, Final
<1>7. CASE MarkHeld(c)
  <2> DEFINE it == [items[k] EXCEPT !.state = "held"]
  <2>1. \/ Finish({k}, "canceled", items) /\ At(c, "drop")
        \/ UNCHANGED <<items, receipts, disk, aside, toldHeld>> /\ At(c, "drop")
        \/ /\ items' = [items EXCEPT ![k] = it] /\ disk' = Saved(disk, k, it) /\ At(c, "held")
           /\ UNCHANGED <<receipts, aside, toldHeld>>
    BY <1>1, <1>7 DEF MarkHeld, Sound, Upset
  <2>2. it \in Item /\ it.state = "held" /\ it.env = items[k].env
    BY <1>1 DEF Item
  <2>3. disk[k].payload = it.env.size
    <3>1. task[c].pc = "renamed" /\ Works(c)
      BY <1>7 DEF MarkHeld, Durable
    <3>2. disk[k].payload = task[c].env.size /\ items[k].env = task[c].env
      BY <1>1, <3>1 DEF Works
    <3>3. QED
      BY <2>2, <3>2
  <2> HIDE DEF it
  <2>4. CASE /\ items' = [items EXCEPT ![k] = it] /\ disk' = Saved(disk, k, it) /\ At(c, "held")
             /\ UNCHANGED <<receipts, aside, toldHeld>>
    <3>1. GoesTo(c, "held")
      BY <1>0, <2>4, AtEffect DEF OtherType
    <3>2. \A b \in Conn :
             /\ Guarding(b)' => Guarding(b) /\ task'[b].env = task[b].env
             /\ Guarding(b) /\ task[b].env.id # k => SameTask(b)
             /\ Guarding(b) /\ task[b].env.id = k => task'[b].pc \in {"held", "drop"}
      BY <1>0, <3>1 DEF GoesTo, SameTask, Guarding, Durable, Guarded
    <3>3. QED
      BY <1>0, <1>1, <1>2, <2>2, <2>3, <2>4, <3>2, DurableKeep
  <2>5. QED
    BY <1>3, <1>4, <2>1, <2>4 DEF Final
<1>8. QED
  BY <1>5, <1>6, <1>7

\* The other steps of a handler: they change no item.
LEMMA DurableHandler ==
    ASSUME Sound, TypeOK, Durable, NEW c \in Conn, NEW k, k = task[c].env.id,
           \/ AdmitFault(c) \/ AdmitHeld(c) \/ AdmitRefuse(c) \/ ReplyLost(c) \/ StreamFail(c)
           \/ ReplyHeld(c) \/ DropMark(c) \/ DropBell(c)
    PROVE  Durable'
<1> USE DEF store, root, env
<1>0. OtherType /\ task \in [Conn -> Task] /\ task[c].pc # "idle"
      /\ task[c].env \in Envelope /\ k \in Id
  <2>1. task[c].pc # "idle"
    BY DEF AdmitFault, AdmitHeld, AdmitRefuse, ReplyLost, StreamFail, ReplyHeld, DropMark, DropBell
  <2>2. QED
    BY <2>1, TypeSplit, TaskType DEF OtherType
<1>1. ~ AdmitFault(c)
  BY DEF AdmitFault, Sound, Upset
<1>2. CASE AdmitHeld(c) \/ AdmitRefuse(c)
  <2>1. /\ UNCHANGED <<items, receipts, disk, read, aside, now, uploading>>
        /\ task' = [task EXCEPT ![c] = IdleTask] /\ task[c].pc = "arrived"
    BY <1>2 DEF AdmitHeld, AdmitRefuse, Become
  <2>2. TellsTruly
    BY <1>0, <1>2 DEF AdmitHeld, AdmitRefuse, TellsTruly
  <2>3. ~ Guarding(c) /\ ~ Guarding(c)' /\ \A b \in Conn \ {c} : SameTask(b)
    BY <1>0, <2>1 DEF Guarding, SameTask, IdleTask
  <2>4. QED
    BY <2>1, <2>2, <2>3, DurableUnguarded
<1>3. CASE ReplyLost(c) \/ StreamFail(c)
  <2>1. PICK pc \in {"drop", "failed"} : /\ At(c, pc)
                                        /\ \/ pc = "drop" /\ Guarding(c)
                                           \/ pc = "failed" /\ task[c].pc = "stream"
    BY <1>3 DEF ReplyLost, StreamFail, Guarding
  <2>2. /\ UNCHANGED <<items, receipts, disk, read, aside, now, uploading>> /\ TellsTruly
    BY <1>3 DEF ReplyLost, StreamFail, TellsTruly
  <2>3. GoesTo(c, pc)
    BY <1>0, <2>1, AtEffect
  <2>4. QED
    BY <2>1, <2>2, <2>3, DurableAt
<1>4. CASE ReplyHeld(c)
  <2>1. /\ UNCHANGED <<items, receipts, disk, read, aside, now, uploading>>
        /\ At(c, "drop") /\ Guarding(c) /\ task[c].pc = "held"
    BY <1>4 DEF ReplyHeld, Guarding
  <2>2. items[k] # None => items[k].state = "held"
    BY <2>1 DEF Durable, Works
  <2>3. TellsTruly
    BY <1>4, <2>2 DEF ReplyHeld, TellsTruly, Live
  <2>4. GoesTo(c, "drop")
    BY <1>0, <2>1, AtEffect
  <2>5. QED
    BY <2>1, <2>3, <2>4, DurableAt
<1>5. CASE DropMark(c)
  <2>1. /\ UNCHANGED <<items, receipts, disk, read, aside, now>> /\ TellsTruly
        /\ At(c, "unbell") /\ Guarding(c) /\ uploading \ {k} \subseteq uploading'
    BY <1>5 DEF DropMark, Guarding, TellsTruly
  <2>2. GoesTo(c, "unbell")
    BY <1>0, <2>1, AtEffect
  <2>3. ASSUME NEW b \in Conn \ {c}
        PROVE  Works(b)' /\ Guarded(b)'
    <3>1. Works(b)'
      BY <2>1, <2>2, WorksStays DEF Durable, GoesTo, StaysPut
    <3>2. Guarded(b) /\ (Guarding(b) => task[b].env.id # k)
      BY <2>1 DEF Durable, Guarded
    <3>3. \A x \in Conn : Guarding(x)' => Guarding(x) /\ task'[x].env = task[x].env
      BY <2>2 DEF GoesTo, SameTask, Guarding
    <3>4. QED
      BY <2>1, <3>1, <3>2, <3>3 DEF Guarded
  <2>4. Works(c)' /\ Guarded(c)'
    BY <2>2 DEF GoesTo, Works, Guarded, Guarding
  <2>5. QED
    BY <2>1, <2>3, <2>4, DurableSame
<1>6. CASE DropBell(c)
  <2>1. /\ UNCHANGED <<items, receipts, disk, read, aside, now, uploading>> /\ TellsTruly
        /\ task[c].pc = "unbell" /\ task'[c] = IdleTask
    BY <1>6 DEF DropBell, TellsTruly
  <2>2. ASSUME NEW b \in Conn \ {c}
        PROVE  SameTask(b)
    <3>1. task'[b] = task[b] \/ (task[b].env # None /\ task'[b] = [task[b] EXCEPT !.bell = FALSE])
      BY <1>6 DEF DropBell
    <3>2. task[b] \in Task
      BY <1>0
    <3>3. QED
      BY <3>1, <3>2 DEF SameTask, Task, IdleTask
  <2>3. ~ Guarding(c) /\ ~ Guarding(c)'
    BY <2>1 DEF Guarding, IdleTask
  <2>4. QED
    BY <2>1, <2>2, <2>3, DurableUnguarded
<1>7. QED
  BY <1>1, <1>2, <1>3, <1>4, <1>5, <1>6

\* An ack or a refusal: only a complete item was read by anyone.
LEMMA DurableAck ==
    ASSUME Sound, TypeOK, LedgerTrue, Durable, NEW i \in Id, NEW d \in Device,
           AckOk(d, i) \/ AckRefuse(d, i)
    PROVE  Durable'
<1>1. /\ items[i] \in Item /\ items[i] # None /\ read[i] # {}
      /\ UNCHANGED <<now, read, uploading, task>> /\ items \in [Id -> MaybeItem]
  BY TypeSplit DEF AckOk, AckRefuse, StoreType, MaybeItem
<1>2. items[i].state = "held" /\ disk[i].payload = items[i].env.size
  BY <1>1 DEF Durable, Stored, Item
<1>3. \A c \in Conn : /\ SameTask(c)
                      /\ Guarding(c) /\ task[c].env.id = i => task[c].pc \in {"held", "drop"}
  BY <1>1, <1>2 DEF SameTask, Durable, Works, Guarding
<1>4. ASSUME NEW it \in Item, it.state = "held", it.env = items[i].env, NEW st \in Final,
             Finish({i}, st, [items EXCEPT ![i] = it])
      PROVE  Durable'
  <2> DEFINE its == [items EXCEPT ![i] = it]
  <2>1. its \in [Id -> MaybeItem] /\ its[i] = it /\ \A j \in Id \ {i} : its[j] = items[j]
    BY <1>1 DEF MaybeItem
  <2> HIDE DEF its
  <2>2. Finish({i}, st, its)
    BY <1>4 DEF its
  <2>3. {i} \in SUBSET Id /\ \A j \in {i} : its[j] \in Item
    BY <2>1
  <2>4. QED
    BY <1>1, <1>3, <2>1, <2>2, <2>3, DurableFinish
<1>5. ASSUME NEW it \in Item, it.state = "held", it.env = items[i].env, Keep(i, it)
      PROVE  Durable'
  <2>1. /\ items' = [items EXCEPT ![i] = it] /\ disk' = Saved(disk, i, it)
        /\ UNCHANGED <<receipts, aside, toldHeld>>
    BY <1>5 DEF Keep, Sound, Upset
  <2>2. \A c \in Conn :
           /\ Guarding(c)' => Guarding(c) /\ task'[c].env = task[c].env
           /\ Guarding(c) /\ task[c].env.id # i => SameTask(c)
           /\ Guarding(c) /\ task[c].env.id = i => task'[c].pc \in {"held", "drop"}
    BY <1>1, <1>3 DEF Guarding
  <2>3. disk[i].payload = it.env.size /\ UNCHANGED <<receipts, read, aside, now, uploading, toldHeld>>
    BY <1>1, <1>2, <1>5, <2>1
  <2>4. QED
    BY <1>1, <1>5, <2>1, <2>2, <2>3, DurableKeep
<1>6. CASE AckOk(d, i)
  <2> DEFINE it == [items[i] EXCEPT !.delivered = items[i].delivered \cup {d}]
  <2>1. it \in Item /\ it.state = "held" /\ it.env = items[i].env
    BY <1>1, <1>2 DEF Item
  <2>2. Keep(i, it) \/ Finish({i}, "delivered", [items EXCEPT ![i] = it])
    BY <1>6 DEF AckOk
  <2> HIDE DEF it
  <2>3. QED
    BY <1>4, <1>5, <2>1, <2>2 DEF Final
<1>7. CASE AckRefuse(d, i)
  <2> DEFINE it == [items[i] EXCEPT !.refused = items[i].refused \cup {d}]
             st == IF it.delivered = {} THEN "rejected" ELSE "delivered"
  <2>1. it \in Item /\ it.state = "held" /\ it.env = items[i].env /\ st \in Final
    BY <1>1, <1>2 DEF Item, Final
  <2>2. Keep(i, it) \/ Finish({i}, st, [items EXCEPT ![i] = it])
    BY <1>7 DEF AckRefuse
  <2> HIDE DEF it, st
  <2>3. QED
    BY <1>4, <1>5, <2>1, <2>2
<1>8. QED
  BY <1>6, <1>7

\* The collector's second lock spares every item a handler works on.
LEMMA DurableCollect ==
    ASSUME Sound, TypeOK, LedgerTrue, OneFate, Durable, mounted, GcApply
    PROVE  Durable'
<1>0. StoreType /\ OtherType /\ now \in Nat /\ Overdue \subseteq Live /\ Overdue \cap uploading = {}
  BY TypeSplit, LiveType DEF OtherType, Overdue
<1>1. UNCHANGED <<now, read, uploading, task>>
  BY DEF GcApply
<1>2. /\ \A i \in Overdue : Ends(i, items[i], "expired")
      /\ \A i \in Id \ Overdue :
            /\ items'[i] = items[i]
            /\ receipts[i] # None /\ receipts[i].at = now => receipts'[i] = receipts[i]
            /\ items[i] # None => disk'[i] = disk[i]
      /\ \A i \in Id : RecordKept(i)
      /\ \A i \in Id : aside'[i] = aside[i] \/ i \in Aged
      /\ toldHeld' = toldHeld \ (Overdue \cup Aged)
  BY <1>0, CollectEffect DEF Sound
<1>3. ASSUME NEW i \in Id
      PROVE  Stored(i)'
  <2>1. CASE i \in Overdue
    BY <1>1, <1>2, <2>1 DEF Durable, Stored, Ends, RecordKept
  <2>2. CASE i \notin Overdue
    <3>1. items'[i] = items[i] /\ (items[i] # None => disk'[i] = disk[i]) /\ RecordKept(i)
      BY <1>2, <2>2
    <3>2. i \in toldHeld' => i \in toldHeld /\ aside'[i] = aside[i]
      BY <1>2
    <3>3. QED
      BY <1>1, <3>1, <3>2 DEF Durable, Stored, RecordKept
  <2>3. QED
    BY <2>1, <2>2
<1>4. ASSUME NEW c \in Conn
      PROVE  Works(c)' /\ Guarded(c)'
  <2>1. CASE Guarding(c)
    <3>1. task[c].env.id \in Id \ Overdue
      BY <1>0, <2>1, GuardingType DEF Durable, Guarded, OtherType
    <3>2. QED
      BY <1>1, <1>2, <3>1 DEF Durable, Works, Guarded, Guarding
  <2>2. CASE ~ Guarding(c)
    BY <1>1, <2>2 DEF Works, Guarded, Guarding
  <2>3. QED
    BY <2>1, <2>2
<1>5. QED
  BY <1>3, <1>4 DEF Durable

\* A restart: what was promised is loaded again, or set aside.
LEMMA DurableCrash ==
    ASSUME Sound, TypeOK, LedgerTrue, OneFate, Durable, Crash
    PROVE  Durable'
<1>0. OtherType /\ now \in Nat /\ now # None
  BY TypeSplit, NoneAssumption DEF OtherType
<1>1. PICK bad : Load(disk, ledger, bad)
  BY DEF Crash
<1>2. read' = read /\ toldHeld' = toldHeld /\ task' = [c \in Conn |-> IdleTask]
  BY DEF Crash
<1>3. ASSUME NEW i \in Id
      PROVE  Stored(i)'
  <2>1. Stored(i) /\ (items[i] # None => ledger[i] = None)
    BY DEF Durable, LedgerTrue, OneFate, Live, Receipted
  <2>2. /\ items'[i] # None =>
              /\ disk[i] # None
              /\ disk[i].header /\ items'[i] = disk[i].record /\ disk'[i] = disk[i]
              /\ items'[i].state = "held" => disk[i].payload = items'[i].env.size
        /\ disk'[i] \in {disk[i], None}
        /\ /\ disk[i] # None /\ ledger[i] = None /\ disk[i].header
           /\ disk[i].record # None /\ i \notin bad
           /\ disk[i].record.state = "held" => disk[i].payload = disk[i].record.env.size
           => items'[i] = disk[i].record
        /\ aside'[i] = aside[i] \/ aside'[i] = now
        /\ i \in bad /\ disk[i] # None /\ ledger[i] = None => aside'[i] = now
    BY <1>1, LoadEffect
  <2>3. i \in toldHeld => aside'[i] # None \/ (items'[i] # None /\ items'[i].state = "held")
    BY <1>0, <2>1, <2>2 DEF Stored
  <2>4. QED
    BY <1>2, <2>1, <2>2, <2>3 DEF Stored
<1>4. ASSUME NEW c \in Conn
      PROVE  Works(c)' /\ Guarded(c)'
  BY <1>2 DEF Works, Guarded, Guarding, IdleTask
<1>5. QED
  BY <1>3, <1>4 DEF Durable

\* Requests, time and the storage going away and coming back.
LEMMA DurableWorld ==
    ASSUME Sound, TypeOK, LedgerTrue, Durable,
           \/ \E c \in Conn, q \in Request : Deposit(c, q)
           \/ \E c, b \in Conn : Supersede(c, b)
           \/ \E i \in Id : Cancel(i)
           \/ \E i \in Id, d \in Device : Fetch(d, i)
           \/ Tick \/ Wipe \/ \E p \in Person : RemovePerson(p)
    PROVE  Durable'
<1> USE DEF store, root, env
<1>0. StoreType /\ OtherType /\ task \in [Conn -> Task]
  BY TypeSplit DEF OtherType
<1>1. ASSUME NEW c \in Conn, NEW q \in Request, Deposit(c, q)
      PROVE  Durable'
  <2>1. /\ UNCHANGED <<items, receipts, disk, read, aside, now, uploading>> /\ TellsTruly
        /\ task[c] = IdleTask /\ task'[c].pc = "arrived" /\ \A b \in Conn \ {c} : SameTask(b)
    BY <1>0, <1>1 DEF Deposit, Become, IdleTask, SameTask, TellsTruly
  <2>2. ~ Guarding(c) /\ ~ Guarding(c)'
    BY <2>1 DEF Guarding, IdleTask
  <2>3. QED
    BY <2>1, <2>2, DurableUnguarded
<1>2. ASSUME NEW c \in Conn, NEW b \in Conn, Supersede(c, b)
      PROVE  Durable'
  <2>1. /\ UNCHANGED <<items, receipts, disk, read, aside, now, uploading>> /\ TellsTruly
        /\ task[b].pc = "stream" /\ At(b, "failed")
    BY <1>2 DEF Supersede, TellsTruly
  <2>2. GoesTo(b, "failed")
    BY <1>0, <2>1, AtEffect
  <2>3. QED
    BY <2>1, <2>2, DurableAt
<1>3. ASSUME NEW i \in Id, Cancel(i)
      PROVE  Durable'
  <2>1. UNCHANGED <<now, read, uploading, task>> /\ i \in Live
    BY <1>3 DEF Cancel, Live
  <2>2. CASE i \in uploading
    <3>1. UNCHANGED <<items, receipts, uploading, disk, aside, read, task, now, toldHeld>>
      BY <1>3, <2>1, <2>2 DEF Cancel, root
    <3>2. (\A j \in Id : Stored(j)') /\ \A c \in Conn : Works(c)' /\ Guarded(c)'
      BY <3>1 DEF Durable, Stored, Works, Guarded, Guarding
    <3>3. QED
      BY <3>2 DEF Durable
  <2>3. CASE i \notin uploading
    <3>1. Finish({i}, "canceled", items) /\ {i} \in SUBSET (Live \ uploading) /\ "canceled" \in Final
      BY <1>3, <2>1, <2>3 DEF Cancel, Final
    <3>2. QED
      BY <2>1, <3>1, DurableDrop
  <2>4. QED
    BY <2>2, <2>3
<1>4. ASSUME NEW i \in Id, NEW d \in Device, Fetch(d, i)
      PROVE  Durable'
  <2>1. /\ UNCHANGED <<items, receipts, disk, aside, now, uploading, task, toldHeld>>
        /\ items[i] # None /\ items[i].state = "held"
        /\ \A j \in Id \ {i} : read'[j] = read[j]
    BY <1>0, <1>4 DEF Fetch, OtherType
  <2>2. \A j \in Id : Stored(j)'
    BY <2>1 DEF Durable, Stored
  <2>3. \A c \in Conn : Works(c)' /\ Guarded(c)'
    BY <2>1 DEF Durable, Works, Guarded, Guarding
  <2>4. QED
    BY <2>2, <2>3 DEF Durable
<1>5. CASE Tick
  <2>1. /\ UNCHANGED <<items, receipts, disk, aside, uploading, task, toldHeld, read>>
        /\ \A c \in Conn : task[c].pc \in {"idle", "stream"}
    BY <1>5 DEF Tick
  <2>2. \A c \in Conn : Works(c)' /\ Guarded(c)'
    BY <2>1 DEF Durable, Works, Guarded, Guarding
  <2>3. QED
    BY <2>1, <2>2 DEF Durable, Stored
<1>6. CASE Wipe \/ \E p \in Person : RemovePerson(p)
  <2>1. /\ UNCHANGED <<now, read, uploading, task>>
        /\ \E S \in SUBSET (Live \ uploading) : Finish(S, "rejected", items)
    BY <1>0, <1>6, LiveType DEF Wipe, RemovePerson
  <2>2. QED
    BY <2>1, DurableDrop DEF Final
<1>7. QED
  BY <1>1, <1>2, <1>3, <1>4, <1>5, <1>6

LEMMA DurableStep ==
    ASSUME Sound, TypeOK, LedgerTrue, OneFate, Durable, [Next]_vars
    PROVE  Durable'
<1> USE DEF store, root, env
<1>1. ASSUME UNCHANGED <<items, receipts, disk, read, aside, toldHeld, now, uploading, task>>
      PROVE  Durable'
  BY <1>1 DEF Durable, Stored, Works, Guarded, Guarding
<1>2. CASE UNCHANGED vars
  BY <1>1, <1>2 DEF vars
<1>3. CASE GcScan \/ Pause \/ Enable \/ Unmount \/ Mount \/ \E p \in Person : RestorePerson(p)
  BY <1>1, <1>3 DEF GcScan, Pause, Enable, Unmount, Mount, RestorePerson
<1>4. CASE GcApply
  <2>1. CASE mounted
    BY <1>4, <2>1, DurableCollect
  <2>2. CASE ~ mounted
    BY <1>1, <1>4, <2>2 DEF GcApply
  <2>3. QED
    BY <2>1, <2>2
<1>5. ~ Disable({}) /\ ~ Disable(Live \ uploading)
  BY DEF Disable, Sound, Upset
<1>6. CASE Crash
  BY <1>6, DurableCrash
<1>7. ASSUME NEW c \in Conn, Progress(c)
      PROVE  Durable'
  <2>1. \E k : k = task[c].env.id
    OBVIOUS
  <2>2. QED
    BY <1>7, <2>1, DurableAdmit, DurableUpload, DurableEnd, DurableHandler DEF Progress
<1>8. ASSUME NEW i \in Id, NEW d \in Device, AckOk(d, i) \/ AckRefuse(d, i)
      PROVE  Durable'
  BY <1>8, DurableAck
<1>9. CASE \/ \E c \in Conn, q \in Request : Deposit(c, q)
           \/ \E c, b \in Conn : Supersede(c, b)
           \/ \E i \in Id : Cancel(i)
           \/ \E i \in Id, d \in Device : Fetch(d, i)
           \/ Tick \/ Wipe \/ \E p \in Person : RemovePerson(p)
  BY <1>9, DurableWorld
<1>10. QED
  BY <1>2, <1>3, <1>4, <1>5, <1>6, <1>7, <1>8, <1>9 DEF Next

\* The invariant: receipts are true, and items are durable.
Safe == Honest /\ Durable

LEMMA SafeStart ==
    ASSUME Init
    PROVE  Safe
<1>1. Durable
  BY DEF Init, Durable, Stored, Works, Guarded, Guarding, IdleTask
<1>2. QED
  BY <1>1, HonestStart DEF Safe

LEMMA SafeStep ==
    ASSUME Sound, TypeOK, Safe, [Next]_vars
    PROVE  Safe'
BY HonestStep, DurableStep DEF Safe, Honest, Fate, Sound

LEMMA SafeAlways ==
    ASSUME Sound
    PROVE  Spec => [](TypeOK /\ Safe)
<1>1. Init => Safe
  BY SafeStart
<1>2. TypeOK /\ Safe /\ [Next]_vars => Safe'
  BY SafeStep
<1>3. QED
  BY <1>1, <1>2, TypeCorrect, PTL DEF Spec

\* While records and receipts can be written and the server is not switched off
\* in the middle of its work: a process that died at any moment would load back
\* exactly the items it holds in memory, and none it has a receipt for.
THEOREM CrashConsistentAlways ==
    ASSUME Sound
    PROVE  Spec => []CrashConsistent
<1>1. TypeOK /\ Safe => CrashConsistent
  <2>1. ASSUME TypeOK, Safe, NEW i \in Id, items[i] # None
        PROVE  Recover(disk, ledger, i) = items[i]
    <3>1. ledger[i] = None
      BY <2>1 DEF Safe, Honest, Fate, OneFate, LedgerTrue, Live, Receipted
    <3>2. QED
      BY <2>1, <3>1 DEF Safe, Durable, Stored, Recover
  <2>2. ASSUME Safe, NEW i \in Id, receipts[i] # None
        PROVE  Recover(disk, ledger, i) = None
    BY <2>2 DEF Safe, Honest, LedgerTrue, Recover
  <2>3. QED
    BY <2>1, <2>2 DEF CrashConsistent
<1>2. QED
  BY <1>1, SafeAlways, PTL

\* Under the same conditions an item the sender was told is "held" is complete
\* on disk and would be loaded again, until it ends or its folder is set aside.
THEOREM HeldIsDurableAlways ==
    ASSUME Sound
    PROVE  Spec => []HeldIsDurable
<1>1. TypeOK /\ Safe => HeldIsDurable
  <2>1. SUFFICES ASSUME TypeOK, Safe, NEW i \in toldHeld, aside[i] = None
                 PROVE  /\ items[i] # None /\ items[i].state = "held"
                        /\ Recover(disk, ledger, i) = items[i]
    BY DEF HeldIsDurable
  <2>2. i \in Id
    BY <2>1 DEF TypeOK
  <2>3. items[i] # None /\ items[i].state = "held"
    BY <2>1, <2>2 DEF Safe, Durable, Stored
  <2>4. ledger[i] = None
    BY <2>1, <2>2, <2>3 DEF Safe, Honest, Fate, OneFate, LedgerTrue, Live, Receipted
  <2>5. QED
    BY <2>1, <2>2, <2>3, <2>4 DEF Safe, Durable, Stored, Recover
<1>2. QED
  BY <1>1, SafeAlways, PTL

\* An item that goes leaves its receipt, or its folder in quarantine.
LeavesWord ==
    \A i \in Id : items[i] # None /\ items'[i] = None
                 => receipts'[i] # None \/ aside'[i] # None

LEMMA WordOfFinish ==
    ASSUME ReceiptsKept, StoreType, now \in Nat, LedgerTrue,
           NEW S \in SUBSET Id, NEW st \in Final, NEW its \in [Id -> MaybeItem],
           \A i \in S : its[i] \in Item, \A i \in Id \ S : its[i] = items[i],
           Finish(S, st, its)
    PROVE  LeavesWord
BY FinishEffect DEF LeavesWord, Ends, StaysPut

LEMMA WordOfDrop ==
    ASSUME ReceiptsKept, StoreType, now \in Nat, LedgerTrue,
           NEW S \in SUBSET Live, NEW st \in Final, Finish(S, st, items)
    PROVE  LeavesWord
<1>1. S \in SUBSET Id /\ items \in [Id -> MaybeItem] /\ \A i \in S : items[i] \in Item
  BY LiveType DEF StoreType
<1>2. QED
  BY <1>1, WordOfFinish

\* Every step leaves word of the items it takes away.
LEMMA WordStep ==
    ASSUME Sound, TypeOK, Safe, [Next]_vars
    PROVE  LeavesWord
<1> USE DEF store, root, env
<1>0. StoreType /\ OtherType /\ now \in Nat /\ now # None /\ LedgerTrue /\ OneFate /\ ReceiptsKept
  BY TypeSplit, NoneAssumption DEF OtherType, Safe, Honest, Fate, Sound
<1>1. ASSUME items' = items
      PROVE  LeavesWord
  BY <1>1 DEF LeavesWord
<1>2. ASSUME NEW i \in Id, NEW it \in Item, items' = [items EXCEPT ![i] = it]
      PROVE  LeavesWord
  <2>1. it # None /\ \A j \in Id : items'[j] = IF j = i THEN it ELSE items[j]
    BY <1>0, <1>2, NoneAssumption DEF StoreType
  <2>2. QED
    BY <2>1 DEF LeavesWord
<1>3. CASE UNCHANGED vars \/ GcScan \/ Pause \/ Enable \/ Unmount \/ Mount \/ Tick
           \/ (\E p \in Person : RestorePerson(p))
           \/ (\E c \in Conn, q \in Request : Deposit(c, q))
           \/ (\E c, b \in Conn : Supersede(c, b))
           \/ (\E i \in Id, d \in Device : Fetch(d, i))
  BY <1>1, <1>3 DEF vars, GcScan, Pause, Enable, Unmount, Mount, Tick, RestorePerson, Deposit,
                    Supersede, Fetch
<1>4. CASE GcApply
  <2>1. CASE mounted
    BY <1>0, <1>4, <2>1, CollectEffect DEF LeavesWord, Ends
  <2>2. CASE ~ mounted
    BY <1>1, <1>4, <2>2 DEF GcApply
  <2>3. QED
    BY <2>1, <2>2
<1>5. CASE Wipe \/ \E p \in Person : RemovePerson(p)
  <2>1. \E S \in SUBSET Live : Finish(S, "rejected", items)
    BY <1>0, <1>5, LiveType DEF Wipe, RemovePerson
  <2>2. QED
    BY <1>0, <2>1, WordOfDrop DEF Final
<1>6. ~ Disable({}) /\ ~ Disable(Live \ uploading)
  BY DEF Disable, Sound, Upset
<1>7. CASE Crash
  <2>1. PICK bad : Load(disk, ledger, bad)
    BY <1>7 DEF Crash
  <2>2. SUFFICES ASSUME NEW i \in Id, items[i] # None, items'[i] = None
                 PROVE  aside'[i] # None
    BY DEF LeavesWord
  <2>3. ledger[i] = None /\ Stored(i)
    BY <1>0, <2>2 DEF OneFate, LedgerTrue, Live, Receipted, Safe, Durable
  <2>4. /\ /\ disk[i] # None /\ ledger[i] = None /\ disk[i].header
           /\ disk[i].record # None /\ i \notin bad
           /\ disk[i].record.state = "held" => disk[i].payload = disk[i].record.env.size
           => items'[i] = disk[i].record
        /\ i \in bad /\ disk[i] # None /\ ledger[i] = None => aside'[i] = now
    BY <2>1, LoadEffect
  <2>5. QED
    BY <1>0, <2>2, <2>3, <2>4 DEF Stored
<1>8. ASSUME NEW i \in Id, Cancel(i)
      PROVE  LeavesWord
  <2>1. items' = items \/ Finish({i}, "canceled", items)
    BY <1>8 DEF Cancel
  <2>2. {i} \in SUBSET Live /\ "canceled" \in Final
    BY <1>8 DEF Cancel, Live, Final
  <2>3. QED
    BY <1>0, <1>1, <2>1, <2>2, WordOfDrop
<1>9. ASSUME NEW i \in Id, NEW d \in Device, AckOk(d, i) \/ AckRefuse(d, i)
      PROVE  LeavesWord
  <2>1. \E it \in Item, st \in Final :
           items' = [items EXCEPT ![i] = it] \/ Finish({i}, st, [items EXCEPT ![i] = it])
    <3>1. items[i] \in Item
      BY <1>0, <1>9 DEF AckOk, AckRefuse, StoreType, MaybeItem
    <3>2. CASE AckOk(d, i)
      <4> DEFINE it == [items[i] EXCEPT !.delivered = items[i].delivered \cup {d}]
      <4>1. it \in Item /\ "delivered" \in Final
        BY <3>1 DEF Item, Final
      <4>2. items' = [items EXCEPT ![i] = it] \/ Finish({i}, "delivered", [items EXCEPT ![i] = it])
        BY <3>2 DEF AckOk, Keep
      <4> HIDE DEF it
      <4>3. QED
        BY <4>1, <4>2
    <3>3. CASE AckRefuse(d, i)
      <4> DEFINE it == [items[i] EXCEPT !.refused = items[i].refused \cup {d}]
                 st == IF it.delivered = {} THEN "rejected" ELSE "delivered"
      <4>1. it \in Item /\ st \in Final
        BY <3>1 DEF Item, Final
      <4>2. items' = [items EXCEPT ![i] = it] \/ Finish({i}, st, [items EXCEPT ![i] = it])
        BY <3>3 DEF AckRefuse, Keep
      <4> HIDE DEF it, st
      <4>3. QED
        BY <4>1, <4>2
    <3>4. QED
      BY <1>9, <3>2, <3>3
  <2>2. PICK it \in Item, st \in Final :
           items' = [items EXCEPT ![i] = it] \/ Finish({i}, st, [items EXCEPT ![i] = it])
    BY <2>1
  <2>3. CASE items' = [items EXCEPT ![i] = it]
    BY <1>2, <2>3
  <2>4. CASE Finish({i}, st, [items EXCEPT ![i] = it])
    <3> DEFINE its == [items EXCEPT ![i] = it]
    <3>1. /\ its \in [Id -> MaybeItem] /\ \A j \in {i} : its[j] \in Item
          /\ \A j \in Id \ {i} : its[j] = items[j]
      BY <1>0 DEF StoreType, MaybeItem
    <3> HIDE DEF its
    <3>2. Finish({i}, st, its) /\ {i} \in SUBSET Id
      BY <2>4 DEF its
    <3>3. QED
      BY <1>0, <3>1, <3>2, WordOfFinish
  <2>5. QED
    BY <2>2, <2>3, <2>4
<1>10. ASSUME NEW c \in Conn, Progress(c)
       PROVE  LeavesWord
  <2>0. \E k : k = task[c].env.id
    OBVIOUS
  <2>1. PICK k : k = task[c].env.id
    BY <2>0
  <2>2. CASE AdmitNew(c)
    BY <1>0, <2>1, <2>2 DEF AdmitNew, CanStore, LeavesWord, StoreType
  <2>3. CASE LocalStore(c) \/ AfterFail(c) \/ MarkHeld(c)
    <3>1. task[c].pc # "idle" /\ task \in [Conn -> Task]
      BY <1>0, <2>3 DEF LocalStore, AfterFail, MarkHeld, OtherType
    <3>2. k \in Id
      BY <2>1, <3>1, TaskType
    <3>3. \/ items' = items
          \/ \E st \in Final : items[k] # None /\ Finish({k}, st, items)
          \/ items[k] # None /\ items' = [items EXCEPT ![k] = [items[k] EXCEPT !.state = "held"]]
      BY <2>1, <2>3 DEF LocalStore, AfterFail, MarkHeld, Final
    <3>4. CASE \E st \in Final : items[k] # None /\ Finish({k}, st, items)
      <4>1. {k} \in SUBSET Live
        BY <3>2, <3>4 DEF Live
      <4>2. QED
        BY <1>0, <3>4, <4>1, WordOfDrop
    <3>5. CASE items[k] # None /\ items' = [items EXCEPT ![k] = [items[k] EXCEPT !.state = "held"]]
      <4>1. items[k] \in Item
        BY <1>0, <3>2, <3>5 DEF StoreType, MaybeItem
      <4>2. [items[k] EXCEPT !.state = "held"] \in Item
        BY <4>1 DEF Item
      <4>3. QED
        BY <1>2, <3>2, <3>5, <4>2
    <3>6. QED
      BY <1>1, <3>3, <3>4, <3>5
  <2>4. CASE ~ (AdmitNew(c) \/ LocalStore(c) \/ AfterFail(c) \/ MarkHeld(c))
    BY <1>1, <1>10, <2>4 DEF Progress, AdmitResume, AdmitFault, AdmitHeld, AdmitRefuse, StartStream,
       ReplyLost, Stream, StreamFail, Rename, ReplyHeld, DropMark, DropBell
  <2>5. QED
    BY <2>2, <2>3, <2>4
<1>11. QED
  BY <1>3, <1>4, <1>5, <1>6, <1>7, <1>8, <1>9, <1>10 DEF Next

\* Under the same conditions nothing is lost silently: an item that leaves the
\* index leaves a line in the receipts ledger, or its folder in quarantine.
THEOREM NothingLostSilentlyAlways ==
    ASSUME Sound
    PROVE  Spec => NothingLostSilently
<1>1. TypeOK /\ Safe /\ [Next]_vars
      => [\A i \in Live : items'[i] = None => ledger'[i] # None \/ aside'[i] # None]_vars
  <2>1. SUFFICES ASSUME TypeOK, Safe, [Next]_vars
                 PROVE  \A i \in Live : items'[i] = None => ledger'[i] # None \/ aside'[i] # None
    OBVIOUS
  <2>2. LedgerTrue' /\ LeavesWord
    BY <2>1, SafeStep, WordStep DEF Safe, Honest
  <2>3. QED
    BY <2>2 DEF LedgerTrue, LeavesWord, Live
<1>2. QED
  BY <1>1, SafeAlways, PTL DEF Spec, NothingLostSilently

\* While the storage stays, every mark belongs to a handler that holds a guard.
Marked ==
    /\ mounted
    /\ \A i \in uploading : \E c \in Conn : Guarding(c) /\ task[c].env.id = i

\* Nobody lets go of a guard, or takes a mark for another item than its own.
LEMMA MarkedStays ==
    ASSUME Marked, mounted',
           \A c \in Conn : Guarding(c) => Guarding(c)' /\ task'[c].env = task[c].env,
           \A i \in uploading' : i \in uploading
                                  \/ \E c \in Conn : Guarding(c)' /\ task'[c].env.id = i
    PROVE  Marked'
<1>1. ASSUME NEW i \in uploading
      PROVE  \E c \in Conn : Guarding(c)' /\ task'[c].env.id = i
  <2>1. PICK c \in Conn : Guarding(c) /\ task[c].env.id = i
    BY DEF Marked
  <2>2. QED
    BY <2>1
<1>2. ASSUME NEW i \in uploading'
      PROVE  \E c \in Conn : Guarding(c)' /\ task'[c].env.id = i
  BY <1>1, <1>2
<1>3. QED
  BY <1>2 DEF Marked

LEMMA MarkedHandler ==
    ASSUME TypeOK, Durable, Marked, NEW c \in Conn, Progress(c)
    PROVE  Marked'
<1> USE DEF store, root, env
<1>0. task \in [Conn -> Task] /\ task[c].pc # "idle" /\ mounted'
  BY DEF TypeOK, Marked, Progress, AdmitResume, AdmitNew, AdmitFault, AdmitHeld, AdmitRefuse,
     StartStream, ReplyLost, Stream, StreamFail, Rename, LocalStore, AfterFail, MarkHeld, ReplyHeld,
     DropMark, DropBell
<1>1. task[c] \in Task \ {IdleTask}
  BY <1>0, TaskType
<1>2. ASSUME NEW pc \in {"failed", "drop", "renamed", "held"}, At(c, pc), Guarding(c), uploading' = uploading
      PROVE  Marked'
  <2>1. GoesTo(c, pc)
    BY <1>0, <1>2, AtEffect
  <2>2. \A b \in Conn : Guarding(b) => Guarding(b)' /\ task'[b].env = task[b].env
    BY <1>2, <2>1 DEF GoesTo, SameTask, Guarding
  <2>3. QED
    BY <1>0, <1>2, <2>2, MarkedStays
<1>3. CASE AdmitResume(c) \/ AdmitNew(c)
  <2>1. /\ uploading' = uploading \cup {task[c].env.id} /\ task[c].pc = "arrived"
        /\ \E n : task' = [task EXCEPT ![c] = [task[c] EXCEPT !.pc = "admitted", !.cfg = None, !.have = n]]
    BY <1>3 DEF AdmitResume, AdmitNew, Become
  <2>2. \A n : LET t == [task[c] EXCEPT !.pc = "admitted", !.cfg = None, !.have = n]
               IN  t.pc = "admitted" /\ t.env = task[c].env
    BY <1>1 DEF Task
  <2>3. /\ task'[c].pc = "admitted" /\ task'[c].env = task[c].env
        /\ \A b \in Conn \ {c} : SameTask(b)
    BY <1>0, <2>1, <2>2 DEF SameTask
  <2>4. \A b \in Conn : Guarding(b) => Guarding(b)' /\ task'[b].env = task[b].env
    BY <2>1, <2>3 DEF SameTask, Guarding
  <2>5. \A i \in uploading' : i \in uploading
                               \/ \E b \in Conn : Guarding(b)' /\ task'[b].env.id = i
    BY <2>1, <2>3 DEF Guarding
  <2>6. QED
    BY <1>0, <2>4, <2>5, MarkedStays
<1>4. CASE AdmitFault(c) \/ AdmitHeld(c) \/ AdmitRefuse(c)
  <2>1. uploading' = uploading /\ task[c].pc = "arrived" /\ task' = [task EXCEPT ![c] = IdleTask]
    BY <1>4 DEF AdmitFault, AdmitHeld, AdmitRefuse, Become
  <2>2. \A b \in Conn : Guarding(b) => Guarding(b)' /\ task'[b].env = task[b].env
    BY <1>0, <2>1 DEF Guarding
  <2>3. QED
    BY <1>0, <2>1, <2>2, MarkedStays
<1>5. CASE StartStream(c) \/ Stream(c)
  <2>1. /\ uploading' = uploading /\ Guarding(c)
        /\ \/ task' = [task EXCEPT ![c] = [task[c] EXCEPT !.pc = "stream", !.bell = TRUE]]
           \/ task' = [task EXCEPT ![c] = [task[c] EXCEPT !.pc = "failed", !.bell = TRUE]]
           \/ /\ task[c].pc = "stream"
              /\ task' = [task EXCEPT ![c] = [task[c] EXCEPT !.have = task[c].have + 1]]
    BY <1>5 DEF StartStream, Stream, Become, Guarding
  <2>2. /\ [task[c] EXCEPT !.pc = "stream", !.bell = TRUE].pc = "stream"
        /\ [task[c] EXCEPT !.pc = "stream", !.bell = TRUE].env = task[c].env
        /\ [task[c] EXCEPT !.pc = "failed", !.bell = TRUE].pc = "failed"
        /\ [task[c] EXCEPT !.pc = "failed", !.bell = TRUE].env = task[c].env
        /\ [task[c] EXCEPT !.have = task[c].have + 1].pc = task[c].pc
        /\ [task[c] EXCEPT !.have = task[c].have + 1].env = task[c].env
    BY <1>1 DEF Task
  <2>3. /\ task'[c].pc \in {"stream", "failed"} /\ task'[c].env = task[c].env
        /\ \A b \in Conn \ {c} : task'[b] = task[b]
    BY <1>0, <2>1, <2>2
  <2>4. \A b \in Conn : Guarding(b) => Guarding(b)' /\ task'[b].env = task[b].env
    BY <2>3 DEF Guarding
  <2>5. QED
    BY <1>0, <2>1, <2>4, MarkedStays
<1>6. CASE \/ ReplyLost(c) \/ StreamFail(c) \/ Rename(c) \/ LocalStore(c) \/ AfterFail(c)
           \/ MarkHeld(c) \/ ReplyHeld(c)
  <2>1. /\ Guarding(c) /\ uploading' = uploading
        /\ \E pc \in {"failed", "drop", "renamed", "held"} : At(c, pc)
    BY <1>6 DEF ReplyLost, StreamFail, Rename, LocalStore, AfterFail, MarkHeld, ReplyHeld, Guarding
  <2>2. QED
    BY <1>2, <2>1
<1>7. CASE DropMark(c)
  <2>1. /\ uploading' = uploading \ {task[c].env.id} /\ Guarding(c) /\ At(c, "unbell")
    BY <1>7 DEF DropMark, Marked, Guarding
  <2>2. GoesTo(c, "unbell")
    BY <1>0, <2>1, AtEffect
  <2>3. ASSUME NEW i \in uploading'
        PROVE  \E b \in Conn : Guarding(b)' /\ task'[b].env.id = i
    <3>1. PICK b \in Conn : Guarding(b) /\ task[b].env.id = i
      BY <2>1 DEF Marked
    <3>2. b # c
      BY <2>1, <3>1
    <3>3. QED
      BY <2>2, <3>1, <3>2 DEF GoesTo, SameTask, Guarding
  <2>4. QED
    BY <1>0, <2>3 DEF Marked
<1>8. CASE DropBell(c)
  <2>1. uploading' = uploading /\ ~ Guarding(c)
    BY <1>8 DEF DropBell, Guarding
  <2>2. ASSUME NEW b \in Conn \ {c}
        PROVE  SameTask(b)
    <3>1. task'[b] = task[b] \/ (task[b].env # None /\ task'[b] = [task[b] EXCEPT !.bell = FALSE])
      BY <1>8 DEF DropBell
    <3>2. task[b] \in Task
      BY <1>0
    <3>3. QED
      BY <3>1, <3>2 DEF SameTask, Task, IdleTask
  <2>3. \A b \in Conn : Guarding(b) => Guarding(b)' /\ task'[b].env = task[b].env
    BY <2>1, <2>2 DEF SameTask, Guarding
  <2>4. QED
    BY <1>0, <2>1, <2>3, MarkedStays
<1>9. QED
  BY <1>3, <1>4, <1>5, <1>6, <1>7, <1>8 DEF Progress

LEMMA MarkedStep ==
    ASSUME Sound, "unmount" \notin Upsets, TypeOK, Durable, Marked, [Next]_vars
    PROVE  Marked'
<1> USE DEF store, root, env
<1>0. task \in [Conn -> Task]
  BY DEF TypeOK
<1>1. ASSUME UNCHANGED <<uploading, task>>, mounted'
      PROVE  Marked'
  BY <1>1 DEF Marked, Guarding
<1>2. ~ Unmount /\ ~ Disable({}) /\ ~ Disable(Live \ uploading)
  BY DEF Unmount, Disable, Upset, Sound
<1>3. CASE \/ UNCHANGED vars \/ GcScan \/ GcApply \/ Wipe \/ Pause \/ Enable \/ Tick \/ Mount
           \/ (\E p \in Person : RemovePerson(p) \/ RestorePerson(p))
           \/ (\E i \in Id : Cancel(i))
           \/ (\E i \in Id, d \in Device : Fetch(d, i) \/ AckOk(d, i) \/ AckRefuse(d, i))
  BY ZenonT(60), <1>1, <1>3 DEF vars, GcScan, GcApply, Wipe, Pause, Enable, Tick, Mount, RemovePerson,
     RestorePerson, Cancel, Fetch, AckOk, AckRefuse, Marked
<1>4. CASE Crash
  BY <1>4 DEF Crash, Load, Marked
<1>5. ASSUME NEW c \in Conn, NEW q \in Request, Deposit(c, q)
      PROVE  Marked'
  <2>1. uploading' = uploading /\ mounted' = mounted /\ task[c] = IdleTask
        /\ \A b \in Conn \ {c} : task'[b] = task[b]
    BY <1>0, <1>5 DEF Deposit, Become
  <2>2. \A b \in Conn : Guarding(b) => Guarding(b)' /\ task'[b].env = task[b].env
    BY <2>1 DEF Guarding, IdleTask
  <2>3. QED
    BY <2>1, <2>2, MarkedStays DEF Marked
<1>6. ASSUME NEW c \in Conn, NEW b \in Conn, Supersede(c, b)
      PROVE  Marked'
  <2>1. uploading' = uploading /\ mounted' /\ At(b, "failed") /\ task[b].pc = "stream"
    BY <1>6 DEF Supersede
  <2>2. GoesTo(b, "failed")
    BY <1>0, <2>1, AtEffect
  <2>3. \A x \in Conn : Guarding(x) => Guarding(x)' /\ task'[x].env = task[x].env
    BY <2>1, <2>2 DEF GoesTo, SameTask, Guarding
  <2>4. QED
    BY <2>1, <2>3, MarkedStays
<1>7. ASSUME NEW c \in Conn, Progress(c)
      PROVE  Marked'
  BY <1>7, MarkedHandler
<1>8. QED
  BY <1>2, <1>3, <1>4, <1>5, <1>6, <1>7 DEF Next

\* If besides the storage stays mounted, the marks are exactly the guards, one
\* handler each, and a handler that writes finds its item and its file as it
\* left them: whatever is superseded, canceled, collected or expired meanwhile.
THEOREM UploadIsExclusiveAlways ==
    ASSUME Sound, "unmount" \notin Upsets
    PROVE  Spec => []UploadIsExclusive
<1>1. Init => Marked
  BY DEF Init, Marked
<1>2. TypeOK /\ Safe /\ Marked /\ [Next]_vars => Marked'
  BY MarkedStep DEF Safe
<1>3. TypeOK /\ Safe /\ Marked => UploadIsExclusive
  <2>1. SUFFICES ASSUME TypeOK, Durable, Marked
                 PROVE  UploadIsExclusive
    BY DEF Safe
  <2>2. uploading = {task[c].env.id : c \in {c \in Conn : Guarding(c)}}
    BY <2>1 DEF Durable, Guarded, Marked
  <2>3. QED
    BY <2>1, <2>2 DEF Durable, Works, Guarded, UploadIsExclusive
<1>4. QED
  BY <1>1, <1>2, <1>3, SafeAlways, PTL DEF Spec

(***************************************************************************)
(* Removing a person.                                                      *)
(***************************************************************************)
OwnOnly(i) == \A d \in items[i].env.to : OwnDevice(d)

\* What a step may say of what was left for the owner's devices only.
Spares ==
    \A i \in Id :
        (/\ items[i] # None /\ OwnOnly(i)
         /\ receipts'[i] # None /\ receipts'[i].state = "rejected"
         /\ cfg'.enabled)
        => read[i] # {}

\* No handler works on a deposit of the server device's own app.
NoLocal == \A c \in Conn : task[c].pc # "idle" => task[c].env.from # Me

LEMMA SparesSame ==
    ASSUME OneFate, UNCHANGED receipts
    PROVE  Spares
BY DEF Spares, OneFate, Live, Receipted

LEMMA SparesFinish ==
    ASSUME ReceiptsKept, StoreType, now \in Nat, LedgerTrue, OneFate,
           NEW S \in SUBSET Id, NEW st \in Final, NEW its \in [Id -> MaybeItem],
           \A i \in S : its[i] \in Item, \A i \in Id \ S : its[i] = items[i],
           st = "rejected" => \A i \in S : ~ OwnOnly(i) \/ read[i] # {},
           Finish(S, st, its)
    PROVE  Spares
<1>0. (\A i \in Id \ S : StaysPut(i)) /\ (\A i \in S : Ends(i, its[i], st))
  BY FinishEffect
<1>1. \A i \in Id \ S : receipts'[i] = receipts[i]
  BY <1>0 DEF StaysPut
<1>2. ASSUME NEW i \in S
      PROVE  receipts'[i].state = st
  <2>1. Ends(i, its[i], st)
    BY <1>0
  <2>2. QED
    BY <2>1, ReceiptIs DEF Ends
<1>3. QED
  BY <1>1, <1>2 DEF Spares, OneFate, Live, Receipted

LEMMA SparesDrop ==
    ASSUME ReceiptsKept, StoreType, now \in Nat, LedgerTrue, OneFate,
           NEW S \in SUBSET Live, NEW st \in Final,
           st = "rejected" => \A i \in S : ~ OwnOnly(i) \/ read[i] # {},
           Finish(S, st, items)
    PROVE  Spares
<1>1. S \in SUBSET Id /\ items \in [Id -> MaybeItem] /\ \A i \in S : items[i] \in Item
  BY LiveType DEF StoreType
<1>2. QED
  BY <1>1, SparesFinish

LEMMA SparesStep ==
    ASSUME ReceiptsKept, "wipe" \notin Upsets, TypeOK, Honest, NoLocal, [Next]_vars
    PROVE  Spares
<1> USE DEF store, root, env
<1>0. StoreType /\ OtherType /\ now \in Nat /\ LedgerTrue /\ OneFate
  BY TypeSplit DEF OtherType, Honest, Fate
<1>1. CASE \/ UNCHANGED vars \/ GcScan \/ Pause \/ Enable \/ Unmount \/ Mount \/ Tick
           \/ (\E p \in Person : RestorePerson(p))
           \/ (\E c \in Conn, q \in Request : Deposit(c, q))
           \/ (\E c, b \in Conn : Supersede(c, b))
           \/ (\E i \in Id, d \in Device : Fetch(d, i))
  BY <1>0, <1>1, SparesSame DEF vars, GcScan, Pause, Enable, Unmount, Mount, Tick, RestorePerson,
     Deposit, Supersede, Fetch
<1>2. CASE GcApply
  <2>1. CASE mounted
    <3>1. /\ \A i \in Overdue : Ends(i, items[i], "expired")
          /\ \A i \in Id \ Overdue : receipts'[i] \in {receipts[i], None}
          /\ \A i \in Overdue : items[i] \in Item
      BY <1>0, <1>2, <2>1, CollectEffect, LiveType
    <3>2. \A i \in Overdue : receipts'[i].state = "expired"
      BY <1>0, <3>1, ReceiptIs DEF Ends, Final
    <3>3. QED
      BY <1>0, <3>1, <3>2 DEF Spares, OneFate, Live, Receipted
  <2>2. CASE ~ mounted
    BY <1>0, <1>2, <2>2, SparesSame DEF GcApply
  <2>3. QED
    BY <2>1, <2>2
<1>3. ~ Wipe
  BY DEF Wipe
<1>4. ASSUME NEW p \in Person, RemovePerson(p)
      PROVE  Spares
  <2>1. Doomed(p) \ uploading \in SUBSET Live /\ \A i \in Doomed(p) : ~ OwnOnly(i)
    BY <1>0, LiveType DEF Doomed, OwnOnly
  <2>2. QED
    BY <1>0, <1>4, <2>1, SparesDrop DEF RemovePerson, Final
<1>5. CASE Disable({}) \/ Disable(Live \ uploading)
  <2>1. cfg' = [cfg EXCEPT !.enabled = FALSE] /\ cfg \in Config
    BY <1>0, <1>5 DEF Disable, OtherType
  <2>2. ~ cfg'.enabled
    BY <2>1 DEF Config
  <2>3. QED
    BY <2>2 DEF Spares
<1>6. CASE Crash
  BY <1>0, <1>6, SparesSame DEF Crash, Load, LedgerTrue
<1>7. ASSUME NEW i \in Id, Cancel(i)
      PROVE  Spares
  <2>1. /\ {i} \in SUBSET Live /\ "canceled" \in Final
        /\ receipts' = receipts \/ Finish({i}, "canceled", items)
    BY <1>7 DEF Cancel, Live, Final
  <2>2. QED
    BY <1>0, <2>1, SparesSame, SparesDrop
<1>8. ASSUME NEW i \in Id, NEW d \in Device, AckOk(d, i) \/ AckRefuse(d, i)
      PROVE  Spares
  <2>1. items[i] \in Item /\ read[i] # {} /\ items \in [Id -> MaybeItem]
    BY <1>0, <1>8 DEF AckOk, AckRefuse, StoreType, MaybeItem
  <2>2. ASSUME NEW it \in Item, NEW st \in Final,
               receipts' = receipts \/ Finish({i}, st, [items EXCEPT ![i] = it])
        PROVE  Spares
    <3>1. CASE receipts' = receipts
      BY <1>0, <3>1, SparesSame
    <3>2. CASE Finish({i}, st, [items EXCEPT ![i] = it])
      <4> DEFINE its == [items EXCEPT ![i] = it]
      <4>1. /\ its \in [Id -> MaybeItem] /\ its[i] = it
            /\ \A j \in Id \ {i} : its[j] = items[j]
        BY <2>1 DEF MaybeItem
      <4> HIDE DEF its
      <4>2. Finish({i}, st, its) /\ {i} \in SUBSET Id
        BY <3>2 DEF its
      <4>3. QED
        BY <1>0, <2>1, <4>1, <4>2, SparesFinish
    <3>3. QED
      BY <2>2, <3>1, <3>2
  <2>3. CASE AckOk(d, i)
    <3> DEFINE it == [items[i] EXCEPT !.delivered = items[i].delivered \cup {d}]
    <3>1. it \in Item
      BY <2>1, <2>3 DEF Item
    <3>2. receipts' = receipts \/ Finish({i}, "delivered", [items EXCEPT ![i] = it])
      BY <2>3 DEF AckOk, Keep
    <3> HIDE DEF it
    <3>3. QED
      BY <2>2, <3>1, <3>2 DEF Final
  <2>4. CASE AckRefuse(d, i)
    <3> DEFINE it == [items[i] EXCEPT !.refused = items[i].refused \cup {d}]
               st == IF it.delivered = {} THEN "rejected" ELSE "delivered"
    <3>1. it \in Item /\ st \in Final
      BY <2>1, <2>4 DEF Item, Final
    <3>2. receipts' = receipts \/ Finish({i}, st, [items EXCEPT ![i] = it])
      BY <2>4 DEF AckRefuse, Keep
    <3> HIDE DEF it, st
    <3>3. QED
      BY <2>2, <3>1, <3>2
  <2>5. QED
    BY <1>8, <2>3, <2>4
<1>9. ASSUME NEW c \in Conn, Progress(c)
      PROVE  Spares
  <2>1. ~ LocalStore(c)
    BY DEF LocalStore, NoLocal
  <2>2. CASE AfterFail(c) \/ MarkHeld(c)
    <3>1. \E k : k = task[c].env.id
      OBVIOUS
    <3>2. PICK k : k = task[c].env.id
      BY <3>1
    <3>3. k \in Id
      BY <1>0, <2>2, <3>2, TaskType DEF AfterFail, MarkHeld, OtherType
    <3>4. \/ receipts' = receipts
          \/ items[k] # None /\ Finish({k}, "canceled", items)
      BY <2>2, <3>2 DEF AfterFail, MarkHeld
    <3>5. QED
      BY <1>0, <3>3, <3>4, SparesSame, SparesDrop DEF Live, Final
  <2>3. CASE ~ (LocalStore(c) \/ AfterFail(c) \/ MarkHeld(c))
    BY <1>0, <1>9, <2>3, SparesSame DEF Progress, AdmitResume, AdmitNew, AdmitFault, AdmitHeld, AdmitRefuse,
       StartStream, ReplyLost, Stream, StreamFail, Rename, ReplyHeld, DropMark, DropBell
  <2>4. QED
    BY <2>1, <2>2, <2>3
<1>10. QED
  BY <1>1, <1>2, <1>3, <1>4, <1>5, <1>6, <1>7, <1>8, <1>9 DEF Next

LEMMA NoLocalStep ==
    ASSUME TypeOK, \A q \in Request : q.env.from # Me, NoLocal, [Next]_vars
    PROVE  NoLocal'
<1> USE DEF store, root, env
<1>0. task \in [Conn -> Task]
  BY DEF TypeOK
<1>1. ASSUME \A c \in Conn : task'[c].pc = "idle" \/ (task[c].pc # "idle" /\ task'[c].env = task[c].env)
      PROVE  NoLocal'
  BY <1>1 DEF NoLocal
<1>2. CASE \/ UNCHANGED vars \/ GcScan \/ GcApply \/ Wipe \/ Pause \/ Enable \/ Unmount \/ Mount \/ Tick
           \/ (\E p \in Person : RemovePerson(p) \/ RestorePerson(p))
           \/ Disable({}) \/ Disable(Live \ uploading)
           \/ (\E i \in Id : Cancel(i))
           \/ (\E i \in Id, d \in Device : Fetch(d, i) \/ AckOk(d, i) \/ AckRefuse(d, i))
  <2>1. task' = task
    BY <1>2 DEF vars, GcScan, GcApply, Wipe, Pause, Enable, Unmount, Mount, Tick, RemovePerson,
       RestorePerson, Disable, Cancel, Fetch, AckOk, AckRefuse
  <2>2. QED
    BY <1>1, <2>1
<1>3. CASE Crash
  BY <1>1, <1>3 DEF Crash, IdleTask
<1>4. ASSUME NEW c \in Conn, NEW q \in Request, Deposit(c, q)
      PROVE  NoLocal'
  <2>1. /\ task'[c].env = q.env /\ \A b \in Conn \ {c} : task'[b] = task[b]
    BY <1>0, <1>4 DEF Deposit, Become, IdleTask
  <2>2. QED
    BY <2>1 DEF NoLocal
<1>5. ASSUME NEW c \in Conn, NEW b \in Conn, Supersede(c, b)
      PROVE  NoLocal'
  <2>1. task[b].pc = "stream" /\ At(b, "failed")
    BY <1>5 DEF Supersede
  <2>2. GoesTo(b, "failed")
    BY <1>0, <2>1, AtEffect
  <2>3. QED
    BY <1>1, <2>1, <2>2 DEF GoesTo, SameTask
<1>6. ASSUME NEW c \in Conn, Progress(c)
      PROVE  NoLocal'
  <2>0. task[c].pc # "idle"
    BY <1>6 DEF Progress, AdmitResume, AdmitNew, AdmitFault, AdmitHeld, AdmitRefuse, StartStream,
       ReplyLost, Stream, StreamFail, Rename, LocalStore, AfterFail, MarkHeld, ReplyHeld, DropMark, DropBell
  <2>1. task[c] \in Task \ {IdleTask}
    BY <1>0, <2>0, TaskType
  <2>2. CASE AdmitFault(c) \/ AdmitHeld(c) \/ AdmitRefuse(c)
    <3>1. task' = [task EXCEPT ![c] = IdleTask]
      BY <2>2 DEF AdmitFault, AdmitHeld, AdmitRefuse, Become
    <3>2. \A b \in Conn : task'[b].pc = "idle" \/ task'[b] = task[b]
      BY <1>0, <3>1 DEF IdleTask
    <3>3. QED
      BY <3>2 DEF NoLocal
  <2>3. CASE AdmitResume(c) \/ AdmitNew(c) \/ StartStream(c) \/ Stream(c)
    <3>1. /\ task'[c].env = task[c].env /\ \A b \in Conn \ {c} : task'[b] = task[b]
      <4>1. \E t : task' = [task EXCEPT ![c] = t] /\ t.env = task[c].env
        <5>1. \A pc, n : /\ [task[c] EXCEPT !.pc = pc, !.cfg = None, !.have = n].env = task[c].env
                        /\ [task[c] EXCEPT !.pc = pc, !.bell = TRUE].env = task[c].env
                        /\ [task[c] EXCEPT !.have = n].env = task[c].env
          BY <2>1 DEF Task
        <5>2. PICK pc, n :
                 \/ task' = [task EXCEPT ![c] = [task[c] EXCEPT !.pc = pc, !.cfg = None, !.have = n]]
                 \/ task' = [task EXCEPT ![c] = [task[c] EXCEPT !.pc = pc, !.bell = TRUE]]
                 \/ task' = [task EXCEPT ![c] = [task[c] EXCEPT !.have = n]]
          BY <2>3 DEF AdmitResume, AdmitNew, StartStream, Stream, Become
        <5>3. /\ [task[c] EXCEPT !.pc = pc, !.cfg = None, !.have = n].env = task[c].env
              /\ [task[c] EXCEPT !.pc = pc, !.bell = TRUE].env = task[c].env
              /\ [task[c] EXCEPT !.have = n].env = task[c].env
          BY <5>1
        <5>4. QED
          BY <5>2, <5>3
      <4>2. QED
        BY <1>0, <4>1
    <3>2. QED
      BY <2>0, <3>1 DEF NoLocal
  <2>4. CASE \/ ReplyLost(c) \/ StreamFail(c) \/ Rename(c) \/ LocalStore(c) \/ AfterFail(c)
             \/ MarkHeld(c) \/ ReplyHeld(c) \/ DropMark(c)
    <3>1. \E pc : At(c, pc)
      BY <2>4 DEF ReplyLost, StreamFail, Rename, LocalStore, AfterFail, MarkHeld, ReplyHeld, DropMark
    <3>2. PICK pc : GoesTo(c, pc)
      BY <1>0, <2>0, <3>1, AtEffect
    <3>3. QED
      BY <1>1, <2>0, <3>2 DEF GoesTo, SameTask
  <2>5. CASE DropBell(c)
    <3>1. task'[c] = IdleTask
      BY <2>5 DEF DropBell
    <3>2. ASSUME NEW b \in Conn \ {c}
          PROVE  SameTask(b)
      <4>1. task'[b] = task[b] \/ (task[b].env # None /\ task'[b] = [task[b] EXCEPT !.bell = FALSE])
        BY <2>5 DEF DropBell
      <4>2. task[b] \in Task
        BY <1>0
      <4>3. QED
        BY <4>1, <4>2 DEF SameTask, Task, IdleTask
    <3>3. QED
      BY <1>1, <3>1, <3>2 DEF SameTask, IdleTask
  <2>6. QED
    BY <1>6, <2>2, <2>3, <2>4, <2>5 DEF Progress
<1>7. QED
  BY <1>2, <1>3, <1>4, <1>5, <1>6 DEF Next

\* While the ledger can be written and no receipt is trimmed, removing a person
\* spares what they left for the owner's own devices, switching off and on
\* included: such an item ends "rejected" only by the word of a device that read
\* it, unless everything is wiped or the server device left it itself.
THEOREM RemovalSparesOwnerAlways ==
    ASSUME ReceiptsKept, "wipe" \notin Upsets, \A q \in Request : q.env.from # Me
    PROVE  Spec => RemovalSparesOwner
<1>1. Init => Honest /\ NoLocal
  BY HonestStart DEF Init, NoLocal, IdleTask
<1>2. TypeOK /\ Honest /\ NoLocal /\ [Next]_vars => Honest' /\ NoLocal'
  BY HonestStep, NoLocalStep
<1>3. TypeOK /\ Honest /\ NoLocal /\ [Next]_vars
      => [\A i \in Live :
             (/\ \A d \in items[i].env.to : OwnDevice(d)
              /\ receipts'[i] # None /\ receipts'[i].state = "rejected"
              /\ cfg'.enabled)
             => read[i] # {}]_vars
  BY SparesStep DEF Spares, OwnOnly, Live
<1>4. QED
  BY <1>1, <1>2, <1>3, TypeCorrect, PTL DEF Spec, RemovalSparesOwner

(***************************************************************************)
(* Sums over finite sets.  The library's induction theorems take an        *)
(* operator; here induction goes over sets instead: a set of naturals, a   *)
(* set of subsets.                                                         *)
(***************************************************************************)
\* A set of naturals with 0 and with the successor of each of its elements.
LEMMA NatSet ==
    ASSUME NEW G \in SUBSET Nat, 0 \in G, \A n \in G : n + 1 \in G
    PROVE  G = Nat
<1> SUFFICES ASSUME G # Nat PROVE FALSE
  OBVIOUS
<1> DEFINE T == Nat \ G
<1>1. T \subseteq Nat /\ T # {}
  OBVIOUS
<1>2. PICK m \in T : \A n \in T : ~ (<<n, m>> \in OpToRel(<, Nat))
  BY <1>1, NatLessThanWellFounded, WFMin
<1>3. m \in Nat /\ m # 0
  OBVIOUS
<1>4. m - 1 \in Nat /\ <<m - 1, m>> \in OpToRel(<, Nat)
  BY <1>3 DEF OpToRel
<1>5. m - 1 \in G
  BY <1>2, <1>4
<1>6. (m - 1) + 1 \in G
  BY <1>5
<1>7. QED
  BY <1>3, <1>6

\* The element a fold takes out first, and what a fold computes for the subset s.
Pick(s) == CHOOSE x \in s : TRUE
Weighed(g, w, s) == IF s = {} THEN 0 ELSE w[Pick(s)] + g[s \ {Pick(s)}]
IsSum(g, w, S) == \A s \in SUBSET S : g[s] = Weighed(g, w, s)

\* Whatever element CHOOSE takes out of a set is one of its elements.
LEMMA PickIs == ASSUME NEW s, s # {} PROVE Pick(s) \in s
BY DEF Pick

\* The set without it has one element less.
LEMMA OneLess ==
    ASSUME NEW s, IsFiniteSet(s), s # {}
    PROVE  /\ IsFiniteSet(s \ {Pick(s)}) /\ Cardinality(s \ {Pick(s)}) \in Nat
           /\ Cardinality(s) = Cardinality(s \ {Pick(s)}) + 1
<1>1. Pick(s) \in s
  BY PickIs
<1>2. PICK p : p = Pick(s)
  OBVIOUS
<1>3. /\ IsFiniteSet(s \ {p}) /\ Cardinality(s \ {p}) = Cardinality(s) - 1
  BY <1>1, <1>2, FS_RemoveElement
<1>4. Cardinality(s) \in Nat /\ Cardinality(s \ {p}) \in Nat
  BY <1>3, FS_CardinalityType
<1>5. QED
  BY <1>2, <1>3, <1>4

\* Every finite set has a function that sums up its subsets.
LEMMA SumExists ==
    ASSUME NEW S, IsFiniteSet(S), NEW w \in [S -> Nat]
    PROVE  \E g \in [SUBSET S -> Nat] : IsSum(g, w, S)
<1> DEFINE N == {n \in Nat : \E g \in [SUBSET S -> Nat] :
                    \A s \in SUBSET S : Cardinality(s) <= n => g[s] = Weighed(g, w, s)}
<1>0. \A s \in SUBSET S : IsFiniteSet(s) /\ Cardinality(s) \in Nat /\ (Cardinality(s) = 0 <=> s = {})
  BY FS_Subset, FS_CardinalityType, FS_EmptySet
<1>1. 0 \in N
  <2>1. PICK g : g = [s \in SUBSET S |-> 0]
    OBVIOUS
  <2>2. g \in [SUBSET S -> Nat]
    BY <2>1
  <2>3. ASSUME NEW s \in SUBSET S, Cardinality(s) <= 0 PROVE g[s] = Weighed(g, w, s)
    <3>1. s = {}
      BY <1>0, <2>3
    <3>2. QED
      BY <2>1, <3>1 DEF Weighed
  <2>4. QED
    BY <2>2, <2>3
<1>2. ASSUME NEW n \in N PROVE n + 1 \in N
  <2>1. PICK g \in [SUBSET S -> Nat] :
             \A s \in SUBSET S : Cardinality(s) <= n => g[s] = Weighed(g, w, s)
    OBVIOUS
  <2>2. PICK h : h = [s \in SUBSET S |-> Weighed(g, w, s)]
    OBVIOUS
  <2>3. \A s \in SUBSET S : s # {} => Pick(s) \in S /\ s \ {Pick(s)} \in SUBSET S
    BY PickIs
  <2>4. \A s \in SUBSET S : Weighed(g, w, s) \in Nat
    BY <2>3 DEF Weighed
  <2>5. h \in [SUBSET S -> Nat]
    BY <2>2, <2>4
  <2>6. ASSUME NEW s \in SUBSET S, Cardinality(s) <= n + 1
        PROVE  h[s] = Weighed(h, w, s)
    <3>1. CASE s = {}
      BY <2>2, <3>1 DEF Weighed
    <3>2. CASE s # {}
      <4>1. PICK t : t = s \ {Pick(s)}
        OBVIOUS
      <4>2. t \in SUBSET S /\ Cardinality(t) <= n
        <5>1. n \in Nat
          OBVIOUS
        <5>2. Cardinality(t) \in Nat /\ Cardinality(s) = Cardinality(t) + 1
          BY <1>0, <3>2, <4>1, OneLess
        <5>3. QED
          BY <2>3, <2>6, <3>2, <4>1, <5>1, <5>2
      <4>3. g[t] = h[t]
        BY <2>1, <2>2, <4>2
      <4>4. QED
        BY <2>2, <3>2, <4>1, <4>3 DEF Weighed
    <3>3. QED
      BY <3>1, <3>2
  <2>7. QED
    BY <2>5, <2>6
<1>3. N = Nat
  <2> HIDE DEF N
  <2>1. N \in SUBSET Nat
    BY DEF N
  <2>2. QED
    BY <1>1, <1>2, <2>1, NatSet
<1>4. Cardinality(S) \in N
  BY <1>0, <1>3
<1>5. PICK g \in [SUBSET S -> Nat] :
             \A s \in SUBSET S : Cardinality(s) <= Cardinality(S) => g[s] = Weighed(g, w, s)
  BY <1>4
<1>6. \A s \in SUBSET S : Cardinality(s) <= Cardinality(S)
  BY FS_Subset
<1>7. QED
  BY <1>5, <1>6 DEF IsSum

\* UsedOf sums up the needs of its items with such a function.
LEMMA UsedOfIs ==
    ASSUME NEW its, NEW S, IsFiniteSet(S), \A i \in S : Need(its[i].env) \in Nat,
           NEW w, \A i \in S : w[i] = Need(its[i].env)
    PROVE  \E g : IsSum(g, w, S) /\ UsedOf(its, S) = g[S]
<1> DEFINE Body(g, s) == IF s = {} THEN 0
                         ELSE Need(its[CHOOSE x \in s : TRUE].env) + g[s \ {CHOOSE x \in s : TRUE}]
           F == CHOOSE g : g = [s \in SUBSET S |-> Body(g, s)]
<1>1. UsedOf(its, S) = F[S]
  BY DEF UsedOf, MapThenSumSet, MapThenFoldSet
<1>2. \E g : g = [s \in SUBSET S |-> Body(g, s)]
  <2>1. PICK v \in [S -> Nat] : \A i \in S : v[i] = Need(its[i].env)
    <3>1. [i \in S |-> Need(its[i].env)] \in [S -> Nat]
      OBVIOUS
    <3>2. QED
      BY <3>1
  <2>2. PICK g \in [SUBSET S -> Nat] : IsSum(g, v, S)
    BY SumExists
  <2>3. ASSUME NEW s \in SUBSET S PROVE g[s] = Body(g, s)
    BY <2>1, <2>2, <2>3, PickIs DEF IsSum, Weighed, Pick
  <2> HIDE DEF Body
  <2>4. g = [s \in SUBSET S |-> g[s]]
    OBVIOUS
  <2>5. QED
    BY <2>3, <2>4
<1>3. F = [s \in SUBSET S |-> Body(F, s)]
  BY <1>2
<1> HIDE DEF Body, F
<1>4. PICK f : f = F
  OBVIOUS
<1>5. f = [s \in SUBSET S |-> Body(f, s)]
  BY <1>3, <1>4
<1>6. ASSUME NEW s \in SUBSET S PROVE f[s] = Weighed(f, w, s)
  <2>1. f[s] = Body(f, s)
    BY <1>5
  <2>2. QED
    BY <2>1, PickIs DEF Weighed, Pick, Body
<1>7. QED
  BY <1>1, <1>4, <1>6 DEF IsSum

\* A set of subsets of S that holds a set as soon as it holds that set without
\* any one of its elements, holds every subset of S.
LEMMA SubsetsAll ==
    ASSUME NEW S, IsFiniteSet(S), NEW G,
           \A s \in SUBSET S : (\A x \in s : s \ {x} \in G) => s \in G
    PROVE  \A s \in SUBSET S : s \in G
<1> DEFINE N == {n \in Nat : \A s \in SUBSET S : Cardinality(s) = n => s \in G}
<1>0. \A s \in SUBSET S : IsFiniteSet(s) /\ Cardinality(s) \in Nat /\ (Cardinality(s) = 0 <=> s = {})
  BY FS_Subset, FS_CardinalityType, FS_EmptySet
<1>1. 0 \in N
  BY <1>0
<1>2. ASSUME NEW n \in N PROVE n + 1 \in N
  <2>1. ASSUME NEW s \in SUBSET S, Cardinality(s) = n + 1 PROVE s \in G
    <3>1. ASSUME NEW x \in s PROVE s \ {x} \in G
      <4>1. Cardinality(s \ {x}) = Cardinality(s) - 1
        BY <1>0, FS_RemoveElement
      <4>2. n \in Nat /\ s \ {x} \in SUBSET S
        OBVIOUS
      <4>3. Cardinality(s \ {x}) = n
        BY <2>1, <4>1, <4>2
      <4>4. QED
        BY <4>2, <4>3
    <3>2. QED
      BY <3>1
  <2>2. n + 1 \in Nat
    OBVIOUS
  <2>3. QED
    BY <2>1, <2>2
<1>3. N = Nat
  <2> HIDE DEF N
  <2>1. N \in SUBSET Nat
    BY DEF N
  <2>2. QED
    BY <1>1, <1>2, <2>1, NatSet
<1>4. ASSUME NEW s \in SUBSET S PROVE s \in G
  <2>1. Cardinality(s) \in N
    BY <1>0, <1>3
  <2>2. QED
    BY <2>1
<1>5. QED
  BY <1>4

\* The sum is a natural, whichever function of the subsets computes it.
LEMMA SumNat ==
    ASSUME NEW S, IsFiniteSet(S), NEW w, \A x \in S : w[x] \in Nat, NEW g, IsSum(g, w, S)
    PROVE  \A s \in SUBSET S : g[s] \in Nat
<1> DEFINE G == {s \in SUBSET S : g[s] \in Nat}
<1>1. ASSUME NEW s \in SUBSET S, \A x \in s : s \ {x} \in G PROVE s \in G
  <2>1. g[s] = Weighed(g, w, s)
    BY DEF IsSum
  <2>2. CASE s = {}
    BY <2>1, <2>2 DEF Weighed
  <2>3. CASE s # {}
    <3>1. PICK y \in s : y = Pick(s)
      BY <2>3, PickIs
    <3>2. g[s] = w[y] + g[s \ {y}]
      BY <2>1, <2>3, <3>1 DEF Weighed
    <3>3. w[y] \in Nat /\ g[s \ {y}] \in Nat
      BY <1>1
    <3>4. g[s] \in Nat
      BY <3>2, <3>3
    <3>5. QED
      BY <3>4
  <2>4. QED
    BY <2>2, <2>3
<1> HIDE DEF G
<1>2. \A s \in SUBSET S : s \in G
  BY <1>1, SubsetsAll
<1>3. QED
  BY <1>2 DEF G

\* Two such functions agree.
LEMMA SumUnique ==
    ASSUME NEW S, IsFiniteSet(S), NEW T \in SUBSET S, NEW w, NEW g, NEW h,
           IsSum(g, w, S), IsSum(h, w, T)
    PROVE  g[T] = h[T]
<1> DEFINE G == {s \in SUBSET T : g[s] = h[s]}
<1>1. ASSUME NEW s \in SUBSET T, \A x \in s : s \ {x} \in G PROVE s \in G
  <2>1. g[s] = Weighed(g, w, s) /\ h[s] = Weighed(h, w, s)
    BY DEF IsSum
  <2>2. s # {} => g[s \ {Pick(s)}] = h[s \ {Pick(s)}]
    BY <1>1, PickIs
  <2>3. QED
    BY <2>1, <2>2 DEF Weighed
<1>2. IsFiniteSet(T)
  BY FS_Subset
<1> HIDE DEF G
<1>3. \A s \in SUBSET T : s \in G
  BY <1>1, <1>2, SubsetsAll
<1>4. QED
  BY <1>3 DEF G

\* Any element may be taken out first.
LEMMA SumAny ==
    ASSUME NEW S, IsFiniteSet(S), NEW w, \A x \in S : w[x] \in Nat, NEW g, IsSum(g, w, S)
    PROVE  \A s \in SUBSET S : \A x \in s : g[s] = w[x] + g[s \ {x}]
<1> DEFINE G == {s \in SUBSET S : \A x \in s : g[s] = w[x] + g[s \ {x}]}
<1>0. \A s \in SUBSET S : g[s] \in Nat
  BY SumNat
<1>1. ASSUME NEW s \in SUBSET S, \A x \in s : s \ {x} \in G PROVE s \in G
  <2>1. ASSUME NEW x \in s PROVE g[s] = w[x] + g[s \ {x}]
    <3>1. PICK y \in s : y = Pick(s)
      BY PickIs
    <3>2. g[s] = w[y] + g[s \ {y}]
      BY <3>1 DEF IsSum, Weighed
    <3>3. CASE x = y
      BY <3>2, <3>3
    <3>4. CASE x # y
      <4>1. PICK r \in SUBSET S : r = (s \ {x}) \ {y} /\ r = (s \ {y}) \ {x}
        OBVIOUS
      <4>2. g[s \ {y}] = w[x] + g[r]
        BY <1>1, <3>4, <4>1
      <4>3. g[s \ {x}] = w[y] + g[r]
        BY <1>1, <3>4, <4>1
      <4>4. w[x] \in Nat /\ w[y] \in Nat /\ g[r] \in Nat
        BY <1>0
      <4>5. QED
        BY <3>2, <4>2, <4>3, <4>4
    <3>5. QED
      BY <3>3, <3>4
  <2>2. QED
    BY <2>1
<1> HIDE DEF G
<1>2. \A s \in SUBSET S : s \in G
  BY <1>1, SubsetsAll
<1>3. QED
  BY <1>2 DEF G

\* The sum over a part is no more than the sum over the whole.
LEMMA SumGrows ==
    ASSUME NEW S, IsFiniteSet(S), NEW w, \A x \in S : w[x] \in Nat, NEW g, IsSum(g, w, S)
    PROVE  \A s \in SUBSET S : \A t \in SUBSET s : g[t] <= g[s]
<1> DEFINE G == {s \in SUBSET S : \A t \in SUBSET s : g[t] <= g[s]}
<1>0. \A s \in SUBSET S : g[s] \in Nat
  BY SumNat
<1>1. ASSUME NEW s \in SUBSET S, \A x \in s : s \ {x} \in G PROVE s \in G
  <2>1. ASSUME NEW t \in SUBSET s PROVE g[t] <= g[s]
    <3>1. CASE t = s
      BY <1>0, <3>1
    <3>2. CASE t # s
      <4>1. PICK x \in s : x \notin t
        BY <3>2
      <4>2. g[s] = w[x] + g[s \ {x}]
        BY SumAny
      <4>3. t \in SUBSET (s \ {x})
        BY <4>1
      <4>4. g[t] <= g[s \ {x}]
        BY <1>1, <4>3
      <4>5. w[x] \in Nat /\ g[t] \in Nat /\ g[s \ {x}] \in Nat
        BY <1>0
      <4>6. QED
        BY <4>2, <4>4, <4>5
    <3>3. QED
      BY <3>1, <3>2
  <2>2. QED
    BY <2>1
<1> HIDE DEF G
<1>2. \A s \in SUBSET S : s \in G
  BY <1>1, SubsetsAll
<1>3. QED
  BY <1>2 DEF G

\* The space a set of items takes: a natural; with one more item, that much
\* more; no less than the space of a part of them, by another index that agrees.
LEMMA UsedMore ==
    ASSUME NEW its, NEW new, NEW S, IsFiniteSet(S), NEW T \in SUBSET S,
           \A i \in S : Need(its[i].env) \in Nat,
           \A i \in T : Need(new[i].env) = Need(its[i].env)
    PROVE  /\ UsedOf(its, S) \in Nat /\ UsedOf(new, T) \in Nat
           /\ UsedOf(new, T) <= UsedOf(its, S)
           /\ \A i \in S : T = S \ {i} => UsedOf(its, S) = Need(its[i].env) + UsedOf(new, T)
<1>1. PICK w : w = [i \in S |-> Need(its[i].env)]
  OBVIOUS
<1>2. /\ \A i \in S : w[i] = Need(its[i].env) /\ w[i] \in Nat
      /\ \A i \in T : w[i] = Need(new[i].env) /\ Need(new[i].env) \in Nat
  BY <1>1
<1>3. IsFiniteSet(T)
  BY FS_Subset
<1>4. PICK g : IsSum(g, w, S) /\ UsedOf(its, S) = g[S]
  BY <1>2, UsedOfIs
<1>5. PICK h : IsSum(h, w, T) /\ UsedOf(new, T) = h[T]
  BY <1>2, <1>3, UsedOfIs
<1>6. g[T] = h[T]
  BY <1>4, <1>5, SumUnique
<1>7. \A s \in SUBSET S : g[s] \in Nat
  BY <1>2, <1>4, SumNat
<1>8. g[T] <= g[S]
  BY <1>2, <1>4, SumGrows
<1>9. \A i \in S : g[S] = w[i] + g[S \ {i}]
  BY <1>2, <1>4, SumAny
<1>10. QED
  BY <1>2, <1>4, <1>5, <1>6, <1>7, <1>8, <1>9

(***************************************************************************)
(* The server keeps within its room.                                       *)
(***************************************************************************)
\* Nothing takes no space.
LEMMA UsedNone ==
    ASSUME NEW its
    PROVE  UsedOf(its, {}) = 0
<1>1. PICK w : w = [i \in {} |-> 0]
  OBVIOUS
<1>2. PICK g : IsSum(g, w, {}) /\ UsedOf(its, {}) = g[{}]
  BY <1>1, FS_EmptySet, UsedOfIs
<1>3. QED
  BY <1>2 DEF IsSum, Weighed

\* Receipts are not lost; and either deletes work, or the clock stops before the
\* first receipt is old enough to be forgotten.
Remembers == ReceiptsKept /\ ("delete" \notin Upsets \/ MaxTime < ReceiptKeep)

\* A record on disk is that of an item in memory, with its envelope, or what a
\* failed delete left of an item whose receipt is there.
Backed(i) ==
    disk[i] # None /\ disk[i].record # None =>
        \/ items[i] # None /\ items[i].env = disk[i].record.env
        \/ receipts[i] # None /\ "delete" \in Upsets

AllBacked == \A i \in Id : Backed(i)

\* No item comes from nowhere; or just the item of e comes, for which there was room.
Shrinks(i) == items'[i] # None => items[i] # None /\ items'[i].env = items[i].env
Admits(e) ==
    /\ items[e.id] = None /\ Fits(e)
    /\ items'[e.id] # None /\ items'[e.id].env = e
    /\ \A i \in Id \ {e.id} : items'[i] = items[i]

\* The goal of every step.
Frugal ==
    /\ AllBacked'
    /\ (\A i \in Id : Shrinks(i)) \/ (\E e \in Envelope : Admits(e))

\* An item that stays as it is.
LEMMA BackedStays ==
    ASSUME NEW i \in Id, Backed(i), RecordKept(i), items'[i] = items[i], receipts'[i] = receipts[i]
    PROVE  Backed(i)' /\ Shrinks(i)
BY DEF Backed, RecordKept, Shrinks

\* A step that leaves index, receipts and records alone.
LEMMA BackedSame ==
    ASSUME AllBacked, UNCHANGED <<items, receipts>>, \A i \in Id : RecordKept(i)
    PROVE  Frugal
BY BackedStays DEF Frugal, AllBacked

\* finish_item.
LEMMA BackedFinish ==
    ASSUME ReceiptsKept, StoreType, now \in Nat, LedgerTrue, AllBacked,
           NEW S \in SUBSET Id, NEW st \in Final, NEW its \in [Id -> MaybeItem],
           \A i \in S : its[i] \in Item, \A i \in Id \ S : its[i] = items[i],
           Finish(S, st, its)
    PROVE  Frugal
<1>1. /\ \A i \in Id \ S : StaysPut(i)
      /\ \A i \in S : Ends(i, its[i], st)
      /\ \A i \in Id : RecordKept(i)
  BY FinishEffect
<1>2. \A i \in Id \ S : Backed(i)' /\ Shrinks(i)
  BY <1>1, BackedStays DEF StaysPut, AllBacked
<1>3. ASSUME NEW i \in S
      PROVE  Backed(i)' /\ Shrinks(i)
  <2>1. items'[i] = None /\ receipts'[i] # None
    BY <1>1 DEF Ends
  <2>2. disk'[i] = None \/ "delete" \in Upsets
    <3>1. disk' = Deleted(S, {}, {}) \/ "delete" \in Upsets
      BY DEF Finish, Upset, ReceiptsKept
    <3>2. Deleted(S, {}, {})[i] = None
      BY DEF Deleted
    <3>3. QED
      BY <3>1, <3>2
  <2>3. QED
    BY <2>1, <2>2 DEF Backed, Shrinks
<1>4. QED
  BY <1>2, <1>3 DEF Frugal, AllBacked

\* finish_item of present items.
LEMMA BackedDrop ==
    ASSUME ReceiptsKept, StoreType, now \in Nat, LedgerTrue, AllBacked,
           NEW S \in SUBSET Live, NEW st \in Final, Finish(S, st, items)
    PROVE  Frugal
<1>1. S \in SUBSET Id /\ items \in [Id -> MaybeItem] /\ \A i \in S : items[i] \in Item
  BY LiveType DEF StoreType
<1>2. QED
  BY <1>1, BackedFinish

\* An item changes, not in its envelope, and stays, its record written or not.
LEMMA BackedKeep ==
    ASSUME StoreType, AllBacked, NEW i \in Id, NEW it \in Item, items[i] # None,
           it.env = items[i].env, items' = [items EXCEPT ![i] = it],
           disk' = disk \/ disk' = Saved(disk, i, it), receipts' = receipts
    PROVE  Frugal
<1>1. \A j \in Id \ {i} : disk'[j] = disk[j] /\ items'[j] = items[j]
  BY DEF Saved, StoreType
<1>2. \A j \in Id \ {i} : Backed(j)' /\ Shrinks(j)
  BY <1>1, BackedStays DEF RecordKept, AllBacked
<1>3. items'[i] = it /\ it # None
  BY NoneAssumption DEF StoreType
<1>4. \/ disk'[i] = disk[i]
      \/ disk'[i] # None /\ disk'[i].record = it
  <2>1. Saved(disk, i, it)[i].record = it /\ Saved(disk, i, it)[i] \in Dir
    BY DEF Saved, StoreType, MaybeDir, Dir, EmptyDir, NoFile
  <2>2. QED
    BY <2>1, NoneAssumption
<1>5. Backed(i)' /\ Shrinks(i)
  BY <1>3, <1>4 DEF Backed, Shrinks, AllBacked
<1>6. QED
  BY <1>2, <1>5 DEF Frugal, AllBacked

\* load_store, from a ledger that still knows what the receipts knew.
LEMMA BackedLoad ==
    ASSUME AllBacked, NEW d, NEW l, NEW bad, Load(d, l, bad),
           \A i \in Id : d[i] # None /\ d[i].record # None
                         => disk[i] # None /\ d[i].record = disk[i].record,
           \A i \in Id : l[i] = None => receipts[i] = None
    PROVE  Frugal
<1>1. ASSUME NEW i \in Id
      PROVE  Backed(i)' /\ Shrinks(i)
  <2>1. /\ items'[i] # None => l[i] = None /\ d[i] # None /\ items'[i] = d[i].record
        /\ disk'[i] # None => items'[i] # None /\ disk'[i] = d[i]
    BY DEF Load, Recover
  <2>2. items'[i] # None => items[i] # None /\ items'[i].env = items[i].env
    BY <2>1 DEF Backed, AllBacked
  <2>3. QED
    BY <2>1, <2>2 DEF Backed, Shrinks
<1>2. QED
  BY <1>1 DEF Frugal, AllBacked

\* The collector forgets no receipt of an item with a record.
LEMMA BackedCollect ==
    ASSUME Remembers, StoreType, now \in Nat, now <= MaxTime, LedgerTrue, OneFate, AllBacked,
           mounted, GcApply
    PROVE  Frugal
<1>1. /\ \A i \in Overdue : Ends(i, items[i], "expired")
      /\ \A i \in Id \ Overdue : items'[i] = items[i] /\ receipts'[i] \in {receipts[i], None}
      /\ \A i \in Id : RecordKept(i)
  BY CollectEffect DEF Remembers
<1>2. ASSUME NEW i \in Overdue
      PROVE  Backed(i)' /\ Shrinks(i)
  <2>1. items'[i] = None /\ receipts'[i] # None /\ i \in Id
    BY <1>1, <1>2, LiveType DEF Ends
  <2>2. disk'[i] = None \/ "delete" \in Upsets
    <3>1. disk' = Deleted(Overdue \cup {j \in Id : receipts'[j] # None}, {}, {}) \/ "delete" \in Upsets
      BY DEF GcApply, Upset, Remembers, ReceiptsKept
    <3>2. Deleted(Overdue \cup {j \in Id : receipts'[j] # None}, {}, {})[i] = None
      BY <1>2, <2>1 DEF Deleted
    <3>3. QED
      BY <3>1, <3>2
  <2>3. QED
    BY <2>1, <2>2 DEF Backed, Shrinks
<1>3. ASSUME NEW i \in Id \ Overdue
      PROVE  Backed(i)' /\ Shrinks(i)
  <2>1. CASE receipts'[i] = receipts[i]
    BY <1>1, <1>3, <2>1, BackedStays DEF AllBacked
  <2>2. CASE receipts'[i] # receipts[i] /\ "delete" \notin Upsets
    BY <1>1, <1>3, <2>2 DEF Backed, AllBacked, RecordKept, Shrinks
  <2>3. CASE receipts'[i] # receipts[i] /\ MaxTime < ReceiptKeep
    <3>1. receipts[i] # None /\ receipts'[i] = None
      BY <1>1, <1>3, <2>3
    <3>2. receipts[i].at \in Nat /\ ReceiptKeep \in Nat /\ MaxTime \in Nat
      BY <3>1, BoundAssumption DEF StoreType, MaybeReceipt, Receipt
    <3>3. ~ (receipts[i].at + ReceiptKeep <= now)
      BY <2>3, <3>2
    <3>4. Fresh(WithReceipts(receipts, items, Overdue, "expired"))[i] = receipts[i]
      BY <1>3, <3>3 DEF Fresh, WithReceipts
    <3>5. receipts' = Fresh(WithReceipts(receipts, items, Overdue, "expired"))
      <4>1. WithReceipts(receipts, items, Overdue, "expired") \in [Id -> MaybeReceipt]
        BY LiveType, WithReceiptsType DEF StoreType, Final
      <4>2. Overdue = {} => WithReceipts(receipts, items, Overdue, "expired") = receipts
        BY DEF WithReceipts, StoreType
      <4>3. QED
        BY <4>1, <4>2, NoTrim DEF GcApply, Concluded, Remembers
    <3>6. QED
      BY <3>1, <3>4, <3>5
  <2>4. QED
    BY <2>1, <2>2, <2>3 DEF Remembers
<1>4. QED
  BY <1>2, <1>3 DEF Frugal, AllBacked

\* The acknowledgements.
LEMMA BackedAck ==
    ASSUME ReceiptsKept, StoreType, now \in Nat, LedgerTrue, AllBacked,
           NEW i \in Id, NEW d \in Device, AckOk(d, i) \/ AckRefuse(d, i)
    PROVE  Frugal
<1>1. items[i] \in Item /\ items[i] # None /\ {i} \in SUBSET Id
  BY DEF AckOk, AckRefuse, StoreType, MaybeItem
<1>2. PICK it \in Item : /\ it.env = items[i].env
                         /\ \/ Keep(i, it)
                            \/ \E st \in Final : Finish({i}, st, [items EXCEPT ![i] = it])
  <2>1. CASE AckOk(d, i)
    <3> DEFINE it == [items[i] EXCEPT !.delivered = @ \cup {d}]
    <3>1. it \in Item /\ it.env = items[i].env
      BY <1>1 DEF Item
    <3>2. Keep(i, it) \/ Finish({i}, "delivered", [items EXCEPT ![i] = it])
      BY <2>1 DEF AckOk
    <3>3. QED
      BY <3>1, <3>2 DEF Final
  <2>2. CASE AckRefuse(d, i)
    <3> DEFINE it == [items[i] EXCEPT !.refused = @ \cup {d}]
    <3>1. it \in Item /\ it.env = items[i].env
      BY <1>1 DEF Item
    <3>2. \/ Keep(i, it)
          \/ Finish({i}, "delivered", [items EXCEPT ![i] = it])
          \/ Finish({i}, "rejected", [items EXCEPT ![i] = it])
      BY <2>2 DEF AckRefuse
    <3>3. QED
      BY <3>1, <3>2 DEF Final
  <2>3. QED
    BY <2>1, <2>2
<1>3. CASE Keep(i, it)
  BY <1>1, <1>2, <1>3, BackedKeep DEF Keep
<1>4. CASE \E st \in Final : Finish({i}, st, [items EXCEPT ![i] = it])
  <2>1. PICK st \in Final : Finish({i}, st, [items EXCEPT ![i] = it])
    BY <1>4
  <2>2. PICK its : its = [items EXCEPT ![i] = it]
    OBVIOUS
  <2>3. its \in [Id -> MaybeItem] /\ its[i] = it /\ \A j \in Id \ {i} : its[j] = items[j]
    BY <2>2 DEF StoreType, MaybeItem
  <2>4. Finish({i}, st, its)
    BY <2>1, <2>2
  <2>5. QED
    BY <1>1, <2>3, <2>4, BackedFinish
<1>5. QED
  BY <1>2, <1>3, <1>4

\* The steps of a deposit handler.
LEMMA BackedDeposit ==
    ASSUME ReceiptsKept, StoreType, OtherType, LedgerTrue, OneFate, AllBacked,
           NEW c \in Conn, Progress(c), NEW k, k = task[c].env.id
    PROVE  Frugal
<1> USE DEF store, root, env
<1>0. k \in Id /\ task[c].env \in Envelope /\ now \in Nat
  <2>1. task[c].pc # "idle"
    BY DEF Progress, AdmitResume, AdmitNew, AdmitFault, AdmitHeld, AdmitRefuse,
           StartStream, ReplyLost, Stream, StreamFail, Rename, LocalStore,
           AfterFail, MarkHeld, ReplyHeld, DropMark, DropBell
  <2>2. QED
    BY <2>1, TaskType DEF OtherType
<1>1. disk \in [Id -> MaybeDir] /\ (disk[k] # None => disk[k] \in Dir)
  BY <1>0 DEF StoreType, MaybeDir
<1>2. CASE AdmitResume(c) \/ AdmitHeld(c) \/ AdmitRefuse(c) \/ ReplyLost(c) \/ StreamFail(c)
           \/ ReplyHeld(c) \/ DropMark(c) \/ DropBell(c)
  <2>1. UNCHANGED <<items, receipts, disk>>
    BY <1>2 DEF AdmitResume, AdmitHeld, AdmitRefuse, ReplyLost, StreamFail, ReplyHeld, DropMark, DropBell
  <2>2. QED
    BY <2>1, BackedSame DEF RecordKept
<1>3. CASE AdmitFault(c) \/ StartStream(c) \/ Stream(c) \/ Rename(c)
  <2>1. UNCHANGED <<items, receipts>>
    BY <1>3 DEF AdmitFault, StartStream, Stream, Rename
  <2>2. \A i \in Id : RecordKept(i)
    BY <1>0, <1>3, FileSteps
  <2>3. QED
    BY <2>1, <2>2, BackedSame
<1>4. CASE AdmitNew(c)
  <2>1. PICK it : it = NewItem(task[c].env, task[c].all)
    OBVIOUS
  <2>2. /\ items' = [items EXCEPT ![k] = it] /\ receipts' = receipts
        /\ \A j \in Id \ {k} : disk'[j] = disk[j]
    BY <1>1, <1>4, <2>1 DEF AdmitNew
  <2>3. it # None /\ it.env = task[c].env
    <3>1. task[c].all \in BOOLEAN
      BY <1>4 DEF AdmitNew, OtherType, Task, IdleTask
    <3>2. it \in Item
      BY <1>0, <2>1, <3>1, NewItemType
    <3>3. QED
      BY <2>1, <3>2, NoneAssumption DEF NewItem
  <2>4. items'[k] = it /\ \A j \in Id \ {k} : items'[j] = items[j]
    BY <1>0, <2>2 DEF StoreType
  <2>5. disk'[k] # None => disk'[k].record = it
    BY <1>0, <1>1, <1>4, <2>1 DEF AdmitNew, Dir, EmptyDir
  <2>6. Backed(k)'
    BY <2>3, <2>4, <2>5 DEF Backed
  <2>7. \A j \in Id \ {k} : Backed(j)'
    BY <2>2, <2>4, BackedStays DEF RecordKept, AllBacked
  <2>8. Admits(task[c].env)
    BY <1>4, <2>3, <2>4 DEF AdmitNew, CanStore, Admits
  <2>9. QED
    BY <1>0, <2>6, <2>7, <2>8 DEF Frugal, AllBacked
<1>5. CASE LocalStore(c) \/ AfterFail(c) \/ MarkHeld(c)
  <2>1. \/ /\ items[k] # None
           /\ \E st \in Final : Finish({k}, st, items)
        \/ UNCHANGED <<items, receipts, disk>>
        \/ /\ UNCHANGED <<items, receipts>> /\ disk[k] # None
           /\ disk' = [disk EXCEPT ![k] = [@ EXCEPT !.payload = 0]]
        \/ /\ items[k] # None /\ receipts' = receipts
           /\ LET it == [items[k] EXCEPT !.state = "held"]
              IN  /\ items' = [items EXCEPT ![k] = it]
                  /\ disk' = disk \/ disk' = Saved(disk, k, it)
    BY <1>5 DEF LocalStore, AfterFail, MarkHeld, Final
  <2>2. CASE items[k] # None /\ \E st \in Final : Finish({k}, st, items)
    <3>1. {k} \in SUBSET Live
      BY <1>0, <2>2 DEF Live
    <3>2. QED
      BY <1>0, <2>2, <3>1, BackedDrop
  <2>3. CASE UNCHANGED <<items, receipts, disk>>
    BY <2>3, BackedSame DEF RecordKept
  <2>4. CASE /\ UNCHANGED <<items, receipts>> /\ disk[k] # None
             /\ disk' = [disk EXCEPT ![k] = [@ EXCEPT !.payload = 0]]
    <3>1. \A i \in Id : RecordKept(i)
      BY <1>0, <1>1, <2>4 DEF RecordKept, Dir
    <3>2. QED
      BY <2>4, <3>1, BackedSame
  <2>5. CASE /\ items[k] # None /\ receipts' = receipts
             /\ LET it == [items[k] EXCEPT !.state = "held"]
                IN  /\ items' = [items EXCEPT ![k] = it]
                    /\ disk' = disk \/ disk' = Saved(disk, k, it)
    <3> DEFINE it == [items[k] EXCEPT !.state = "held"]
    <3>1. items[k] \in Item
      BY <1>0, <2>5 DEF StoreType, MaybeItem
    <3>2. it \in Item /\ it.env = items[k].env
      BY <3>1 DEF Item
    <3>3. items' = [items EXCEPT ![k] = it] /\ (disk' = disk \/ disk' = Saved(disk, k, it))
      BY <2>5
    <3> HIDE DEF it
    <3>4. QED
      BY <1>0, <2>5, <3>2, <3>3, BackedKeep
  <2>6. QED
    BY <2>1, <2>2, <2>3, <2>4, <2>5
<1>6. QED
  BY <1>2, <1>3, <1>4, <1>5 DEF Progress

\* Every step.
LEMMA BackedStep ==
    ASSUME Remembers, TypeOK, LedgerTrue, OneFate, AllBacked, now <= MaxTime, [Next]_vars
    PROVE  Frugal /\ now' <= MaxTime
<1> USE DEF store, root, env
<1>0. StoreType /\ OtherType /\ now \in Nat /\ MaxTime \in Nat /\ ReceiptsKept
  BY TypeSplit, BoundAssumption DEF OtherType, Remembers
<1>1. CASE \/ UNCHANGED vars
           \/ \E c \in Conn, q \in Request : Deposit(c, q)
           \/ \E c, b \in Conn : Supersede(c, b)
           \/ GcScan \/ Pause \/ Enable \/ Unmount \/ Mount \/ Tick
           \/ \E p \in Person : RestorePerson(p)
           \/ \E i \in Id, d \in Device : Fetch(d, i)
  <2>1. UNCHANGED <<items, receipts, disk>>
    BY <1>1 DEF vars, Deposit, Supersede, GcScan, Pause, Enable, Tick, Unmount, Mount, RestorePerson, Fetch
  <2>2. Frugal
    BY <2>1, BackedSame DEF RecordKept
  <2>3. now' = now \/ (now < MaxTime /\ now' = now + 1)
    BY <1>1 DEF vars, Deposit, Supersede, GcScan, Pause, Enable, Tick, Unmount, Mount, RestorePerson, Fetch
  <2>4. QED
    BY <1>0, <2>2, <2>3
<1>2. ASSUME NEW i \in Id, Cancel(i)
      PROVE  Frugal /\ now' = now
  <2>1. /\ items[i] # None /\ now' = now
        /\ UNCHANGED <<items, receipts, disk>> \/ Finish({i}, "canceled", items)
    BY <1>2 DEF Cancel
  <2>2. {i} \in SUBSET Live /\ "canceled" \in Final
    BY <2>1 DEF Live, Final
  <2>3. UNCHANGED <<items, receipts, disk>> => Frugal
    BY BackedSame DEF RecordKept
  <2>4. QED
    BY <1>0, <2>1, <2>2, <2>3, BackedDrop
<1>3. CASE GcApply
  <2>1. now' = now
    BY <1>3 DEF GcApply
  <2>2. ~ mounted => Frugal
    <3>1. ~ mounted => UNCHANGED <<items, receipts, disk>>
      BY <1>3 DEF GcApply
    <3>2. QED
      BY <3>1, BackedSame DEF RecordKept
  <2>3. mounted => Frugal
    BY <1>0, <1>3, BackedCollect
  <2>4. QED
    BY <2>1, <2>2, <2>3
<1>4. CASE Wipe \/ \E p \in Person : RemovePerson(p)
  <2>1. now' = now /\ \E S \in SUBSET Live : Finish(S, "rejected", items)
    BY <1>0, <1>4, LiveType DEF Wipe, RemovePerson
  <2>2. QED
    BY <1>0, <2>1, BackedDrop DEF Final
<1>5. CASE Disable({}) \/ Disable(Live \ uploading)
  <2>1. PICK S \in SUBSET Live : Disable(S)
    BY <1>5
  <2>2. \A i \in Id : Deleted(S, {}, {})[i] # None /\ Deleted(S, {}, {})[i].record # None
             => disk[i] # None /\ Deleted(S, {}, {})[i].record = disk[i].record
    BY <1>0, DeletedKeeps DEF StoreType
  <2>3. PICK l : l = WithReceipts(ledger, items, S, "rejected")
    OBVIOUS
  <2>4. ASSUME NEW i \in Id, l[i] = None
        PROVE  receipts[i] = None
    <3>1. CASE i \in S
      <4>1. l[i] = ReceiptOf(items[i], "rejected")
        BY <2>3, <3>1 DEF WithReceipts
      <4>2. ReceiptOf(items[i], "rejected") # None
        BY <1>0, <3>1, LiveType, ReceiptIs DEF Final
      <4>3. QED
        BY <2>4, <4>1, <4>2
    <3>2. CASE i \notin S
      BY <2>3, <2>4, <3>2 DEF WithReceipts, LedgerTrue
    <3>3. QED
      BY <3>1, <3>2
  <2>5. Load(Deleted(S, {}, {}), l, {}) /\ now' = now
    BY <2>1, <2>3 DEF Disable
  <2>6. PICK d : d = Deleted(S, {}, {})
    OBVIOUS
  <2>7. Load(d, l, {}) /\ \A i \in Id : d[i] # None /\ d[i].record # None
                                     => disk[i] # None /\ d[i].record = disk[i].record
    BY <2>2, <2>5, <2>6
  <2>8. QED
    BY <2>4, <2>5, <2>7, BackedLoad
<1>6. CASE Crash
  <2>1. now' = now /\ \E bad : Load(disk, ledger, bad)
    BY <1>6 DEF Crash
  <2>2. \A i \in Id : ledger[i] = None => receipts[i] = None
    BY DEF LedgerTrue
  <2>3. QED
    BY <2>1, <2>2, BackedLoad
<1>7. ASSUME NEW i \in Id, NEW d \in Device, AckOk(d, i) \/ AckRefuse(d, i)
      PROVE  Frugal /\ now' = now
  <2>1. now' = now
    BY <1>7 DEF AckOk, AckRefuse
  <2>2. QED
    BY <1>0, <1>7, <2>1, BackedAck
<1>8. ASSUME NEW c \in Conn, Progress(c)
      PROVE  Frugal /\ now' = now
  <2>1. \E k : k = task[c].env.id
    OBVIOUS
  <2>2. now' = now
    BY <1>8 DEF Progress, AdmitResume, AdmitNew, AdmitFault, AdmitHeld, AdmitRefuse,
           StartStream, ReplyLost, Stream, StreamFail, Rename, LocalStore,
           AfterFail, MarkHeld, ReplyHeld, DropMark, DropBell
  <2>3. QED
    BY <1>0, <1>8, <2>1, <2>2, BackedDeposit
<1>9. QED
  <2>1. \/ Frugal /\ now' <= MaxTime
        \/ Frugal /\ now' = now
    BY <1>1, <1>2, <1>3, <1>4, <1>5, <1>6, <1>7, <1>8 DEF Next
  <2>2. QED
    BY <2>1

\* An item's envelope takes a natural number of bytes.
LEMMA NeedType ==
    ASSUME TypeOK, NEW i \in Live
    PROVE  Need(items[i].env) \in Nat
<1>1. items[i].env \in Envelope
  BY DEF TypeOK, Live, Item
<1>2. QED
  BY <1>1, EnvelopeAssumption, BoundAssumption DEF Need

\* Fewer items, with the envelopes they had, are for no device more than before.
LEMMA CountShrinks ==
    ASSUME IsFiniteSet(Id), NEW d, NEW p, NEW n \in Nat, \A i \in Id : Shrinks(i)
    PROVE  /\ Cardinality(ItemsFor(d)) <= n => Cardinality(ItemsFor(d)') <= n
           /\ Cardinality(ItemsFor(d) \cap PersonItems(p)) <= n
              => Cardinality(ItemsFor(d)' \cap PersonItems(p)') <= n
<1>1. /\ ItemsFor(d)' \in SUBSET ItemsFor(d)
      /\ PersonItems(p)' \in SUBSET PersonItems(p)
  BY DEF Shrinks, ItemsFor, PersonItems, Live
<1>2. ASSUME NEW S \in SUBSET Id, NEW T \in SUBSET S, NEW k \in Nat, Cardinality(S) <= k
      PROVE  Cardinality(T) <= k
  <2>1. IsFiniteSet(S) /\ IsFiniteSet(T) /\ Cardinality(T) <= Cardinality(S)
    BY FS_Subset
  <2>2. Cardinality(S) \in Nat /\ Cardinality(T) \in Nat
    BY <2>1, FS_CardinalityType
  <2>3. QED
    BY <1>2, <2>1, <2>2
<1>3. /\ ItemsFor(d) \in SUBSET Id
      /\ ItemsFor(d) \cap PersonItems(p) \in SUBSET Id
      /\ ItemsFor(d)' \cap PersonItems(p)' \in SUBSET (ItemsFor(d) \cap PersonItems(p))
  BY <1>1 DEF ItemsFor, Live
<1>4. QED
  BY <1>1, <1>2, <1>3

\* One more item is one more for its devices and its sender, where there was room.
LEMMA CountGrows ==
    ASSUME TypeOK, IsFiniteSet(Id), NEW e \in Envelope, Admits(e), NEW d, NEW p,
           Cardinality(ItemsFor(d)) <= MaxPerRecipient
    PROVE  /\ Cardinality(ItemsFor(d)') <= MaxPerRecipient
           /\ /\ p # OwnPerson
              /\ Cardinality(ItemsFor(d) \cap PersonItems(p)) <= MaxPerPair
              => Cardinality(ItemsFor(d)' \cap PersonItems(p)') <= MaxPerPair
<1>1. PICK k \in Id : k = e.id
  BY EnvelopeAssumption
<1>2. /\ items[k] = None /\ items'[k] # None /\ items'[k].env = e
      /\ \A i \in Id \ {k} : items'[i] = items[i]
  BY <1>1 DEF Admits
<1>3. /\ d \in e.to => ItemsFor(d)' = ItemsFor(d) \cup {k}
      /\ d \notin e.to => ItemsFor(d)' = ItemsFor(d)
  BY <1>1, <1>2 DEF ItemsFor, Live
<1>4. /\ p = PersonOf[e.from] => PersonItems(p)' = PersonItems(p) \cup {k}
      /\ p # PersonOf[e.from] => PersonItems(p)' = PersonItems(p)
  BY <1>1, <1>2 DEF PersonItems, Live
<1>5. k \notin ItemsFor(d) /\ k \notin PersonItems(p)
  BY <1>2 DEF ItemsFor, PersonItems, Live
<1>6. ASSUME NEW S \in SUBSET Id, NEW n \in Nat, Cardinality(S) < n
      PROVE  Cardinality(S \cup {k}) <= n
  <2>1. IsFiniteSet(S) /\ IsFiniteSet(S \cup {k})
    BY FS_Subset, FS_AddElement
  <2>2. Cardinality(S \cup {k}) = IF k \in S THEN Cardinality(S) ELSE Cardinality(S) + 1
    BY <2>1, FS_AddElement
  <2>3. Cardinality(S) \in Nat
    BY <2>1, FS_CardinalityType
  <2>4. QED
    BY <1>6, <2>2, <2>3
<1>7. /\ ItemsFor(d) \in SUBSET Id /\ ItemsFor(d) \cap PersonItems(p) \in SUBSET Id
      /\ MaxPerRecipient \in Nat /\ MaxPerPair \in Nat
  BY BoundAssumption DEF ItemsFor, Live
<1>8. Cardinality(ItemsFor(d)') <= MaxPerRecipient
  <2>1. CASE d \in e.to
    <3>1. Cardinality(ItemsFor(d)) < MaxPerRecipient
      BY <2>1 DEF Admits, Fits
    <3>2. QED
      BY <1>3, <1>6, <1>7, <2>1, <3>1
  <2>2. CASE d \notin e.to
    BY <1>3, <2>2
  <2>3. QED
    BY <2>1, <2>2
<1>9. ASSUME p # OwnPerson, Cardinality(ItemsFor(d) \cap PersonItems(p)) <= MaxPerPair
      PROVE  Cardinality(ItemsFor(d)' \cap PersonItems(p)') <= MaxPerPair
  <2>1. CASE d \in e.to /\ p = PersonOf[e.from]
    <3>1. Cardinality(ItemsFor(d) \cap PersonItems(p)) < MaxPerPair
      BY <1>9, <2>1 DEF Admits, Fits, OwnDevice
    <3>2. ItemsFor(d)' \cap PersonItems(p)' = (ItemsFor(d) \cap PersonItems(p)) \cup {k}
      BY <1>3, <1>4, <2>1
    <3>3. QED
      BY <1>6, <1>7, <3>1, <3>2
  <2>2. CASE d \notin e.to \/ p # PersonOf[e.from]
    <3>1. ItemsFor(d)' \cap PersonItems(p)' = ItemsFor(d) \cap PersonItems(p)
      BY <1>3, <1>4, <1>5, <2>2
    <3>2. QED
      BY <1>9, <3>1
  <2>3. QED
    BY <2>1, <2>2
<1>10. QED
  BY <1>8, <1>9

\* What fewer items, with the envelopes they had, take.
LEMMA CapShrinks ==
    ASSUME TypeOK, IsFiniteSet(Id), WithinCap, \A i \in Id : Shrinks(i)
    PROVE  WithinCap'
<1>1. ASSUME NEW S \in SUBSET Live, NEW T \in SUBSET S, T \in SUBSET Live'
      PROVE  /\ UsedOf(items, S) \in Nat /\ UsedOf(items', T) \in Nat
             /\ UsedOf(items', T) <= UsedOf(items, S)
  <2>1. IsFiniteSet(S)
    BY FS_Subset DEF Live
  <2>2. \A i \in S : Need(items[i].env) \in Nat
    BY NeedType DEF Live
  <2>3. \A i \in T : Need(items'[i].env) = Need(items[i].env)
    BY <1>1 DEF Shrinks, Live
  <2>4. QED
    BY <2>1, <2>2, <2>3, UsedMore
<1>2. Live' \in SUBSET Live
  BY DEF Shrinks, Live
<1>3. \A p : PersonItems(p) \in SUBSET Live /\ PersonItems(p)' \in SUBSET PersonItems(p)
             /\ PersonItems(p)' \in SUBSET Live'
  BY DEF Shrinks, Live, PersonItems
<1>4. CapBytes \in Nat /\ CapBytes \div 4 \in Nat
  BY BoundAssumption
<1>5. UsedOf(items', Live') <= CapBytes
  <2>1. UsedOf(items, Live) <= CapBytes
    BY DEF WithinCap, UsedBy
  <2>2. UsedOf(items, Live) \in Nat /\ UsedOf(items', Live') \in Nat
        /\ UsedOf(items', Live') <= UsedOf(items, Live)
    BY <1>1, <1>2
  <2>3. QED
    BY <1>4, <2>1, <2>2
<1>6. ASSUME NEW p \in Person \ {OwnPerson}
      PROVE  UsedOf(items', PersonItems(p)') <= CapBytes \div 4
  <2>1. UsedOf(items, PersonItems(p)) <= CapBytes \div 4
    BY DEF WithinCap, UsedBy
  <2>2. UsedOf(items, PersonItems(p)) \in Nat /\ UsedOf(items', PersonItems(p)') \in Nat
        /\ UsedOf(items', PersonItems(p)') <= UsedOf(items, PersonItems(p))
    BY <1>1, <1>3
  <2>3. QED
    BY <1>4, <2>1, <2>2
<1>7. \A d \in Device : Cardinality(ItemsFor(d)') <= MaxPerRecipient
  BY CountShrinks, BoundAssumption DEF WithinCap
<1>8. \A p \in Person \ {OwnPerson}, d \in Device :
         Cardinality(ItemsFor(d)' \cap PersonItems(p)') <= MaxPerPair
  BY CountShrinks, BoundAssumption DEF WithinCap
<1>9. QED
  BY <1>5, <1>6, <1>7, <1>8 DEF WithinCap, UsedBy

\* What one more item takes, for which admit found room.
LEMMA CapGrows ==
    ASSUME TypeOK, IsFiniteSet(Id), WithinCap, NEW e \in Envelope, Admits(e)
    PROVE  WithinCap'
<1>0. /\ e.id \in Id /\ Need(e) \in Nat /\ CapBytes \in Nat /\ CapBytes \div 4 \in Nat
  BY EnvelopeAssumption, BoundAssumption DEF Need
<1>1. PICK k \in Id : k = e.id
  BY <1>0
<1>2. /\ items[k] = None /\ items'[k] # None /\ items'[k].env = e
      /\ \A i \in Id \ {k} : items'[i] = items[i]
  BY <1>1 DEF Admits
<1>3. ASSUME NEW S \in SUBSET Live
      PROVE  /\ UsedOf(items, S) \in Nat
             /\ UsedOf(items', S \cup {k}) = Need(e) + UsedOf(items, S)
             /\ UsedOf(items', S) \in Nat /\ UsedOf(items', S) <= UsedOf(items, S)
  <2>1. PICK U : U = S \cup {k}
    OBVIOUS
  <2>2. IsFiniteSet(S) /\ IsFiniteSet(U)
    BY <2>1, FS_Subset DEF Live
  <2>3. k \notin S /\ S \in SUBSET U /\ k \in U /\ S = U \ {k}
    BY <1>2, <2>1 DEF Live
  <2>4. \A i \in S : Need(items[i].env) \in Nat /\ items'[i] = items[i]
    BY <1>2, <2>3, NeedType DEF Live
  <2>5. \A i \in U : Need(items'[i].env) \in Nat
    BY <1>0, <1>2, <2>1, <2>4
  <2>6. \A i \in S : Need(items[i].env) = Need(items'[i].env)
    BY <2>4
  <2>7. /\ UsedOf(items, S) \in Nat
        /\ UsedOf(items', U) = Need(items'[k].env) + UsedOf(items, S)
    BY <2>2, <2>3, <2>5, <2>6, UsedMore
  <2>8. UsedOf(items', S) \in Nat /\ UsedOf(items', S) <= UsedOf(items, S)
    BY <2>2, <2>4, <2>6, UsedMore
  <2>9. QED
    BY <1>2, <2>1, <2>7, <2>8
<1>4. Live' = Live \cup {k}
  BY <1>2 DEF Live
<1>5. UsedOf(items', Live') <= CapBytes
  <2>1. UsedOf(items, Live) + Need(e) <= CapBytes
    BY DEF Admits, Fits, UsedBy
  <2>2. UsedOf(items, Live) \in Nat /\ UsedOf(items', Live') = Need(e) + UsedOf(items, Live)
    BY <1>3, <1>4
  <2>3. QED
    BY <1>0, <2>1, <2>2
<1>6. ASSUME NEW p \in Person \ {OwnPerson}
      PROVE  UsedOf(items', PersonItems(p)') <= CapBytes \div 4
  <2>1. PersonItems(p) \in SUBSET Live
    BY DEF PersonItems
  <2>2. /\ p = PersonOf[e.from] => PersonItems(p)' = PersonItems(p) \cup {k}
        /\ p # PersonOf[e.from] => PersonItems(p)' = PersonItems(p)
    BY <1>2, <1>4 DEF PersonItems, Live
  <2>3. UsedOf(items, PersonItems(p)) <= CapBytes \div 4
    BY DEF WithinCap, UsedBy
  <2>4. CASE p = PersonOf[e.from]
    <3>1. UsedOf(items, PersonItems(p)) + Need(e) <= CapBytes \div 4
      BY <2>4 DEF Admits, Fits, UsedBy, OwnDevice
    <3>2. UsedOf(items, PersonItems(p)) \in Nat
          /\ UsedOf(items', PersonItems(p)') = Need(e) + UsedOf(items, PersonItems(p))
      BY <1>3, <2>1, <2>2, <2>4
    <3>3. QED
      BY <1>0, <3>1, <3>2
  <2>5. CASE p # PersonOf[e.from]
    <3>1. UsedOf(items, PersonItems(p)) \in Nat /\ UsedOf(items', PersonItems(p)') \in Nat
          /\ UsedOf(items', PersonItems(p)') <= UsedOf(items, PersonItems(p))
      BY <1>3, <2>1, <2>2, <2>5
    <3>2. QED
      BY <1>0, <2>3, <3>1
  <2>6. QED
    BY <2>4, <2>5
<1>7. \A d \in Device : Cardinality(ItemsFor(d)') <= MaxPerRecipient
  BY CountGrows, BoundAssumption DEF WithinCap
<1>8. \A p \in Person \ {OwnPerson}, d \in Device :
         Cardinality(ItemsFor(d)' \cap PersonItems(p)') <= MaxPerPair
  BY CountGrows, BoundAssumption DEF WithinCap
<1>9. QED
  BY <1>5, <1>6, <1>7, <1>8 DEF WithinCap, UsedBy

Thrifty == AllBacked /\ now <= MaxTime /\ WithinCap

\* As long as no receipt is lost, and either deletes work or no receipt is old
\* enough to be forgotten, what the server holds stays within the owner's cap
\* and a device's limit, and a person's share within a quarter of the cap and the
\* limit for one sender and one device: through refused and repeated
\* deposits, crashes, failed writes of records, and switching off and on.
THEOREM WithinCapAlways ==
    ASSUME Remembers
    PROVE  Spec => []WithinCap
<1>0. IsFiniteSet(Id) /\ ReceiptsKept
  BY DEF Remembers, ReceiptsKept
<1>1. Init => Honest /\ Thrifty
  <2>1. SUFFICES ASSUME Init
                 PROVE  Thrifty
    BY HonestStart
  <2>2. AllBacked /\ now = 0 /\ Live = {} /\ \A p : PersonItems(p) = {}
    <3>1. now = 0 /\ items = [i \in Id |-> None] /\ disk = [i \in Id |-> None]
      BY <2>1 DEF Init
    <3>2. Live = {}
      BY <3>1 DEF Live
    <3>3. QED
      BY <3>1, <3>2 DEF AllBacked, Backed, PersonItems
  <2>3. UsedBy({}) = 0 /\ 0 <= CapBytes /\ 0 <= CapBytes \div 4 /\ 0 <= MaxTime
    BY UsedNone, BoundAssumption DEF UsedBy
  <2>4. Cardinality({}) = 0 /\ 0 <= MaxPerRecipient /\ 0 <= MaxPerPair
    BY FS_EmptySet, BoundAssumption
  <2>5. \A d, p : ItemsFor(d) = {} /\ ItemsFor(d) \cap PersonItems(p) = {}
    BY <2>2 DEF ItemsFor
  <2>6. QED
    BY <2>2, <2>3, <2>4, <2>5 DEF Thrifty, WithinCap
<1>2. TypeOK /\ Honest /\ Thrifty /\ [Next]_vars => Honest' /\ Thrifty'
  <2>1. SUFFICES ASSUME TypeOK, Honest, Thrifty, [Next]_vars
                 PROVE  Honest' /\ Thrifty'
    OBVIOUS
  <2>2. Honest'
    BY <1>0, <2>1, HonestStep
  <2>3. Frugal /\ now' <= MaxTime
    BY <2>1, BackedStep DEF Honest, Fate, Thrifty
  <2>4. WithinCap'
    BY <1>0, <2>1, <2>3, CapShrinks, CapGrows DEF Frugal, Thrifty
  <2>5. QED
    BY <2>2, <2>3, <2>4 DEF Frugal, Thrifty
<1>3. Honest /\ Thrifty => WithinCap
  BY DEF Thrifty
<1>4. QED
  BY <1>1, <1>2, <1>3, TypeCorrect, PTL DEF Spec
=============================================================================
