------------------------ MODULE TransferServerMailbox ------------------------
(***************************************************************************)
(* The Transfer Server implements Mailbox, proved step by step: what each  *)
(* step of the server means for an item is a step, or a stutter, of the    *)
(* abstract mailbox.                                                       *)
(***************************************************************************)
EXTENDS TransferServerProofs, TransferServerRefinement

(***************************************************************************)
(* The steps of Mailbox in the server's terms.                             *)
(***************************************************************************)
StaysSo(i) == StatusOf(i)' = StatusOf(i) /\ read'[i] = read[i]

LEMMA BoxSame ==
    ASSUME NEW i \in Id, StaysSo(i), i \in toldHeld' <=> i \in toldHeld
    PROVE  Box!ItemStep(i)
BY DEF Box!ItemStep, Box!Same, StaysSo

LEMMA BoxPromise ==
    ASSUME NEW i \in Id, StaysSo(i), StatusOf(i) = "held", i \in toldHeld'
    PROVE  Box!ItemStep(i)
BY DEF Box!ItemStep, Box!Promise, StaysSo

LEMMA BoxTake ==
    ASSUME NEW i \in Id, StatusOf(i) = "unknown", StatusOf(i)' = "uploading",
           read'[i] = {}, i \notin toldHeld'
    PROVE  Box!ItemStep(i)
BY DEF Box!ItemStep, Box!Take

LEMMA BoxHold ==
    ASSUME NEW i \in Id, StatusOf(i) = "uploading", StatusOf(i)' = "held",
           read'[i] = read[i], i \in toldHeld' => i \in toldHeld
    PROVE  Box!ItemStep(i)
BY DEF Box!ItemStep, Box!HoldItem

LEMMA BoxRead ==
    ASSUME NEW i \in Id, NEW d \in Device, StatusOf(i) = "held", StatusOf(i)' = "held",
           read'[i] = read[i] \cup {d}, i \in toldHeld' <=> i \in toldHeld
    PROVE  Box!ItemStep(i)
BY DEF Box!ItemStep, Box!Read

LEMMA BoxEnd ==
    ASSUME NEW i \in Id, NEW st \in Final, StatusOf(i) \in {"uploading", "held"}, StatusOf(i)' = st,
           st = "delivered" => read[i] # {}, read'[i] = read[i], i \notin toldHeld'
    PROVE  Box!ItemStep(i)
BY DEF Box!ItemStep, Box!End, Box!Open, Box!Ended, Final

LEMMA BoxForget ==
    ASSUME NEW i \in Id, StatusOf(i) \in Final, StatusOf(i)' = "unknown",
           read'[i] = read[i], i \notin toldHeld'
    PROVE  Box!ItemStep(i)
BY DEF Box!ItemStep, Box!Forget, Box!Ended, Final

\* What an item, or its receipt, says of its status.
LEMMA StatusIs ==
    ASSUME TypeOK, NEW i \in Id
    PROVE  /\ items[i] # None => StatusOf(i) = items[i].state /\ items[i].state \in {"uploading", "held"}
           /\ items[i] = None /\ receipts[i] # None
              => StatusOf(i) = receipts[i].state /\ receipts[i].state \in Final
           /\ items[i] = None /\ receipts[i] = None => StatusOf(i) = "unknown"
BY DEF StatusOf, TypeOK, Item, Receipt

(***************************************************************************)
(* No folder outlives the receipt of its item.                             *)
(***************************************************************************)
\* A delete works, or no receipt gets old enough to be forgotten; and every
\* folder can be read.
Tidy ==
    /\ Sound /\ "unreadable" \notin Upsets
    /\ "delete" \in Upsets => MaxTime < ReceiptKeep

\* Then a folder without an item has a receipt that stays, and nothing is ever
\* set aside.
Left(i) ==
    /\ aside[i] = None
    /\ disk[i] # None => items[i] # None \/ (receipts[i] # None /\ MaxTime < ReceiptKeep)

Clean == now <= MaxTime /\ \A i \in Id : Left(i)

\* What every step does.
Moved == Clean' /\ \A i \in Id : Box!ItemStep(i)

\* Only held items are promised.
LEMMA PromisedIsHeld ==
    ASSUME Safe, Clean, NEW i \in toldHeld, i \in Id
    PROVE  items[i] # None /\ items[i].state = "held"
BY DEF Safe, Durable, Stored, Clean, Left

LEMMA LeftStays ==
    ASSUME NEW i \in Id, Left(i), UNCHANGED aside, items[i] # None => items'[i] # None,
           receipts'[i] = receipts[i], disk'[i] # None => disk[i] # None
    PROVE  Left(i)'
BY DEF Left

\* A step that changes no item, receipt, read or promise.
LEMMA MoveSame ==
    ASSUME Clean, UNCHANGED <<items, receipts, aside, read, toldHeld>>, now' <= MaxTime,
           \A i \in Id : disk'[i] # None => disk[i] # None
    PROVE  Moved
<1>1. \A i \in Id : StaysSo(i) /\ (i \in toldHeld' <=> i \in toldHeld)
  BY DEF StaysSo, StatusOf
<1>2. \A i \in Id : Left(i)'
  BY LeftStays DEF Clean
<1>3. QED
  BY <1>1, <1>2, BoxSame DEF Moved, Clean

\* A step that changes one item and its folder, which are there before and after.
LEMMA MoveOne ==
    ASSUME Clean, NEW k \in Id, items[k] # None, items'[k] # None,
           UNCHANGED <<receipts, aside, read, toldHeld, now>>,
           \A i \in Id \ {k} : items'[i] = items[i] /\ disk'[i] = disk[i],
           \/ items'[k].state = items[k].state
           \/ items[k].state = "uploading" /\ items'[k].state = "held"
    PROVE  Moved
<1>1. ASSUME NEW i \in Id \ {k}
      PROVE  Box!ItemStep(i) /\ Left(i)'
  <2>1. StaysSo(i) /\ (i \in toldHeld' <=> i \in toldHeld)
    BY DEF StaysSo, StatusOf
  <2>2. QED
    BY <2>1, BoxSame, LeftStays DEF Clean
<1>2. Left(k)'
  BY DEF Left, Clean
<1>3. Box!ItemStep(k)
  <2>1. StatusOf(k) = items[k].state /\ StatusOf(k)' = items'[k].state
    BY DEF StatusOf
  <2>2. CASE items'[k].state = items[k].state
    BY <2>1, <2>2, BoxSame DEF StaysSo
  <2>3. CASE items[k].state = "uploading" /\ items'[k].state = "held"
    BY <2>1, <2>3, BoxHold
  <2>4. QED
    BY <2>2, <2>3
<1>4. QED
  BY <1>1, <1>2, <1>3 DEF Moved, Clean

\* finish_item.
LEMMA MoveFinish ==
    ASSUME Tidy, TypeOK, Safe, Clean, UNCHANGED <<read, now>>,
           NEW S \in SUBSET Id, NEW st \in Final, NEW its \in [Id -> MaybeItem],
           \A i \in S : its[i] \in Item /\ items[i] # None /\ (st = "delivered" => read[i] # {}),
           \A i \in Id \ S : its[i] = items[i],
           Finish(S, st, its)
    PROVE  Moved
<1>0. StoreType /\ now \in Nat /\ LedgerTrue /\ ReceiptsKept
  BY TypeSplit DEF OtherType, Safe, Honest, Tidy, Sound
<1>1. /\ \A i \in Id \ S : StaysPut(i)
      /\ \A i \in S : Ends(i, its[i], st)
      /\ aside' = aside /\ toldHeld' = toldHeld \ S
  BY <1>0, FinishEffect
<1>2. ASSUME NEW i \in Id \ S
      PROVE  Box!ItemStep(i) /\ Left(i)'
  <2>1. StaysSo(i) /\ (i \in toldHeld' <=> i \in toldHeld)
    BY <1>1 DEF StaysSo, StatusOf, StaysPut
  <2>2. QED
    BY <1>1, <2>1, BoxSame, LeftStays DEF Clean, StaysPut
<1>3. ASSUME NEW i \in S
      PROVE  Box!ItemStep(i) /\ Left(i)'
  <2>1. StatusOf(i) \in {"uploading", "held"}
    BY StatusIs
  <2>2. StatusOf(i)' = st
    BY <1>1, <1>3, ReceiptIs, <1>0 DEF StatusOf, Ends
  <2>3. Box!ItemStep(i)
    BY <1>1, <2>1, <2>2, BoxEnd
  <2>4. disk'[i] = None \/ "delete" \in Upsets
    BY <1>0 DEF Finish, Upset, Deleted, ReceiptsKept
  <2>5. QED
    BY <1>1, <2>3, <2>4 DEF Left, Clean, Ends, Tidy
<1>4. QED
  BY <1>2, <1>3 DEF Moved, Clean

LEMMA MoveDrop ==
    ASSUME Tidy, TypeOK, Safe, Clean, UNCHANGED <<read, now>>,
           NEW S \in SUBSET Live, NEW st \in Final \ {"delivered"}, Finish(S, st, items)
    PROVE  Moved
<1>1. S \in SUBSET Id /\ items \in [Id -> MaybeItem] /\ \A i \in S : items[i] \in Item /\ items[i] # None
  BY LiveType, TypeSplit DEF StoreType, Live
<1>2. QED
  BY <1>1, MoveFinish

(***************************************************************************)
(* The steps of the server.                                                *)
(***************************************************************************)
\* A deposit is admitted: the mailbox takes the item.
LEMMA MoveAdmit ==
    ASSUME TypeOK, Safe, Clean, NEW c \in Conn, AdmitNew(c)
    PROVE  Moved
<1>0. task[c].pc # "idle" /\ task \in [Conn -> Task]
  BY DEF AdmitNew, TypeOK
<1>1. PICK k \in Id : k = task[c].env.id
  BY <1>0, TaskType
<1>2. /\ task[c] \in Task \ {IdleTask} /\ task[c].env \in Envelope /\ now \in Nat
  BY <1>0, TaskType DEF TypeOK
<1> DEFINE it == NewItem(task[c].env, task[c].all)
<1>3. it \in Item /\ it.state = "uploading"
  BY <1>2, NewItemType DEF Task, NewItem
<1>4. /\ items[k] = None /\ receipts[k] = None
      /\ items' = [items EXCEPT ![k] = it] /\ \E d : disk' = [disk EXCEPT ![k] = d]
      /\ read' = [read EXCEPT ![k] = {}] /\ toldHeld' = toldHeld \ {k}
      /\ UNCHANGED <<receipts, aside, now>>
  BY <1>1 DEF AdmitNew, CanStore, env
<1> HIDE DEF it
<1>5. /\ items'[k] = it /\ it # None /\ read'[k] = {}
      /\ \A i \in Id \ {k} : items'[i] = items[i] /\ disk'[i] = disk[i] /\ read'[i] = read[i]
  BY <1>3, <1>4, NoneAssumption DEF TypeOK
<1>6. ASSUME NEW i \in Id \ {k}
      PROVE  Box!ItemStep(i) /\ Left(i)'
  <2>1. StaysSo(i) /\ (i \in toldHeld' <=> i \in toldHeld)
    BY <1>4, <1>5 DEF StaysSo, StatusOf
  <2>2. QED
    BY <1>4, <1>5, <2>1, BoxSame, LeftStays DEF Clean
<1>7. Box!ItemStep(k) /\ Left(k)'
  <2>1. StatusOf(k) = "unknown" /\ StatusOf(k)' = "uploading"
    BY <1>3, <1>4, <1>5 DEF StatusOf
  <2>2. QED
    BY <1>4, <1>5, <2>1, BoxTake DEF Left, Clean
<1>8. QED
  BY <1>4, <1>6, <1>7 DEF Moved, Clean

\* "held" is answered: the mailbox promises the item.
LEMMA MovePromise ==
    ASSUME TypeOK, Clean, UNCHANGED <<items, receipts, disk, aside, read, now>>, NEW k \in Id,
           items[k] # None, items[k].state = "held", toldHeld' = toldHeld \cup {k}
    PROVE  Moved
<1>1. \A i \in Id : StaysSo(i) /\ Left(i)'
  BY DEF StaysSo, StatusOf, Left, Clean
<1>2. \A i \in Id \ {k} : Box!ItemStep(i)
  BY <1>1, BoxSame
<1>3. Box!ItemStep(k)
  BY <1>1, BoxPromise DEF StatusOf
<1>4. QED
  BY <1>1, <1>2, <1>3 DEF Moved, Clean

\* A recipient reads the item.
LEMMA MoveFetch ==
    ASSUME TypeOK, Clean, NEW k \in Id, NEW d \in Device, Fetch(d, k)
    PROVE  Moved
<1>1. /\ UNCHANGED <<items, receipts, disk, aside, toldHeld, now>>
      /\ items[k] # None /\ items[k].state = "held"
      /\ read'[k] = read[k] \cup {d} /\ \A i \in Id \ {k} : read'[i] = read[i]
  BY DEF Fetch, TypeOK, store, root, env
<1>2. \A i \in Id \ {k} : Box!ItemStep(i)
  BY <1>1, BoxSame DEF StaysSo, StatusOf
<1>3. Box!ItemStep(k)
  <2>1. StatusOf(k) = "held" /\ StatusOf(k)' = "held"
    BY <1>1 DEF StatusOf
  <2>2. QED
    BY <1>1, <2>1, BoxRead
<1>4. \A i \in Id : Left(i)'
  BY <1>1 DEF Left, Clean
<1>5. QED
  BY <1>1, <1>2, <1>3, <1>4 DEF Moved, Clean

\* The receipts of what expired are all kept.
LEMMA ReceiptsOfCollected ==
    ASSUME ReceiptsKept, StoreType, now \in Nat
    PROVE  Concluded(receipts, items, Overdue, "expired")
             = WithReceipts(receipts, items, Overdue, "expired")
<1> DEFINE W == WithReceipts(receipts, items, Overdue, "expired")
<1>1. /\ Overdue \in SUBSET Id /\ \A i \in Overdue : items[i] \in Item
      /\ "expired" \in Final /\ items \in [Id -> MaybeItem] /\ receipts \in [Id -> MaybeReceipt]
  BY LiveType DEF StoreType, Final
<1>2. W \in [Id -> MaybeReceipt]
  BY <1>1, WithReceiptsType
<1>3. Overdue = {} => W = receipts
  BY <1>1 DEF WithReceipts
<1>4. QED
  BY <1>2, <1>3, NoTrim DEF Concluded

\* The collector: items expire, receipts are forgotten.
LEMMA MoveCollect ==
    ASSUME Tidy, TypeOK, Safe, Clean, mounted, GcApply
    PROVE  Moved
<1>0. /\ StoreType /\ now \in Nat /\ LedgerTrue /\ OneFate /\ ReceiptsKept
      /\ Overdue \subseteq Live /\ Live \subseteq Id /\ now <= MaxTime
  BY TypeSplit, LiveType DEF OtherType, Safe, Honest, Fate, Tidy, Sound, Clean
<1>1. /\ \A i \in Overdue : Ends(i, items[i], "expired")
      /\ \A i \in Id \ Overdue : items'[i] = items[i] /\ receipts'[i] \in {receipts[i], None}
      /\ toldHeld' = toldHeld \ (Overdue \cup Aged)
  BY <1>0, CollectEffect
<1>2. Aged = {} /\ UNCHANGED <<aside, read, now>>
  <2>1. Aged = {}
    BY DEF Aged, Clean, Left
  <2>2. aside' = [i \in Id |-> aside[i]]
    BY <2>1 DEF GcApply
  <2>3. QED
    BY <1>0, <2>1, <2>2 DEF GcApply, StoreType
<1> DEFINE W == WithReceipts(receipts, items, Overdue, "expired")
           done == {i \in Id : Fresh(Concluded(receipts, items, Overdue, "expired"))[i] # None}
<1>3. \E kept : \/ disk' = Deleted(Overdue \cup done, {}, {})
                \/ "delete" \in Upsets /\ disk' = Deleted(Overdue \cup done, Overdue \cup done, kept)
  BY <1>0 DEF GcApply, ReceiptsKept, Upset
<1> HIDE DEF done
<1>4. ASSUME NEW i \in Overdue
      PROVE  Box!ItemStep(i) /\ Left(i)'
  <2>1. i \in Id /\ items[i] \in Item /\ items[i] # None
    BY <1>0, LiveType DEF Live
  <2>2. StatusOf(i) \in {"uploading", "held"}
    BY <2>1, StatusIs
  <2>3. StatusOf(i)' = "expired" /\ receipts'[i] # None
    BY <1>0, <1>1, <2>1, ReceiptIs DEF StatusOf, Ends, Final
  <2>4. Box!ItemStep(i)
    BY <1>1, <1>2, <2>1, <2>2, <2>3, BoxEnd DEF Final
  <2>5. disk'[i] = None \/ "delete" \in Upsets
    BY <1>3, <2>1 DEF Deleted
  <2>6. QED
    BY <1>2, <2>1, <2>3, <2>4, <2>5 DEF Left, Clean, Tidy
<1>5. ASSUME NEW i \in Id \ Overdue
      PROVE  Box!ItemStep(i) /\ Left(i)'
  <2>1. items'[i] = items[i] /\ receipts'[i] \in {receipts[i], None} /\ read'[i] = read[i]
        /\ (i \in toldHeld' <=> i \in toldHeld)
    BY <1>1, <1>2
  <2>2. Box!ItemStep(i)
    <3>1. CASE items[i] # None \/ receipts'[i] = receipts[i]
      BY <2>1, <3>1, BoxSame DEF StaysSo, StatusOf
    <3>2. CASE items[i] = None /\ receipts[i] # None /\ receipts'[i] = None
      <4>1. StatusOf(i) \in Final /\ StatusOf(i)' = "unknown"
        BY <2>1, <3>2, StatusIs DEF StatusOf
      <4>2. i \notin toldHeld'
        BY <2>1, <3>2, PromisedIsHeld
      <4>3. QED
        BY <2>1, <4>1, <4>2, BoxForget
    <3>3. QED
      BY <2>1, <3>1, <3>2
  <2>3. disk'[i] # None => disk[i] # None
    BY <1>3 DEF Deleted
  <2>4. MaxTime < ReceiptKeep /\ receipts[i] # None => receipts'[i] # None
    <3>1. SUFFICES ASSUME MaxTime < ReceiptKeep, receipts[i] # None
                   PROVE  receipts'[i] # None
      OBVIOUS
    <3>2. W[i] = receipts[i]
      BY DEF WithReceipts
    <3>3. Concluded(receipts, items, Overdue, "expired") = W
      BY <1>0, ReceiptsOfCollected
    <3> HIDE DEF W
    <3>4. receipts' = Fresh(W)
      BY <3>3 DEF GcApply
    <3>5. receipts[i].at \in Nat /\ MaxTime \in Nat /\ ReceiptKeep \in Nat
      BY <1>0, <3>1, BoundAssumption DEF StoreType, MaybeReceipt, Receipt
    <3>6. ~ (receipts[i].at + ReceiptKeep <= now)
      BY <1>0, <3>1, <3>5
    <3>7. QED
      BY <3>1, <3>2, <3>4, <3>6 DEF Fresh
  <2>5. QED
    BY <1>2, <2>1, <2>2, <2>3, <2>4 DEF Left, Clean
<1>6. QED
  BY <1>2, <1>4, <1>5 DEF Moved, Clean

\* A restart changes nothing that a sender or a recipient can see.
LEMMA MoveCrash ==
    ASSUME Tidy, TypeOK, Safe, Clean, Crash
    PROVE  Moved
<1>1. Load(disk, ledger, {}) /\ UNCHANGED <<read, toldHeld, now>>
  BY DEF Crash, Tidy, Upset
<1>2. LedgerTrue /\ OneFate
  BY DEF Safe, Honest, Fate
<1>3. receipts' = receipts
  BY <1>1, <1>2 DEF Load, LedgerTrue
<1>4. ASSUME NEW i \in Id
      PROVE  items'[i] = items[i] /\ Left(i)'
  <2>1. Stored(i) /\ Left(i)
    BY DEF Safe, Durable, Clean
  <2>2. items[i] # None => ledger[i] = None
    BY <1>2 DEF LedgerTrue, OneFate, Live, Receipted
  <2>3. items'[i] = Recover(disk, ledger, i)
    BY <1>1 DEF Load
  <2>4. CASE items[i] # None
    <3>1. Recover(disk, ledger, i) = items[i]
      BY <2>1, <2>2, <2>4 DEF Stored, Recover
    <3>2. aside'[i] = aside[i]
      BY <1>1, <2>4, <3>1, <2>1 DEF Load, SetAside
    <3>3. QED
      BY <2>1, <2>3, <2>4, <3>1, <3>2 DEF Left
  <2>5. CASE items[i] = None
    <3>1. disk[i] = None \/ ledger[i] # None
      BY <1>2, <2>1, <2>5 DEF Left, LedgerTrue
    <3>2. Recover(disk, ledger, i) = None
      BY <3>1 DEF Recover
    <3>3. aside'[i] = aside[i] /\ disk'[i] = None
      BY <1>1, <3>1, <3>2 DEF Load, SetAside
    <3>4. QED
      BY <2>1, <2>3, <2>5, <3>2, <3>3 DEF Left
  <2>6. QED
    BY <2>4, <2>5
<1>5. ASSUME NEW i \in Id
      PROVE  Box!ItemStep(i)
  BY <1>1, <1>3, <1>4, BoxSame DEF StaysSo, StatusOf
<1>6. QED
  BY <1>1, <1>4, <1>5 DEF Moved, Clean

\* A handler's step.
LEMMA MoveHandler ==
    ASSUME Tidy, TypeOK, Safe, Clean, NEW c \in Conn, Progress(c)
    PROVE  Moved
<1> USE DEF store, root, env
<1>0. task[c].pc # "idle" /\ task \in [Conn -> Task] /\ now' = now
  BY DEF TypeOK, Progress, AdmitResume, AdmitNew, AdmitFault, AdmitHeld, AdmitRefuse,
     StartStream, ReplyLost, Stream, StreamFail, Rename, LocalStore, AfterFail, MarkHeld, ReplyHeld,
     DropMark, DropBell
<1>1. PICK k \in Id : k = task[c].env.id
  BY <1>0, TaskType
<1>2. disk \in [Id -> MaybeDir] /\ items \in [Id -> MaybeItem] /\ now <= MaxTime
  BY TypeSplit DEF StoreType, Clean
<1>3. ~ AdmitFault(c)
  BY DEF AdmitFault, Tidy, Sound, Upset
<1>4. CASE AdmitNew(c)
  BY <1>4, MoveAdmit
<1>5. CASE AdmitHeld(c)
  BY <1>0, <1>1, <1>5, MovePromise DEF AdmitHeld
<1>6. CASE ReplyHeld(c)
  <2>1. /\ UNCHANGED <<items, receipts, disk, aside, read, now>>
        /\ toldHeld' \in {toldHeld, toldHeld \cup ({k} \cap Live)}
        /\ task[c].pc = "held"
    BY <1>1, <1>6 DEF ReplyHeld
  <2>2. CASE toldHeld' = toldHeld
    BY <1>2, <2>1, <2>2, MoveSame
  <2>3. CASE toldHeld' # toldHeld
    <3>1. items[k] # None /\ toldHeld' = toldHeld \cup {k}
      BY <2>1, <2>3 DEF Live
    <3>2. items[k].state = "held"
      BY <1>1, <2>1, <3>1 DEF Safe, Durable, Works
    <3>3. QED
      BY <2>1, <3>1, <3>2, MovePromise
  <2>4. QED
    BY <2>2, <2>3
<1>7. CASE \/ AdmitResume(c) \/ AdmitRefuse(c) \/ StartStream(c) \/ ReplyLost(c) \/ Stream(c)
           \/ StreamFail(c) \/ Rename(c) \/ DropMark(c) \/ DropBell(c)
  <2>1. UNCHANGED <<items, receipts, aside, read, toldHeld>>
    BY <1>7 DEF AdmitResume, AdmitRefuse, StartStream, ReplyLost, Stream, StreamFail, Rename, DropMark,
       DropBell
  <2>2. disk' = disk \/ (disk[k] # None /\ \E d : disk' = [disk EXCEPT ![k] = d])
    BY <1>1, <1>7 DEF AdmitResume, AdmitRefuse, StartStream, ReplyLost, Stream, StreamFail, Rename,
       DropMark, DropBell
  <2>3. \A i \in Id : disk'[i] # None => disk[i] # None
    BY <1>2, <2>2
  <2>4. QED
    BY <1>0, <1>2, <2>1, <2>3, MoveSame
<1>8. CASE LocalStore(c) \/ AfterFail(c) \/ MarkHeld(c)
  <2>0. /\ items[k] # None /\ items[k].state = "uploading" /\ items[k] \in Item
        /\ UNCHANGED <<read, now>> /\ disk[k] # None
    <3>1. items[k] # None /\ items[k].state = "uploading"
      BY <1>1, <1>8 DEF LocalStore, AfterFail, MarkHeld, Safe, Durable, Works
    <3>2. QED
      BY <1>2, <1>8, <3>1 DEF LocalStore, AfterFail, MarkHeld, Safe, Durable, Stored, MaybeItem
  <2>1. \/ \E st \in Final \ {"delivered"} : Finish({k}, st, items)
        \/ /\ UNCHANGED <<items, receipts, aside, toldHeld>>
           /\ disk' = disk \/ \E d : disk' = [disk EXCEPT ![k] = d]
        \/ /\ items' = [items EXCEPT ![k] = [items[k] EXCEPT !.state = "held"]]
           /\ UNCHANGED <<receipts, aside, toldHeld>>
           /\ disk' = Saved(disk, k, [items[k] EXCEPT !.state = "held"])
    BY <1>1, <1>8, <2>0 DEF LocalStore, AfterFail, MarkHeld, Final, Tidy, Sound, Upset
  <2>2. CASE \E st \in Final \ {"delivered"} : Finish({k}, st, items)
    <3>1. {k} \in SUBSET Live
      BY <2>0 DEF Live
    <3>2. QED
      BY <2>0, <2>2, <3>1, MoveDrop
  <2>3. CASE /\ UNCHANGED <<items, receipts, aside, toldHeld>>
             /\ disk' = disk \/ \E d : disk' = [disk EXCEPT ![k] = d]
    <3>1. \A i \in Id : disk'[i] # None => disk[i] # None
      BY <1>2, <2>0, <2>3
    <3>2. QED
      BY <1>0, <1>2, <2>0, <2>3, <3>1, MoveSame
  <2>4. CASE /\ items' = [items EXCEPT ![k] = [items[k] EXCEPT !.state = "held"]]
             /\ UNCHANGED <<receipts, aside, toldHeld>>
             /\ disk' = Saved(disk, k, [items[k] EXCEPT !.state = "held"])
    <3> DEFINE it == [items[k] EXCEPT !.state = "held"]
    <3>1. it \in Item /\ it.state = "held" /\ it # None
      BY <2>0, NoneAssumption DEF Item
    <3>2. items' = [items EXCEPT ![k] = it] /\ disk' = Saved(disk, k, it)
      BY <2>4
    <3> HIDE DEF it
    <3>3. /\ items'[k] = it
          /\ \A i \in Id \ {k} : items'[i] = items[i] /\ disk'[i] = disk[i]
      BY <1>2, <3>2 DEF Saved
    <3>4. QED
      BY <2>0, <2>4, <3>1, <3>3, MoveOne
  <2>5. QED
    BY <2>1, <2>2, <2>3, <2>4
<1>9. QED
  BY <1>3, <1>4, <1>5, <1>6, <1>7, <1>8 DEF Progress

\* An ack or a refusal.
LEMMA MoveAck ==
    ASSUME Tidy, TypeOK, Safe, Clean, NEW k \in Id, NEW d \in Device, AckOk(d, k) \/ AckRefuse(d, k)
    PROVE  Moved
<1>1. /\ items[k] \in Item /\ items[k] # None /\ read[k] # {} /\ UNCHANGED <<read, now>>
      /\ items \in [Id -> MaybeItem] /\ disk \in [Id -> MaybeDir]
  BY TypeSplit DEF AckOk, AckRefuse, StoreType, MaybeItem
<1>2. ASSUME NEW it \in Item, it.state = items[k].state, NEW st \in Final,
             \/ Keep(k, it)
             \/ Finish({k}, st, [items EXCEPT ![k] = it])
      PROVE  Moved
  <2>1. CASE Keep(k, it)
    <3>1. /\ items'[k] = it /\ it # None
          /\ \A i \in Id \ {k} : items'[i] = items[i] /\ disk'[i] = disk[i]
      BY <1>1, <2>1, NoneAssumption DEF Keep, Saved
    <3>2. UNCHANGED <<receipts, aside, read, toldHeld, now>>
      BY <1>1, <2>1 DEF Keep
    <3>3. QED
      BY <1>1, <1>2, <3>1, <3>2, MoveOne
  <2>2. CASE Finish({k}, st, [items EXCEPT ![k] = it])
    <3> DEFINE its == [items EXCEPT ![k] = it]
    <3>1. /\ its \in [Id -> MaybeItem] /\ its[k] = it
          /\ \A i \in Id \ {k} : its[i] = items[i]
      BY <1>1 DEF MaybeItem
    <3> HIDE DEF its
    <3>2. Finish({k}, st, its) /\ {k} \in SUBSET Id
      BY <2>2 DEF its
    <3>3. QED
      BY <1>1, <3>1, <3>2, MoveFinish
  <2>3. QED
    BY <1>2, <2>1, <2>2
<1>3. CASE AckOk(d, k)
  <2> DEFINE it == [items[k] EXCEPT !.delivered = items[k].delivered \cup {d}]
  <2>1. it \in Item /\ it.state = items[k].state
    BY <1>1, <1>3 DEF Item
  <2>2. Keep(k, it) \/ Finish({k}, "delivered", [items EXCEPT ![k] = it])
    BY <1>3 DEF AckOk
  <2> HIDE DEF it
  <2>3. QED
    BY <1>2, <2>1, <2>2 DEF Final
<1>4. CASE AckRefuse(d, k)
  <2> DEFINE it == [items[k] EXCEPT !.refused = items[k].refused \cup {d}]
             st == IF it.delivered = {} THEN "rejected" ELSE "delivered"
  <2>1. it \in Item /\ it.state = items[k].state /\ st \in Final
    BY <1>1, <1>4 DEF Item, Final
  <2>2. Keep(k, it) \/ Finish({k}, st, [items EXCEPT ![k] = it])
    BY <1>4 DEF AckRefuse
  <2> HIDE DEF it, st
  <2>3. QED
    BY <1>2, <2>1, <2>2
<1>5. QED
  BY <1>3, <1>4

\* Every step of the server is a step of the mailbox.
LEMMA MoveStep ==
    ASSUME Tidy, TypeOK, Safe, Clean, [Next]_vars
    PROVE  Moved
<1> USE DEF store, root, env
<1>0. StoreType /\ now <= MaxTime /\ now \in Nat /\ MaxTime \in Nat
  BY TypeSplit, BoundAssumption DEF OtherType, Clean
<1>1. CASE \/ UNCHANGED vars \/ GcScan \/ Pause \/ Enable \/ Unmount \/ Mount
           \/ (\E p \in Person : RestorePerson(p))
           \/ (\E c \in Conn, q \in Request : Deposit(c, q))
           \/ (\E c, b \in Conn : Supersede(c, b))
  BY <1>0, <1>1, MoveSame DEF vars, GcScan, Pause, Enable, Unmount, Mount, RestorePerson, Deposit,
     Supersede
<1>2. CASE Tick
  <2>1. now' <= MaxTime
    BY <1>0, <1>2 DEF Tick
  <2>2. QED
    BY <1>2, <2>1, MoveSame DEF Tick
<1>3. CASE GcApply
  <2>1. CASE mounted
    BY <1>3, <2>1, MoveCollect
  <2>2. CASE ~ mounted
    BY <1>0, <1>3, <2>2, MoveSame DEF GcApply
  <2>3. QED
    BY <2>1, <2>2
<1>4. CASE Wipe \/ \E p \in Person : RemovePerson(p)
  <2>1. UNCHANGED <<read, now>> /\ \E S \in SUBSET Live : Finish(S, "rejected", items)
    BY <1>0, <1>4, LiveType DEF Wipe, RemovePerson
  <2>2. QED
    BY <2>1, MoveDrop DEF Final
<1>5. ~ Disable({}) /\ ~ Disable(Live \ uploading)
  BY DEF Disable, Tidy, Sound, Upset
<1>6. CASE Crash
  BY <1>6, MoveCrash
<1>7. ASSUME NEW i \in Id, Cancel(i)
      PROVE  Moved
  <2>1. /\ UNCHANGED <<read, now>> /\ {i} \in SUBSET Live /\ "canceled" \in Final \ {"delivered"}
        /\ UNCHANGED <<items, receipts, disk, aside, toldHeld>> \/ Finish({i}, "canceled", items)
    BY <1>7 DEF Cancel, Live, Final
  <2>2. QED
    BY <1>0, <2>1, MoveDrop, MoveSame
<1>8. ASSUME NEW i \in Id, NEW d \in Device, Fetch(d, i) \/ AckOk(d, i) \/ AckRefuse(d, i)
      PROVE  Moved
  BY <1>8, MoveFetch, MoveAck
<1>9. ASSUME NEW c \in Conn, Progress(c)
      PROVE  Moved
  BY <1>9, MoveHandler
<1>10. QED
  BY <1>1, <1>2, <1>3, <1>4, <1>5, <1>6, <1>7, <1>8, <1>9 DEF Next

\* While records and receipts can be written, folders can be read, the server is
\* not switched off in the middle of its work, and a failed delete is retried
\* before its receipt is forgotten, the server implements the mailbox: for all
\* numbers of items, devices, handlers and crashes.
THEOREM MailboxImplemented ==
    ASSUME Tidy
    PROVE  Spec => ImplementsMailbox
<1>1. Init => Clean /\ Box!BoxInit
  BY BoundAssumption DEF Init, Clean, Left, Box!BoxInit, StatusOf
<1>2. TypeOK /\ Safe /\ Clean /\ [Next]_vars => Clean' /\ [Box!BoxNext]_(Box!boxVars)
  BY MoveStep DEF Moved, Box!BoxNext
<1>3. Sound
  BY DEF Tidy
<1>4. Spec => [](TypeOK /\ Safe)
  BY <1>3, SafeAlways
<1>5. QED
  BY <1>1, <1>2, <1>4, PTL DEF Spec, ImplementsMailbox, Box!BoxSpec
=============================================================================
