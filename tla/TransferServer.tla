--------------------------- MODULE TransferServer ---------------------------
(***************************************************************************)
(* The Transfer Server: the always-on device that holds sealed items for   *)
(* people who are offline (src-tauri/src/mailbox/server.rs, with the       *)
(* owner's commands of mailbox/cmds.rs).                                   *)
(*                                                                         *)
(* State in memory (struct Store): the index `items`, the `receipts`, the  *)
(* marks `uploading` and `cancelReq`.  State on disk: one folder per item  *)
(* (`disk`: header.json, item.json, payload.part, payload), the receipts   *)
(* ledger `ledger` and the quarantine folder `aside`.  Every use of the    *)
(* store runs under one mutex (with_store), so a critical section is one   *)
(* step here; what happens between two critical sections of one handler    *)
(* is a program counter of an upload task, or of the garbage collector.    *)
(***************************************************************************)
EXTENDS Integers, FiniteSets, FiniteSetsExt

CONSTANTS
    Id,           \* item ids (uuids; naturals, because trimming orders them)
    Device,       \* endpoints that deposit and collect
    Person,       \* usage buckets
    OwnPerson,    \* the bucket "own": the owner's devices
    PersonOf,     \* whose device an endpoint is
    Me,           \* the server device itself (its app deposits locally)
    Envelope,     \* sealed headers: [id, from, to, size]
    Request,      \* deposits senders make: [env, all], all = "all_devices"
    Conn,         \* deposit handlers that may run at once
    CapBytes,     \* cap_bytes
    HeaderBytes,  \* bytes a header counts against the quotas
    MaxPerRecipient, MaxPerPair, MaxUploads, ReceiptMax,
    ChatHold, FileHold, StaleUpload, IdleUpload, ReceiptKeep, QuarantineKeep,
    Upsets,       \* disturbances of this instance: subset of UpsetKinds
    MaxUpsets,    \* bound: disturbances per behaviour
    MaxTime,      \* bound: last reading of the clock
    MaxDeposits,  \* bound: deposit requests per behaviour
    LastDeposit,  \* bound: no new deposit arrives after this time
    None

UpsetKinds == {"crash", "unreadable", "delete", "record", "receipt",
               "unmount", "toggle", "remove", "wipe", "pause"}

NoFile == -1

ASSUME IdAssumption == Id \subseteq Nat /\ None \notin Id
ASSUME DeviceAssumption ==
    /\ PersonOf \in [Device -> Person]
    /\ OwnPerson \in Person
    /\ Me \in Device /\ PersonOf[Me] = OwnPerson
ASSUME EnvelopeAssumption ==
    /\ None \notin Envelope
    /\ Request \subseteq [env : Envelope, all : BOOLEAN]
    /\ \A e \in Envelope :
          /\ e = [id |-> e.id, from |-> e.from, to |-> e.to, size |-> e.size]
          /\ e.id \in Id
          /\ e.from \in Device
          /\ e.to \subseteq Device /\ e.to # {}
          /\ e.size \in Nat
ASSUME BoundAssumption ==
    /\ {CapBytes, HeaderBytes, MaxPerRecipient, MaxPerPair, MaxUploads,
        MaxUpsets, MaxTime, MaxDeposits, LastDeposit} \subseteq Nat
    /\ {ReceiptMax, ChatHold, FileHold, StaleUpload, IdleUpload,
        ReceiptKeep, QuarantineKeep} \subseteq Nat \ {0}
    /\ Upsets \subseteq UpsetKinds

VARIABLES
    items, receipts, uploading, cancelReq,   \* struct Store, in memory
    disk, ledger, aside,                     \* the storage root
    task,                                    \* deposit handlers in progress
    gc,                                      \* the collector between its two locks
    cfg,                                     \* transfer-server.json
    mounted,                                 \* is the storage root reachable?
    now, upsets, arrivals,                   \* clock, disturbances and deposits so far
    read,                                    \* recipients that have the item's bytes
    toldHeld                                 \* live items whose sender was told "held"

store  == <<items, receipts, uploading, cancelReq>>
root   == <<disk, ledger, aside>>
env    == <<cfg, mounted, now, upsets, arrivals>>
vars   == <<store, root, task, gc, env, read, toldHeld>>

(***************************************************************************)
(* Records.                                                                *)
(***************************************************************************)
Final == {"delivered", "rejected", "canceled", "expired"}

Item == [env : Envelope, all : BOOLEAN, created : Nat, expires : Nat,
         state : {"uploading", "held"},
         delivered : SUBSET Device, refused : SUBSET Device]

Receipt == [state : Final, at : Nat, from : Device, deliveredTo : SUBSET Device]

Dir == [header : BOOLEAN, record : Item \cup {None},
        part : Nat \cup {NoFile}, touched : Nat, payload : Nat \cup {NoFile}]

Config == [enabled : BOOLEAN, paused : BOOLEAN,
           members : SUBSET Person, through : SUBSET Person]

\* A deposit handler: none, or between two of its steps.
IdleTask == [pc |-> "idle", env |-> None, all |-> FALSE, have |-> 0,
             bell |-> FALSE, cfg |-> None]

Task == {IdleTask} \cup
        [pc : {"arrived", "admitted", "stream", "failed", "renamed",
               "held", "drop", "unbell"},
         env : Envelope, all : BOOLEAN, have : Nat,
         bell : BOOLEAN, cfg : Config \cup {None}]

\* None is none of the values it stands in for.
ASSUME NoneAssumption == None \notin Nat \cup Item \cup Receipt \cup Dir

EmptyDir == [header |-> FALSE, record |-> None, part |-> NoFile,
             touched |-> 0, payload |-> NoFile]

Live == {i \in Id : items[i] # None}
Receipted == {i \in Id : receipts[i] # None}

Upset(kind) == kind \in Upsets /\ upsets < MaxUpsets

\* The items a handler is marked as writing: it holds an UploadGuard.
Guarding(c) == task[c].pc \in {"admitted", "stream", "failed", "renamed", "held", "drop"}

(***************************************************************************)
(* Rights.                                                                 *)
(***************************************************************************)
\* Rights::own and Rights::any of rights_for, under the config k.
OwnDevice(d) == PersonOf[d] = OwnPerson
MayUse(k, d) == OwnDevice(d) \/ PersonOf[d] \in k.members
MaySendThrough(k, d) == OwnDevice(d) \/ (MayUse(k, d) /\ PersonOf[d] \in k.through)

\* The checks of admit that need no store: paused, rights, and who it is for.
Acceptable(k, e) ==
    /\ ~k.paused
    /\ MayUse(k, e.from)
    /\ Me \notin e.to
    /\ MaySendThrough(k, e.from) \/ \A d \in e.to : MayUse(k, d)

(***************************************************************************)
(* Quotas.                                                                 *)
(***************************************************************************)
Need(e) == e.size + HeaderBytes

UsedOf(its, S) == MapThenSumSet(LAMBDA i : Need(its[i].env), S)
UsedBy(S) == UsedOf(items, S)
PersonItems(p) == {i \in Live : PersonOf[items[i].env.from] = p}
ItemsFor(d) == {i \in Live : d \in items[i].env.to}

\* Mistake: an upload in progress does not count against the quotas.
FitsHeldOnly(e) ==
    LET held == {i \in Live : items[i].state = "held"}
        mine == held \cap PersonItems(PersonOf[e.from])
    IN  /\ UsedBy(held) + Need(e) <= CapBytes
        /\ OwnDevice(e.from) \/ UsedBy(mine) + Need(e) <= CapBytes \div 4

\* The quota checks of admit, for a new item of envelope e.
Fits(e) ==
    LET p == PersonOf[e.from]
        own == OwnDevice(e.from)
    IN  /\ UsedBy(Live) + Need(e) <= CapBytes
        /\ own \/ UsedBy(PersonItems(p)) + Need(e) <= CapBytes \div 4
        /\ \A d \in e.to :
              /\ Cardinality(ItemsFor(d)) < MaxPerRecipient
              /\ own \/ Cardinality(ItemsFor(d) \cap PersonItems(p)) < MaxPerPair
        /\ Cardinality(PersonItems(p) \cap uploading) < MaxUploads

Hold(e) == IF e.size > 0 THEN FileHold ELSE ChatHold

NewItem(e, all) ==
    [env |-> e, all |-> all, created |-> now, expires |-> now + Hold(e),
     state |-> "uploading", delivered |-> {}, refused |-> {}]

\* Item::waiting_for.
WaitingFor(it, d) == d \in it.env.to /\ d \notin it.refused /\ d \notin it.delivered
\* Mistake: one device of several is enough.
SettledByOne(it) == \E d \in it.env.to : ~WaitingFor(it, d)

Settled(it) == \A d \in it.env.to : ~WaitingFor(it, d)

(***************************************************************************)
(* The disk.                                                               *)
(***************************************************************************)
\* Mistake: the record is not written again.
SavedNot(d, i, it) == d

\* save_item: write_atomic of item.json; it either happens or it does not.
Saved(d, i, it) ==
    [d EXCEPT ![i] = [(IF @ = None THEN EmptyDir ELSE @) EXCEPT !.record = it]]

\* A remove_dir_all that stopped half way leaves any of the folder's files.
Remains(d, kept) ==
    [header |-> d.header /\ "header" \in kept,
     record |-> IF "record" \in kept THEN d.record ELSE None,
     part |-> IF "part" \in kept THEN d.part ELSE NoFile,
     touched |-> IF "part" \in kept THEN d.touched ELSE 0,
     payload |-> IF "payload" \in kept THEN d.payload ELSE NoFile]

\* Mistake: the ledger is not consulted, so a failed delete is served again.
RecoverFinished(d, l, i) ==
    IF d[i] # None /\ d[i].record # None /\ d[i].header
       /\ (d[i].record.state = "held" => d[i].payload = d[i].record.env.size)
    THEN d[i].record ELSE None

\* What load_store makes of the folder of item i, given the ledger l.
Recover(d, l, i) ==
    IF /\ d[i] # None
       /\ d[i].record # None
       /\ d[i].record.state = "held" => d[i].payload = d[i].record.env.size
       /\ d[i].header
       /\ l[i] = None
    THEN d[i].record
    ELSE None

\* Mistake: what cannot be read is deleted.
SetAsideNothing(d, l, i, unreadable) == FALSE

\* unloadable: a folder load_store could not load is set aside when its bytes
\* may still be someone's file, deleted when it is provably finished or empty.
SetAside(d, l, i, unreadable) ==
    /\ d[i] # None
    /\ l[i] = None
    /\ i \in unreadable \/ (Recover(d, l, i) = None /\ d[i].payload > 0)

\* load_store on the folders d and the ledger l; the folders in `unreadable`
\* give an I/O error.  (A delete that fails here is retried by the next load.)
Load(d, l, unreadable) ==
    /\ items' = [i \in Id |-> IF i \in unreadable THEN None ELSE Recover(d, l, i)]
    /\ receipts' = l
    /\ ledger' = l
    /\ uploading' = {}
    /\ cancelReq' = {}
    /\ disk' = [i \in Id |-> IF i \notin unreadable /\ Recover(d, l, i) # None
                             THEN d[i] ELSE None]
    /\ aside' = [i \in Id |-> IF SetAside(d, l, i, unreadable) THEN now ELSE aside[i]]

(***************************************************************************)
(* finish_item.                                                            *)
(***************************************************************************)
\* Mistake: the receipt names everyone the item was for.
ReceiptOfAll(it, st) ==
    [state |-> st, at |-> now, from |-> it.env.from, deliveredTo |-> it.env.to]

\* Mistake: the receipt keeps the item's state, not how it ended.
ReceiptOfState(it, st) ==
    [state |-> it.state, at |-> now, from |-> it.env.from, deliveredTo |-> it.delivered]

ReceiptOf(it, st) ==
    [state |-> st, at |-> now, from |-> it.env.from, deliveredTo |-> it.delivered]

\* Only the newest ReceiptMax receipts stay (ties by id).
Newer(R, i, j) == R[i].at > R[j].at \/ (R[i].at = R[j].at /\ i > j)
Trim(R) ==
    [i \in Id |->
        IF /\ R[i] # None
           /\ Cardinality({j \in Id : R[j] # None /\ Newer(R, j, i)}) >= ReceiptMax
        THEN None ELSE R[i]]

\* The index, the receipts and the ledger after finishing the items S of its.
Without(its, S) == [i \in Id |-> IF i \in S THEN None ELSE its[i]]
WithReceipts(R, its, S, st) ==
    [i \in Id |-> IF i \in S THEN ReceiptOf(its[i], st) ELSE R[i]]

Concluded(R, its, S, st) == IF S = {} THEN R ELSE Trim(WithReceipts(R, its, S, st))

\* The folders after deleting those of S: all gone, or the ones of `stay` left
\* with the files in `kept`.
Deleted(S, stay, kept) ==
    [i \in Id |-> IF i \notin S \/ disk[i] = None THEN disk[i]
                  ELSE IF i \in stay THEN Remains(disk[i], kept) ELSE None]

DirFile == {"header", "record", "part", "payload"}

\* finish_item(s, id, st) for every id of S, on the index its.
Finish(S, st, its) ==
    /\ items' = Without(its, S)
    /\ receipts' = Concluded(receipts, its, S, st)
    /\ cancelReq' = cancelReq \ S
    /\ toldHeld' = toldHeld \ S
    /\ UNCHANGED aside
    /\ \/ /\ ledger' = WithReceipts(ledger, its, S, st)
          /\ disk' = Deleted(S, {}, {})
          /\ UNCHANGED upsets
       \/ /\ Upset("delete") /\ S # {}
          /\ ledger' = WithReceipts(ledger, its, S, st)
          /\ \E kept \in SUBSET DirFile : disk' = Deleted(S, S, kept)
          /\ upsets' = upsets + 1
       \/ /\ Upset("receipt") /\ S # {}
          /\ ledger' = ledger
          /\ \E stay \in {{}, S} : disk' = Deleted(S, stay, DirFile)
          /\ upsets' = upsets + 1

(***************************************************************************)
(* mailbox.deposit: one handler per connection.                            *)
(***************************************************************************)
Become(c, t) == task' = [task EXCEPT ![c] = t]
At(c, pc) == Become(c, [task[c] EXCEPT !.pc = pc])

\* serve loads the config, then serve_deposit (or deposit_local) begins.
Deposit(c, q) ==
    /\ task[c] = IdleTask
    /\ cfg.enabled
    /\ now <= LastDeposit
    /\ arrivals < MaxDeposits /\ arrivals' = arrivals + 1
    /\ Become(c, [IdleTask EXCEPT !.pc = "arrived", !.env = q.env, !.all = q.all, !.cfg = cfg])
    /\ UNCHANGED <<store, root, gc, cfg, mounted, now, upsets, read, toldHeld>>

\* supersede_stale_upload: the sender came back for an upload of its own that
\* is still marked in progress; the bell stops the handler that listens to it.
Supersede(c, b) ==
    /\ task[c].pc = "arrived" /\ task[c].env.from # Me
    /\ mounted
    /\ LET e == task[c].env
       IN  /\ e.id \in uploading
           /\ items[e.id] # None /\ items[e.id].env.from = e.from
           /\ task[b].pc = "stream" /\ task[b].bell /\ task[b].env.id = e.id
    /\ At(b, "failed")
    /\ UNCHANGED <<store, root, gc, env, read, toldHeld>>

\* Mistake: an upload that is running may be resumed by a second handler.
CanResumeRunning(e) ==
    /\ items[e.id] # None
    /\ items[e.id].env = e
    /\ items[e.id].state = "uploading"

\* admit, a known item that is still incomplete: resume its upload.
CanResume(e) ==
    /\ items[e.id] # None
    /\ items[e.id].env = e
    /\ items[e.id].state = "uploading"
    /\ e.id \notin uploading

\* The whole segments of payload.part.
PartLength(i) == IF disk[i] = None \/ disk[i].part = NoFile THEN 0 ELSE disk[i].part

AdmitResume(c) ==
    /\ task[c].pc = "arrived"
    /\ mounted
    /\ Acceptable(task[c].cfg, task[c].env)
    /\ CanResume(task[c].env)
    /\ LET e == task[c].env
       IN  /\ uploading' = uploading \cup {e.id}
           /\ Become(c, [task[c] EXCEPT !.pc = "admitted", !.cfg = None,
                                        !.have = PartLength(e.id)])
    /\ UNCHANGED <<items, receipts, cancelReq, root, gc, env, read, toldHeld>>

\* Mistake: the receipts are not consulted.
CanStoreFinished(e) == items[e.id] = None /\ Fits(e)

\* admit, an id the server has neither an item nor a receipt for.
CanStore(e) == items[e.id] = None /\ receipts[e.id] = None /\ Fits(e)

AdmitNew(c) ==
    /\ task[c].pc = "arrived"
    /\ mounted
    /\ Acceptable(task[c].cfg, task[c].env)
    /\ CanStore(task[c].env)
    /\ LET e == task[c].env
           it == NewItem(e, task[c].all)
           old == IF disk[e.id] = None THEN EmptyDir ELSE disk[e.id]
       IN  /\ items' = [items EXCEPT ![e.id] = it]
           /\ uploading' = uploading \cup {e.id}
           /\ disk' = [disk EXCEPT ![e.id] = [old EXCEPT !.header = TRUE, !.record = it]]
           /\ Become(c, [task[c] EXCEPT !.pc = "admitted", !.cfg = None, !.have = 0])
           /\ read' = [read EXCEPT ![e.id] = {}]
           /\ toldHeld' = toldHeld \ {e.id}
    /\ UNCHANGED <<receipts, cancelReq, ledger, aside, gc, env>>

\* admit, the new item's files cannot be written: the folder goes again.
AdmitFault(c) ==
    /\ task[c].pc = "arrived"
    /\ mounted /\ Upset("record")
    /\ Acceptable(task[c].cfg, task[c].env)
    /\ CanStore(task[c].env)
    /\ disk' = [disk EXCEPT ![task[c].env.id] = None]
    /\ upsets' = upsets + 1
    /\ Become(c, IdleTask)
    /\ UNCHANGED <<store, ledger, aside, gc, cfg, mounted, now, arrivals, read, toldHeld>>

\* admit, the item is already held: a lost reply is answered again.
AdmitHeld(c) ==
    /\ task[c].pc = "arrived"
    /\ mounted
    /\ Acceptable(task[c].cfg, task[c].env)
    /\ LET e == task[c].env
       IN  /\ items[e.id] # None
           /\ items[e.id].env = e
           /\ items[e.id].state = "held"
           /\ toldHeld' = toldHeld \cup {e.id}
    /\ Become(c, IdleTask)
    /\ UNCHANGED <<store, root, gc, env, read>>

\* Every other outcome of admit changes nothing: denied, recipient, conflict,
\* busy, finished before, over a quota, volume below its free-space floor
\* (which any new deposit may meet), storage unavailable.
AdmitRefuse(c) ==
    /\ task[c].pc = "arrived"
    /\ LET e == task[c].env
           known == items[e.id] # None
       IN  \/ ~mounted
           \/ ~Acceptable(task[c].cfg, e)
           \/ ~known
           \/ known /\ items[e.id].env # e
           \/ known /\ items[e.id].state = "uploading" /\ e.id \in uploading
    /\ Become(c, IdleTask)
    /\ UNCHANGED <<store, root, gc, env, read, toldHeld>>

\* Admitted: take the bell, answer how much is already here, open and truncate
\* payload.part.  The answer may fail to reach the sender, and the open may fail
\* when the folder has gone.
StartStream(c) ==
    /\ task[c].pc = "admitted" /\ task[c].env.from # Me
    /\ LET i == task[c].env.id
       IN  IF disk[i] # None
           THEN /\ disk' = [disk EXCEPT ![i] = [@ EXCEPT !.part = task[c].have, !.touched = now]]
                /\ Become(c, [task[c] EXCEPT !.pc = "stream", !.bell = TRUE])
           ELSE /\ Become(c, [task[c] EXCEPT !.pc = "failed", !.bell = TRUE])
                /\ UNCHANGED disk
    /\ UNCHANGED <<store, ledger, aside, gc, env, read, toldHeld>>

ReplyLost(c) ==
    /\ task[c].pc = "admitted" /\ task[c].env.from # Me
    /\ At(c, "drop")
    /\ UNCHANGED <<store, root, gc, env, read, toldHeld>>

\* One ciphertext segment arrives.
Stream(c) ==
    /\ task[c].pc = "stream"
    /\ task[c].have < task[c].env.size
    /\ LET i == task[c].env.id
       IN  disk' = IF disk[i] = None THEN disk
                   ELSE [disk EXCEPT ![i] = [@ EXCEPT !.part = task[c].have + 1, !.touched = now]]
    /\ Become(c, [task[c] EXCEPT !.have = @ + 1])
    /\ UNCHANGED <<store, ledger, aside, gc, env, read, toldHeld>>

\* The stream ends early, stalls for 90 s, or the disk refuses a write.
StreamFail(c) ==
    /\ task[c].pc = "stream"
    /\ At(c, "failed")
    /\ UNCHANGED <<store, root, gc, env, read, toldHeld>>

\* All bytes are here: sync, then rename payload.part to payload.
Rename(c) ==
    /\ task[c].pc = "stream"
    /\ task[c].have = task[c].env.size
    /\ LET i == task[c].env.id
       IN  IF disk[i] # None /\ disk[i].part # NoFile
           THEN /\ disk' = [disk EXCEPT ![i] = [@ EXCEPT !.payload = disk[i].part,
                                                         !.part = NoFile, !.touched = 0]]
                /\ At(c, "renamed")
           ELSE At(c, "failed") /\ UNCHANGED disk
    /\ UNCHANGED <<store, ledger, aside, gc, env, read, toldHeld>>

\* deposit_local: no stream, an empty payload.  Anything but a chat or op item,
\* or a write that fails, ends the item as "rejected".
LocalStore(c) ==
    /\ task[c].pc = "admitted" /\ task[c].env.from = Me
    /\ LET i == task[c].env.id
           ok == task[c].env.size = 0 /\ disk[i] # None
       IN  \/ /\ ok
              /\ disk' = [disk EXCEPT ![i] = [@ EXCEPT !.payload = 0]]
              /\ At(c, "renamed")
              /\ UNCHANGED <<store, ledger, aside, upsets, toldHeld>>
           \/ /\ ~ok
              /\ At(c, "drop")
              /\ UNCHANGED uploading
              /\ IF mounted /\ items[i] # None
                 THEN Finish({i}, "rejected", items)
                 ELSE UNCHANGED <<items, receipts, cancelReq, root, upsets, toldHeld>>
    /\ UNCHANGED <<gc, cfg, mounted, now, arrivals, read>>

\* The upload stopped early: honour a cancel asked for meanwhile, otherwise it
\* stays, resumable.
AfterFail(c) ==
    /\ task[c].pc = "failed"
    /\ LET i == task[c].env.id
       IN  IF mounted /\ i \in cancelReq
           THEN /\ IF items[i] # None
                   THEN Finish({i}, "canceled", items)
                   ELSE /\ cancelReq' = cancelReq \ {i}
                        /\ UNCHANGED <<items, receipts, root, upsets, toldHeld>>
                /\ UNCHANGED uploading
           ELSE UNCHANGED <<store, root, upsets, toldHeld>>
    /\ At(c, "drop")
    /\ UNCHANGED <<gc, cfg, mounted, now, arrivals, read>>

\* The payload is complete: a cancel asked for meanwhile wins, otherwise the
\* item becomes "held", in memory and then in its record.  When the record
\* cannot be written the sender is refused, but memory keeps "held".
\* deposit_local does the same without looking at the cancel marks.
MarkHeld(c) ==
    /\ task[c].pc = "renamed"
    /\ LET i == task[c].env.id
           canceled == task[c].env.from # Me /\ i \in cancelReq
           it == [items[i] EXCEPT !.state = "held"]
       IN  \/ /\ mounted /\ canceled
              /\ IF items[i] # None
                 THEN Finish({i}, "canceled", items)
                 ELSE /\ cancelReq' = cancelReq \ {i}
                      /\ UNCHANGED <<items, receipts, root, upsets, toldHeld>>
              /\ At(c, "drop")
           \/ /\ mounted /\ ~canceled /\ items[i] # None
              /\ items' = [items EXCEPT ![i] = it]
              /\ \/ disk' = Saved(disk, i, it) /\ At(c, "held") /\ UNCHANGED upsets
                 \/ /\ Upset("record")
                    /\ upsets' = upsets + 1
                    /\ At(c, "drop") /\ UNCHANGED disk
              /\ UNCHANGED <<receipts, cancelReq, ledger, aside, toldHeld>>
           \/ /\ ~mounted \/ (~canceled /\ items[i] = None)
              /\ At(c, "drop")
              /\ UNCHANGED <<items, receipts, cancelReq, root, upsets, toldHeld>>
    /\ UNCHANGED <<uploading, gc, cfg, mounted, now, arrivals, read>>

\* The reply "held" goes out (or is lost), recipients are poked.
ReplyHeld(c) ==
    /\ task[c].pc = "held"
    /\ toldHeld' \in {toldHeld, toldHeld \cup ({task[c].env.id} \cap Live)}
    /\ At(c, "drop")
    /\ UNCHANGED <<store, root, gc, env, read>>

\* UploadGuard::drop: the mark goes (with_store fails while the storage is
\* away), then, under another lock, the bell.
DropMark(c) ==
    /\ task[c].pc = "drop"
    /\ uploading' = IF mounted THEN uploading \ {task[c].env.id} ELSE uploading
    /\ At(c, "unbell")
    /\ UNCHANGED <<items, receipts, cancelReq, root, gc, env, read, toldHeld>>

DropBell(c) ==
    /\ task[c].pc = "unbell"
    /\ task' = [b \in Conn |-> IF b = c THEN IdleTask
                               ELSE IF task[b].env # None /\ task[b].env.id = task[c].env.id
                               THEN [task[b] EXCEPT !.bell = FALSE]
                               ELSE task[b]]
    /\ UNCHANGED <<store, root, gc, env, read, toldHeld>>

(***************************************************************************)
(* The other requests.                                                     *)
(***************************************************************************)
\* mailbox.cancel by the depositor.  For what this device left here itself
\* (local_rpc) nobody asks whether the server is on.
Cancel(i) ==
    /\ mounted /\ items[i] # None
    /\ cfg.enabled \/ items[i].env.from = Me
    /\ IF i \in uploading
       THEN /\ cancelReq' = cancelReq \cup {i}
            /\ UNCHANGED <<items, receipts, root, upsets, toldHeld>>
       ELSE Finish({i}, "canceled", items)
    /\ UNCHANGED <<uploading, task, gc, cfg, mounted, now, arrivals, read>>

\* mailbox.fetch and mailbox.get: a recipient has the item's bytes.
Fetch(d, i) ==
    /\ cfg.enabled /\ mounted
    /\ items[i] # None /\ items[i].state = "held" /\ WaitingFor(items[i], d)
    /\ disk[i] # None /\ disk[i].header /\ disk[i].payload = items[i].env.size
    /\ read' = [read EXCEPT ![i] = @ \cup {d}]
    /\ UNCHANGED <<store, root, task, gc, env, toldHeld>>

\* Store a changed item that stays: the record's write may fail unnoticed.
Keep(i, it) ==
    /\ items' = [items EXCEPT ![i] = it]
    /\ \/ disk' = Saved(disk, i, it) /\ UNCHANGED upsets
       \/ Upset("record") /\ upsets' = upsets + 1 /\ UNCHANGED disk
    /\ UNCHANGED <<receipts, cancelReq, ledger, aside, toldHeld>>

\* mailbox.ack, ok: this device has it.  The item is done with the first device,
\* or, sent to every device, when each of them took it or turned it down.
AckOk(d, i) ==
    /\ cfg.enabled /\ mounted
    /\ d \in read[i] /\ items[i] # None
    /\ LET it == [items[i] EXCEPT !.delivered = @ \cup {d}]
       IN  IF ~it.all \/ Settled(it)
           THEN Finish({i}, "delivered", [items EXCEPT ![i] = it])
           ELSE Keep(i, it)
    /\ UNCHANGED <<uploading, task, gc, cfg, mounted, now, arrivals, read>>

\* mailbox.ack, not ok: this device turns it down, another may take it.
AckRefuse(d, i) ==
    /\ cfg.enabled /\ mounted
    /\ d \in read[i] /\ items[i] # None
    /\ LET it == [items[i] EXCEPT !.refused = @ \cup {d}]
       IN  IF Settled(it)
           THEN Finish({i}, IF it.delivered = {} THEN "rejected" ELSE "delivered",
                       [items EXCEPT ![i] = it])
           ELSE Keep(i, it)
    /\ UNCHANGED <<uploading, task, gc, cfg, mounted, now, arrivals, read>>

(***************************************************************************)
(* Maintenance and the owner's commands.                                   *)
(***************************************************************************)
\* gc, first lock and the stats after it: the paused uploads nobody touched.
Touched(i) == IF disk[i] = None \/ disk[i].part = NoFile THEN items[i].created
              ELSE disk[i].touched

GcScan ==
    /\ ~gc.busy
    /\ cfg.enabled /\ mounted
    /\ gc' = [busy |-> TRUE,
              idle |-> {i \in Live \ uploading :
                          /\ items[i].state = "uploading"
                          /\ items[i].created + IdleUpload <= now
                          /\ Touched(i) + IdleUpload <= now}]
    /\ UNCHANGED <<store, root, task, env, read, toldHeld>>

NoGc == [busy |-> FALSE, idle |-> {}]

\* Mistake: only held items expire.
OverdueHeld == {i \in Live \ uploading : items[i].state = "held" /\ items[i].expires <= now}

\* What gc expires under its second lock.
Overdue ==
    {i \in Live \ uploading :
        \/ items[i].state = "held" /\ items[i].expires <= now
        \/ /\ items[i].state = "uploading"
           /\ items[i].created + StaleUpload <= now \/ i \in gc.idle}

Aged == {i \in Id : aside[i] # None /\ now - aside[i] > QuarantineKeep}

Fresh(R) == [i \in Id |-> IF R[i] # None /\ R[i].at + ReceiptKeep <= now THEN None ELSE R[i]]

\* gc, second lock: expire, forget old receipts, compact the ledger, retry the
\* deletes that failed; then age the quarantine.
GcApply ==
    /\ gc.busy
    /\ gc' = NoGc
    /\ IF mounted
       THEN LET R == Fresh(Concluded(receipts, items, Overdue, "expired"))
                done == {i \in Id : R[i] # None}
            IN  /\ items' = Without(items, Overdue)
                /\ receipts' = R
                /\ cancelReq' = cancelReq \ Overdue
                /\ toldHeld' = toldHeld \ (Overdue \cup Aged)
                /\ \/ /\ ledger' = R
                      /\ disk' = Deleted(Overdue \cup done, {}, {})
                      /\ UNCHANGED upsets
                   \/ /\ Upset("delete")
                      /\ ledger' = R
                      /\ disk' = Deleted(Overdue \cup done, Overdue \cup done, DirFile)
                      /\ upsets' = upsets + 1
                   \/ /\ Upset("receipt")
                      /\ ledger' = WithReceipts(ledger, items, Overdue, "expired")
                      /\ disk' = Deleted(Overdue \cup done, {}, {})
                      /\ upsets' = upsets + 1
                /\ aside' = [i \in Id |-> IF i \in Aged THEN None ELSE aside[i]]
       ELSE UNCHANGED <<items, receipts, cancelReq, root, upsets, toldHeld>>
    /\ UNCHANGED <<uploading, task, cfg, mounted, now, arrivals, read>>

\* Mistake: everything of theirs goes.
DoomedAll(p) == PersonItems(p)

\* server_remove_person: deny them, then drop what they left for others (items
\* for the owner's devices stay, uploads in progress are skipped).  The config
\* is saved first: with the storage away, only it changes.
Doomed(p) == {i \in PersonItems(p) : ~\A d \in items[i].env.to : OwnDevice(d)}

RemovePerson(p) ==
    /\ "remove" \in Upsets /\ p # OwnPerson /\ p \in cfg.members
    /\ cfg' = [cfg EXCEPT !.members = @ \ {p}, !.through = @ \ {p}]
    /\ LET dropped == IF mounted THEN Doomed(p) \ uploading ELSE {}
       IN  Finish(dropped, "rejected", items)
    /\ UNCHANGED <<uploading, task, gc, mounted, now, arrivals, read>>

\* server_restore_person.
RestorePerson(p) ==
    /\ "remove" \in Upsets /\ p # OwnPerson /\ p \notin cfg.members
    /\ cfg' = [cfg EXCEPT !.members = @ \cup {p}]
    /\ UNCHANGED <<store, root, task, gc, mounted, now, upsets, arrivals, read, toldHeld>>

\* server_wipe: every item no upload is marked on.
Wipe ==
    /\ "wipe" \in Upsets /\ mounted
    /\ Finish(Live \ uploading, "rejected", items)
    /\ UNCHANGED <<uploading, task, gc, cfg, mounted, now, arrivals, read>>

\* server_configure, the switch "paused".
Pause ==
    /\ "pause" \in Upsets
    /\ cfg' = [cfg EXCEPT !.paused = ~@]
    /\ UNCHANGED <<store, root, task, gc, mounted, now, upsets, arrivals, read, toldHeld>>

\* server_disable, deleting the items S first (none, or what server_wipe takes):
\* the cached store is forgotten, and loaded again at once for the status that
\* is returned.  Uploads in progress are not stopped.
Disable(S) ==
    /\ Upset("toggle") /\ cfg.enabled /\ mounted
    /\ cfg' = [cfg EXCEPT !.enabled = FALSE]
    /\ upsets' = upsets + 1
    /\ Load(Deleted(S, {}, {}), WithReceipts(ledger, items, S, "rejected"), {})
    /\ toldHeld' = toldHeld \ S
    /\ UNCHANGED <<task, gc, mounted, now, arrivals, read>>

Enable ==
    /\ ~cfg.enabled
    /\ cfg' = [cfg EXCEPT !.enabled = TRUE]
    /\ UNCHANGED <<store, root, task, gc, mounted, now, upsets, arrivals, read, toldHeld>>

(***************************************************************************)
(* The environment.                                                        *)
(***************************************************************************)
\* A clock unit is at least hours.  A handler spends seconds between its steps
\* (supersede 5 s, replies and disk work), except while it streams; the same
\* holds for the collector between its two locks.
Tick ==
    /\ now < MaxTime
    /\ ~gc.busy
    /\ \A c \in Conn : task[c].pc \in {"idle", "stream"}
    /\ now' = now + 1
    /\ UNCHANGED <<store, root, task, gc, cfg, mounted, upsets, arrivals, read, toldHeld>>

\* The process dies and starts again (the store is loaded at its first use).
Crash ==
    /\ mounted
    /\ \/ Upset("crash") /\ Load(disk, ledger, {})
       \/ Upset("unreadable") /\ \E i \in Id : disk[i] # None /\ Load(disk, ledger, {i})
    /\ upsets' = upsets + 1
    /\ task' = [c \in Conn |-> IdleTask]
    /\ gc' = NoGc
    /\ UNCHANGED <<cfg, mounted, now, arrivals, read, toldHeld>>

\* The drive goes away and comes back, with what was on it.
Unmount ==
    /\ Upset("unmount") /\ mounted
    /\ mounted' = FALSE
    /\ upsets' = upsets + 1
    /\ UNCHANGED <<store, root, task, gc, cfg, now, arrivals, read, toldHeld>>

Mount ==
    /\ ~mounted
    /\ mounted' = TRUE
    /\ UNCHANGED <<store, root, task, gc, cfg, now, upsets, arrivals, read, toldHeld>>

-----------------------------------------------------------------------------
Init ==
    /\ items = [i \in Id |-> None] /\ receipts = [i \in Id |-> None]
    /\ uploading = {} /\ cancelReq = {}
    /\ disk = [i \in Id |-> None] /\ ledger = [i \in Id |-> None]
    /\ aside = [i \in Id |-> None]
    /\ task = [c \in Conn |-> IdleTask]
    /\ gc = NoGc
    /\ cfg = [enabled |-> TRUE, paused |-> FALSE, members |-> Person, through |-> Person]
    /\ mounted = TRUE /\ now = 0 /\ upsets = 0 /\ arrivals = 0
    /\ read = [i \in Id |-> {}]
    /\ toldHeld = {}

\* A handler's own next step, once it is past admission.
Progress(c) ==
    \/ AdmitResume(c) \/ AdmitNew(c) \/ AdmitFault(c) \/ AdmitHeld(c) \/ AdmitRefuse(c)
    \/ StartStream(c) \/ ReplyLost(c) \/ Stream(c) \/ StreamFail(c) \/ Rename(c)
    \/ LocalStore(c) \/ AfterFail(c) \/ MarkHeld(c) \/ ReplyHeld(c)
    \/ DropMark(c) \/ DropBell(c)

Next ==
    \/ \E c \in Conn, q \in Request : Deposit(c, q)
    \/ \E c, b \in Conn : Supersede(c, b)
    \/ \E c \in Conn : Progress(c)
    \/ \E i \in Id : Cancel(i)
    \/ \E i \in Id, d \in Device : Fetch(d, i) \/ AckOk(d, i) \/ AckRefuse(d, i)
    \/ GcScan \/ GcApply
    \/ \E p \in Person : RemovePerson(p) \/ RestorePerson(p)
    \/ Wipe \/ Pause \/ Disable({}) \/ Disable(Live \ uploading) \/ Enable
    \/ Tick \/ Crash \/ Unmount \/ Mount

Spec == Init /\ [][Next]_vars
-----------------------------------------------------------------------------
\* Types of the variables.
TypeOK ==
    /\ items \in [Id -> Item \cup {None}]
    /\ receipts \in [Id -> Receipt \cup {None}]
    /\ uploading \subseteq Id /\ cancelReq \subseteq Id
    /\ disk \in [Id -> Dir \cup {None}]
    /\ ledger \in [Id -> Receipt \cup {None}]
    /\ aside \in [Id -> Nat \cup {None}]
    /\ task \in [Conn -> Task]
    /\ gc \in [busy : BOOLEAN, idle : SUBSET Id]
    /\ cfg \in Config
    /\ mounted \in BOOLEAN /\ now \in Nat /\ upsets \in Nat /\ arrivals \in Nat
    /\ read \in [Id -> SUBSET Device]
    /\ toldHeld \subseteq Id

(***************************************************************************)
(* Safety.                                                                 *)
(***************************************************************************)
\* A process that died now would load back exactly the items it holds in
\* memory, and would serve no item again whose receipt it keeps: admit,
\* serve_deposit, ack and finish_item order their writes so that load_store
\* can tell (record before "held" is answered, receipt before the delete).
CrashConsistent ==
    \A i \in Id :
        /\ items[i] # None => Recover(disk, ledger, i) = items[i]
        /\ receipts[i] # None => Recover(disk, ledger, i) = None

\* An item is either kept or concluded, never both: admit checks the receipts
\* before it stores, finish_item removes before it writes the receipt.
OneFate == Live \cap Receipted = {}

\* What the sender was told is "held" is there to be collected, record and all
\* bytes on disk, until the item ends; or load_store set its folder aside.
HeldIsDurable ==
    \A i \in toldHeld :
        \/ aside[i] # None
        \/ /\ items[i] # None /\ items[i].state = "held"
           /\ Recover(disk, ledger, i) = items[i]

\* The marks `uploading` are exactly the items some handler holds a guard for,
\* one handler each; and under a handler that still writes, the item stays, is
\* still incomplete, and its payload.part is where the handler left it.
UploadIsExclusive ==
    /\ uploading = {task[c].env.id : c \in {c \in Conn : Guarding(c)}}
    /\ \A b, c \in Conn : Guarding(b) /\ Guarding(c) /\ b # c
                          => task[b].env.id # task[c].env.id
    /\ \A c \in Conn : task[c].pc \in {"stream", "renamed"} =>
          LET i == task[c].env.id
          IN  /\ items[i] # None /\ items[i].state = "uploading"
              /\ task[c].pc = "stream" => disk[i].part = task[c].have
              /\ task[c].pc = "renamed" => disk[i].payload = task[c].env.size

\* The server never promises more than its limits: room within the owner's cap
\* and, for a person other than the owner, a quarter of it; a number of items for
\* each device and, from each such person, for each device.
WithinCap ==
    /\ UsedBy(Live) <= CapBytes
    /\ \A d \in Device : Cardinality(ItemsFor(d)) <= MaxPerRecipient
    /\ \A p \in Person \ {OwnPerson} :
          /\ UsedBy(PersonItems(p)) <= CapBytes \div 4
          /\ \A d \in Device : Cardinality(ItemsFor(d) \cap PersonItems(p)) <= MaxPerPair

\* A receipt "delivered" is the truth: the devices it names, at least one, have
\* read the item.
DeliveredIsTrue ==
    \A i \in Receipted :
        /\ receipts[i].deliveredTo \subseteq read[i]
        /\ receipts[i].state = "delivered" => receipts[i].deliveredTo # {}

\* Once concluded an item never comes back while its receipt is kept: not by a
\* late re-deposit, not by a restart after a failed delete.
NeverResurrected ==
    [][\A i \in Receipted : items'[i] = None]_vars

\* An item sent "to every device" that ends as delivered was read by each of
\* its devices, though they acked in any order, with restarts in between.
EveryDeviceFirst ==
    [][\A i \in Live :
        (/\ items[i].all
         /\ receipts'[i] # None /\ receipts'[i].state = "delivered")
        => items[i].env.to \subseteq read[i]]_vars

\* Nothing is lost silently: an item that leaves the index, by any handler, the
\* collector or a restart, leaves a line in the receipts ledger for its sender
\* to poll, or its folder in quarantine.
NothingLostSilently ==
    [][\A i \in Live : items'[i] = None => ledger'[i] # None \/ aside'[i] # None]_vars

\* While the server is on (nobody chose to delete everything), removing a person
\* spares what they left for the owner's own devices: such an item ends
\* "rejected" only by the word of a device that read it.
RemovalSparesOwner ==
    [][\A i \in Live :
        (/\ \A d \in items[i].env.to : OwnDevice(d)
         /\ receipts'[i] # None /\ receipts'[i].state = "rejected"
         /\ cfg'.enabled)
        => read[i] # {}]_vars

(***************************************************************************)
(* Liveness.  A handler never waits for ever (the stream is bounded by its *)
(* 90 s timeout, supersede_stale_upload by 5 s), the collector runs every  *)
(* hour from spawn_delivery, time passes, and a drive that went away is    *)
(* plugged in again.                                                       *)
(***************************************************************************)
Fairness ==
    /\ \A c \in Conn : WF_vars(Progress(c))
    /\ WF_vars(GcScan) /\ WF_vars(GcApply)
    /\ SF_vars(Tick) /\ WF_vars(Mount) /\ WF_vars(Enable)

FairSpec == Spec /\ Fairness

\* Every item the server took in ends: collected, refused, canceled or expired;
\* no crash, failed delete or abandoned upload keeps its space for ever.
EveryItemEnds == \A i \in Id : items[i] # None ~> items[i] = None
=============================================================================
