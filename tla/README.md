# Dropbeam: formal models, checks and proofs

Dropbeam sends messages and files between the devices of friends. Devices talk
directly when both are online; when they are not, a *Transfer Server* (an
always-on device of someone they trust) holds sealed items until the recipient
collects them. This directory holds TLA+ models of that core, the TLC
configurations that check them, and proofs checked by TLAPS.

| file | what it is |
|---|---|
| `TransferServer.tla` | the server's store: `mailbox/server.rs` with the owner's commands of `mailbox/cmds.rs` |
| `Mailbox.tla`, `TransferServerRefinement.tla` | what a server promises, as an abstract specification, and the mapping under which the store implements it |
| `MCTransferServer.tla`, `Server{Life,Owner,Faults}.cfg` | its small instances |
| `TransferServerProofs.tla`, `TransferServerMailbox.tla` | its theorems: types, fates, durability, receipts, uploads, the owner; the refinement |
| `ChatDelivery.tla`, `MCChatDelivery.tla`, `Chat{Arrives,Changes}.cfg`, `ChatDeliveryProofs.tla` | a chat message, its edit and its unsend, from a sender to a friend's devices |
| `FanOut.tla`, `MCFanOut.tla`, `FanOut.cfg`, `FanOutProofs.tla` | one file send to a friend with several devices: `fanout.rs` |
| `DirectTransfer.tla`, `MCDirectTransfer.tla`, `DirectTransfer.cfg`, `DirectTransferProofs.tla` | one leg of it: a big file pushed straight to a device, interrupted and resumed |
| `Calls.tla`, `MCCalls.tla`, `Calls{Glare,Devices}.cfg`, `CallsProofs.tla` | signalling of calls: `calls/` |
| `SharedFolder.tla`, `MCSharedFolder.tla`, `FolderSync.cfg`, `SharedFolderProofs.tla` | one name in a folder two members share: `sync.rs` |
| `ChatSync.tla`, `MCChatSync.tla`, `ChatSync{,Read}.cfg`, `ChatSyncProofs.tla` | one sent message on a person's own devices: `chat.rs`, `account.rs` |
| `PROJECT.json` | components, runs, mutants, the map from definitions to source lines, findings, hazards, theorems |

Paths below are relative to `src/src-tauri/src/` unless they start with `src/`.
To check a run: `tlc -config ServerLife.cfg MCTransferServer.tla`; to check proofs:
`tlapm FanOutProofs.tla`.

## 1. Inventory

### The parts

Parts in bold have a module.

| part | state | operations | interacts with | what makes it correct |
|---|---|---|---|---|
| **Transfer Server store** (`mailbox/server.rs`, `cmds.rs`) | in memory: items, receipts, running uploads, cancel requests; on disk: a folder per item, `receipts.jsonl`, the quarantine, `transfer-server.json` | deposit, resume, cancel, list/get, ack, gc, remove person, wipe, pause, switch off and on, restart | mailbox clients over QUIC streams; the owner's UI | what is promised is durable; each item has one fate; quotas hold; receipts are true; space comes back |
| pokes and push (`server.rs` 1318-1444, `push.rs`, `src/push-worker`) | back-off per device | tell a device that items wait | devices, Apple's push service | a waiting device is told again and again |
| **mailbox client** (`mailbox/client.rs`) | `mailbox-sent.json` (what we left where), the seen ledger, sealed payloads | deposit, cancel, retry cancels, refresh status, fetch, ack | chat store, outbox loop, servers | ledger and server agree in the end; nothing fetched is lost or shown twice |
| **chat delivery** (`commands.rs`, `iroh_net.rs`, `chat.rs`) | `chats.json` (messages and their status), `chat_ops.json` (edits and unsends to deliver), in-flight claims | send, edit, unsend, the outbox loop, receive, read receipts | mailbox client, friends' devices | every message arrives or its sender is told; statuses are true; a change is not forgotten |
| membership and keys (`mailbox/members.rs`, `keys.rs`, `seal.rs`) | cards, keys | rights, sealing | server, client | only members use a server |
| **sync of chats between own devices** (`chat.rs` merge, `account.rs` exchange) | threads, revisions, which devices are in step | merge, summaries, lists, messages | own devices | convergence; a merge never stops a delivery |
| **direct file transfer** (`iroh_net.rs`, `iroh_net/*`) | the sender's plan and hashes; partials, sidecars, owners of partials | dial, ranges, resume, verify, publish, retry, cancel, clear the cache | fan-out, UI | a file is complete or absent, once |
| **fan-out** (`fanout.rs`) | `fanout.json`: a state per device; LIVE: cancel flag and running devices | start, legs, shared server copy, queue, pause, cancel, resume, recover | file transfer, mailbox | no device is forgotten or revived; "delivered" is true |
| **shared folders** (`sync.rs`, `folder_history.rs`, `pairing.rs`) | loop-guard manifest, tombstones, deleted versions, history | scan, send, place, delete, reconcile | members' devices | convergence, nothing a user wrote is lost, a delete spares what its user had not seen |
| locations and drive (`locations.rs`, `location_sync.rs`, `drive.rs`, `stream.rs`, `mounts.rs`) | grants, mounts | browse, stream, write back | other devices | grants hold |
| accounts (`account.rs`, `link.rs`, `device_activity.rs`) | signed members, removals | link, remove, merge | own devices | the same members everywhere |
| friends and blocking (`friends.rs`, `block.rs`) | records | add, block | everything that receives | blocked people reach nothing |
| **calls** (`calls/*`) | the call's phase and its legs on each device | ring, answer, hang up, glare, time-outs | chat store, push | one call survives a crossing, nobody talks to nobody, everyone stops ringing |
| agents, automation, CLI | requests | wrap the parts above | all | |
| hosts, shells, UI, workers, laboratory | | | all | |

### How the modelled parts interact

**A message** is stored (`send_chat_message`), then a task of its own tries the
friend's devices directly. If some do not answer and the friend has a server that
takes our messages (`can_hold_chat`), the message is deposited there for the
devices that did not answer. A loop (the *outbox*) retries what is not delivered,
tries held messages directly again, and delivers queued edits and unsends.
A direct delivery calls server copies back that no device needs any more
(`delivered_directly`). Another loop polls the servers for receipts
(`refresh_status`) and turns them into statuses (`apply_receipts`). The friend's
devices list and take items (`fetch_from`), store what they carry and acknowledge
it. The server ends an item when its devices took it or turned it down, when it is
canceled, or when it is too old, and keeps a receipt. On the person's own devices
a copy of the message is merged with the others' (`merge_synced`), status included.

**A file** to a person fans out: one leg per device (a direct transfer), one shared
server copy for the devices that do not answer, a durable queue for the rest.
`FanOut` takes the outcome of a leg as a choice; `DirectTransfer` is such a leg.
Both the server's copy in `FanOut` and the server's items in `ChatDelivery` are what
`Mailbox` allows; `TransferServer` implements `Mailbox`.

**A folder** and **a call** run on their own streams between the same devices and
share no state with the rest.

### What is hard here

Handlers await between two uses of shared state, several of them work on one
message, answers get lost after they took effect, devices act on what they listed
earlier, processes die between two writes, and clocks expire things. `PROJECT.json`
lists these hazards with their lines and the properties aimed at each.

### What holds of every model

One action is what runs without an await or an unlock in between. A crash, a lost
answer, a failed write, an impatient user is a *disturbance*: each can happen
wherever the code can meet it, a `cfg` names the kinds that may, and `MaxUpsets`
(`MaxEvents`, `MaxBreaks`, `MaxEdits`, `MaxDeposits`, `MaxTime`) bounds how many. The
bounds are constants that the theorems leave arbitrary. A model may stop once its
bounds are used up, so the `cfg`s say `CHECK_DEADLOCK FALSE`. Variables that record
what the outside saw (`read`, `toldHeld`, `got`, `texts`, `landed`, `undone`, ...) guard no
action of the code.

## 2. `TransferServer`

### State and steps

Every use of the store runs under one mutex (`with_store`), so one critical
section is one step. What a deposit handler does between two critical sections is
its program counter `task[c].pc`:

    arrived -> admitted -> stream -> renamed -> held -> drop -> unbell -> idle
                              \-> failed ------------------/

| model | code |
|---|---|
| `items`, `receipts`, `uploading`, `cancelReq` | `struct Store` |
| `disk[i]` (header, record, part, payload), `ledger`, `aside` | item folders, `receipts.jsonl`, the quarantine folder |
| `Deposit`, `Supersede`, `Admit*` | `serve_deposit`, `supersede_stale_upload`, `admit` |
| `StartStream`, `Stream`, `StreamFail`, `Rename`, `AfterFail`, `MarkHeld`, `ReplyHeld`, `DropMark`, `DropBell` | the rest of `serve_deposit` and `UploadGuard::drop` |
| `LocalStore` | the server's own app leaving an item |
| `Cancel`, `Fetch`, `AckOk`, `AckRefuse` | `cancel` (for the server's own app also while the server is off: `local_rpc`), the list and get handlers, `ack` |
| `GcScan`, `GcApply` | `gc`: the scan outside the lock, then the second lock |
| `RemovePerson`, `RestorePerson`, `Wipe`, `Pause`, `Disable`, `Enable` | the owner's commands |
| `Crash` with `Load`/`Recover`/`SetAside` | a restart and `load_store` |
| `Unmount`, `Mount`, `Tick` | environment: the drive, the clock |

An envelope is an id, a sender, recipients and a size in units; a payload file is a
length. Devices are honest: one acknowledges only what it read. A unit of the clock
is hours or more, and a handler spends seconds between two steps unless it streams;
`Tick` is restricted accordingly. An owner's command is one step: `RemovePerson` saves the
config and drops the person's items together; with the storage away only the config
changes, and the items stay when the drive is back.

`Mailbox` is the same server seen from outside, without disk, handlers or collector:
an id is unknown, uploading, held, or ended in one of four ways, and a conclusion may
age out. `TransferServerRefinement` maps `status` to what `mailbox.status` would answer
(`StatusOf`), `got` to `read`, `promised` to `toldHeld`. It needs room for a receipt of
each item (`ReceiptMax`), for a receipt that is trimmed as it is written is an item
that vanishes.

### Runs

| run | instance | checks |
|---|---|---|
| `server_life` | one file for two devices, two handlers, a crash or a failed delete anywhere (2 of them), a clock to 2, three deposits, fairness | `TypeOK`, `CrashConsistent`, `HeldIsDurable`, `UploadIsExclusive`, `DeliveredIsTrue`, `NeverResurrected`, `EveryDeviceFirst`, `EveryItemEnds`, `ImplementsMailbox` |
| `server_owner` | two ids, envelopes that compete for a small server and for one device's waiting list, a person removed and restored, switching off and on, a receipt that cannot be written, a crash | `WithinCap`, `OneFate`, `RemovalSparesOwner` |
| `server_faults` | seven kinds of disturbance (2 of them): unreadable folder, failed delete or record write, drive away, wipe, pause, crash; local deposits | `NothingLostSilently` |

Why the bounds are enough: the hazards need one item and two handlers (resume,
supersede, cancel, late re-deposit), two devices (an item for every device), one
or two disturbances, and a clock that reaches each limit (`ChatHold` 1, `FileHold`
and `StaleUpload` 2, `IdleUpload` 1). `MaxDeposits` 3 lets an id be deposited, retried and
re-deposited after its end. Quotas need two ids at the exact limit: of the server's
room, of a person's quarter, of the one item a device may have waiting. Handlers are
interchangeable (symmetry `ConnSymmetry`) except in the run with liveness, which uses none.

Fairness (`FairSpec`): a handler never waits for ever (its stream has a 90 s
timeout, superseding waits 5 s), the collector runs every hour, time passes, and a
drive that went away or a server switched off returns. Senders and recipients owe
nothing.

### Proofs

`TransferServerProofs`, for all values of the constants that satisfy the named
assumptions (`IdAssumption`, `DeviceAssumption`, `EnvelopeAssumption`, `BoundAssumption`):

- `TypeCorrect`: `TypeOK` is inductive. It is split (`TypeSplit`) into the part that
  `finish_item`, `load_store` and `gc` write and the rest, so that one lemma about `Finish`
  and one about `Load` serve every action that uses them.
- `OneFateAlways`: an item is never both kept and concluded. Admission looks at the
  receipts, finishing removes the item as it adds the receipt, and a restart takes the
  receipts from the ledger and drops the folders whose id the ledger concludes.
- `NeverResurrectedAlways`: no step brings a concluded item back. The invariant is
  `OneFate /\ LedgerKept` (every receipt in memory has its line in the ledger). It assumes
  that appending to the ledger does not fail (`"receipt" \notin Upsets`): the code ignores
  such a failure, and then TLC brings the item back by a restart.

The rest of the store's safety is proved in the second half of the module, each theorem
under the weakest of these hypotheses it was found to need:

| hypothesis | means | why |
|---|---|---|
| `ReceiptsKept` | receipts can be written and none is trimmed (`"receipt" \notin Upsets`, no more ids than `ReceiptMax`) | otherwise an old line of the ledger speaks for a new deposit under the same id |
| `Sound` | also: records can be written, the server is not switched off (`"record"`, `"toggle"` not among the upsets) | the disagreements of section 9: after a failed record write an item is held in memory alone; switching off forgets the marks of running uploads |
| `Remembers` | `ReceiptsKept`, and deletes work (`"delete"` not among the upsets) or the clock stops before a receipt is old enough to be forgotten | a restart brings back an item whose delete failed and whose receipt is gone; nobody asks then whether there is room |
| `Tidy` | also: folders can be read, and a failed delete is retried before its receipt ages out | a folder set aside, or one that outlives its receipt, is a step the mailbox does not have |

- `DeliveredIsTrueAlways`, `EveryDeviceFirstAlways` (`ReceiptsKept`): the invariant `Honest`
  ties receipts, ledger and records on disk to what was read.
- `CrashConsistentAlways`, `HeldIsDurableAlways`, `NothingLostSilentlyAlways` (`Sound`): the
  invariant `Safe` says of every id that memory and disk agree (`Stored`) and of every
  handler which files it has written at its program counter.
- `UploadIsExclusiveAlways` (`Sound`, the drive stays): the marks `uploading` are exactly the
  guards of running handlers. With the drive away a guard leaves its mark behind.
- `WithinCapAlways` (`Remembers`): the room and the numbers of items checked as one is admitted hold
  ever after, because no other step adds an item. For a restart that needs `AllBacked`: a
  record on disk is that of an item in memory, with its envelope, or what a failed delete
  left of an item whose receipt is there. Every step then either only takes items away or
  admits one for which `Fits` (`Frugal`). The room is a sum over a set of items, which the
  model takes with a fold; that the fold is a sum of natural numbers and grows by the term that
  is added (`UsedOfIs`, `UsedMore`) is an induction on the size of the set, carried out
  with sets of numbers (`NatSet`, `SumExists`), for a theorem with an operator as its parameter is
  more than the provers can instantiate.
- `RemovalSparesOwnerAlways` (`ReceiptsKept`, no wipe, no remote deposit in the name of the
  server itself).

`TransferServerMailbox` proves `MailboxImplemented` (`Tidy`): `Spec => ImplementsMailbox`.
Every action moves each id by one step of `Mailbox` or none (`Moved`), shown from effect
lemmas of `Finish`, `Load` and the collector.

## 3. `ChatDelivery`

### State and steps

| model | code |
|---|---|
| `status`, `gaveUp`, `edited`, `gone` | `chats.json`: status, `server_note`, edited and unsent messages |
| `ops` | `chat_ops.json` |
| `sent` | `mailbox-sent.json`; `sent[i].copy`: a copy for the devices that missed a direct delivery |
| `task[m]`, `task[Loop]` | `deliver_chat`'s task for message m, and `deliver_chat_message` as called from the outbox loop |
| `loop` | a round of the loop: phase, what it snapshotted, the devices it skips |
| `cancels`, `receipts` | `cancel_on` tasks; a `refresh_status` in progress |
| `box[i]` | external: the item on the server, as `Mailbox` allows |
| `has`, `disk`, `seen`, `fetch` | a friend's device: its messages in memory (`CACHE`) and in `chats.json`, the ids it took, its fetch |
| `Send`, `PreviewDone`, `Start`, `Change` | `send_chat_message`, the preview task, `deliver_chat`, `edit_/delete_chat_message` |
| `Dial`, `DepositOk`, `DepositFail`, `RecordSend` | `deliver_chat_message` cut at its awaits |
| `RoundStart`, `Take*`, `Record*`, `Unsend`, `Op*`, `Follow*` | the outbox loop: pending messages, held messages, ops; `unsend_held`, `op_follows_copies` |
| `CancelOn` | `cancel_on`/`retry_cancels` |
| `RefreshAsk`, then `RefreshAnswer` or `RefreshLost`, `RefreshLedger`, `RefreshApply` | `refresh_status` on both sides of its await, its write of the ledger, `apply_receipts` |
| `FetchList`, `FetchTake`, `FetchAck` | `fetch_from`, `receive_one`, the ack |
| `Rewrite`, `Reopen` | any later write of `chats.json`; a device's app that ends while memory is ahead of it |
| `ReadReceipt`, `Expire`, `Crash` | `mark_read_up_to`; the server's collector; a restart of the sender |

A text is the version of the message it carries (`old`, `new`, or `blank` for a
message unsent before it was framed). One server per friend; no reactions and no
attachments. `closed` remembers the changes that were ended without being shown (the
server answered "Removed", a device waited three days for the message, or a device lost
what it held in memory only).

A device's write of `chats.json` can fail (`"disk"`), and then a message and a change of it
fare differently. `append_durable` (`chat.rs` 318-354) takes the message back out of memory
and the item is left on the server. An edit or unsend goes through `save_all` (266-270),
which only logs: memory has the change (663, 692), `apply_incoming_chat` says it was applied
(`iroh_net.rs` 1466-1490), the item's id is noted and acknowledged (`client.rs` 1839-1846),
and on the direct path the sender drops it from its queue. Any later write saves it; if
the app ends first, it is gone.

The poll reads the server's state (`RefreshAnswer`) and writes the ledger
(`RefreshLedger`) in different steps. The upset `"forget"` stands for both ways to the
verdict "lost": a server that answers "unknown", and one that does not answer for six
hours past the expiry of an item; `apply_receipts` then fails the message.

### Runs

| run | instance | checks |
|---|---|---|
| `chat_arrives` | one message with a link, two devices, one server id, a route or none in each round; lost answers of a device or the server, a crash of either side, a failed write, expiry, a server that forgot the item or is gone (1 of them); fairness | `NotCalledBackEarly`, `DeliveredIsReal`, `EveryMessageArrives` |
| `chat_changes` | one message, one device, two server ids, edit and unsend at any moment; lost answers of the server, an item refused, a fetch that dies, a failed write (1 of them), an op given up after three days, an app that ends before it writes again | `TypeOK`, `ChangeNotForgotten`, `UnsentStaysGone` |

Two ids allow a copy beside an op, and an orphan copy whose answer was lost beside
its retry. One disturbance is enough for each single fault at every point. A device's
lost answer and an item that expires are disturbances of `chat_arrives` only, for time. Two
devices with two ids are beyond the time of a run; the theorems cover them, with
any number of messages.

Fairness (`FairSpec`): tasks and loops run, a device fetches in the end, and again
and again the friend has a server that can be reached (strong fairness on a round
with a route, on its deposit and on the status poll). Direct calls may fail for
ever: the message then arrives through the server alone.

### Proofs

`ChatDeliveryProofs`, from `ChatAssumption` and `NoneAssumption` alone: `TypeCorrect`,
`DeliveredIsRealAlways`, `NotCalledBackEarlyAlways`, `ChangeNotForgottenAlways`,
`UnsentStaysGoneAlways`. All come from one inductive invariant, `ChatInv` with `DiskInv`: types; what a
task, the loop and a poll under way have snapshotted and may therefore conclude
(`TaskInv`, `LoopInv`, `ReceiptInv`); that memory is ahead of a disk by edits and unsends
alone (`DiskInv`), so that a device that loses its memory loses no message; what an item on the server and our ledger line of it say
about the devices (`BoxInv`, `SentInv`); that what a device took from an item it has
(`SeenInv`); where a change is (`ChangeInv`). The decisions are made from snapshots and
answers that may be old by the time they are used, so each part says what a snapshot
still implies. That is sound because some facts only grow: every step is shown to
satisfy `Grows` (what is unsent, ended, seen, had by a device, deposited or sent stays
so), and the parts of the invariant that are about what was known earlier survive any
step that satisfies it.

### Limits

A crash exactly between the ledger's and the bubble's update together with an
expiry, or a refusal reported before its send was recorded, leaves a message "held"
that nobody asks about; a failed deposit in `op_follows_copies` is ignored, so
`ChangeNotForgotten` speaks of one device and not of each. It excepts three ways in which
the code itself ends a change that nobody shows (`closed`); the third, a change acknowledged
though its write failed and lost with the app's memory, is in section 9.

## 4. `FanOut`

### State and steps

| model | code |
|---|---|
| `dev[d]` (state, attempts, item) | `Record.devices` in `fanout.json` |
| `sent` | the mailbox client's list of server copies |
| `live` (cancel, reason, running), `runs` | `LIVE`, the `Engine::run` tasks |
| `leg[d]`, `holds` | a device's leg; the `hold_or_queue` tasks, with their program counter |
| `copy`, `cancels`, `got` | external: the server's copies, cancel calls under way, the devices that have the files |
| `over`, `word` | the 30 days are over; the user's last word |
| `Start`, `RetryDue`, `Resume`, `GiveUp`, `Restart` | `start`, `retry_due`, resume, give up, recovery |
| `LegStart`, `DirectEnds` with `AfterLeg` | one leg and what its outcome writes |
| `HoldStart`, `HoldStopped`, `HoldChecked`, `HoldQueue`, `HoldSplit`, `HoldDeposit`, `Upload*`, `HoldAgain`, `HoldResult`, `HoldMark` | `hold_or_queue` and the upload, cut at their awaits; a device that comes online while the copy is uploaded (GoDirect) |
| `RunEnd` | the end of a run and its check of what is still owed |
| `Stop` | pause and cancel |
| `Poll` with `Proves`, `AfterReceipt` | `refresh_status` and what a receipt proves about one device of a shared copy |
| `ServerTake`, `ServerEnd`, `ServerCancel` | external: the server and its clients |

### Run

`fanout`: two devices, one server copy, one failure allowed (`MaxAttempts` 1), two
disturbances of six kinds (pause, cancel, resume, crash, a lost answer of the server, a
device that appears), fairness. It checks `TypeOK`, `DeliveredIsTrue`, `RefusalIsRespected`
and `EveryDeviceSettles`. Two devices share a copy, so a receipt must say which of them
took it; two disturbances put a stop between any step and its resume. Fairness: tasks
go on, the queue is looked at every minute, 30 days pass.

`EveryDeviceSettles` excludes one state by name, `Stranded` (section 9): a device left
"uploading" although no task works on it.

### Proofs

`FanOutProofs`, from `FanOutAssumption` and `NoneAssumption` alone: `TypeCorrect`,
`DeliveredIsTrueAlways`, `RefusalIsRespectedAlways`. The invariant `SendInv` is `TypeOK`,
`DeliveredIsTrue`, what ties tasks to the devices they work on (`TasksInv`, `HoldsInv`), what a
device's record says while nothing or something works on it (`RestInv`, `HeldInv`), and what
our line about a copy says of the server's (`CopyInv`). A receipt of a copy for several
devices proves nothing about one of them unless it lists it; that the code's choice
(`Proves`) is right needs the relation of all three.

## 5. `DirectTransfer`

### State and steps

| model | code |
|---|---|
| `src`, `texts` | the file on the sender's disk; everything it has been |
| `snd` | the sender's task: attempt, stall count, what the receiver has, the stamp of the plan, the hashes of what went out and of what was kept |
| `rcv[k]` | the receiver's handler of attempt k, with its program counter, the ranges it counted, the manifest it got |
| `part`, `side`, `clearing` | partials and their sidecars; "Clear transfer cache" under way |
| `landed` | the files that got their name |
| `Dial`, `GotReady`, `OpenStreams`, `HashRetained`, `ReadRange`, `SendRange`, `SendHashes`, `SourceChanged`, `AttemptFails`, `GotVerdict` ... | the sending side of `iroh_net.rs` with the stamp and block hashes of `integrity.rs` |
| `Claim`, `FirstStream`, `NoStream`, `Arrive`, `HashPart`, `Persist`, `Complete`, `Verify`, `Compare`, `Publish`, `Tell`, `LostVerifying`, `Interrupted`, `ReceiverLost`, `Canceled` | the receiving handler, its claim of the partial (or a throwaway), and the publication |
| `Edit`, `Drop`, `Crash`, `DiskFails`, `ReceiverCancels`, `SenderStops`, `SendAgain`, `Clear*`, `WaitExpires` | the users and the world |

A block is both a range and a hash block; a version number is what is in it; a hash
is the content it is the hash of. A partial is named after the whole seconds of the
file's modification time, so two versions may share one.

### Run

`direct_transfer`: two blocks, three attempts, at most two in a row without progress,
one edit, two disturbances of eight kinds, fairness on the two sides' tasks (nothing
is assumed of users or faults). It checks `TypeOK`, `WholeUnlessEarly`, `DoneIsLanded`,
`NoSecondCopy`, `ResumeIsReal` and `EverySendEnds`. Two blocks make a partial that has one and
misses one; a third attempt meets the late handler of the first and what the second
left.

`WholeUnlessEarly` names the one window in which a mix can land (section 9).

### Proofs

`DirectTransferProofs`, from `DirectAssumption` and `NoneAssumption` alone: `TypeCorrect`,
`WholeUnlessEarlyAlways`, `DoneIsLandedAlways`, `NoSecondCopyAlways`, `ResumeIsRealAlways`. The
invariant `TransferInv` relates, for every attempt, what the sender hashed, what is on the
wire, what the handler counted and what its partial holds (`SendInv`, `LinkInv`, `KeyInv`,
`FileInv`, `ManifestInv`), that a partial has one owner (`OwnersInv`), that a sidecar claims only
blocks that are durable in the partial (`DiskInv`), and what has landed in which attempt
(`CopyInv`).

## 6. `Calls`

### State and steps

| model | code |
|---|---|
| `live[d]` | the one call of a device: phase, a leg per device, the active leg, what reads and writes it, the glare wait |
| `line[c][d]` | the stream of call c to device d: the tasks at its ends, the frames on their way |
| `tapped`, `chosen` | an answer queued and not yet accepted; the answer the caller took |
| `outcome`, `unlogged`, `placed`, `given` | history: how calls ended, which were given up for which |
| `Answered`, `Declined`, `LostAt`, `HungUp`, `TimedOut`, `Glare`, `OnFrame` ... | the transition function of `calls/signal.rs`, event by event, with what is said to each device |
| `Start`, `SendOffer`, `DialOpens`, `DialFails`, `JoinLeg`, `CallerReads`, `CallerPumpEnds` | the caller's tasks in `calls/mod.rs` |
| `OfferRefused`, `OfferSeen`, `MarkSilent`, `DropMine`, `RingHere`, `BridgeFails`, `CalleeReads`, `CalleePumpEnds` | the called device's handler, cut where it unlocks `live` |
| `Answer`, `Accept`, `Hangup`, `MediaUp`, `Tick`, `GlareOver`, `Break` | taps, the accept task, media, timers, streams that break |

### Runs

| run | instance | checks |
|---|---|---|
| `calls_glare` | two devices that call each other, one broken stream | `TypeOK`, `TwoSided`, `GlareKeepsOne` |
| `calls_devices` | one device calls a person with two, fairness | `ElsewhereIsTrue`, `HalfCallEnds` |

A crossing needs two callers; "answered elsewhere" needs two devices of the called
person; a broken stream is the one fault a call has. Fairness: the tasks of a call go on.
No timer and no tap is counted on.

### Proofs

`CallsProofs`, from `CallsAssumption` and `NoneAssumption` (no way a call ends is
`None`), for any number of callers and devices, any ranking of their ids and any number of
broken streams:

- `TypeCorrect`.
- `GlareKeepsOneAlways`. Its invariant (`GlareInv`) says that who was given up for whom
  follows the order of the ids (`GivenInv`), and that a device that is about to give its
  call up still holds one that loses (`CrossInv`): both devices decide on their own, at
  different moments, from the same order.
- `TwoSidedAlways` and `ElsewhereIsTrueAlways`, from one invariant, `OwnsInv /\ PairsInv`
  (TLC checked it on the instances of both runs before it was proved). `OwnInv(c)` is what
  a device knows of the call it places. `PairOK(c, d, View(c, d))` is what the two ends of
  the stream of call c to device d know, put into one record: where the tasks at its
  ends are, the set of words on their way in each direction (`Words`), both devices'
  records of the call, the tap, the answer taken. Its parts:
  `StreamOK` (a task says nothing before its device rings or refuses), `CallerOK` (what the
  caller thinks of the device fits the stream), `ToldOK` (a device whose caller left has
  the end of the stream on its way), `CalleeOK` (a device is in a call only while its stream
  is up), `AnswerOK` (an answer reaches the caller or meets the end of the stream) and
  `TakenOK` ("taken" is said only when another device was chosen). `TwoSided` alone is not
  inductive: the steps that break it start where an end has left and nothing tells
  the other, which `ToldOK` and `AnswerOK` exclude.

  The proof has three layers. Lemmas on views, with no primed variable, say that a move of one
  end keeps `PairOK` (`CallerMoves`, `CalleeMoves`, `AnswerTaken`, `CallChanges`, `NoCallerMoves`,
  `ServeMoves` ...); lemmas on the transition function say what `Settle`, `LegOut`, `LostAt`,
  `HungUp` and `TimedOut` tell whom (`EndsOrGoesOn`: a call that ends tells every device that is
  still on a stream, one that goes on keeps its streams or tells those it drops); lemmas on steps
  (`CallerEvent`, `CalleeEvent`, `OwnStep`, `DeviceStep`, `StreamStep`) join the two, and one lemma
  per action (`...Keeps`) applies them. The order inside a queue does not matter to the
  invariant, which is why sets of words are enough.

## 7. `SharedFolder`

### State and steps

One name of a mirror folder of two members, with a group id (`Group`) or a classic 1:1
mirror.

| model | code |
|---|---|
| `disk`, `history` | the file in each folder; its history archive |
| `live[m]` | in memory: versions seen (`inbound`), send queue, pending delete, the guard that hides own removals |
| `saved[m]` | in files: the manifest, the tombstone and the version it names, versions deleted, versions skipped, the last snapshot |
| `flight`, `beacon` | a file on its way; a control round under way |
| `Write`, `UserDelete` | the users |
| `Queue`, `OwnRemoval`, `Deleted`, `Overflow`, `GuardEnds` | the watcher and its settle timer |
| `Open`, `FirstScan`, `SecondScan`, `Close` | start-up: the scan for deletes made while the app was closed |
| `StartSend`, `Land` with `Place`/`PlaceOver`, `LandFails`, `SendLost`, `Settle` | sending, ingest and the conflict rule `Wins`, the outcome at the sender |
| `Beacon`, `ApplyDelete` with `Sweep`/`DeleteAllowed`, `Reconcile`, `BeaconLost` | the control beacon, applying a peer's delete, reconciling snapshots |
| `Pass`, `Wait` | the clock |

### Run

`folder_sync`: a group's folder, three contents of different sizes, one of them shared at
the start; two edits, deletes or upsets (app closed, exchange lost, write failed, watcher
event lost, a long wait); fairness. It checks `TypeOK`, `NothingLost`, `DeleteSparesEdits` and
`Converges`. Two events make every pair of a delete and an edit, or of a change and a
fault, at the two members; the invariant of the proof was checked on the same states.
Fairness: each task of a running app goes on, what was sent arrives or is noticed to be
lost, time passes, a closed app is opened again.

### Proofs

`SharedFolderProofs`, for all contents, sizes, clocks and numbers of events:

- `TypeCorrect` and `NothingLostAlways`, for a group's folder and a 1:1 mirror alike. The
  invariant `FolderInv` adds to them that the versions a member knows have a newest one
  (`HasNewest`: kept step by step, because the existence of a maximum of a finite set is
  an induction) and that a control round has what it says (`RoundInv`).
- `DeleteSparesEditsAlways`, for a folder with a group id in which every write gets a
  modification time of its own (`Group`, `~ SameSecond`). Modification times are compared in
  whole seconds, so two writes in one second tie, and then TLC refutes the property; in
  a 1:1 mirror it is refuted too (section 9). The invariant adds `SpareInv`: a modification
  time tells the content and none is ahead of the clock (`TimeInv`), every record of a
  delete names a size that a user did away with (`NamesInv`), and the newest version a
  member knows is the one of its file or was done away with (`KnownInv`). The last is why
  it holds: the watcher names the newest version it knows when a file is gone.

## 8. `ChatSync`

One message a person sent, on each of that person's own devices.

### State and steps

| model | code |
|---|---|
| `copy[d]` | the message in `chats.json` of device d: status, text, edited, unsent, preview, `rev`, `text_rev`, reaction clocks |
| `ex[c][s]`, `inStep[c]` | an exchange that c began with s, in four frames; the devices c has told everything |
| `Merged` with `MergeFields`, `TextNewer`, `LaterClock`, `LegacyClocks`, `Foreign` | `merge_synced` field by field |
| `Edit`, `Unsend`, `React`, `Preview`, `Deliver`, `ReadReceipt` | changes, each stamped by `BumpRev` |
| `Hello`, `Lists`, `Plan`, `Serve`, `Last`, `Lost`, `Refresh` | the exchange of `account.rs` between its awaits |

### Runs

`chat_sync` (two devices, one clock ahead of the other by half the time between two changes, two changes, receipts or lost exchanges,
fairness: devices find each other again and again) checks `AgreedIsWanted`: whenever the
digests agree, which is when devices leave each other alone, they show the message alike
and as the person last wanted it; and `Converges`: in the end they do, for good. Two
changes give every pair of changes at the two devices, before, between and after the frames
of two overlapping exchanges. `chat_sync_read` is a violation (section 9).

### Proofs

`ChatSyncProofs`, for any number of devices, reactions and events (`DevAssumption`,
`NoneAssumption`). Every definition of the merge is first reduced to what it makes of each
field (`MergedMakes`), every action to what it makes of the copies (`StepTypes`): a change
of one of them, or copies that spread.

| theorem | under | says |
|---|---|---|
| `MergeCommutes` | the stamps by which the two texts are compared tell them apart (`TextKnown` of `Ours` and `Theirs`, the copies as `legacy_clocks` reads them) | whose copy is merged into whose makes no difference to what is shown |
| `MergeRepeats`, `MergeAssociates` | also: each change has a clock of its own (`Sound`) | merging a copy twice, or three in another order, makes no difference |
| `TypeCorrect` | - | `TypeOK`: types, and no stamp of a copy is below those of its parts |
| `NeverTakenBackAlways` | - | no step makes a device lose the message, an unsend, a step of the delivery or the stamp of a text or reaction |
| `AgreedIsWantedAlways` | the clocks differ by less than the time between two changes (`ClocksClose`) | `AgreedIsWanted` |

The hypotheses are where the code needs them. A copy of an older build, or one with a late
link preview, has a stamp without a clock; `legacy_clocks` reads it by what the *other* copy
has, so that with three of them the order matters, and an edited copy counts as edited at
its whole stamp (`chat.rs` 1114-1116), so that even two may tie with different texts, each
side then keeping its own: `MergeCommutes` assumes that they do not. The clocks that lines
1117-1119 give such a copy's own reactions are not represented, for a reaction of the model
always has its clock. With clocks further apart two texts can get
one stamp, and the later text can have the lower one: with a device that is ahead by the
time between two changes TLC refutes `AgreedIsWanted`. Associativity is about what is shown,
not the digests: two unsent copies keep reaction clocks of their own.

`AgreedIsWanted` is not inductive. `WishInv` says of every copy, on a device or in a frame,
that its stamps are in the past by some device's clock, that it has the last text with a stamp
of the time of that text or an older one with a stamp before that time by every clock, and
that only what the person unsent is unsent (`Right`); and that the last text, an unsend and the last choice of each reaction are
each still on some device with no later stamp anywhere (`TextKept`, `UnsendKept`,
`ReactionKept`). A change satisfies this because its stamp is above all others, a merge
because it takes the later one. TLC checked the invariant and `NeverTakenBack` on this
instance with three events (1.8 million states) before they were proved.

## 9. Disagreements with comments and documents

With a run:

1. `chat_sync_read`: `chat.rs:705` "Only a message that actually reached them can be
   read: one still "sending"/"failed" ... must stay in the outbox". An undelivered message is
   stored as `sent` on the other own devices; a read receipt for a later message that
   reaches such a device marks the copy read, and the next merge raises the sending
   device's status, which stops trying.

Met while modelling or proving, without a run of their own:

2. Server: `server.rs:883` "Still streaming: finish the job when the upload stops". A cancel
   that comes between "held" and the end of the handler is answered `canceled` and forgotten.
3. Server: `src/docs/TRANSFER-SERVER-PLAN.md:367` "Items wait on disk; delivery resumes on
   restart". After a failed record write memory says held and the disk says uploading.
4. Server: switching off during an upload forgets the mark `uploading`, after which two
   handlers can work on one id; a guard dropped while the drive is away leaves its mark,
   so that gc skips the item until a restart; gc forgets an aged receipt before it
   retries the delete of its folder (about `server.rs` 1063); changing the storage folder
   (`cmds.rs` 160-168) leaves held items behind.
5. Chat: a held message is marked read by a receipt for a later one (`chat.rs` 705-708
   counts `held` as reached); `client.rs:1452` "it's gone, the friend never saw it", although
   items travel with the list and a device may have it; an edit is acknowledged after
   three days although its message could not be stored yet (about `client.rs` 1840). An edit
   or unsend whose write fails is acknowledged all the same (`save_all` only logs, `chat.rs`
   266-270, 663, 692), the server deletes its copy or the sender its queue entry, and the
   change is lost if the app ends before another write; for messages D11 (`chat.rs` 315-320)
   guards against just that.
6. Fan-out: a device found at the door that cannot be reached after all stays "uploading"
   with no task (`fanout.rs` 545-549 against 702-706); a canceled device may be dialled again
   (775-785).
7. Calls: a device that joins after the answer is not told (`src/docs/CALLS.md:69` against
   `calls/mod.rs` 341-349).
8. Own devices: an exchange does not always go quiet (about `account.rs` 2453; for instance,
   two unsent copies keep the reaction clocks each had, `chat.rs` 1130-1144, which the digest
   of 953-965 tells apart); a reaction is lost after `set_link_preview` (`chat.rs` 475-485);
   with clocks too far apart two texts can tie.
9. Folders: a delete is undone by a copy on its way before it was recorded (`sync.rs` 3829,
   965-1094, against line 80); a file deleted while its first send is in flight comes back
   (3412-3422, `src/docs/FEATURES.md:360`); two copies of one size can differ for ever; in a 1:1
   mirror two files can swap places again and again; the guard against own removals
   swallows a delete for 30 s (959).
10. Folders, found by the proof of `DeleteSparesEdits`: in a 1:1 mirror two crossing sends make
    each side take the other's file. A delete then names the version with the newest
    modification time the deleter knows, which can be the other's, and sweeps a file that
    nobody deleted into the history, although `sync.rs` 1017-1020 says "the exact version we
    had ... never a newer edit, never a file we never saw".
11. Files: a mix can land if the file is edited after a kept block was hashed and before the
    stamp is taken (`iroh_net.rs` 9767-9771, `integrity.rs` 348); a connection lost between the last
    byte and the manifest restarts from zero (`integrity.rs` 389-399 against `iroh_net.rs`
    9936-9938); a throwaway stays after a failed verification; one content under two
    fingerprints may land twice; a retry whose ready never came ends the send though a
    partial exists.
12. Accounts, read and not modelled: `account_leave` tells no device (`account.rs` 27-28,
    1762-1790); clock skew can undo a relink; mutual removals are decided by merge order
    (282-299, 1404-1412); a relink through a device that did not vouch never reaches others
    (366-381 against 595-596); `client_exchange` does not check the key again after its await
    (about 1417, against `friends.rs` 1842-1843); linking marks the host as linked now
    (`link.rs` 677-681).

## 10. Only model-checked, and why

- Liveness (`EveryItemEnds`, `EveryMessageArrives`, `EveryDeviceSettles`, `EverySendEnds`,
  `HalfCallEnds`, both `Converges`): fairness and `ENABLED` are outside what the prover does.

Every invariant and every action property that a passing run checks is stated by a theorem.

## 11. Plan

1. `Account`: signed members, vouchers and removals merged in any order, with friends,
   blocks and the profile that ride on the same exchange. The hazard at `account.rs:282` has
   no property until then.
2. Pokes and their back-off; moving the storage folder and changing the cap.
3. `ChatDelivery` on `Mailbox` itself in place of its own `box`.

## 12. Not modelled

Cryptography (sealing, signatures), wire formats, wording, UI, media transport, agents,
hosts, settings, locations and the drive. Of the modelled parts: reactions and attachments
(`ChatDelivery`); several servers (`FanOut`); the legacy protocol, manual acceptance, parking
and relays, the collection of week-old partials, sends of several files
(`DirectTransfer`); renames, directories, viewers, pausing, groups of three and more, files
that delete themselves (`SharedFolder`); received messages and trimming (`ChatSync`).

Most lines of `iroh_net.rs`, `sync.rs`, `locations.rs` and `commands.rs` are input and output, progress
reports, formats, glue to the user interface, and tests inside the source files: they
have no protocol to model, which is why the map covers a small part of all lines.
`PROJECT.json` gives the reason for every part that has no module.
