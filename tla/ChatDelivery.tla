---------------------------- MODULE ChatDelivery ----------------------------
(***************************************************************************)
(* How a chat message, and an edit or unsend of it, gets from one device   *)
(* to the devices of a friend: directly when they answer, through a        *)
(* Transfer Server when they do not.                                       *)
(*                                                                         *)
(*   the sender   commands.rs (send, edit, unsend), the outbox loop of     *)
(*                iroh_net.rs, the stores of chat.rs, and the mailbox      *)
(*                client's ledger and receipts (mailbox/client.rs);        *)
(*   the server   reduced to what TransferServer promises its clients:     *)
(*                an item is held, then taken, canceled or expired;        *)
(*   the friend   apply_incoming_chat, fetch_from and the seen ledger.     *)
(*                                                                         *)
(* A handler is cut where it awaits: between two cuts nothing else runs    *)
(* on what it touches.  A message is its id; the text of a message is      *)
(* reduced to which version of it is meant.                                *)
(***************************************************************************)
EXTENDS Integers, FiniteSets, FiniteSetsExt

CONSTANTS
    Msg,        \* our messages, in the order they are written (positive)
    Dev,        \* the friend's devices
    Item,       \* bound: ids of server items, taken in order of deposit
    OpKinds,    \* changes the user makes: subset of {"edit", "delete"}
    Routes,     \* what can_hold_chat may answer: subset of BOOLEAN
    Links,      \* messages with a link, which wait for its preview
    Upsets,     \* disturbances of this instance: subset of UpsetKinds
    MaxUpsets,  \* bound: disturbances per behaviour
    None

\* "ack" and "reply": an answer of a device or of the server is lost;
\* "crash": the sender's app ends; "death": a device's app ends as it stores an
\* item; "refuse": a device turns an item down; "disk": its write of chats.json
\* fails; "expire": an item waits too long; "forget": the server forgot what became
\* of it, or is gone.  Not counted: "late": an op waited three days for its
\* message; "reopen": a device's app ends with a write still failed.
UpsetKinds == {"ack", "reply", "crash", "death", "refuse", "disk", "reopen", "late", "expire", "forget"}

ASSUME ChatAssumption ==
    /\ Msg \subseteq Nat \ {0} /\ Item \subseteq Nat
    /\ Links \subseteq Msg
    /\ OpKinds \subseteq {"edit", "delete"}
    /\ Routes \subseteq BOOLEAN /\ Routes # {}
    /\ Upsets \subseteq UpsetKinds /\ MaxUpsets \in Nat

VARIABLES
    status, gaveUp,      \* chats.json: delivery status; server_note "expired"/"lost"
    edited, gone,        \* chats.json: messages edited, unsent
    ops,                 \* chat_ops.json: edits and unsends not yet delivered
    sent,                \* mailbox-sent.json: what we left on the server
    task,                \* deliveries in progress
    loop,                \* the outbox loop's round
    cancels,             \* cancel_on tasks in progress
    receipts,            \* refresh_status/apply_receipts in progress
    box,                 \* the server's items
    has, disk,           \* per device: its messages in memory (CACHE), in chats.json
    seen, fetch,         \* per device: its seen ledger, its fetch
    upsets,              \* disturbances so far
    closed               \* changes the server answered "Removed", or a device gave up or lost

chat == <<status, gaveUp, edited, gone, ops>>
work == <<task, loop, cancels, receipts>>
friend == <<has, disk, seen, fetch>>
vars == <<chat, sent, work, box, friend, upsets, closed>>

Loop == 0                       \* the outbox loop; worker m sends message m
Worker == Msg \cup {Loop}

Status == {"unsent", "sending", "failed", "held", "delivered", "read"}
Text == {"old", "new", "blank"}  \* blank: a message already unsent when framed
Version == Text \cup {"none", "gone"}
Op == [msg : Msg, kind : OpKinds]
Snap == [msg : Msg, text : Text, server : BOOLEAN]

\* A server item, and how it may end.
ItemState == {"held", "delivered", "rejected", "canceled", "expired"}
ServerItem == [kind : {"chat", "op"}, msg : Msg, what : Text \cup OpKinds, to : SUBSET Dev,
               delivered : SUBSET Dev, refused : SUBSET Dev, state : ItemState]

\* A line of the mailbox client's ledger, and what it reads from the server:
\* "lost", when the server does not know the item or is gone past its expiry.
SentState == ItemState \cup {"lost"}
Sent == [state : SentState, copy : BOOLEAN, to : SUBSET Dev, cancel : BOOLEAN]
Receipt == [item : Item, state : SentState, to : SUBSET Dev]

ASSUME NoneAssumption == None \notin Item \cup ServerItem \cup Sent

IdleTask == [pc |-> "idle", msg |-> None, text |-> None, hold |-> FALSE,
             server |-> FALSE, try |-> {}, acked |-> {}, held |-> FALSE]

Rest == [phase |-> "rest", hold |-> FALSE, pend |-> {}, held |-> {}, ops |-> {},
         op |-> None, copies |-> {}, just |-> {}, skip |-> {}, deferred |-> FALSE]

NoReceipts == [phase |-> "none", set |-> {}]
NoFetch == [list |-> {}, item |-> None, ok |-> FALSE]

Upset(kind) == kind \in Upsets /\ upsets < MaxUpsets
Count == upsets' = upsets + 1

\* While held, no one else delivers this message (CHAT_INFLIGHT).
Claimed == {task[w].msg : w \in {w \in Worker :
               /\ task[w].pc \in {"preview", "dial", "deposit", "record"}
               /\ w = Loop => loop.phase = "msgs"}}

\* The text a frame of message m carries now.
TextOf(m) == IF m \in gone THEN "blank" ELSE IF m \in edited THEN "new" ELSE "old"

(***************************************************************************)
(* chat.rs: the sender's message store.                                    *)
(***************************************************************************)
\* set_status never moves backwards.
MayBecome(from, to) ==
    /\ from # to /\ from # "read"
    /\ from = "delivered" => to = "read"
    /\ from = "held" => to \in {"delivered", "read"}

SetStatus(m, to) ==
    IF MayBecome(status[m], to)
    THEN /\ status' = [status EXCEPT ![m] = to]
         /\ gaveUp' = IF to = "delivered" THEN gaveUp \ {m} ELSE gaveUp
    ELSE UNCHANGED <<status, gaveUp>>

SetHeld(m) ==
    IF status[m] \in {"sending", "failed"}
    THEN status' = [status EXCEPT ![m] = "held"] /\ gaveUp' = gaveUp \ {m}
    ELSE UNCHANGED <<status, gaveUp>>

SetServerFailed(m) ==
    IF status[m] \in {"held", "sending", "failed"}
    THEN status' = [status EXCEPT ![m] = "failed"] /\ gaveUp' = gaveUp \cup {m}
    ELSE UNCHANGED <<status, gaveUp>>

\* A delivery failed: the deposit's refusal becomes the note, the status "failed".
SetFailed(m, refused) ==
    IF MayBecome(status[m], "failed") \/ status[m] = "failed"
    THEN /\ status' = [status EXCEPT ![m] = "failed"]
         /\ gaveUp' = IF refused THEN gaveUp \ {m} ELSE gaveUp
    ELSE UNCHANGED <<status, gaveUp>>

\* Mistake: what failed once is not tried again.
OutboxFresh == {m \in Msg \ gone : status[m] = "sending"}

\* chat::outbox and chat::held.
Outbox == {m \in Msg \ gone : status[m] \in {"sending", "failed"}}
HeldByServer == {m \in Msg \ gone : status[m] = "held"}

Snapshot(m) == [msg |-> m, text |-> TextOf(m), server |-> m \notin gaveUp]
Oldest(S) == CHOOSE s \in S : \A t \in S : s.msg <= t.msg

(***************************************************************************)
(* The friend's store: apply_incoming_chat.                                *)
(***************************************************************************)
\* Mistake: an unsent message does not count as one we have.
StoredAgain(v, text) == IF v \in {"none", "gone"} THEN text ELSE v

\* append_durable: a message is stored once, by its id; an unsent one stays.
Stored(v, text) == IF v = "none" THEN text ELSE v

\* apply_edit and apply_delete need the message; an unsent one takes no edit.
Applies(v, kind) == v # "none" /\ (kind = "edit" => v # "gone")
Applied(v, kind) == IF ~Applies(v, kind) THEN v
                    ELSE IF kind = "edit" THEN "new" ELSE "gone"

\* What devices D hold once they stored message m, or applied op o.
StoreOn(D, m, text) ==
    [d \in Dev |-> IF d \in D THEN [has[d] EXCEPT ![m] = Stored(has[d][m], text)] ELSE has[d]]
ApplyOn(D, o) ==
    [d \in Dev |-> IF d \in D THEN [has[d] EXCEPT ![o.msg] = Applied(has[d][o.msg], o.kind)] ELSE has[d]]

\* A write saves the whole store: what devices W hold now is on their disks.
Written(W) == disk' = [d \in Dev |-> IF d \in W THEN has'[d] ELSE disk[d]]

(***************************************************************************)
(* The server, as its clients see it.                                      *)
(***************************************************************************)
Free == {i \in Item : box[i] = None}
HeldItem(i) == box[i] # None /\ box[i].state = "held"
Waiting(d) == {i \in Item : HeldItem(i) /\ d \in box[i].to \ (box[i].delivered \cup box[i].refused)}

Put(i, kind, m, what, to) ==
    box' = [box EXCEPT ![i] = [kind |-> kind, msg |-> m, what |-> what, to |-> to,
                               delivered |-> {}, refused |-> {}, state |-> "held"]]

Canceled(i) == IF HeldItem(i) THEN [box EXCEPT ![i].state = "canceled"] ELSE box

\* Mistake: the server's word for it is not the one its clients know.
EndStateOld(it) == IF it.delivered = {} THEN "refused" ELSE "delivered"

EndState(it) == IF it.delivered = {} THEN "rejected" ELSE "delivered"

\* mailbox.ack: the item ends when each device took it or turned it down.
Acked(i, d, ok) ==
    IF ~HeldItem(i) THEN box ELSE
    LET it == IF ok THEN [box[i] EXCEPT !.delivered = @ \cup {d}]
                    ELSE [box[i] EXCEPT !.refused = @ \cup {d}]
    IN  [box EXCEPT ![i] = IF it.to \subseteq it.delivered \cup it.refused
                           THEN [it EXCEPT !.state = EndState(it)] ELSE it]

(***************************************************************************)
(* The mailbox client's ledger.                                            *)
(***************************************************************************)
\* with_sent in deposit_chat_for, once the server has answered "held".
Ledger(i, copy) ==
    sent' = [sent EXCEPT ![i] = [state |-> "held", copy |-> copy, to |-> {}, cancel |-> FALSE]]

Ours(m) == {i \in Item : sent[i] # None /\ box[i].kind = "chat" /\ box[i].msg = m}
OursHeld(m) == {i \in Ours(m) : sent[i].state = "held"}

\* Mistake: a copy is called back as soon as one of its devices is served.
ServedOne(i, got) == box[i].to \cap (got \cup sent[i].to) # {}

\* No device still needs server copy i.
Served(i, got) == box[i].to \subseteq got \cup sent[i].to

\* delivered_directly: the copies no device needs are called back.
DeliveredDirectly(m, got) ==
    LET S == {i \in OursHeld(m) : Served(i, got)}
    IN  /\ sent' = [i \in Item |-> IF i \in S THEN [sent[i] EXCEPT !.state = "delivered"] ELSE sent[i]]
        /\ cancels' = cancels \cup S

(***************************************************************************)
(* The user.                                                               *)
(***************************************************************************)
Become(w, t) == task' = [task EXCEPT ![w] = t]

\* send_chat_message: stored, then deliver_chat spawns its task; a message with
\* a link is claimed first, until its preview is fetched.
Send(m) ==
    /\ status[m] = "unsent"
    /\ \A n \in Msg : n < m => status[n] # "unsent"
    /\ status' = [status EXCEPT ![m] = "sending"]
    /\ Become(m, [IdleTask EXCEPT !.pc = IF m \in Links THEN "preview" ELSE "spawned",
                                  !.msg = m, !.text = "old"])
    /\ UNCHANGED <<gaveUp, edited, gone, ops, sent, loop, cancels, receipts, box, friend, upsets, closed>>

\* The claim is dropped, then what is stored now is delivered, if it is still
\* to be sent.
PreviewDone(m) ==
    /\ task[m].pc = "preview"
    /\ Become(m, IF status[m] = "sending"
                 THEN [task[m] EXCEPT !.pc = "spawned", !.text = TextOf(m)] ELSE IdleTask)
    /\ UNCHANGED <<chat, sent, loop, cancels, receipts, box, friend, upsets, closed>>

\* The task of deliver_chat starts, unless the outbox loop has the message.
Start(m) ==
    /\ task[m].pc = "spawned"
    /\ IF m \in Claimed THEN Become(m, IdleTask)
       ELSE \E hold \in Routes :
               Become(m, [task[m] EXCEPT !.pc = "dial", !.hold = hold, !.server = hold, !.try = Dev])
    /\ UNCHANGED <<chat, sent, loop, cancels, receipts, box, friend, upsets, closed>>

\* edit_chat_message (once per message) and delete_chat_message: change our
\* copy, queue the op; a delete replaces what is queued for its message.
Change(m, kind) ==
    /\ kind \in OpKinds /\ status[m] # "unsent" /\ m \notin gone
    /\ kind = "edit" => m \notin edited
    /\ edited' = IF kind = "edit" THEN edited \cup {m} ELSE edited
    /\ gone' = IF kind = "delete" THEN gone \cup {m} ELSE gone
    /\ ops' = {o \in ops : kind = "delete" => o.msg # m} \cup {[msg |-> m, kind |-> kind]}
    /\ UNCHANGED <<status, gaveUp, sent, work, box, friend, upsets, closed>>

(***************************************************************************)
(* deliver_chat_message.                                                   *)
(***************************************************************************)
\* send_chat_each (or send_chat_any): the devices A answered; the devices L
\* stored the message too but their answer was lost.
Dial(w) ==
    /\ task[w].pc = "dial"
    /\ \E A, L \in SUBSET task[w].try :
          /\ A \cap L = {} /\ (~task[w].hold => Cardinality(A) <= 1)
          /\ IF L = {} THEN UNCHANGED upsets ELSE Upset("ack") /\ Count
          /\ has' = StoreOn(A \cup L, task[w].msg, task[w].text)
          /\ Written({d \in A \cup L : Stored(has[d][task[w].msg], task[w].text) # has[d][task[w].msg]})
          /\ Become(w, [task[w] EXCEPT !.acked = A, !.try = {},
                           !.pc = IF task[w].server /\ A # Dev THEN "deposit" ELSE "record"])
          /\ loop' = IF w = Loop /\ loop.phase = "msgs" /\ loop.hold
                     THEN [loop EXCEPT !.skip = @ \cup (Dev \ A)] ELSE loop
    /\ UNCHANGED <<chat, sent, cancels, receipts, box, seen, fetch, closed>>

\* deposit_chat_for: a copy for the devices that did not answer, or, when none
\* did, the message for all of them.  Each try has a new item id.
DepositOk(w) ==
    /\ task[w].pc = "deposit" /\ Free # {}
    /\ LET i == Min(Free)
       IN  /\ Put(i, "chat", task[w].msg, task[w].text, Dev \ task[w].acked)
           /\ Ledger(i, task[w].acked # {})
    /\ Become(w, [task[w] EXCEPT !.pc = "record", !.held = TRUE])
    /\ UNCHANGED <<chat, loop, cancels, receipts, friend, upsets, closed>>

\* The server refuses, cannot be reached, or its answer is lost.
DepositFail(w) ==
    /\ task[w].pc = "deposit"
    /\ \/ UNCHANGED <<box, upsets>>
       \/ /\ Upset("reply") /\ Count /\ Free # {}
          /\ Put(Min(Free), "chat", task[w].msg, task[w].text, Dev \ task[w].acked)
    /\ Become(w, [task[w] EXCEPT !.pc = "record"])
    /\ UNCHANGED <<chat, sent, loop, cancels, receipts, friend, closed>>

\* What both callers do with the outcome.
Outcome(t) ==
    IF t.acked # {} THEN SetStatus(t.msg, "delivered")
    ELSE IF t.held THEN SetHeld(t.msg)
    ELSE SetFailed(t.msg, t.server)

\* deliver_chat; without a route it also calls back a copy held meanwhile.
RecordSend(m) ==
    /\ task[m].pc = "record"
    /\ Outcome(task[m])
    /\ IF ~task[m].hold /\ task[m].acked # {}
       THEN DeliveredDirectly(m, {}) ELSE UNCHANGED <<sent, cancels>>
    /\ Become(m, IdleTask)
    /\ UNCHANGED <<edited, gone, ops, loop, receipts, box, friend, upsets, closed>>

(***************************************************************************)
(* The outbox loop.                                                        *)
(***************************************************************************)
\* A round begins with what is queued now; hold: the friend has a server that
\* takes our messages (can_hold_chat).
RoundStart(hold) ==
    /\ loop = Rest
    /\ Outbox \cup HeldByServer # {} \/ ops # {}
    /\ hold \in Routes
    /\ loop' = [Rest EXCEPT !.phase = "msgs", !.hold = hold,
                   !.pend = {Snapshot(m) : m \in Outbox},
                   !.held = {Snapshot(m) : m \in HeldByServer},
                   !.ops = ops]
    /\ UNCHANGED <<chat, sent, task, cancels, receipts, box, friend, upsets, closed>>

LoopIdle(phase) == loop.phase = phase /\ task[Loop] = IdleTask

\* The oldest message of the round, unless the send command is at it: then the
\* round stops here, to keep the order.
TakeMessage ==
    /\ LoopIdle("msgs")
    /\ IF loop.pend = {} \/ Oldest(loop.pend).msg \in Claimed
       THEN /\ loop' = [loop EXCEPT !.phase = "held", !.pend = {}, !.hold = FALSE, !.skip = {}]
            /\ UNCHANGED task
       ELSE LET s == Oldest(loop.pend)
            IN  /\ Become(Loop, [IdleTask EXCEPT !.pc = "dial", !.msg = s.msg, !.text = s.text,
                        !.hold = loop.hold, !.server = loop.hold /\ s.server,
                        !.try = IF loop.hold THEN Dev \ loop.skip ELSE Dev])
                /\ loop' = [loop EXCEPT !.pend = @ \ {s}]
    /\ UNCHANGED <<chat, sent, cancels, receipts, box, friend, upsets, closed>>

\* A failure ends the messages of this round and defers the rest of it.
RecordMessage ==
    /\ loop.phase = "msgs" /\ task[Loop].pc = "record"
    /\ Outcome(task[Loop])
    /\ LET t == task[Loop]
       IN  loop' = IF t.acked # {} THEN [loop EXCEPT !.just = @ \cup {t.msg}]
                   ELSE IF t.held THEN loop
                   ELSE [loop EXCEPT !.pend = {}, !.deferred = TRUE]
    /\ Become(Loop, IdleTask)
    /\ UNCHANGED <<edited, gone, ops, sent, cancels, receipts, box, friend, upsets, closed>>

\* A message the server holds goes directly to the devices showing life.
TakeHeld ==
    /\ LoopIdle("held")
    /\ IF loop.held = {} \/ loop.deferred
       THEN loop' = [loop EXCEPT !.phase = "ops", !.held = {}] /\ UNCHANGED task
       ELSE LET s == Oldest(loop.held)
            IN  /\ loop' = [loop EXCEPT !.held = @ \ {s}]
                /\ \E live \in SUBSET Dev :
                      IF live = {} THEN UNCHANGED task
                      ELSE Become(Loop, [IdleTask EXCEPT !.pc = "dial", !.msg = s.msg,
                                            !.text = s.text, !.hold = TRUE, !.try = live])
    /\ UNCHANGED <<chat, sent, cancels, receipts, box, friend, upsets, closed>>

RecordHeld ==
    /\ loop.phase = "held" /\ task[Loop].pc = "record"
    /\ LET t == task[Loop]
       IN  IF t.acked = {} THEN UNCHANGED <<status, gaveUp, sent, cancels, loop>>
           ELSE /\ SetStatus(t.msg, "delivered")
                /\ DeliveredDirectly(t.msg, t.acked)
                /\ loop' = [loop EXCEPT !.just = @ \cup {t.msg}]
    /\ Become(Loop, IdleTask)
    /\ UNCHANGED <<edited, gone, ops, receipts, box, friend, upsets, closed>>

(***************************************************************************)
(* The outbox loop: edits and unsends, after the messages.                 *)
(***************************************************************************)
Back == [loop EXCEPT !.phase = "ops", !.op = None]

\* An op waits for its message to be delivered, in an earlier round; one whose
\* message is held goes to the server, unless the friend shows life.
TakeOp ==
    /\ LoopIdle("ops")
    /\ \/ loop.ops = {} /\ loop' = Rest
       \/ \E o \in loop.ops :
             LET rest == [loop EXCEPT !.ops = @ \ {o}]
                 turn == ~loop.deferred /\ o.msg \notin loop.just
             IN  \/ /\ ~turn \/ status[o.msg] \notin {"delivered", "read"}
                    /\ loop' = rest
                 \/ /\ turn /\ status[o.msg] \in {"delivered", "read"}
                    /\ loop' = [rest EXCEPT !.phase = "opsend", !.op = o]
                 \/ /\ turn /\ status[o.msg] = "held"
                    /\ loop' = [rest EXCEPT !.op = o,
                          !.phase = IF o.kind = "delete" THEN "unsend" ELSE "opdeposit"]
    /\ UNCHANGED <<chat, sent, task, cancels, receipts, box, friend, upsets, closed>>

\* What a client makes of the answer to mailbox.cancel.
CancelOutcome(i) ==
    IF HeldItem(i) THEN (IF box[i].delivered = {} THEN "Removed" ELSE "Delivered")
    ELSE IF box[i].state = "delivered" THEN "Delivered" ELSE "Removed"

Concluded(i) ==
    [sent EXCEPT ![i].state = IF CancelOutcome(i) = "Removed" THEN "canceled" ELSE "delivered"]

\* Mistake: whatever the server answers, the unsend is done.
SettlesAny(outcome) == TRUE

\* Only a message nobody took is unsent by the server alone.
Settles(outcome) == outcome = "Removed"

\* unsend_held: the server lets the message go; or the outcome is unknown, its
\* answer perhaps lost, and the op is left there behind the message.
Unsend ==
    /\ loop.phase = "unsend"
    /\ LET o == loop.op
       IN  \/ /\ loop' = [loop EXCEPT !.phase = "opdeposit"]
              /\ UNCHANGED <<status, gaveUp, ops, sent, closed>>
              /\ \/ UNCHANGED <<box, upsets>>
                 \/ \E i \in OursHeld(o.msg) : Upset("reply") /\ Count /\ box' = Canceled(i)
           \/ \E i \in OursHeld(o.msg) :
                 /\ box' = Canceled(i) /\ sent' = Concluded(i) /\ loop' = Back
                 /\ IF Settles(CancelOutcome(i))
                    THEN /\ ops' = ops \ {o} /\ UNCHANGED <<status, gaveUp>>
                         /\ closed' = IF CancelOutcome(i) = "Removed"
                                      THEN closed \cup {o} ELSE closed
                    ELSE SetStatus(o.msg, "delivered") /\ UNCHANGED <<ops, closed>>
                 /\ UNCHANGED upsets
    /\ UNCHANGED <<edited, gone, task, cancels, receipts, friend>>

\* The op follows its message to the server that holds it.  (Its own ledger
\* entry names no message and is not modelled.)
OpDeposit ==
    /\ loop.phase = "opdeposit" /\ loop' = Back
    /\ LET o == loop.op
       IN  \/ UNCHANGED <<ops, box, upsets>>
           \/ /\ OursHeld(o.msg) # {} /\ Free # {}
              /\ Put(Min(Free), "op", o.msg, o.kind, Dev)
              /\ \/ ops' = ops \ {o} /\ UNCHANGED upsets
                 \/ Upset("reply") /\ Count /\ UNCHANGED ops
    /\ UNCHANGED <<status, gaveUp, edited, gone, sent, task, cancels, receipts, friend, closed>>

\* send_chat_any: the first device that has the message applies the op; one
\* whose answer is lost applied it too, and one whose write failed (F) answers
\* all the same.  Then the op follows the server copies.
OpSend ==
    /\ loop.phase = "opsend"
    /\ LET o == loop.op
           copies == {[item |-> i, back |-> o.kind = "delete" /\ sent[i].state = "held"
                                              /\ sent[i].to = {}] :
                        i \in {j \in Ours(o.msg) : sent[j].state \in {"held", "delivered"}}}
       IN  \E A, L, F \in SUBSET {d \in Dev : Applies(has[d][o.msg], o.kind)} :
              /\ A \cap L = {} /\ Cardinality(A) <= 1 /\ F \subseteq A \cup L
              /\ L # {} => Upset("ack")
              /\ F # {} => Upset("disk")
              /\ IF L \cup F = {} THEN UNCHANGED upsets ELSE Count
              /\ has' = ApplyOn(A \cup L, o) /\ Written((A \cup L) \ F)
              /\ loop' = IF A = {} THEN Back ELSE [loop EXCEPT !.phase = "follow", !.copies = copies]
    /\ UNCHANGED <<chat, sent, task, cancels, receipts, box, seen, fetch, closed>>

\* op_follows_copies: an unsend first takes back a copy nobody fetched ...
FollowBack(c) ==
    /\ loop.phase = "follow" /\ c \in loop.copies /\ c.back
    /\ LET on == [loop EXCEPT !.copies = (loop.copies \ {c}) \cup {[item |-> c.item, back |-> FALSE]}]
       IN  \/ loop' = on /\ UNCHANGED <<sent, box, upsets>>
           \/ Upset("reply") /\ Count /\ box' = Canceled(c.item) /\ loop' = on /\ UNCHANGED sent
           \/ /\ box' = Canceled(c.item) /\ sent' = Concluded(c.item)
              /\ loop' = IF Settles(CancelOutcome(c.item))
                         THEN [loop EXCEPT !.copies = @ \ {c}] ELSE on
              /\ UNCHANGED upsets
    /\ UNCHANGED <<chat, task, cancels, receipts, friend, closed>>

\* ... else the op is left there for the same devices, and a failure is ignored.
FollowDeposit(c) ==
    /\ loop.phase = "follow" /\ c \in loop.copies /\ ~c.back
    /\ loop' = [loop EXCEPT !.copies = @ \ {c}]
    /\ \/ UNCHANGED box
       \/ /\ Free # {}
          /\ Put(Min(Free), "op", loop.op.msg, loop.op.kind, box[c.item].to)
    /\ UNCHANGED <<chat, sent, task, cancels, receipts, friend, upsets, closed>>

\* ack_op.
FollowDone ==
    /\ loop.phase = "follow" /\ loop.copies = {}
    /\ ops' = ops \ {loop.op} /\ loop' = Back
    /\ UNCHANGED <<status, gaveUp, edited, gone, sent, task, cancels, receipts, box, friend, upsets, closed>>

(***************************************************************************)
(* The mailbox client's background loop: cancels and receipts.             *)
(***************************************************************************)
\* cancel_on, at once or again from retry_cancels: until the server has answered.
CancelOn(i) ==
    /\ i \in cancels \/ (sent[i] # None /\ sent[i].cancel)
    /\ cancels' = cancels \ {i}
    /\ \/ /\ box' = Canceled(i) /\ sent' = [sent EXCEPT ![i].cancel = FALSE]
          /\ UNCHANGED upsets
       \/ /\ sent' = [sent EXCEPT ![i].cancel = TRUE]
          /\ \/ UNCHANGED <<box, upsets>>
             \/ Upset("reply") /\ Count /\ box' = Canceled(i)
    /\ UNCHANGED <<chat, task, loop, receipts, friend, closed>>

\* refresh_status asks about what the ledger calls held ...
RefreshAsk ==
    /\ receipts = NoReceipts
    /\ LET S == {i \in Item : sent[i] # None /\ sent[i].state = "held"}
       IN  S # {} /\ receipts' = [phase |-> "asked", set |-> S]
    /\ UNCHANGED <<chat, sent, task, loop, cancels, box, friend, upsets, closed>>

\* What it learns of item i; F: the server does not know, or is gone.
Learned(i, F) == IF i \in F THEN [item |-> i, state |-> "lost", to |-> {}]
                 ELSE [item |-> i, state |-> box[i].state, to |-> box[i].delivered]

Learn(S, F) == receipts' = IF S = {} THEN NoReceipts
                           ELSE [phase |-> "answered", set |-> {Learned(i, F) : i \in S}]

\* ... the server tells what changed, and what it has forgotten since;
RefreshAnswer ==
    /\ receipts.phase = "asked"
    /\ \E F \in SUBSET {i \in receipts.set : box[i].state # "held"} :
          /\ IF F = {} THEN UNCHANGED upsets ELSE Upset("forget") /\ Count
          /\ Learn({i \in receipts.set : box[i].state # "held" \/ ~(box[i].delivered \subseteq sent[i].to)}, F)
    /\ UNCHANGED <<chat, sent, task, loop, cancels, box, friend, closed>>

\* ... or there is no answer: what it holds too long by now is given up;
RefreshLost ==
    /\ receipts.phase = "asked"
    /\ \E F \in SUBSET receipts.set :
          /\ IF F = {} THEN UNCHANGED upsets ELSE Upset("forget") /\ Count
          /\ Learn(F, F)
    /\ UNCHANGED <<chat, sent, task, loop, cancels, box, friend, closed>>

\* ... and the ledger is written, whatever it says by then.
RefreshLedger ==
    /\ receipts.phase = "answered"
    /\ sent' = [i \in Item |->
          IF \A r \in receipts.set : r.item # i THEN sent[i] ELSE
          LET r == CHOOSE r \in receipts.set : r.item = i
          IN  [sent[i] EXCEPT !.state = r.state, !.to = @ \cup r.to]]
    /\ receipts' = [receipts EXCEPT !.phase = "apply"]
    /\ UNCHANGED <<chat, task, loop, cancels, box, friend, upsets, closed>>

\* What a receipt says of its message.
Verdict(r) ==
    CASE r.state = "delivered" \/ (r.to # {} /\ r.state \in {"held", "expired"}) -> "delivered"
      [] r.state \in {"expired", "rejected", "lost"} /\ r.to = {} -> "failed"
      [] OTHER -> "none"

\* apply_receipts: then the bubbles; a copy's fate changes none.
RefreshApply(r) ==
    /\ receipts.phase = "apply" /\ r \in receipts.set
    /\ LET m == box[r.item].msg
       IN  IF sent[r.item].copy \/ Verdict(r) = "none" THEN UNCHANGED <<status, gaveUp>>
           ELSE IF Verdict(r) = "delivered" THEN SetStatus(m, "delivered")
           ELSE SetServerFailed(m)
    /\ receipts' = IF receipts.set = {r} THEN NoReceipts ELSE [receipts EXCEPT !.set = @ \ {r}]
    /\ UNCHANGED <<edited, gone, ops, sent, task, loop, cancels, box, friend, upsets, closed>>

(***************************************************************************)
(* A device of the friend.                                                 *)
(***************************************************************************)
\* fetch_from: small items come with the list; one run at a time.
FetchList(d) ==
    /\ fetch[d] = NoFetch /\ Waiting(d) # {}
    /\ fetch' = [fetch EXCEPT ![d].list = Waiting(d)]
    /\ UNCHANGED <<chat, sent, work, box, has, disk, seen, upsets, closed>>

\* Mistake: what could not be written is taken all the same.
TakenAnyway(kind) == TRUE

\* A write failed.  D11: append_durable takes the message back out of memory and
\* the item is left; apply_edit and apply_delete only log it (save_all).
Taken(kind) == kind = "op"

\* receive_one, oldest first: take it and remember its id; leave an op whose
\* message is not here, and a message that cannot be stored.
FetchTake(d) ==
    /\ fetch[d].list # {} /\ fetch[d].item = None
    /\ LET i == Min(fetch[d].list)
           it == box[i]
           v == has[d][it.msg]
           new == IF it.kind = "chat" THEN Stored(v, it.what) ELSE Applied(v, it.what)
           waits == it.kind = "op" /\ ~Applies(v, it.what)
           writes == IF it.kind = "chat" THEN new # v ELSE ~waits
           rest == fetch[d].list \ {i}
           Hold == has' = [has EXCEPT ![d][it.msg] = new]
           Decide(ok) == /\ fetch' = [fetch EXCEPT ![d] = [list |-> rest, item |-> i, ok |-> ok]]
                         /\ seen' = IF ok THEN [seen EXCEPT ![d] = @ \cup {i}] ELSE seen
           Leave == fetch' = [fetch EXCEPT ![d].list = rest] /\ UNCHANGED seen
       IN  IF i \in seen[d] THEN Decide(TRUE) /\ UNCHANGED <<has, disk, upsets, closed>>
           ELSE \/ /\ Hold /\ Written(IF writes THEN {d} ELSE {}) /\ UNCHANGED <<upsets, closed>>
                   /\ IF waits THEN Leave ELSE Decide(TRUE)
                \/ /\ "late" \in Upsets /\ waits /\ Decide(TRUE) /\ UNCHANGED <<has, disk, upsets>>
                   /\ closed' = closed \cup {[msg |-> it.msg, kind |-> it.what]}
                \/ Upset("refuse") /\ Count /\ Decide(FALSE) /\ UNCHANGED <<has, disk, closed>>
                \/ /\ Upset("disk") /\ Count /\ writes /\ UNCHANGED <<disk, closed>>
                   /\ IF it.kind = "op" THEN Hold ELSE UNCHANGED has
                   /\ IF Taken(it.kind) THEN Decide(TRUE) ELSE Leave
                \/ /\ Upset("death") /\ Count /\ writes   \* stored, and the id not yet noted
                   /\ Hold /\ Written({d})
                   /\ fetch' = [fetch EXCEPT ![d] = NoFetch] /\ UNCHANGED <<seen, closed>>
    /\ UNCHANGED <<chat, sent, work, box>>

FetchAck(d) ==
    /\ fetch[d].item # None
    /\ \/ box' = Acked(fetch[d].item, d, fetch[d].ok) /\ UNCHANGED upsets
       \/ Upset("ack") /\ Count /\ UNCHANGED box
    /\ fetch' = [fetch EXCEPT ![d].item = None, ![d].ok = FALSE]
    /\ UNCHANGED <<chat, sent, work, has, disk, seen, closed>>

\* Any later write of the store saves what an earlier one could not.
Rewrite(d) ==
    /\ disk[d] # has[d]
    /\ disk' = [disk EXCEPT ![d] = has[d]]
    /\ UNCHANGED <<chat, sent, work, box, has, seen, fetch, upsets, closed>>

\* The changes device d holds in memory only.
Unsaved(d) == {o \in Op : /\ disk[d][o.msg] # has[d][o.msg]
                          /\ has[d][o.msg] = (IF o.kind = "edit" THEN "new" ELSE "gone")}

\* The device's app ends before that, and with it what it did not save.
Reopen(d) ==
    /\ "reopen" \in Upsets /\ disk[d] # has[d]
    /\ has' = [has EXCEPT ![d] = disk[d]]
    /\ closed' = closed \cup Unsaved(d)
    /\ fetch' = [fetch EXCEPT ![d] = NoFetch]
    /\ UNCHANGED <<chat, sent, work, box, disk, seen, upsets>>

\* What mark_read_up_to counts as having reached them.
Readable == {"delivered", "held"}

\* The friend read message m on device d; mark_read_up_to marks it and all
\* earlier ones.
ReadReceipt(d, m) ==
    /\ has[d][m] \in {"old", "new"}
    /\ LET R == {n \in Msg : n <= m /\ status[n] \in Readable}
       IN  R # {} /\ status' = [n \in Msg |-> IF n \in R THEN "read" ELSE status[n]]
    /\ UNCHANGED <<gaveUp, edited, gone, ops, sent, work, box, friend, upsets, closed>>

(***************************************************************************)
(* Time and crashes.                                                       *)
(***************************************************************************)
\* An item waited for days; nobody is about to note its deposit.
Expire(i) ==
    /\ HeldItem(i) /\ Upset("expire") /\ Count
    /\ \A w \in Worker : task[w].pc # "record"
    /\ box' = [box EXCEPT ![i].state = "expired"]
    /\ UNCHANGED <<chat, sent, work, friend, closed>>

\* The sender's app ends; what it wrote to disk stays.
Crash ==
    /\ Upset("crash") /\ Count
    /\ task' = [w \in Worker |-> IdleTask] /\ loop' = Rest
    /\ cancels' = {} /\ receipts' = NoReceipts
    /\ UNCHANGED <<chat, sent, box, friend, closed>>

(***************************************************************************)
(* The specification.                                                      *)
(***************************************************************************)
Init ==
    /\ status = [m \in Msg |-> "unsent"]
    /\ gaveUp = {} /\ edited = {} /\ gone = {} /\ ops = {}
    /\ sent = [i \in Item |-> None] /\ box = [i \in Item |-> None]
    /\ task = [w \in Worker |-> IdleTask] /\ loop = Rest
    /\ cancels = {} /\ receipts = NoReceipts
    /\ has = [d \in Dev |-> [m \in Msg |-> "none"]] /\ disk = has
    /\ seen = [d \in Dev |-> {}] /\ fetch = [d \in Dev |-> NoFetch]
    /\ upsets = 0 /\ closed = {}

User == \E m \in Msg : Send(m) \/ \E kind \in OpKinds : Change(m, kind)

\* The task that delivers message m.
Deliver(m) ==
    \/ PreviewDone(m) \/ Start(m) \/ Dial(m)
    \/ DepositOk(m) \/ DepositFail(m) \/ RecordSend(m)

Commands == \E m \in Msg : Deliver(m)

Outboxing ==
    \/ \E hold \in Routes : RoundStart(hold)
    \/ TakeMessage \/ RecordMessage \/ TakeHeld \/ RecordHeld
    \/ Dial(Loop) \/ DepositOk(Loop) \/ DepositFail(Loop)
    \/ TakeOp \/ Unsend \/ OpDeposit \/ OpSend \/ FollowDone
    \/ \E c \in loop.copies : FollowBack(c) \/ FollowDeposit(c)

Background ==
    \/ \E i \in Item : CancelOn(i)
    \/ RefreshAsk \/ RefreshAnswer \/ RefreshLost \/ RefreshLedger
    \/ \E r \in receipts.set : RefreshApply(r)

Fetch(d) == FetchList(d) \/ FetchTake(d) \/ FetchAck(d)

Friend == \E d \in Dev :
    Fetch(d) \/ Rewrite(d) \/ Reopen(d) \/ \E m \in Msg : ReadReceipt(d, m)

Next ==
    \/ User \/ Commands \/ Outboxing \/ Background \/ Friend
    \/ Crash \/ \E i \in Item : Expire(i)

Spec == Init /\ [][Next]_vars

\* The tasks run and the devices fetch when they are poked; again and again the
\* friend has a server, and it can be reached.  A device may never answer a
\* direct call.
Fairness ==
    /\ \A m \in Msg : WF_vars(Deliver(m))
    /\ WF_vars(Outboxing) /\ SF_vars(RoundStart(TRUE)) /\ SF_vars(DepositOk(Loop))
    /\ WF_vars(RefreshAsk \/ RefreshLost) /\ SF_vars(RefreshAnswer) /\ WF_vars(RefreshLedger)
    /\ WF_vars(\E r \in receipts.set : RefreshApply(r))
    /\ \A d \in Dev : WF_vars(Fetch(d))

FairSpec == Spec /\ Fairness

(***************************************************************************)
(* Properties.                                                             *)
(***************************************************************************)
TaskType == [pc : {"idle", "preview", "spawned", "dial", "deposit", "record"},
             msg : Msg \cup {None}, text : Text \cup {None}, hold : BOOLEAN,
             server : BOOLEAN, try : SUBSET Dev, acked : SUBSET Dev, held : BOOLEAN]
LoopType == [phase : {"rest", "msgs", "held", "ops", "unsend", "opdeposit", "opsend", "follow"},
             hold : BOOLEAN, pend : SUBSET Snap, held : SUBSET Snap, ops : SUBSET Op,
             op : Op \cup {None}, copies : SUBSET [item : Item, back : BOOLEAN],
             just : SUBSET Msg, skip : SUBSET Dev, deferred : BOOLEAN]
FetchType == [list : SUBSET Item, item : Item \cup {None}, ok : BOOLEAN]
ReceiptsType == [phase : {"none", "asked"}, set : SUBSET Item]
                \cup [phase : {"answered", "apply"}, set : SUBSET Receipt]

\* Every store of the sender, of the server and of the devices keeps its form.
TypeOK ==
    /\ status \in [Msg -> Status]
    /\ gaveUp \subseteq Msg /\ edited \subseteq Msg /\ gone \subseteq Msg
    /\ ops \subseteq Op /\ closed \subseteq Op /\ cancels \subseteq Item
    /\ sent \in [Item -> Sent \cup {None}] /\ box \in [Item -> ServerItem \cup {None}]
    /\ task \in [Worker -> TaskType] /\ loop \in LoopType /\ receipts \in ReceiptsType
    /\ has \in [Dev -> [Msg -> Version]] /\ disk \in [Dev -> [Msg -> Version]]
    /\ seen \in [Dev -> SUBSET Item] /\ fetch \in [Dev -> FetchType]
    /\ upsets \in 0 .. MaxUpsets

\* "Delivered" under a message means that a device of the friend has it on
\* disk: however answers are lost, items expire or are refused, apps crash, and
\* direct delivery, server receipts and unsends race (set_status, apply_receipts).
DeliveredIsReal ==
    \A m \in Msg : status[m] = "delivered" => \E d \in Dev : disk[d][m] # "none"

\* A message a device has stored as unsent stays unsent there, though copies of
\* it are still on their way through the server, the outbox or a resend
\* (append_inner).
UnsentStaysGone ==
    [][\A d \in Dev, m \in Msg : disk[d][m] = "gone" => disk'[d][m] = "gone"]_vars

\* Unless the message is unsent, no server copy is called back before each
\* device it was left for has the message: direct deliveries, fetches and
\* receipts race, and delivered_directly decides from the ledger.
NotCalledBackEarly ==
    \A i \in Item :
       box[i] # None /\ box[i].kind = "chat" /\ box[i].state = "canceled" /\ box[i].msg \notin gone
          => \A d \in box[i].to : disk[d][box[i].msg] # "none"

\* The friend's side shows an edit or an unsend.
Shows(d, m, kind) == has[d][m] = (IF kind = "edit" THEN "new" ELSE "gone")

\* An edit or unsend of a message is not forgotten: it is queued, or waits on
\* the server until it is refused or expires there, or a device shows it, or the
\* server said it took the message back, or it waited for its message on a
\* device for three days, or a device whose write of it failed ended before
\* another write (ack_op after op_follows_copies, deposit_chat_on and
\* unsend_held; receive_one; save_all).
ChangeNotForgotten ==
    \A m \in Msg, kind \in OpKinds :
       m \in (IF kind = "edit" THEN edited \ gone ELSE gone) =>
          \/ [msg |-> m, kind |-> kind] \in ops
          \/ \E d \in Dev : Shows(d, m, kind)
          \/ \E i \in Item : /\ box[i] # None /\ box[i].state \in {"held", "rejected", "expired"}
                             /\ box[i].kind = "op" /\ box[i].msg = m /\ box[i].what = kind
          \/ [msg |-> m, kind |-> kind] \in closed

\* A message that is sent reaches a device, or is unsent, or its sender is told
\* that the server gave it up, even if no device ever answers a direct call and
\* the app is restarted: the outbox tries again until the server holds it.
EveryMessageArrives ==
    \A m \in Msg : status[m] = "sending" ~>
        m \in gone \cup gaveUp \/ \E d \in Dev : disk[d][m] # "none"
=============================================================================
