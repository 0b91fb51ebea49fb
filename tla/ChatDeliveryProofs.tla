------------------------ MODULE ChatDeliveryProofs ------------------------
(***************************************************************************)
(* Theorems about ChatDelivery, for every value of its constants.          *)
(***************************************************************************)
EXTENDS ChatDelivery, WellFoundedInduction, TLAPS

(***************************************************************************)
(* The invariant.                                                          *)
(***************************************************************************)
Has(d, m) == has[d][m] # "none"

\* Every device item i was left for has its message.
Freed(i) == \A d \in box[i].to : Has(d, box[i].msg)

\* An unsend is only ever queued for a message that is unsent here.
OpOK(o) == o.kind = "delete" => o.msg \in gone

\* Some device shows the change, or it is overtaken by an unsend, or given up.
Landed(o) ==
    \/ (o.kind = "edit" /\ o.msg \in gone) \/ o \in closed
    \/ \E d \in Dev : Shows(d, o.msg, o.kind)

\* Device d is done with change o: it shows it, or need not.
Settled(d, o) ==
    \/ Shows(d, o.msg, o.kind) \/ (o.kind = "edit" /\ o.msg \in gone)
    \/ o \in closed

\* What item i asks a device to do.
OpOf(i) == [msg |-> box[i].msg, kind |-> box[i].what]

\* An item on the server: who took it noted its id; a change is never called
\* back; a message only when it is unsent or its devices have it.
BoxInv(i) ==
    box[i] # None =>
        /\ \A d \in box[i].delivered : i \in seen[d]
        /\ box[i].state = "delivered" => box[i].delivered # {}
        /\ box[i].kind = "chat" => box[i].what \in Text
        /\ box[i].kind = "op" => /\ box[i].what \in OpKinds /\ OpOK(OpOf(i))
                                 /\ box[i].state # "canceled"
        /\ box[i].kind = "chat" /\ box[i].state = "canceled" => box[i].msg \in gone \/ Freed(i)

\* A device: an id it noted stands for a message it has or a change it is done
\* with; it acknowledges as taken only what it noted.
SeenInv(d) ==
    /\ \A i \in seen[d] :
          /\ box[i] # None
          /\ box[i].kind = "chat" => Has(d, box[i].msg)
          /\ box[i].kind = "op" => Settled(d, OpOf(i))
    /\ \A i \in fetch[d].list : box[i] # None
    /\ fetch[d].item # None /\ fetch[d].ok => fetch[d].item \in seen[d]

\* The ledger knows message copies only, and calls back those no device needs.
SentInv(i) ==
    /\ sent[i] # None =>
          /\ box[i] # None /\ box[i].kind = "chat"
          /\ \A d \in sent[i].to : Has(d, box[i].msg)
          /\ sent[i].cancel => Freed(i)
    /\ i \in cancels => sent[i] # None /\ Freed(i)

\* A delivery in progress: who acknowledged the message has it.
TaskInv(w) ==
    task[w].pc # "idle" =>
        /\ task[w].msg \in Msg /\ task[w].text \in Text
        /\ \A d \in task[w].acked : Has(d, task[w].msg)

\* The outbox loop: unsends are of unsent messages; an op that follows its
\* message to the server has landed, and follows copies of that message.
LoopInv ==
    /\ \A o \in ops \cup loop.ops : OpOK(o)
    /\ loop.phase \in {"unsend", "opdeposit", "opsend", "follow"} => loop.op \in Op /\ OpOK(loop.op)
    /\ loop.phase = "unsend" => loop.op.kind = "delete"
    /\ loop.phase = "follow" =>
          /\ Landed(loop.op)
          /\ \A c \in loop.copies : /\ sent[c.item] # None /\ box[c.item].msg = loop.op.msg
                                    /\ c.back => loop.op.kind = "delete"

\* Receipts on their way to the bubbles are true.
ReceiptInv ==
    /\ receipts.phase = "asked" => \A i \in receipts.set : sent[i] # None
    /\ receipts.phase \in {"answered", "apply"} =>
          \A r \in receipts.set :
             /\ sent[r.item] # None
             /\ r.state = "delivered" => r.to # {}
             /\ \A d \in r.to : Has(d, box[r.item].msg)

\* No change is forgotten.
Waits(i, o) ==
    /\ box[i] # None /\ box[i].state \in {"held", "rejected", "expired"}
    /\ box[i].kind = "op" /\ box[i].msg = o.msg /\ box[i].what = o.kind

Remembered(o) ==
    \/ o \in ops \/ o \in closed \/ \E i \in Item : Waits(i, o)
    \/ \E d \in Dev : Shows(d, o.msg, o.kind)

Due(o) == o.msg \in (IF o.kind = "edit" THEN edited \ gone ELSE gone)

ChangeInv == \A o \in Op : Due(o) => Remembered(o)

\* A device forgets a message only after its unsend.
GoneInv == \A d \in Dev, m \in Msg : has[d][m] = "gone" => m \in gone

\* What is on a device's disk is what the device holds, or what it held before
\* changes it could not write.
Behind(stored, held) ==
    stored = held \/ (stored \notin {"none", "gone"} /\ held \in {"new", "gone"})

DiskInv == \A d \in Dev, m \in Msg : Behind(disk[d][m], has[d][m])

\* What is told to be delivered is on a device.
Real == \A m \in Msg : status[m] = "delivered" => \E d \in Dev : Has(d, m)

ChatInv ==
    /\ TypeOK /\ Real /\ GoneInv /\ LoopInv /\ ReceiptInv /\ ChangeInv
    /\ \A i \in Item : BoxInv(i) /\ SentInv(i)
    /\ \A d \in Dev : SeenInv(d)
    /\ \A w \in Worker : TaskInv(w)

(***************************************************************************)
(* The least id and the oldest message.                                    *)
(***************************************************************************)
\* A set of natural numbers has a least element.
LEMMA LeastExists ==
    ASSUME NEW S, S \subseteq Nat, S # {}
    PROVE  \E x \in S : \A y \in S : x <= y
<1>1. PICK x \in S : \A y \in S : <<y, x>> \notin OpToRel(<, Nat)
  BY NatLessThanWellFounded, WFMin, Zenon
<1>2. ASSUME NEW y \in S PROVE x <= y
  <2>1. <<y, x>> \notin OpToRel(<, Nat)
    BY <1>1
  <2>2. ~ (y < x)
    BY <2>1, Zenon DEF OpToRel
  <2>3. QED
    BY <2>2
<1>3. QED
  BY <1>2

LEMMA MinIsIn ==
    ASSUME NEW S, S \subseteq Item, S # {}
    PROVE  Min(S) \in S
<1>1. S \subseteq Nat
  BY ChatAssumption
<1>2. QED
  BY <1>1, LeastExists DEF Min

LEMMA OldestIsIn ==
    ASSUME NEW S, S \subseteq Snap, S # {}
    PROVE  Oldest(S) \in S
<1> DEFINE N == {s.msg : s \in S}
<1>1. N \subseteq Nat
  BY ChatAssumption DEF Snap
<1>2. N # {}
  OBVIOUS
<1>3. PICK x \in N : \A y \in N : x <= y
  BY <1>1, <1>2, LeastExists
<1>4. PICK s \in S : s.msg = x
  BY <1>3
<1>5. \A t \in S : s.msg <= t.msg
  BY <1>3, <1>4
<1>6. QED
  BY <1>4, <1>5 DEF Oldest

(***************************************************************************)
(* What every step leaves true: nothing a device, an item or the ledger    *)
(* has got is taken from it.                                               *)
(***************************************************************************)
HasGrows ==
    /\ \A d \in Dev, m \in Msg : Has(d, m) => Has(d, m)'
    /\ \A d \in Dev, o \in Op :
          Shows(d, o.msg, o.kind) =>
             Shows(d, o.msg, o.kind)' \/ (o.kind = "edit" /\ o.msg \in gone) \/ o \in closed'

BoxGrows ==
    \A i \in Item : box[i] # None =>
        /\ box'[i] # None
        /\ box'[i].kind = box[i].kind /\ box'[i].msg = box[i].msg
        /\ box'[i].what = box[i].what /\ box'[i].to = box[i].to

Grows ==
    /\ gone \subseteq gone' /\ closed \subseteq closed'
    /\ HasGrows /\ BoxGrows
    /\ \A i \in Item : sent[i] # None => sent'[i] # None
    /\ \A d \in Dev : seen[d] \subseteq seen'[d]

LEMMA HasSame == ASSUME TypeOK, UNCHANGED has PROVE HasGrows
BY DEF HasGrows, Has, Shows

LEMMA BoxSame == ASSUME UNCHANGED box PROVE BoxGrows
BY DEF BoxGrows

LEMMA OpIs == ASSUME NEW o \in Op PROVE o = [msg |-> o.msg, kind |-> o.kind] /\ o.msg \in Msg /\ o.kind \in OpKinds /\ (o.kind = "edit" \/ o.kind = "delete")
BY ChatAssumption DEF Op

LEMMA SettledKept ==
    ASSUME Grows, NEW d \in Dev, NEW o \in Op, Settled(d, o)
    PROVE  Settled(d, o)'
<1>1. CASE Shows(d, o.msg, o.kind)
  BY <1>1 DEF Settled, Grows, HasGrows
<1>2. CASE (o.kind = "edit" /\ o.msg \in gone) \/ o \in closed
  BY <1>2 DEF Settled, Grows
<1>3. QED
  BY <1>1, <1>2 DEF Settled

LEMMA LandedKept ==
    ASSUME Grows, NEW o \in Op, Landed(o)
    PROVE  Landed(o)'
<1>1. CASE (o.kind = "edit" /\ o.msg \in gone) \/ o \in closed
  BY <1>1 DEF Landed, Grows
<1>2. ASSUME NEW d \in Dev, Shows(d, o.msg, o.kind) PROVE Landed(o)'
  BY <1>2 DEF Landed, Grows, HasGrows
<1>3. QED
  BY <1>1, <1>2 DEF Landed

LEMMA OpOKKept ==
    ASSUME Grows, NEW o, OpOK(o)
    PROVE  OpOK(o)'
BY DEF OpOK, Grows

\* What an item on the server is.
LEMMA ItemIs ==
    ASSUME TypeOK, NEW i \in Item, box[i] # None
    PROVE  /\ box[i] \in ServerItem
           /\ box[i].msg \in Msg /\ box[i].to \subseteq Dev /\ box[i].delivered \subseteq Dev
           /\ box[i].kind \in {"chat", "op"} /\ box[i].what \in Text \cup OpKinds
           /\ box[i].refused \subseteq Dev /\ box[i].state \in ItemState
<1>1. box[i] \in ServerItem
  BY DEF TypeOK
<1>2. QED
  BY <1>1 DEF ServerItem

LEMMA LineIs ==
    ASSUME TypeOK, NEW i \in Item, sent[i] # None
    PROVE  /\ sent[i] \in Sent /\ sent[i].to \subseteq Dev /\ sent[i].state \in SentState
           /\ sent[i].copy \in BOOLEAN /\ sent[i].cancel \in BOOLEAN
<1>1. sent[i] \in Sent
  BY DEF TypeOK
<1>2. QED
  BY <1>1 DEF Sent

LEMMA FreedKept ==
    ASSUME TypeOK, Grows, NEW i \in Item, box[i] # None, Freed(i)
    PROVE  Freed(i)'
<1>1. box[i].msg \in Msg /\ box[i].to \subseteq Dev
  BY ItemIs
<1>2. box'[i].msg = box[i].msg /\ box'[i].to = box[i].to
  BY DEF Grows, BoxGrows
<1>3. QED
  BY <1>1, <1>2 DEF Freed, Grows, HasGrows

LEMMA OpOfKept ==
    ASSUME Grows, NEW i \in Item, box[i] # None
    PROVE  OpOf(i)' = OpOf(i)
BY DEF OpOf, Grows, BoxGrows

(***************************************************************************)
(* What a step leaves alone keeps its part of the invariant.               *)
(***************************************************************************)
LEMMA TaskKept ==
    ASSUME ChatInv, Grows, NEW w \in Worker, task'[w] = task[w]
    PROVE  TaskInv(w)'
<1>1. TaskInv(w) /\ task[w] \in TaskType
  BY DEF ChatInv, TypeOK
<1>2. SUFFICES ASSUME task[w].pc # "idle" PROVE TaskInv(w)'
  BY DEF TaskInv
<1>3. task[w].msg \in Msg /\ task[w].text \in Text /\ \A d \in task[w].acked : Has(d, task[w].msg)
  BY <1>1, <1>2 DEF TaskInv
<1>4. task[w].acked \subseteq Dev
  BY <1>1 DEF TaskType
<1>5. \A d \in task[w].acked : Has(d, task[w].msg)'
  BY <1>3, <1>4 DEF Grows, HasGrows
<1>6. QED
  BY <1>3, <1>5 DEF TaskInv, Has

\* A line of the ledger that claims no more than before.
LEMMA LineKept ==
    ASSUME ChatInv, Grows, NEW i \in Item,
           sent'[i] # None => sent[i] # None /\ sent'[i].to = sent[i].to
                              /\ (sent'[i].cancel => sent[i].cancel),
           i \in cancels' => i \in cancels
    PROVE  SentInv(i)'
<1>1. TypeOK /\ SentInv(i)
  BY DEF ChatInv
<1>2. ASSUME sent'[i] # None
      PROVE  /\ box'[i] # None /\ box'[i].kind = "chat"
             /\ \A d \in sent'[i].to : has'[d][box[i].msg] # "none"
             /\ box'[i].msg = box[i].msg
             /\ sent'[i].cancel => Freed(i)'
  <2>1. sent[i] # None /\ sent'[i].to = sent[i].to /\ (sent'[i].cancel => sent[i].cancel)
    BY <1>2
  <2>2. box[i] # None /\ box[i].kind = "chat"
    BY <1>1, <2>1 DEF SentInv
  <2>3. box[i].msg \in Msg /\ sent[i].to \subseteq Dev
    BY <1>1, <2>1, <2>2, ItemIs, LineIs
  <2>4. \A d \in sent[i].to : has'[d][box[i].msg] # "none"
    BY <1>1, <2>1, <2>3 DEF SentInv, Grows, HasGrows, Has
  <2>5. sent'[i].cancel => Freed(i)'
    BY <1>1, <2>1, <2>2, FreedKept DEF SentInv
  <2>6. QED
    BY <2>1, <2>2, <2>4, <2>5 DEF Grows, BoxGrows
<1>3. ASSUME i \in cancels' PROVE sent'[i] # None /\ Freed(i)'
  BY <1>1, <1>3, FreedKept DEF SentInv, Grows
<1>4. QED
  BY <1>2, <1>3 DEF SentInv, Has

LEMMA LedgerKept ==
    ASSUME ChatInv, Grows, UNCHANGED <<sent, cancels>>
    PROVE  \A i \in Item : SentInv(i)'
BY LineKept

\* An item whose state did not change, whoever took it.
LEMMA ItemKept ==
    ASSUME ChatInv, Grows, NEW i \in Item, box'[i] = box[i]
    PROVE  BoxInv(i)'
<1>1. TypeOK /\ BoxInv(i)
  BY DEF ChatInv
<1>2. SUFFICES ASSUME box[i] # None PROVE BoxInv(i)'
  BY DEF BoxInv
<1>3. box[i].delivered \subseteq Dev
  BY <1>1, <1>2, ItemIs
<1>4. \A d \in box[i].delivered : i \in seen'[d]
  BY <1>1, <1>2, <1>3 DEF BoxInv, Grows
<1>5. box[i].kind = "op" => OpOK(OpOf(i))'
  BY <1>1, <1>2, OpOKKept, OpOfKept DEF BoxInv
<1>6. box[i].kind = "chat" /\ box[i].state = "canceled" => box[i].msg \in gone' \/ Freed(i)'
  BY <1>1, <1>2, FreedKept DEF BoxInv, Grows
<1>7. QED
  BY <1>1, <1>2, <1>4, <1>5, <1>6 DEF BoxInv

LEMMA BoxKept ==
    ASSUME ChatInv, Grows, UNCHANGED box
    PROVE  \A i \in Item : BoxInv(i)'
BY ItemKept

\* A noted id keeps standing for what it stands for.
LEMMA NotedKept ==
    ASSUME ChatInv, Grows, NEW d \in Dev, NEW i \in seen[d]
    PROVE  /\ box'[i] # None
           /\ box'[i].kind = "chat" => has'[d][box'[i].msg] # "none"
           /\ box'[i].kind = "op" => Settled(d, OpOf(i))'
<1>1. TypeOK /\ SeenInv(d) /\ i \in Item
  BY DEF ChatInv, TypeOK
<1>2. box[i] # None /\ (box[i].kind = "chat" => Has(d, box[i].msg))
      /\ (box[i].kind = "op" => Settled(d, OpOf(i)))
  BY <1>1 DEF SeenInv
<1>3. box'[i] # None /\ box'[i].kind = box[i].kind /\ box'[i].msg = box[i].msg
  BY <1>1, <1>2 DEF Grows, BoxGrows
<1>4. box[i].msg \in Msg
  BY <1>1, <1>2, ItemIs
<1>5. box[i].kind = "chat" => has'[d][box[i].msg] # "none"
  BY <1>2, <1>4 DEF Grows, HasGrows, Has
<1>6. ASSUME box[i].kind = "op" PROVE Settled(d, OpOf(i))'
  <2>1. box[i].what \in OpKinds
    BY <1>1, <1>2, <1>6 DEF ChatInv, BoxInv
  <2>2. OpOf(i) \in Op
    BY <1>4, <2>1 DEF OpOf, Op
  <2>3. PICK o \in Op : o = OpOf(i)
    BY <2>2
  <2>4. Settled(d, o)
    BY <1>2, <1>6, <2>3
  <2>5. Settled(d, o)'
    BY <2>4, SettledKept
  <2>6. OpOf(i)' = o
    BY <1>1, <1>2, <2>3, OpOfKept
  <2>7. QED
    BY <2>5, <2>6 DEF Settled, Shows
<1>7. QED
  BY <1>3, <1>5, <1>6 DEF Has

\* A device that noted nothing new.
LEMMA DeviceKept ==
    ASSUME ChatInv, Grows, NEW d \in Dev, seen'[d] = seen[d],
           fetch'[d].list \subseteq fetch[d].list,
           fetch'[d].item # None /\ fetch'[d].ok
              => fetch'[d].item = fetch[d].item /\ fetch[d].ok
    PROVE  SeenInv(d)'
<1>1. TypeOK /\ SeenInv(d)
  BY DEF ChatInv
<1>2. \A i \in seen[d] : /\ box'[i] # None
                         /\ box'[i].kind = "chat" => has'[d][box'[i].msg] # "none"
                         /\ box'[i].kind = "op" => Settled(d, OpOf(i))'
  BY NotedKept
<1>3. fetch[d].list \subseteq Item
  BY <1>1 DEF TypeOK, FetchType
<1>4. \A i \in fetch'[d].list : box'[i] # None
  BY <1>1, <1>3 DEF SeenInv, Grows, BoxGrows
<1>5. fetch'[d].item # None /\ fetch'[d].ok => fetch'[d].item \in seen[d]
  BY <1>1 DEF SeenInv
<1>6. QED
  BY <1>2, <1>4, <1>5 DEF SeenInv, Has

LEMMA SeenKept ==
    ASSUME ChatInv, Grows, UNCHANGED <<seen, fetch>>
    PROVE  \A d \in Dev : SeenInv(d)'
BY DeviceKept

\* The loop outside its work on an op.
LEMMA LoopMoves ==
    ASSUME ChatInv, Grows, ops' \subseteq ops, loop'.ops \subseteq loop.ops \cup ops,
           loop'.phase \notin {"unsend", "opdeposit", "opsend", "follow"}
    PROVE  LoopInv'
<1>1. \A o \in ops' \cup loop'.ops : OpOK(o)
  BY DEF ChatInv, LoopInv
<1>2. \A o \in ops' \cup loop'.ops : OpOK(o)'
  BY <1>1, OpOKKept
<1>3. QED
  BY <1>2 DEF LoopInv, OpOK

LEMMA LoopKept ==
    ASSUME ChatInv, Grows, UNCHANGED <<loop, ops>>
    PROVE  LoopInv'
<1>1. LoopInv /\ TypeOK
  BY DEF ChatInv
<1>2. \A o \in ops' \cup loop'.ops : OpOK(o)'
  BY <1>1, OpOKKept DEF LoopInv
<1>3. loop.phase \in {"unsend", "opdeposit", "opsend", "follow"} => loop.op \in Op /\ OpOK(loop.op)'
  BY <1>1, OpOKKept DEF LoopInv
<1>4. ASSUME loop.phase = "follow"
      PROVE  /\ Landed(loop.op)'
             /\ \A c \in loop.copies : sent'[c.item] # None /\ box'[c.item].msg = loop.op.msg
                                       /\ (c.back => loop.op.kind = "delete")
  <2>1. loop.op \in Op /\ Landed(loop.op)
    BY <1>1, <1>4 DEF LoopInv
  <2>2. PICK o \in Op : o = loop.op
    BY <2>1
  <2>3. Landed(o)'
    BY <2>1, <2>2, LandedKept
  <2>4. Landed(loop.op)'
    BY <2>2, <2>3 DEF Landed, Shows
  <2>5. ASSUME NEW c \in loop.copies
        PROVE  sent'[c.item] # None /\ box'[c.item].msg = loop.op.msg
               /\ (c.back => loop.op.kind = "delete")
    <3>1. c.item \in Item
      BY <1>1 DEF TypeOK, LoopType
    <3>2. sent[c.item] # None /\ box[c.item].msg = loop.op.msg /\ (c.back => loop.op.kind = "delete")
      BY <1>1, <1>4 DEF LoopInv
    <3>3. box[c.item] # None
      BY <3>1, <3>2 DEF ChatInv, SentInv
    <3>4. QED
      BY <3>1, <3>2, <3>3 DEF Grows, BoxGrows
  <2>6. QED
    BY <2>4, <2>5
<1>5. QED
  BY <1>1, <1>2, <1>3, <1>4 DEF LoopInv, OpOK, Landed, Shows

LEMMA ReceiptKept ==
    ASSUME ChatInv, Grows, receipts'.phase = receipts.phase, receipts'.set \subseteq receipts.set
    PROVE  ReceiptInv'
<1>1. ReceiptInv /\ TypeOK
  BY DEF ChatInv
<1>2. ASSUME receipts'.phase = "asked", NEW i \in receipts'.set PROVE sent'[i] # None
  <2>1. i \in Item
    BY <1>1, <1>2 DEF TypeOK, ReceiptsType
  <2>2. QED
    BY <1>1, <1>2, <2>1 DEF ReceiptInv, Grows
<1>3. ASSUME receipts'.phase \in {"answered", "apply"}, NEW r \in receipts'.set
      PROVE  /\ sent'[r.item] # None
             /\ r.state = "delivered" => r.to # {}
             /\ \A d \in r.to : has'[d][box'[r.item].msg] # "none"
  <2>1. r \in Receipt
    BY <1>1, <1>3 DEF TypeOK, ReceiptsType
  <2>2. r.item \in Item /\ r.to \subseteq Dev
    BY <2>1 DEF Receipt
  <2>3. sent[r.item] # None /\ (r.state = "delivered" => r.to # {})
        /\ \A d \in r.to : Has(d, box[r.item].msg)
    BY <1>1, <1>3 DEF ReceiptInv
  <2>4. box[r.item] # None
    BY <2>2, <2>3 DEF ChatInv, SentInv
  <2>5. box[r.item].msg \in Msg /\ box'[r.item].msg = box[r.item].msg
    BY <1>1, <2>2, <2>4, ItemIs DEF Grows, BoxGrows
  <2>6. QED
    BY <2>2, <2>3, <2>5 DEF Grows, HasGrows, Has
<1>4. QED
  BY <1>2, <1>3 DEF ReceiptInv, Has

\* "Delivered" appears only where a device has the message.
LEMMA RealKept ==
    ASSUME ChatInv, Grows,
           \A m \in Msg : status'[m] = "delivered" =>
               status[m] = "delivered" \/ \E d \in Dev : Has(d, m)
    PROVE  Real'
<1>1. SUFFICES ASSUME NEW m \in Msg, status'[m] = "delivered"
               PROVE  \E d \in Dev : has'[d][m] # "none"
  BY DEF Real, Has
<1>2. PICK d \in Dev : Has(d, m)
  BY <1>1 DEF ChatInv, Real, Has
<1>3. QED
  BY <1>2 DEF Grows, HasGrows, Has

LEMMA GoneKept ==
    ASSUME ChatInv, Grows, UNCHANGED has
    PROVE  GoneInv'
BY DEF ChatInv, GoneInv, Grows

\* No change is forgotten when the ones queued stay, the ones on the server
\* stay, and none is new.
LEMMA ChangeKept ==
    ASSUME ChatInv, Grows, UNCHANGED <<edited, gone>>,
           \A o \in Op : o \in ops /\ Due(o) => Remembered(o)',
           \A o \in Op, i \in Item : Waits(i, o) /\ Due(o) => Remembered(o)'
    PROVE  ChangeInv'
<1>1. SUFFICES ASSUME NEW o \in Op, Due(o)' PROVE Remembered(o)'
  BY DEF ChangeInv
<1>2. Due(o)
  BY <1>1 DEF Due
<1>3. Remembered(o)
  BY <1>2 DEF ChatInv, ChangeInv
<1>4. CASE o \in closed
  BY <1>4 DEF Remembered, Grows
<1>5. CASE \E d \in Dev : Shows(d, o.msg, o.kind)
  <2>1. Landed(o)
    BY <1>5 DEF Landed
  <2>2. Landed(o)'
    BY <2>1, LandedKept
  <2>3. ~ (o.kind = "edit" /\ o.msg \in gone')
    BY <1>1 DEF Due
  <2>4. QED
    BY <2>2, <2>3 DEF Landed, Remembered
<1>6. QED
  BY <1>2, <1>3, <1>4, <1>5 DEF Remembered

LEMMA ChangesKept ==
    ASSUME ChatInv, Grows, UNCHANGED <<edited, gone, ops, box>>
    PROVE  ChangeInv'
<1>1. \A o \in Op : o \in ops => Remembered(o)'
  BY DEF Remembered
<1>2. ASSUME NEW o \in Op, NEW i \in Item, Waits(i, o) PROVE Remembered(o)'
  BY <1>2 DEF Remembered, Waits
<1>3. QED
  BY <1>1, <1>2, ChangeKept

(***************************************************************************)
(* Types of the records a step builds.                                     *)
(***************************************************************************)
LEMMA TaskIs ==
    ASSUME TypeOK, NEW w \in Worker
    PROVE  /\ task[w] \in TaskType
           /\ task[w].acked \subseteq Dev /\ task[w].try \subseteq Dev
           /\ task[w].msg \in Msg \cup {None} /\ task[w].text \in Text \cup {None}
           /\ task[w].hold \in BOOLEAN /\ task[w].server \in BOOLEAN /\ task[w].held \in BOOLEAN
<1>1. task[w] \in TaskType
  BY DEF TypeOK
<1>2. QED
  BY <1>1 DEF TaskType

LEMMA IdleTyped == IdleTask \in TaskType /\ IdleTask.pc = "idle"
BY DEF IdleTask, TaskType

LEMMA RestTyped == Rest \in LoopType /\ Rest.phase = "rest" /\ Rest.ops = {}
BY DEF Rest, LoopType

LEMMA LoopIs ==
    ASSUME TypeOK
    PROVE  /\ loop \in LoopType
           /\ loop.pend \subseteq Snap /\ loop.held \subseteq Snap /\ loop.ops \subseteq Op
           /\ loop.copies \subseteq [item : Item, back : BOOLEAN]
           /\ loop.just \subseteq Msg /\ loop.skip \subseteq Dev /\ loop.hold \in BOOLEAN
           /\ loop.deferred \in BOOLEAN /\ loop.op \in Op \cup {None}
<1>1. loop \in LoopType
  BY DEF TypeOK
<1>2. QED
  BY <1>1 DEF LoopType

\* The worker of a message, and the loop's.
LEMMA WorkerIs == Loop \in Worker /\ \A m \in Msg : m \in Worker /\ m # Loop
BY ChatAssumption DEF Worker, Loop

LEMMA BecomeTyped ==
    ASSUME TypeOK, NEW w \in Worker, NEW t \in TaskType, Become(w, t)
    PROVE  /\ task' \in [Worker -> TaskType] /\ task'[w] = t
           /\ \A v \in Worker : v # w => task'[v] = task[v]
BY DEF Become, TypeOK

\* One more disturbance stays within the bound.
LEMMA CountTyped ==
    ASSUME TypeOK, NEW kind, Upset(kind), Count
    PROVE  upsets' \in 0 .. MaxUpsets
<1>1. upsets \in 0 .. MaxUpsets /\ upsets < MaxUpsets /\ upsets' = upsets + 1
  BY DEF TypeOK, Upset, Count
<1>2. MaxUpsets \in Nat
  BY ChatAssumption
<1>3. QED
  BY <1>1, <1>2

\* The tasks of the others go on as they were.
LEMMA TasksKept ==
    ASSUME ChatInv, Grows, NEW w \in Worker, NEW t \in TaskType, Become(w, t), TaskInv(w)'
    PROVE  \A v \in Worker : TaskInv(v)'
<1>1. \A v \in Worker : v # w => task'[v] = task[v]
  BY BecomeTyped DEF ChatInv
<1>2. ASSUME NEW v \in Worker PROVE TaskInv(v)'
  <2>1. CASE v = w
    BY <2>1
  <2>2. CASE v # w
    BY <1>1, <2>2, TaskKept
  <2>3. QED
    BY <2>1, <2>2
<1>3. QED
  BY <1>2

LEMMA AllTasksKept ==
    ASSUME ChatInv, Grows, UNCHANGED task
    PROVE  \A w \in Worker : TaskInv(w)'
BY TaskKept

(***************************************************************************)
(* The sender's store.                                                     *)
(***************************************************************************)
\* A status may be set, to "delivered" only for one message.
LEMMA SetStatusDoes ==
    ASSUME TypeOK, NEW m \in Msg, NEW to \in Status, SetStatus(m, to)
    PROVE  /\ status' \in [Msg -> Status] /\ gaveUp' \subseteq Msg
           /\ \A n \in Msg : status'[n] = "delivered" =>
                 status[n] = "delivered" \/ (n = m /\ to = "delivered")
<1>1. CASE MayBecome(status[m], to)
  <2>1. status' = [status EXCEPT ![m] = to]
    BY <1>1 DEF SetStatus
  <2>2. QED
    BY <1>1, <2>1 DEF SetStatus, TypeOK
<1>2. CASE ~ MayBecome(status[m], to)
  BY <1>2 DEF SetStatus, TypeOK
<1>3. QED
  BY <1>1, <1>2

LEMMA SetHeldDoes ==
    ASSUME TypeOK, NEW m \in Msg, SetHeld(m)
    PROVE  /\ status' \in [Msg -> Status] /\ gaveUp' \subseteq Msg
           /\ \A n \in Msg : status'[n] = "delivered" => status[n] = "delivered"
<1>1. CASE status[m] \in {"sending", "failed"}
  <2>1. status' = [status EXCEPT ![m] = "held"] /\ gaveUp' = gaveUp \ {m}
    BY <1>1 DEF SetHeld
  <2>2. QED
    BY <2>1 DEF TypeOK, Status
<1>2. CASE ~ (status[m] \in {"sending", "failed"})
  BY <1>2 DEF SetHeld, TypeOK
<1>3. QED
  BY <1>1, <1>2

LEMMA SetServerFailedDoes ==
    ASSUME TypeOK, NEW m \in Msg, SetServerFailed(m)
    PROVE  /\ status' \in [Msg -> Status] /\ gaveUp' \subseteq Msg
           /\ \A n \in Msg : status'[n] = "delivered" => status[n] = "delivered"
<1>1. CASE status[m] \in {"held", "sending", "failed"}
  <2>1. status' = [status EXCEPT ![m] = "failed"] /\ gaveUp' = gaveUp \cup {m}
    BY <1>1 DEF SetServerFailed
  <2>2. QED
    BY <2>1 DEF TypeOK, Status
<1>2. CASE ~ (status[m] \in {"held", "sending", "failed"})
  BY <1>2 DEF SetServerFailed, TypeOK
<1>3. QED
  BY <1>1, <1>2

LEMMA SetFailedDoes ==
    ASSUME TypeOK, NEW m \in Msg, NEW refused \in BOOLEAN, SetFailed(m, refused)
    PROVE  /\ status' \in [Msg -> Status] /\ gaveUp' \subseteq Msg
           /\ \A n \in Msg : status'[n] = "delivered" => status[n] = "delivered"
<1>1. CASE MayBecome(status[m], "failed") \/ status[m] = "failed"
  <2>1. status' = [status EXCEPT ![m] = "failed"] /\ (gaveUp' = gaveUp \ {m} \/ gaveUp' = gaveUp)
    BY <1>1 DEF SetFailed
  <2>2. QED
    BY <2>1 DEF TypeOK, Status
<1>2. CASE ~ (MayBecome(status[m], "failed") \/ status[m] = "failed")
  BY <1>2 DEF SetFailed, TypeOK
<1>3. QED
  BY <1>1, <1>2

\* What a delivery ends in: "delivered" only when a device acknowledged.
LEMMA OutcomeDoes ==
    ASSUME ChatInv, NEW w \in Worker, task[w].pc # "idle", Outcome(task[w])
    PROVE  /\ status' \in [Msg -> Status] /\ gaveUp' \subseteq Msg
           /\ \A n \in Msg : status'[n] = "delivered" =>
                 status[n] = "delivered" \/ \E d \in Dev : Has(d, n)
<1>1. TypeOK /\ TaskInv(w)
  BY DEF ChatInv
<1>2. task[w].msg \in Msg /\ task[w].acked \subseteq Dev /\ task[w].server \in BOOLEAN
      /\ \A d \in task[w].acked : Has(d, task[w].msg)
  BY <1>1, TaskIs DEF TaskInv
<1>3. CASE task[w].acked # {}
  <2>1. SetStatus(task[w].msg, "delivered")
    BY <1>3 DEF Outcome
  <2>2. PICK d \in task[w].acked : TRUE
    BY <1>3
  <2>3. d \in Dev /\ Has(d, task[w].msg)
    BY <1>2
  <2>4. "delivered" \in Status
    BY DEF Status
  <2>5. /\ status' \in [Msg -> Status] /\ gaveUp' \subseteq Msg
        /\ \A n \in Msg : status'[n] = "delivered" =>
              status[n] = "delivered" \/ n = task[w].msg
    BY <1>1, <1>2, <2>1, <2>4, SetStatusDoes
  <2>6. QED
    BY <2>3, <2>5
<1>4. CASE task[w].acked = {} /\ task[w].held
  <2>1. SetHeld(task[w].msg)
    BY <1>4 DEF Outcome
  <2>2. QED
    BY <1>1, <1>2, <2>1, SetHeldDoes
<1>5. CASE task[w].acked = {} /\ ~ task[w].held
  <2>1. SetFailed(task[w].msg, task[w].server)
    BY <1>5 DEF Outcome
  <2>2. QED
    BY <1>1, <1>2, <2>1, SetFailedDoes
<1>6. QED
  BY <1>3, <1>4, <1>5

(***************************************************************************)
(* The devices' stores.                                                    *)
(***************************************************************************)
LEMMA StoredIs ==
    ASSUME NEW v \in Version, NEW text \in Text
    PROVE  /\ Stored(v, text) \in Version /\ Stored(v, text) # "none"
           /\ v # "none" => Stored(v, text) = v
           /\ Stored(v, text) = "gone" => v = "gone"
BY DEF Stored, Version, Text

LEMMA AppliedIs ==
    ASSUME NEW v \in Version, NEW kind, kind = "edit" \/ kind = "delete"
    PROVE  /\ Applied(v, kind) \in Version
           /\ v # "none" => Applied(v, kind) # "none"
           /\ v = "gone" => Applied(v, kind) = "gone"
           /\ Applied(v, kind) = "gone" => v = "gone" \/ kind = "delete"
           /\ v = "new" => Applied(v, kind) = "new" \/ kind = "delete"
           /\ Applies(v, kind) => Applied(v, kind) = (IF kind = "edit" THEN "new" ELSE "gone")
BY DEF Applied, Applies, Version, Text

\* A write leaves the other devices' disks alone.
LEMMA WrittenDoes ==
    ASSUME TypeOK, NEW W, has' \in [Dev -> [Msg -> Version]], Written(W)
    PROVE  /\ disk' \in [Dev -> [Msg -> Version]]
           /\ \A d \in Dev : disk'[d] = IF d \in W THEN has'[d] ELSE disk[d]
BY DEF Written, TypeOK

\* A change that shows: how the message looks.
LEMMA ShowsIs ==
    ASSUME NEW d \in Dev, NEW o \in Op
    PROVE  /\ Shows(d, o.msg, o.kind) <=> has[d][o.msg] = (IF o.kind = "edit" THEN "new" ELSE "gone")
           /\ Shows(d, o.msg, o.kind)' <=> has'[d][o.msg] = (IF o.kind = "edit" THEN "new" ELSE "gone")
BY DEF Shows

\* Messages move from one version to the next only.
LEMMA VersionsGrow ==
    ASSUME \A d \in Dev, m \in Msg :
              /\ has[d][m] # "none" => has'[d][m] # "none"
              /\ has[d][m] = "gone" => has'[d][m] = "gone"
              /\ has[d][m] = "new" => has'[d][m] = "new" \/ (has'[d][m] = "gone" /\ m \in gone)
    PROVE  HasGrows
<1>1. \A d \in Dev, m \in Msg : Has(d, m) => Has(d, m)'
  BY DEF Has
<1>2. ASSUME NEW d \in Dev, NEW o \in Op, Shows(d, o.msg, o.kind)
      PROVE  Shows(d, o.msg, o.kind)' \/ (o.kind = "edit" /\ o.msg \in gone)
  <2>1. o.msg \in Msg /\ (o.kind = "edit" \/ o.kind = "delete")
    BY OpIs
  <2>2. CASE o.kind = "edit"
    BY <1>2, <2>1, <2>2, ShowsIs
  <2>3. CASE o.kind = "delete"
    BY <1>2, <2>1, <2>3, ShowsIs
  <2>4. QED
    BY <2>1, <2>2, <2>3
<1>3. QED
  BY <1>1, <1>2 DEF HasGrows

LEMMA HasIs ==
    ASSUME TypeOK, NEW d \in Dev, NEW m \in Msg
    PROVE  has[d][m] \in Version /\ has[d] \in [Msg -> Version]
BY DEF TypeOK

\* Devices store a message.
LEMMA StoreDoes ==
    ASSUME TypeOK, NEW D \in SUBSET Dev, NEW m \in Msg, NEW text \in Text, has' = StoreOn(D, m, text)
    PROVE  /\ has' \in [Dev -> [Msg -> Version]] /\ HasGrows
           /\ \A d \in D : has'[d][m] # "none"
           /\ \A d \in Dev, n \in Msg : has'[d][n] = "gone" => has[d][n] = "gone"
<1>1. \A d \in Dev : has'[d] = IF d \in D THEN [has[d] EXCEPT ![m] = Stored(has[d][m], text)] ELSE has[d]
  BY DEF StoreOn
<1>2. \A d \in Dev : has[d] \in [Msg -> Version] /\ \A n \in Msg : has[d][n] \in Version
  BY DEF TypeOK
<1>3. \A d \in Dev, n \in Msg : has'[d][n] = IF d \in D /\ n = m THEN Stored(has[d][m], text) ELSE has[d][n]
  BY <1>1, <1>2
<1>4. \A d \in Dev : Stored(has[d][m], text) \in Version /\ Stored(has[d][m], text) # "none"
                     /\ (has[d][m] # "none" => Stored(has[d][m], text) = has[d][m])
                     /\ (Stored(has[d][m], text) = "gone" => has[d][m] = "gone")
  BY <1>2, StoredIs
<1>5. \A d \in Dev : has'[d] \in [Msg -> Version]
  BY <1>1, <1>2, <1>4
<1>6. has' = [d \in Dev |-> has'[d]]
  BY DEF StoreOn
<1>7. HasGrows
  BY <1>3, <1>4, VersionsGrow
<1>8. QED
  BY <1>3, <1>4, <1>5, <1>6, <1>7

\* Devices apply a change; an unsend only of a message that is unsent.
LEMMA ApplyDoes ==
    ASSUME TypeOK, NEW D \in SUBSET Dev, NEW o \in Op, OpOK(o), has' = ApplyOn(D, o)
    PROVE  /\ has' \in [Dev -> [Msg -> Version]] /\ HasGrows
           /\ \A d \in D : Applies(has[d][o.msg], o.kind) =>
                 has'[d][o.msg] = (IF o.kind = "edit" THEN "new" ELSE "gone")
           /\ \A d \in Dev, n \in Msg : has'[d][n] = "gone" => has[d][n] = "gone" \/ n \in gone
<1>0. o.msg \in Msg /\ (o.kind = "edit" \/ o.kind = "delete") /\ (o.kind = "delete" => o.msg \in gone)
  BY OpIs DEF OpOK
<1>1. \A d \in Dev : has'[d] = IF d \in D THEN [has[d] EXCEPT ![o.msg] = Applied(has[d][o.msg], o.kind)] ELSE has[d]
  BY DEF ApplyOn
<1>2. \A d \in Dev : has[d] \in [Msg -> Version] /\ \A n \in Msg : has[d][n] \in Version
  BY DEF TypeOK
<1>3. \A d \in Dev, n \in Msg : has'[d][n] = IF d \in D /\ n = o.msg THEN Applied(has[d][o.msg], o.kind) ELSE has[d][n]
  BY <1>0, <1>1, <1>2
<1>4. ASSUME NEW d \in Dev
      PROVE  /\ Applied(has[d][o.msg], o.kind) \in Version
             /\ has[d][o.msg] # "none" => Applied(has[d][o.msg], o.kind) # "none"
             /\ has[d][o.msg] = "gone" => Applied(has[d][o.msg], o.kind) = "gone"
             /\ Applied(has[d][o.msg], o.kind) = "gone" => has[d][o.msg] = "gone" \/ o.msg \in gone
             /\ has[d][o.msg] = "new" => Applied(has[d][o.msg], o.kind) = "new"
                    \/ (Applied(has[d][o.msg], o.kind) = "gone" /\ o.msg \in gone)
             /\ Applies(has[d][o.msg], o.kind) => Applied(has[d][o.msg], o.kind) = (IF o.kind = "edit" THEN "new" ELSE "gone")
  <2>1. has[d][o.msg] \in Version
    BY <1>0, <1>2
  <2>2. has[d][o.msg] = "new" /\ o.kind = "delete" => Applies(has[d][o.msg], o.kind)
    BY DEF Applies
  <2>3. QED
    BY <1>0, <2>1, <2>2, AppliedIs
<1>5. \A d \in Dev : has'[d] \in [Msg -> Version]
  BY <1>0, <1>1, <1>2, <1>4
<1>6. has' = [d \in Dev |-> has'[d]]
  BY DEF ApplyOn
<1>7. HasGrows
  BY <1>3, <1>4, VersionsGrow
<1>8. QED
  BY <1>0, <1>3, <1>4, <1>5, <1>6, <1>7

(***************************************************************************)
(* The server's items.                                                     *)
(***************************************************************************)
\* A new item takes a free id.
LEMMA PutDoes ==
    ASSUME TypeOK, Free # {}, NEW kind \in {"chat", "op"}, NEW m \in Msg,
           NEW what \in Text \cup OpKinds, NEW to \in SUBSET Dev,
           Put(Min(Free), kind, m, what, to)
    PROVE  /\ Min(Free) \in Item /\ box[Min(Free)] = None
           /\ box' \in [Item -> ServerItem \cup {None}] /\ BoxGrows
           /\ box'[Min(Free)] = [kind |-> kind, msg |-> m, what |-> what, to |-> to,
                                 delivered |-> {}, refused |-> {}, state |-> "held"]
           /\ box'[Min(Free)] # None
           /\ \A i \in Item : i # Min(Free) => box'[i] = box[i]
<1>1. Free \subseteq Item
  BY DEF Free
<1>2. PICK j : j = Min(Free)
  OBVIOUS
<1>3. j \in Free
  BY <1>1, <1>2, MinIsIn
<1>4. j \in Item /\ box[j] = None
  BY <1>3 DEF Free
<1>5. PICK it : it = [kind |-> kind, msg |-> m, what |-> what, to |-> to,
                      delivered |-> {}, refused |-> {}, state |-> "held"]
  OBVIOUS
<1>6. it \in ServerItem
  BY <1>5 DEF ServerItem, ItemState
<1>7. it # None
  BY <1>6, NoneAssumption
<1>8. box' = [box EXCEPT ![j] = it]
  BY <1>2, <1>5 DEF Put
<1>9. box'[j] = it /\ \A i \in Item : i # j => box'[i] = box[i]
  BY <1>4, <1>8 DEF TypeOK
<1>10. box' \in [Item -> ServerItem \cup {None}]
  BY <1>6, <1>8 DEF TypeOK
<1>11. BoxGrows
  BY <1>4, <1>9 DEF BoxGrows
<1>12. QED
  BY <1>2, <1>4, <1>5, <1>7, <1>9, <1>10, <1>11

\* An item called back keeps all but its state.
LEMMA CanceledDoes ==
    ASSUME TypeOK, NEW i \in Item, box' = Canceled(i)
    PROVE  /\ box' \in [Item -> ServerItem \cup {None}] /\ BoxGrows
           /\ \A j \in Item : j # i => box'[j] = box[j]
           /\ \/ box' = box
              \/ /\ HeldItem(i) /\ box'[i].state = "canceled" /\ box'[i] # None
                 /\ box'[i].delivered = box[i].delivered
<1>1. CASE ~ HeldItem(i)
  BY <1>1, BoxSame DEF Canceled, TypeOK
<1>2. CASE HeldItem(i)
  <2>1. box' = [box EXCEPT ![i].state = "canceled"]
    BY <1>2 DEF Canceled
  <2>2. box[i] # None
    BY <1>2 DEF HeldItem
  <2>3. box[i] \in ServerItem
    BY <2>2, ItemIs
  <2>4. PICK it : it = [box[i] EXCEPT !.state = "canceled"]
    OBVIOUS
  <2>5. it \in ServerItem
    BY <2>3, <2>4 DEF ServerItem, ItemState
  <2>6. it.state = "canceled" /\ it.kind = box[i].kind /\ it.msg = box[i].msg /\ it.what = box[i].what
        /\ it.to = box[i].to /\ it.delivered = box[i].delivered
    BY <2>3, <2>4 DEF ServerItem
  <2>7. box'[i] = it /\ \A j \in Item : j # i => box'[j] = box[j]
    BY <2>1, <2>4 DEF TypeOK
  <2>8. it # None
    BY <2>5, NoneAssumption
  <2>9. box' \in [Item -> ServerItem \cup {None}]
    BY <2>1, <2>4, <2>5 DEF TypeOK
  <2>10. BoxGrows
    BY <2>6, <2>7, <2>8 DEF BoxGrows
  <2>11. QED
    BY <1>2, <2>6, <2>7, <2>8, <2>9, <2>10
<1>3. QED
  BY <1>1, <1>2

LEMMA GrowsQuiet ==
    ASSUME TypeOK, UNCHANGED <<gone, closed, has, box, seen>>,
           \A i \in Item : sent[i] # None => sent'[i] # None
    PROVE  Grows
BY HasSame, BoxSame DEF Grows

\* A new item on the server.
LEMMA PutKept ==
    ASSUME ChatInv, Grows, Free # {}, NEW kind \in {"chat", "op"}, NEW m \in Msg,
           NEW what \in Text \cup OpKinds, NEW to \in SUBSET Dev,
           Put(Min(Free), kind, m, what, to),
           kind = "chat" => what \in Text,
           kind = "op" => what \in OpKinds /\ (what = "delete" => m \in gone)
    PROVE  /\ \A j \in Item : BoxInv(j)'
           /\ \A j \in Item, o \in Op : Waits(j, o) => Waits(j, o)'
<1>1. PICK i : i = Min(Free)
  OBVIOUS
<1>2. TypeOK
  BY DEF ChatInv
<1>3. /\ i \in Item /\ box[i] = None /\ box'[i] # None
      /\ box'[i] = [kind |-> kind, msg |-> m, what |-> what, to |-> to,
                    delivered |-> {}, refused |-> {}, state |-> "held"]
      /\ \A j \in Item : j # i => box'[j] = box[j]
  BY <1>1, <1>2, PutDoes
<1>4. /\ box'[i].kind = kind /\ box'[i].msg = m /\ box'[i].what = what
      /\ box'[i].delivered = {} /\ box'[i].state = "held"
  BY <1>3
<1>5. BoxInv(i)'
  BY <1>3, <1>4 DEF BoxInv, OpOK, OpOf, Grows
<1>6. ASSUME NEW j \in Item PROVE BoxInv(j)'
  <2>1. CASE j = i
    BY <1>5, <2>1
  <2>2. CASE j # i
    BY <1>3, <2>2, ItemKept
  <2>3. QED
    BY <2>1, <2>2
<1>7. ASSUME NEW j \in Item, NEW o \in Op, Waits(j, o) PROVE Waits(j, o)'
  BY <1>3, <1>7 DEF Waits
<1>8. QED
  BY <1>6, <1>7

\* A message called back that is unsent, or that its devices have.
LEMMA CancelKept ==
    ASSUME ChatInv, Grows, NEW i \in Item, box' = Canceled(i),
           HeldItem(i) => box[i].kind = "chat" /\ (box[i].msg \in gone \/ Freed(i))
    PROVE  /\ \A j \in Item : BoxInv(j)'
           /\ \A j \in Item, o \in Op : Waits(j, o) => Waits(j, o)'
<1>1. TypeOK
  BY DEF ChatInv
<1>2. /\ \A j \in Item : j # i => box'[j] = box[j]
      /\ \/ box' = box
         \/ /\ HeldItem(i) /\ box'[i].state = "canceled" /\ box'[i] # None
            /\ box'[i].delivered = box[i].delivered
  BY <1>1, CanceledDoes
<1>3. CASE box' = box
  BY <1>3, BoxKept DEF Waits
<1>4. CASE /\ HeldItem(i) /\ box'[i].state = "canceled" /\ box'[i] # None
           /\ box'[i].delivered = box[i].delivered
  <2>1. box[i] # None /\ box[i].kind = "chat" /\ (box[i].msg \in gone \/ Freed(i)) /\ BoxInv(i)
    BY <1>4 DEF HeldItem, ChatInv
  <2>2. /\ box'[i].kind = "chat" /\ box'[i].msg = box[i].msg /\ box'[i].what = box[i].what
        /\ box'[i].to = box[i].to
    BY <2>1 DEF Grows, BoxGrows
  <2>3. box'[i].msg \in gone' \/ Freed(i)'
    BY <1>1, <2>1, <2>2, FreedKept DEF Grows
  <2>4. box[i].delivered \subseteq Dev
    BY <1>1, <2>1, ItemIs
  <2>5. \A d \in box'[i].delivered : i \in seen'[d]
    BY <1>4, <2>1, <2>4 DEF BoxInv, Grows
  <2>6. BoxInv(i)'
    BY <1>4, <2>1, <2>2, <2>3, <2>5 DEF BoxInv
  <2>7. ASSUME NEW j \in Item PROVE BoxInv(j)'
    <3>1. CASE j = i
      BY <2>6, <3>1
    <3>2. CASE j # i
      BY <1>2, <3>2, ItemKept
    <3>3. QED
      BY <3>1, <3>2
  <2>8. ASSUME NEW j \in Item, NEW o \in Op, Waits(j, o) PROVE Waits(j, o)'
    <3>1. j # i
      BY <2>1, <2>8 DEF Waits
    <3>2. QED
      BY <1>2, <2>8, <3>1 DEF Waits
  <2>9. QED
    BY <2>7, <2>8
<1>5. QED
  BY <1>2, <1>3, <1>4

\* Changes queued and waiting stay remembered.
LEMMA WaitsKept ==
    ASSUME ChatInv, Grows, UNCHANGED <<edited, gone, ops>>,
           \A j \in Item, o \in Op : Waits(j, o) => Waits(j, o)'
    PROVE  ChangeInv'
<1>1. \A o \in Op : o \in ops => Remembered(o)'
  BY DEF Remembered
<1>2. \A o \in Op, i \in Item : Waits(i, o) => Remembered(o)'
  BY DEF Remembered
<1>3. QED
  BY <1>1, <1>2, ChangeKept

\* Copies no device needs any more are called back.
LEMMA DirectlyDoes ==
    ASSUME ChatInv, NEW m \in Msg, NEW got \in SUBSET Dev, \A d \in got : Has(d, m),
           DeliveredDirectly(m, got)
    PROVE  /\ sent' \in [Item -> Sent \cup {None}] /\ cancels' \subseteq Item
           /\ \A i \in Item : sent[i] # None => sent'[i] # None
           /\ \A i \in Item : sent'[i] # None =>
                 sent[i] # None /\ sent'[i].to = sent[i].to /\ sent'[i].cancel = sent[i].cancel
           /\ \A i \in Item : i \in cancels' => i \in cancels \/ (sent[i] # None /\ Freed(i))
<1> DEFINE S == {i \in OursHeld(m) : Served(i, got)}
<1>0. TypeOK
  BY DEF ChatInv
<1>1. /\ sent' = [i \in Item |-> IF i \in S THEN [sent[i] EXCEPT !.state = "delivered"] ELSE sent[i]]
      /\ cancels' = cancels \cup S
  BY DEF DeliveredDirectly
<1>2. ASSUME NEW i \in S PROVE i \in Item /\ sent[i] # None /\ Freed(i)
  <2>1. i \in Item /\ sent[i] # None /\ box[i].msg = m
    BY DEF OursHeld, Ours
  <2>2. box[i].to \subseteq got \cup sent[i].to
    BY DEF Served
  <2>3. \A d \in sent[i].to : Has(d, box[i].msg)
    BY <2>1 DEF ChatInv, SentInv
  <2>4. QED
    BY <2>1, <2>2, <2>3 DEF Freed
<1> HIDE DEF S
<1>3. ASSUME NEW i \in S
      PROVE  LET l == [sent[i] EXCEPT !.state = "delivered"]
             IN  l \in Sent /\ l # None /\ l.to = sent[i].to /\ l.cancel = sent[i].cancel
  <2>1. sent[i] \in Sent
    BY <1>0, <1>2, LineIs
  <2>2. PICK l : l = [sent[i] EXCEPT !.state = "delivered"]
    OBVIOUS
  <2>3. l \in Sent /\ l.to = sent[i].to /\ l.cancel = sent[i].cancel
    BY <2>1, <2>2 DEF Sent, SentState, ItemState
  <2>4. QED
    BY <2>2, <2>3, NoneAssumption
<1>4. \A i \in Item : IF i \in S THEN /\ sent[i] # None /\ sent'[i] \in Sent /\ sent'[i] # None
                                      /\ sent'[i].to = sent[i].to /\ sent'[i].cancel = sent[i].cancel
                      ELSE sent'[i] = sent[i]
  BY <1>1, <1>2, <1>3
<1>5. sent' \in [Item -> Sent \cup {None}]
  <2>1. \A i \in Item : sent[i] \in Sent \cup {None}
    BY <1>0 DEF TypeOK
  <2>2. \A i \in Item : sent'[i] \in Sent \cup {None}
    BY <1>4, <2>1
  <2>3. sent' = [i \in Item |-> sent'[i]]
    BY <1>1
  <2>4. QED
    BY <2>2, <2>3
<1>6. cancels' \subseteq Item
  BY <1>0, <1>1, <1>2 DEF TypeOK
<1>7. QED
  BY <1>1, <1>2, <1>4, <1>5, <1>6

(***************************************************************************)
(* The user's steps.                                                       *)
(***************************************************************************)
\* A step that starts or ends a piece of work on a message.
LEMMA OnlyTask ==
    ASSUME ChatInv, NEW w \in Worker, NEW t \in TaskType, Become(w, t),
           t.pc # "idle" => /\ t.msg \in Msg /\ t.text \in Text
                            /\ \A d \in t.acked : Has(d, t.msg),
           UNCHANGED <<chat, sent, loop, cancels, receipts, box, friend, upsets, closed>>
    PROVE  ChatInv' /\ Grows
<1>1. TypeOK
  BY DEF ChatInv
<1>2. task' \in [Worker -> TaskType] /\ task'[w] = t
  BY <1>1, BecomeTyped
<1>3. TypeOK'
  BY <1>1, <1>2 DEF TypeOK, chat, friend
<1>4. Grows
  BY <1>1, GrowsQuiet DEF chat, friend
<1>5. TaskInv(w)'
  BY <1>2 DEF TaskInv, Has, friend
<1>6. \A v \in Worker : TaskInv(v)'
  BY <1>4, <1>5, TasksKept
<1>7. Real' /\ GoneInv' /\ LoopInv' /\ ReceiptInv' /\ ChangeInv'
  BY <1>4, RealKept, GoneKept, LoopKept, ReceiptKept, ChangesKept DEF chat, friend
<1>8. (\A i \in Item : BoxInv(i)' /\ SentInv(i)') /\ \A d \in Dev : SeenInv(d)'
  BY <1>4, BoxKept, LedgerKept, SeenKept DEF friend
<1>9. QED
  BY <1>3, <1>4, <1>6, <1>7, <1>8 DEF ChatInv

LEMMA SendKeeps ==
    ASSUME ChatInv, NEW m \in Msg, Send(m)
    PROVE  ChatInv' /\ Grows
<1>1. TypeOK /\ m \in Worker
  BY WorkerIs DEF ChatInv
<1>2. PICK t : t = [IdleTask EXCEPT !.pc = IF m \in Links THEN "preview" ELSE "spawned",
                                    !.msg = m, !.text = "old"]
  OBVIOUS
<1>3. t \in TaskType /\ t.msg = m /\ t.text = "old" /\ t.acked = {}
  BY <1>2 DEF IdleTask, TaskType, Text
<1>4. Become(m, t) /\ status' = [status EXCEPT ![m] = "sending"]
  BY <1>2 DEF Send
<1>5. task' \in [Worker -> TaskType] /\ task'[m] = t
  BY <1>1, <1>3, <1>4, BecomeTyped
<1>6. status' \in [Msg -> Status] /\ \A n \in Msg : status'[n] = "delivered" => status[n] = "delivered"
  BY <1>1, <1>4 DEF TypeOK, Status
<1>7. UNCHANGED <<gaveUp, edited, gone, ops, sent, loop, cancels, receipts, box, has, disk, seen, fetch, upsets, closed>>
  BY DEF Send, friend
<1>8. TypeOK'
  BY <1>1, <1>5, <1>6, <1>7 DEF TypeOK
<1>9. Grows
  BY <1>1, <1>7, GrowsQuiet
<1>10. TaskInv(m)'
  BY <1>3, <1>5 DEF TaskInv, Text
<1>11. \A v \in Worker : TaskInv(v)'
  BY <1>1, <1>3, <1>4, <1>9, <1>10, TasksKept
<1>12. Real'
  BY <1>6, <1>9, RealKept
<1>13. GoneInv' /\ LoopInv' /\ ReceiptInv' /\ ChangeInv'
  BY <1>7, <1>9, GoneKept, LoopKept, ReceiptKept, ChangesKept
<1>14. (\A i \in Item : BoxInv(i)' /\ SentInv(i)') /\ \A d \in Dev : SeenInv(d)'
  BY <1>7, <1>9, BoxKept, LedgerKept, SeenKept
<1>15. QED
  BY <1>8, <1>9, <1>11, <1>12, <1>13, <1>14 DEF ChatInv

LEMMA PreviewDoneKeeps ==
    ASSUME ChatInv, NEW m \in Msg, PreviewDone(m)
    PROVE  ChatInv' /\ Grows
<1>1. TypeOK /\ m \in Worker /\ TaskInv(m)
  BY WorkerIs DEF ChatInv
<1>2. PICK t : t = IF status[m] = "sending"
                   THEN [task[m] EXCEPT !.pc = "spawned", !.text = TextOf(m)] ELSE IdleTask
  OBVIOUS
<1>3. task[m].pc # "idle" /\ Become(m, t)
      /\ UNCHANGED <<chat, sent, loop, cancels, receipts, box, friend, upsets, closed>>
  BY <1>2 DEF PreviewDone
<1>4. /\ task[m] \in TaskType /\ task[m].msg \in Msg
      /\ \A d \in task[m].acked : Has(d, task[m].msg)
  BY <1>1, <1>3, TaskIs DEF TaskInv
<1>5. TextOf(m) \in Text
  BY DEF TextOf, Text
<1>6. /\ t \in TaskType
      /\ t.pc # "idle" => /\ t.msg \in Msg /\ t.text \in Text
                          /\ \A d \in t.acked : Has(d, t.msg)
  <2>1. CASE status[m] = "sending"
    <3>1. t \in TaskType /\ t.msg = task[m].msg /\ t.text \in Text /\ t.acked = task[m].acked
      BY <1>2, <1>4, <1>5, <2>1 DEF TaskType
    <3>2. QED
      BY <1>4, <3>1
  <2>2. CASE status[m] # "sending"
    BY <1>2, <2>2, IdleTyped
  <2>3. QED
    BY <2>1, <2>2
<1>7. QED
  BY <1>1, <1>3, <1>6, OnlyTask

LEMMA StartKeeps ==
    ASSUME ChatInv, NEW m \in Msg, Start(m)
    PROVE  ChatInv' /\ Grows
<1>1. TypeOK /\ m \in Worker /\ TaskInv(m)
  BY WorkerIs DEF ChatInv
<1>2. task[m].pc # "idle" /\ UNCHANGED <<chat, sent, loop, cancels, receipts, box, friend, upsets, closed>>
  BY DEF Start
<1>3. /\ task[m] \in TaskType /\ task[m].msg \in Msg /\ task[m].text \in Text
      /\ \A d \in task[m].acked : Has(d, task[m].msg)
  BY <1>1, <1>2, TaskIs DEF TaskInv
<1>4. CASE Become(m, IdleTask)
  BY <1>1, <1>2, <1>4, IdleTyped, OnlyTask
<1>5. ASSUME NEW hold \in Routes,
             Become(m, [task[m] EXCEPT !.pc = "dial", !.hold = hold, !.server = hold, !.try = Dev])
      PROVE  ChatInv' /\ Grows
  <2>1. PICK t : t = [task[m] EXCEPT !.pc = "dial", !.hold = hold, !.server = hold, !.try = Dev]
    OBVIOUS
  <2>2. hold \in BOOLEAN
    BY ChatAssumption
  <2>3. t \in TaskType /\ t.msg = task[m].msg /\ t.text = task[m].text /\ t.acked = task[m].acked
    BY <1>3, <2>1, <2>2 DEF TaskType
  <2>4. Become(m, t)
    BY <1>5, <2>1
  <2>5. \A d \in t.acked : Has(d, t.msg)
    BY <1>3, <2>3
  <2>6. QED
    BY <1>1, <1>2, <1>3, <2>3, <2>4, <2>5, OnlyTask
<1>6. QED
  BY <1>4, <1>5 DEF Start

LEMMA ChangeKeeps ==
    ASSUME ChatInv, NEW m \in Msg, NEW kind \in OpKinds, Change(m, kind)
    PROVE  ChatInv' /\ Grows
<1>1. TypeOK
  BY DEF ChatInv
<1>2. kind = "edit" \/ kind = "delete"
  BY ChatAssumption
<1>3. PICK n \in Op : n = [msg |-> m, kind |-> kind]
  BY DEF Op
<1>4. n.msg = m /\ n.kind = kind
  BY <1>3
<1>5. UNCHANGED <<status, gaveUp, sent, task, loop, cancels, receipts, box, has, disk, seen, fetch, upsets, closed>>
  BY DEF Change, work, friend
<1>6. /\ edited' = (IF kind = "edit" THEN edited \cup {m} ELSE edited)
      /\ gone' = (IF kind = "delete" THEN gone \cup {m} ELSE gone)
      /\ ops' = {o \in ops : kind = "delete" => o.msg # m} \cup {n}
  BY <1>3 DEF Change
<1>7. TypeOK'
  BY <1>1, <1>5, <1>6 DEF TypeOK
<1>8. Grows
  BY <1>1, <1>5, <1>6, HasSame, BoxSame DEF Grows
<1>9. LoopInv'
  <2>1. OpOK(n)'
    BY <1>4, <1>6 DEF OpOK
  <2>2. \A o \in ops : OpOK(o)'
    BY <1>8, OpOKKept DEF ChatInv, LoopInv
  <2>3. \A o \in ops' : OpOK(o)'
    BY <1>6, <2>1, <2>2
  <2>4. \A o \in loop.ops : OpOK(o)'
    BY <1>8, OpOKKept DEF ChatInv, LoopInv
  <2>5. loop.phase \in {"unsend", "opdeposit", "opsend", "follow"} => loop.op \in Op /\ OpOK(loop.op)'
    <3>1. loop.phase \in {"unsend", "opdeposit", "opsend", "follow"} => loop.op \in Op /\ OpOK(loop.op)
      BY DEF ChatInv, LoopInv
    <3>2. QED
      BY <1>5, <1>8, <3>1 DEF OpOK, Grows
  <2>6. ASSUME loop.phase = "follow"
        PROVE  /\ Landed(loop.op)'
               /\ \A c \in loop.copies : sent[c.item] # None /\ box[c.item].msg = loop.op.msg
                                         /\ (c.back => loop.op.kind = "delete")
    <3>1. PICK o \in Op : o = loop.op /\ Landed(o)
      BY <2>6 DEF ChatInv, LoopInv
    <3>2. Landed(o)'
      BY <1>8, <3>1, LandedKept
    <3>3. Landed(loop.op)'
      BY <1>5, <3>1, <3>2
    <3>4. QED
      BY <2>6, <3>3 DEF ChatInv, LoopInv
  <2>7. loop.phase = "unsend" => loop.op.kind = "delete"
    BY DEF ChatInv, LoopInv
  <2>8. QED
    BY <1>5, <2>3, <2>4, <2>5, <2>6, <2>7 DEF LoopInv, OpOK, Landed, Shows
<1>10. ChangeInv'
  <2>1. SUFFICES ASSUME NEW o \in Op, Due(o)' PROVE Remembered(o)'
    BY DEF ChangeInv
  <2>2. o = [msg |-> o.msg, kind |-> o.kind] /\ (o.kind = "edit" \/ o.kind = "delete")
    BY OpIs
  <2>3. CASE o = n
    BY <1>6, <2>3 DEF Remembered
  <2>4. CASE o # n
    <3>1. o.msg # m \/ o.kind # kind
      BY <1>3, <2>2, <2>4
    <3>2. Due(o)
      BY <1>2, <1>6, <2>1, <2>2, <3>1 DEF Due
    <3>3. Remembered(o)
      BY <3>2 DEF ChatInv, ChangeInv
    <3>4. CASE o \in ops
      <4>1. kind = "delete" => o.msg # m
        BY <1>2, <1>6, <2>1, <2>2, <3>1 DEF Due
      <4>2. QED
        BY <1>6, <3>4, <4>1 DEF Remembered
    <3>5. CASE o \notin ops
      BY <1>5, <3>3, <3>5 DEF Remembered, Waits, Shows
    <3>6. QED
      BY <3>4, <3>5
  <2>5. QED
    BY <2>3, <2>4
<1>11. Real' /\ GoneInv' /\ ReceiptInv'
  BY <1>5, <1>8, RealKept, GoneKept, ReceiptKept
<1>12. (\A i \in Item : BoxInv(i)' /\ SentInv(i)') /\ (\A d \in Dev : SeenInv(d)')
       /\ \A w \in Worker : TaskInv(w)'
  BY <1>5, <1>8, BoxKept, LedgerKept, SeenKept, AllTasksKept
<1>13. QED
  BY <1>7, <1>8, <1>9, <1>10, <1>11, <1>12 DEF ChatInv

(***************************************************************************)
(* deliver_chat_message.                                                   *)
(***************************************************************************)
LEMMA DialKeeps ==
    ASSUME ChatInv, NEW w \in Worker, Dial(w)
    PROVE  ChatInv' /\ Grows
<1>1. TypeOK /\ TaskInv(w) /\ task[w].pc = "dial"
  BY DEF ChatInv, Dial
<1>2. PICK A \in SUBSET task[w].try, L \in SUBSET task[w].try :
        /\ IF L = {} THEN UNCHANGED upsets ELSE Upset("ack") /\ Count
        /\ has' = StoreOn(A \cup L, task[w].msg, task[w].text)
        /\ Written({d \in A \cup L : Stored(has[d][task[w].msg], task[w].text) # has[d][task[w].msg]})
        /\ Become(w, [task[w] EXCEPT !.acked = A, !.try = {},
                         !.pc = IF task[w].server /\ A # Dev THEN "deposit" ELSE "record"])
        /\ loop' = IF w = Loop /\ loop.phase = "msgs" /\ loop.hold
                   THEN [loop EXCEPT !.skip = @ \cup (Dev \ A)] ELSE loop
  BY DEF Dial
<1>3. UNCHANGED <<chat, sent, cancels, receipts, box, seen, fetch, closed>>
  BY DEF Dial
<1>4. UNCHANGED <<status, gaveUp, edited, gone, ops>>
  BY <1>3 DEF chat
<1>5. /\ task[w] \in TaskType /\ task[w].try \subseteq Dev
      /\ task[w].msg \in Msg /\ task[w].text \in Text
  BY <1>1, TaskIs DEF TaskInv
<1>6. A \cup L \subseteq Dev /\ A \subseteq Dev
  BY <1>5
<1>7. /\ has' \in [Dev -> [Msg -> Version]] /\ HasGrows
      /\ \A d \in A \cup L : has'[d][task[w].msg] # "none"
      /\ \A d \in Dev, n \in Msg : has'[d][n] = "gone" => has[d][n] = "gone"
      /\ disk' \in [Dev -> [Msg -> Version]]
  <2>1. /\ has' \in [Dev -> [Msg -> Version]] /\ HasGrows
        /\ \A d \in A \cup L : has'[d][task[w].msg] # "none"
        /\ \A d \in Dev, n \in Msg : has'[d][n] = "gone" => has[d][n] = "gone"
    BY <1>1, <1>2, <1>5, <1>6, StoreDoes
  <2>2. disk' \in [Dev -> [Msg -> Version]]
    BY <1>1, <1>2, <2>1, WrittenDoes
  <2>3. QED
    BY <2>1, <2>2
<1>8. PICK t : t = [task[w] EXCEPT !.acked = A, !.try = {},
                       !.pc = IF task[w].server /\ A # Dev THEN "deposit" ELSE "record"]
  OBVIOUS
<1>9. t \in TaskType /\ t.msg = task[w].msg /\ t.text = task[w].text /\ t.acked = A
  BY <1>5, <1>6, <1>8 DEF TaskType
<1>10. Become(w, t)
  BY <1>2, <1>8
<1>11. task' \in [Worker -> TaskType] /\ task'[w] = t
  BY <1>1, <1>9, <1>10, BecomeTyped
<1>12. upsets' \in 0 .. MaxUpsets
  <2>1. CASE L = {}
    BY <1>1, <1>2, <2>1 DEF TypeOK
  <2>2. CASE L # {}
    BY <1>1, <1>2, <2>2, CountTyped
  <2>3. QED
    BY <2>1, <2>2
<1>13. loop' \in LoopType /\ loop'.phase = loop.phase /\ loop'.ops = loop.ops
       /\ (loop.phase # "msgs" => loop' = loop)
  <2>1. loop \in LoopType /\ loop.skip \subseteq Dev
    BY <1>1, LoopIs
  <2>2. CASE w = Loop /\ loop.phase = "msgs" /\ loop.hold
    <3>1. loop' = [loop EXCEPT !.skip = loop.skip \cup (Dev \ A)]
      BY <1>2, <2>2
    <3>2. QED
      BY <2>1, <2>2, <3>1 DEF LoopType
  <2>3. CASE ~ (w = Loop /\ loop.phase = "msgs" /\ loop.hold)
    BY <1>2, <2>1, <2>3
  <2>4. QED
    BY <2>2, <2>3
<1>14. TypeOK'
  BY <1>1, <1>3, <1>4, <1>7, <1>11, <1>12, <1>13 DEF TypeOK
<1>15. Grows
  BY <1>3, <1>4, <1>7, BoxSame DEF Grows
<1>16. TaskInv(w)'
  BY <1>5, <1>7, <1>9, <1>11 DEF TaskInv, Has
<1>17. \A v \in Worker : TaskInv(v)'
  BY <1>9, <1>10, <1>15, <1>16, TasksKept
<1>18. LoopInv'
  <2>1. CASE loop.phase = "msgs"
    BY <1>4, <1>13, <1>15, <2>1, LoopMoves
  <2>2. CASE loop.phase # "msgs"
    BY <1>4, <1>13, <1>15, <2>2, LoopKept
  <2>3. QED
    BY <2>1, <2>2
<1>19. GoneInv'
  BY <1>4, <1>7 DEF GoneInv, ChatInv
<1>20. Real' /\ ReceiptInv' /\ ChangeInv'
  BY <1>3, <1>4, <1>15, RealKept, ReceiptKept, ChangesKept
<1>21. (\A i \in Item : BoxInv(i)' /\ SentInv(i)') /\ \A d \in Dev : SeenInv(d)'
  BY <1>3, <1>15, BoxKept, LedgerKept, SeenKept
<1>22. QED
  BY <1>14, <1>15, <1>17, <1>18, <1>19, <1>20, <1>21 DEF ChatInv

LEMMA DepositOkKeeps ==
    ASSUME ChatInv, NEW w \in Worker, DepositOk(w)
    PROVE  ChatInv' /\ Grows
<1>1. TypeOK /\ TaskInv(w) /\ task[w].pc = "deposit" /\ Free # {}
  BY DEF ChatInv, DepositOk
<1>2. PICK i : i = Min(Free)
  OBVIOUS
<1>3. /\ Put(Min(Free), "chat", task[w].msg, task[w].text, Dev \ task[w].acked)
      /\ Ledger(i, task[w].acked # {})
  BY <1>2 DEF DepositOk
<1>4. UNCHANGED <<status, gaveUp, edited, gone, ops, loop, cancels, receipts, has, disk, seen, fetch, upsets, closed>>
  BY DEF DepositOk, chat, friend
<1>5. /\ task[w] \in TaskType /\ task[w].msg \in Msg /\ task[w].text \in Text
      /\ task[w].acked \subseteq Dev
      /\ \A d \in task[w].acked : Has(d, task[w].msg)
  BY <1>1, TaskIs DEF TaskInv
<1>6. PICK t : t = [task[w] EXCEPT !.pc = "record", !.held = TRUE]
  OBVIOUS
<1>7. t \in TaskType /\ t.msg = task[w].msg /\ t.text = task[w].text /\ t.acked = task[w].acked
  BY <1>5, <1>6 DEF TaskType
<1>8. Become(w, t)
  BY <1>6 DEF DepositOk
<1>9. task' \in [Worker -> TaskType] /\ task'[w] = t
  BY <1>1, <1>7, <1>8, BecomeTyped
<1>10. task[w].text \in Text \cup OpKinds /\ Dev \ task[w].acked \in SUBSET Dev
  BY <1>5
<1>11. /\ i \in Item /\ box[i] = None /\ BoxGrows
       /\ box' \in [Item -> ServerItem \cup {None}]
       /\ box'[i] = [kind |-> "chat", msg |-> task[w].msg, what |-> task[w].text,
                     to |-> Dev \ task[w].acked, delivered |-> {}, refused |-> {}, state |-> "held"]
       /\ box'[i] # None
  BY <1>1, <1>2, <1>3, <1>5, <1>10, PutDoes
<1>12. PICK l : l = [state |-> "held", copy |-> task[w].acked # {}, to |-> {}, cancel |-> FALSE]
  OBVIOUS
<1>13. l \in Sent /\ l.to = {} /\ l.cancel = FALSE
  BY <1>12 DEF Sent, SentState, ItemState
<1>14. sent' = [sent EXCEPT ![i] = l]
  BY <1>3, <1>12 DEF Ledger
<1>15. /\ sent' \in [Item -> Sent \cup {None}] /\ sent'[i] = l
       /\ \A j \in Item : j # i => sent'[j] = sent[j]
  BY <1>1, <1>11, <1>13, <1>14 DEF TypeOK
<1>16. sent'[i] # None
  BY <1>13, <1>15, NoneAssumption
<1>17. TypeOK'
  BY <1>1, <1>4, <1>9, <1>11, <1>15 DEF TypeOK
<1>18. Grows
  BY <1>1, <1>4, <1>11, <1>15, <1>16, HasSame DEF Grows
<1>19. TaskInv(w)'
  BY <1>4, <1>5, <1>7, <1>9 DEF TaskInv, Has
<1>20. \A v \in Worker : TaskInv(v)'
  BY <1>7, <1>8, <1>18, <1>19, TasksKept
<1>21. /\ \A j \in Item : BoxInv(j)'
       /\ \A j \in Item, o \in Op : Waits(j, o) => Waits(j, o)'
  BY <1>1, <1>3, <1>5, <1>10, <1>18, PutKept
<1>22. ASSUME NEW j \in Item PROVE SentInv(j)'
  <2>1. CASE j = i
    <3>1. i \notin cancels
      BY <1>11 DEF ChatInv, SentInv
    <3>2. QED
      BY <1>4, <1>11, <1>13, <1>15, <2>1, <3>1 DEF SentInv
  <2>2. CASE j # i
    BY <1>4, <1>15, <1>18, <2>2, LineKept
  <2>3. QED
    BY <2>1, <2>2
<1>23. ChangeInv'
  BY <1>4, <1>18, <1>21, WaitsKept
<1>24. Real' /\ GoneInv' /\ LoopInv' /\ ReceiptInv' /\ \A d \in Dev : SeenInv(d)'
  BY <1>4, <1>18, RealKept, GoneKept, LoopKept, ReceiptKept, SeenKept
<1>25. QED
  BY <1>17, <1>18, <1>20, <1>21, <1>22, <1>23, <1>24 DEF ChatInv

LEMMA DepositFailKeeps ==
    ASSUME ChatInv, NEW w \in Worker, DepositFail(w)
    PROVE  ChatInv' /\ Grows
<1>1. TypeOK /\ TaskInv(w) /\ task[w].pc = "deposit"
  BY DEF ChatInv, DepositFail
<1>2. UNCHANGED <<status, gaveUp, edited, gone, ops, sent, loop, cancels, receipts, has, disk, seen, fetch, closed>>
  BY DEF DepositFail, chat, friend
<1>3. /\ task[w] \in TaskType /\ task[w].msg \in Msg /\ task[w].text \in Text
      /\ task[w].acked \subseteq Dev
      /\ \A d \in task[w].acked : Has(d, task[w].msg)
  BY <1>1, TaskIs DEF TaskInv
<1>4. PICK t : t = [task[w] EXCEPT !.pc = "record"]
  OBVIOUS
<1>5. t \in TaskType /\ t.msg = task[w].msg /\ t.text = task[w].text /\ t.acked = task[w].acked
  BY <1>3, <1>4 DEF TaskType
<1>6. Become(w, t)
  BY <1>4 DEF DepositFail
<1>7. task' \in [Worker -> TaskType] /\ task'[w] = t
  BY <1>1, <1>5, <1>6, BecomeTyped
<1>8. TaskInv(w)'
  BY <1>2, <1>3, <1>5, <1>7 DEF TaskInv, Has
<1>9. ASSUME Grows, TypeOK', \A j \in Item : BoxInv(j)',
             \A j \in Item, o \in Op : Waits(j, o) => Waits(j, o)'
      PROVE  ChatInv' /\ Grows
  <2>1. \A v \in Worker : TaskInv(v)'
    BY <1>5, <1>6, <1>8, <1>9, TasksKept
  <2>2. ChangeInv'
    BY <1>2, <1>9, WaitsKept
  <2>3. Real' /\ GoneInv' /\ LoopInv' /\ ReceiptInv'
    BY <1>2, <1>9, RealKept, GoneKept, LoopKept, ReceiptKept
  <2>4. (\A j \in Item : SentInv(j)') /\ \A d \in Dev : SeenInv(d)'
    BY <1>2, <1>9, LedgerKept, SeenKept
  <2>5. QED
    BY <1>9, <2>1, <2>2, <2>3, <2>4 DEF ChatInv
<1>10. CASE UNCHANGED <<box, upsets>>
  <2>1. TypeOK'
    BY <1>1, <1>2, <1>7, <1>10 DEF TypeOK
  <2>2. Grows
    BY <1>1, <1>2, <1>10, GrowsQuiet
  <2>3. \A j \in Item : BoxInv(j)'
    BY <1>10, <2>2, BoxKept
  <2>4. \A j \in Item, o \in Op : Waits(j, o) => Waits(j, o)'
    BY <1>10 DEF Waits
  <2>5. QED
    BY <1>9, <2>1, <2>2, <2>3, <2>4
<1>11. CASE /\ Upset("reply") /\ Count /\ Free # {}
            /\ Put(Min(Free), "chat", task[w].msg, task[w].text, Dev \ task[w].acked)
  <2>1. task[w].text \in Text \cup OpKinds /\ Dev \ task[w].acked \in SUBSET Dev
    BY <1>3
  <2>2. box' \in [Item -> ServerItem \cup {None}] /\ BoxGrows
    BY <1>1, <1>3, <1>11, <2>1, PutDoes
  <2>3. upsets' \in 0 .. MaxUpsets
    BY <1>1, <1>11, CountTyped
  <2>4. TypeOK'
    BY <1>1, <1>2, <1>7, <2>2, <2>3 DEF TypeOK
  <2>5. Grows
    BY <1>1, <1>2, <2>2, HasSame DEF Grows
  <2>6. /\ \A j \in Item : BoxInv(j)'
        /\ \A j \in Item, o \in Op : Waits(j, o) => Waits(j, o)'
    BY <1>3, <1>11, <2>1, <2>5, PutKept
  <2>7. QED
    BY <1>9, <2>4, <2>5, <2>6
<1>12. QED
  BY <1>10, <1>11 DEF DepositFail

\* The end of a delivery: the outcome, and perhaps copies called back.
LEMMA RecordKeeps ==
    ASSUME ChatInv, NEW w \in Worker, Become(w, IdleTask),
           status' \in [Msg -> Status], gaveUp' \subseteq Msg,
           \A n \in Msg : status'[n] = "delivered" =>
               status[n] = "delivered" \/ \E d \in Dev : Has(d, n),
           \/ UNCHANGED <<sent, cancels>>
           \/ \E m \in Msg, got \in SUBSET Dev :
                 (\A d \in got : Has(d, m)) /\ DeliveredDirectly(m, got),
           loop' \in LoopType, LoopInv',
           UNCHANGED <<edited, gone, ops, receipts, box, friend, upsets, closed>>
    PROVE  ChatInv' /\ Grows
<1>1. TypeOK /\ UNCHANGED <<has, disk, seen, fetch>>
  BY DEF ChatInv, friend
<1>2. IdleTask \in TaskType /\ IdleTask.pc = "idle"
  BY IdleTyped
<1>3. task' \in [Worker -> TaskType] /\ task'[w] = IdleTask
  BY <1>1, <1>2, BecomeTyped
<1>4. /\ sent' \in [Item -> Sent \cup {None}] /\ cancels' \subseteq Item
      /\ \A i \in Item : sent[i] # None => sent'[i] # None
      /\ \A i \in Item : sent'[i] # None =>
            sent[i] # None /\ sent'[i].to = sent[i].to /\ sent'[i].cancel = sent[i].cancel
      /\ \A i \in Item : i \in cancels' => i \in cancels \/ (sent[i] # None /\ Freed(i))
  <2>1. CASE UNCHANGED <<sent, cancels>>
    BY <1>1, <2>1 DEF TypeOK
  <2>2. CASE \E m \in Msg, got \in SUBSET Dev :
                (\A d \in got : Has(d, m)) /\ DeliveredDirectly(m, got)
    <3>1. PICK m \in Msg, got \in SUBSET Dev :
             (\A d \in got : Has(d, m)) /\ DeliveredDirectly(m, got)
      BY <2>2
    <3>2. QED
      BY <3>1, DirectlyDoes
  <2>3. QED
    BY <2>1, <2>2
<1>5. TypeOK'
  BY <1>1, <1>3, <1>4 DEF TypeOK
<1>6. Grows
  BY <1>1, <1>4, GrowsQuiet
<1>7. TaskInv(w)'
  BY <1>2, <1>3 DEF TaskInv
<1>8. \A v \in Worker : TaskInv(v)'
  BY <1>2, <1>6, <1>7, TasksKept
<1>9. ASSUME NEW i \in Item PROVE SentInv(i)'
  <2>1. CASE i \in cancels' => i \in cancels
    BY <1>4, <1>6, <2>1, LineKept
  <2>2. CASE i \in cancels' /\ i \notin cancels
    <3>1. sent[i] # None /\ Freed(i) /\ sent'[i] # None
          /\ sent'[i].to = sent[i].to /\ sent'[i].cancel = sent[i].cancel
      BY <1>4, <2>2
    <3>2. SentInv(i)
      BY DEF ChatInv
    <3>3. QED
      BY <1>1, <3>1, <3>2 DEF SentInv, Freed, Has
  <2>3. QED
    BY <2>1, <2>2
<1>10. Real' /\ GoneInv' /\ ReceiptInv' /\ ChangeInv'
  BY <1>1, <1>6, RealKept, GoneKept, ReceiptKept, ChangesKept
<1>11. (\A i \in Item : BoxInv(i)') /\ \A d \in Dev : SeenInv(d)'
  BY <1>1, <1>6, BoxKept, SeenKept
<1>12. QED
  BY <1>5, <1>6, <1>8, <1>9, <1>10, <1>11 DEF ChatInv

LEMMA RecordSendKeeps ==
    ASSUME ChatInv, NEW m \in Msg, RecordSend(m)
    PROVE  ChatInv' /\ Grows
<1>1. m \in Worker /\ task[m].pc # "idle" /\ Outcome(task[m]) /\ TypeOK
  BY WorkerIs DEF RecordSend, ChatInv
<1>2. /\ status' \in [Msg -> Status] /\ gaveUp' \subseteq Msg
      /\ \A n \in Msg : status'[n] = "delivered" =>
            status[n] = "delivered" \/ \E d \in Dev : Has(d, n)
  BY <1>1, OutcomeDoes
<1>3. UNCHANGED <<edited, gone, ops, loop, receipts, box, friend, upsets, closed>>
      /\ Become(m, IdleTask)
  BY DEF RecordSend
<1>4. UNCHANGED <<sent, cancels>> \/ DeliveredDirectly(m, {})
  BY DEF RecordSend
<1>5. \/ UNCHANGED <<sent, cancels>>
      \/ \E n \in Msg, got \in SUBSET Dev :
            (\A d \in got : Has(d, n)) /\ DeliveredDirectly(n, got)
  BY <1>4
<1>6. loop' \in LoopType
  BY <1>1, <1>3 DEF TypeOK
<1>7. LoopInv'
  <2>1. \A i \in Item : sent[i] # None => sent'[i] # None
    BY <1>1, <1>4, DirectlyDoes
  <2>2. Grows
    BY <1>1, <1>3, <2>1, GrowsQuiet DEF friend
  <2>3. QED
    BY <1>3, <2>2, LoopKept
<1>8. QED
  BY <1>1, <1>2, <1>3, <1>5, <1>6, <1>7, RecordKeeps

(***************************************************************************)
(* The outbox loop: messages.                                              *)
(***************************************************************************)
\* A step of the loop that touches nothing but the loop and its own delivery.
LEMMA LoopSteps ==
    ASSUME ChatInv, loop' \in LoopType, LoopInv',
           \/ UNCHANGED task
           \/ \E t \in TaskType : Become(Loop, t) /\ t.msg \in Msg /\ t.text \in Text /\ t.acked = {},
           UNCHANGED <<chat, sent, cancels, receipts, box, friend, upsets, closed>>
    PROVE  ChatInv' /\ Grows
<1>1. TypeOK /\ UNCHANGED <<status, gaveUp, edited, gone, ops, has, disk, seen, fetch>>
  BY DEF ChatInv, chat, friend
<1>2. Grows
  BY <1>1, GrowsQuiet
<1>3. task' \in [Worker -> TaskType] /\ \A w \in Worker : TaskInv(w)'
  <2>1. CASE UNCHANGED task
    BY <1>1, <1>2, <2>1, AllTasksKept DEF TypeOK
  <2>2. CASE \E t \in TaskType : Become(Loop, t) /\ t.msg \in Msg /\ t.text \in Text /\ t.acked = {}
    <3>1. PICK t \in TaskType : Become(Loop, t) /\ t.msg \in Msg /\ t.text \in Text /\ t.acked = {}
      BY <2>2
    <3>2. task' \in [Worker -> TaskType] /\ task'[Loop] = t
      BY <1>1, <3>1, WorkerIs, BecomeTyped
    <3>3. TaskInv(Loop)'
      BY <3>1, <3>2 DEF TaskInv
    <3>4. QED
      BY <1>2, <3>1, <3>2, <3>3, WorkerIs, TasksKept
  <2>3. QED
    BY <2>1, <2>2
<1>4. TypeOK'
  BY <1>1, <1>3 DEF TypeOK
<1>5. Real' /\ GoneInv' /\ ReceiptInv' /\ ChangeInv'
  BY <1>1, <1>2, RealKept, GoneKept, ReceiptKept, ChangesKept
<1>6. (\A i \in Item : BoxInv(i)' /\ SentInv(i)') /\ \A d \in Dev : SeenInv(d)'
  BY <1>1, <1>2, BoxKept, LedgerKept, SeenKept
<1>7. QED
  BY <1>2, <1>3, <1>4, <1>5, <1>6 DEF ChatInv

\* The loop stays outside its work on an op.
LEMMA LoopTurns ==
    ASSUME ChatInv, loop'.ops \subseteq loop.ops \cup ops,
           loop'.phase \notin {"unsend", "opdeposit", "opsend", "follow"},
           UNCHANGED <<chat, box, friend, closed>>,
           \A i \in Item : sent[i] # None => sent'[i] # None
    PROVE  LoopInv'
<1>1. Grows
  BY GrowsQuiet DEF chat, friend, ChatInv
<1>2. QED
  BY <1>1, LoopMoves DEF chat

LEMMA RoundStartKeeps ==
    ASSUME ChatInv, NEW hold \in Routes, RoundStart(hold)
    PROVE  ChatInv' /\ Grows
<1>1. TypeOK
  BY DEF ChatInv
<1>2. ASSUME NEW m \in Msg PROVE Snapshot(m) \in Snap
  <2>1. TextOf(m) \in Text
    BY DEF TextOf, Text
  <2>2. (m \notin gaveUp) \in BOOLEAN
    OBVIOUS
  <2>3. QED
    BY <2>1, <2>2, Zenon DEF Snapshot, Snap
<1>3. Outbox \subseteq Msg /\ HeldByServer \subseteq Msg
  BY DEF Outbox, HeldByServer
<1>4. PICK P \in SUBSET Snap, H \in SUBSET Snap :
         P = {Snapshot(m) : m \in Outbox} /\ H = {Snapshot(m) : m \in HeldByServer}
  BY <1>2, <1>3
<1>5. loop' = [Rest EXCEPT !.phase = "msgs", !.hold = hold, !.pend = P, !.held = H, !.ops = ops]
  BY <1>4 DEF RoundStart
<1>6. ops \subseteq Op /\ hold \in BOOLEAN
  BY <1>1, ChatAssumption DEF TypeOK
<1>7. loop' \in LoopType /\ loop'.phase = "msgs" /\ loop'.ops = ops
  BY <1>5, <1>6 DEF Rest, LoopType
<1>8. UNCHANGED <<chat, sent, task, cancels, receipts, box, friend, upsets, closed>>
  BY DEF RoundStart
<1>9. LoopInv'
  BY <1>7, <1>8, LoopTurns
<1>10. QED
  BY <1>7, <1>8, <1>9, LoopSteps

LEMMA TakeMessageKeeps ==
    ASSUME ChatInv, TakeMessage
    PROVE  ChatInv' /\ Grows
<1>1. TypeOK /\ loop.phase = "msgs"
  BY DEF ChatInv, TakeMessage, LoopIdle
<1>2. loop \in LoopType /\ loop.pend \subseteq Snap /\ loop.skip \subseteq Dev /\ loop.hold \in BOOLEAN
  BY <1>1, LoopIs
<1>3. UNCHANGED <<chat, sent, cancels, receipts, box, friend, upsets, closed>>
  BY DEF TakeMessage
<1>4. CASE loop.pend = {} \/ Oldest(loop.pend).msg \in Claimed
  <2>1. loop' = [loop EXCEPT !.phase = "held", !.pend = {}, !.hold = FALSE, !.skip = {}] /\ UNCHANGED task
    BY <1>4 DEF TakeMessage
  <2>2. loop' \in LoopType /\ loop'.phase = "held" /\ loop'.ops = loop.ops
    BY <1>2, <2>1 DEF LoopType
  <2>3. QED
    BY <1>3, <2>1, <2>2, LoopTurns, LoopSteps
<1>5. CASE ~ (loop.pend = {} \/ Oldest(loop.pend).msg \in Claimed)
  <2>1. PICK s \in loop.pend : s = Oldest(loop.pend)
    BY <1>2, <1>5, OldestIsIn
  <2>2. s.msg \in Msg /\ s.text \in Text /\ s.server \in BOOLEAN
    BY <1>2 DEF Snap
  <2>3. PICK t : t = [IdleTask EXCEPT !.pc = "dial", !.msg = s.msg, !.text = s.text,
                        !.hold = loop.hold, !.server = loop.hold /\ s.server,
                        !.try = IF loop.hold THEN Dev \ loop.skip ELSE Dev]
    OBVIOUS
  <2>4. Become(Loop, t) /\ loop' = [loop EXCEPT !.pend = loop.pend \ {s}]
    BY <1>5, <2>1, <2>3 DEF TakeMessage
  <2>5. t \in TaskType /\ t.msg = s.msg /\ t.text = s.text /\ t.acked = {}
    BY <1>2, <2>2, <2>3 DEF IdleTask, TaskType
  <2>6. loop' \in LoopType /\ loop'.phase = "msgs" /\ loop'.ops = loop.ops
    BY <1>1, <1>2, <2>4 DEF LoopType
  <2>7. LoopInv'
    BY <1>3, <2>6, LoopTurns
  <2>8. QED
    BY <1>3, <2>2, <2>4, <2>5, <2>6, <2>7, LoopSteps
<1>6. QED
  BY <1>4, <1>5

LEMMA TakeHeldKeeps ==
    ASSUME ChatInv, TakeHeld
    PROVE  ChatInv' /\ Grows
<1>1. TypeOK /\ loop.phase = "held"
  BY DEF ChatInv, TakeHeld, LoopIdle
<1>2. loop \in LoopType /\ loop.held \subseteq Snap
  BY <1>1, LoopIs
<1>3. UNCHANGED <<chat, sent, cancels, receipts, box, friend, upsets, closed>>
  BY DEF TakeHeld
<1>4. CASE loop.held = {} \/ loop.deferred
  <2>1. loop' = [loop EXCEPT !.phase = "ops", !.held = {}] /\ UNCHANGED task
    BY <1>4 DEF TakeHeld
  <2>2. loop' \in LoopType /\ loop'.phase = "ops" /\ loop'.ops = loop.ops
    BY <1>2, <2>1 DEF LoopType
  <2>3. QED
    BY <1>3, <2>1, <2>2, LoopTurns, LoopSteps
<1>5. CASE ~ (loop.held = {} \/ loop.deferred)
  <2>1. PICK s \in loop.held : s = Oldest(loop.held)
    BY <1>2, <1>5, OldestIsIn
  <2>2. s.msg \in Msg /\ s.text \in Text
    BY <1>2 DEF Snap
  <2>3. loop' = [loop EXCEPT !.held = loop.held \ {s}]
    BY <1>5, <2>1 DEF TakeHeld
  <2>4. loop' \in LoopType /\ loop'.phase = "held" /\ loop'.ops = loop.ops
    BY <1>1, <1>2, <2>3 DEF LoopType
  <2>5. LoopInv'
    BY <1>3, <2>4, LoopTurns
  <2>6. \E live \in SUBSET Dev :
           \/ UNCHANGED task
           \/ Become(Loop, [IdleTask EXCEPT !.pc = "dial", !.msg = s.msg, !.text = s.text,
                               !.hold = TRUE, !.try = live])
    BY <1>5, <2>1 DEF TakeHeld
  <2>7. PICK live \in SUBSET Dev :
           \/ UNCHANGED task
           \/ Become(Loop, [IdleTask EXCEPT !.pc = "dial", !.msg = s.msg, !.text = s.text,
                               !.hold = TRUE, !.try = live])
    BY <2>6
  <2>8. PICK t : t = [IdleTask EXCEPT !.pc = "dial", !.msg = s.msg, !.text = s.text,
                        !.hold = TRUE, !.try = live]
    OBVIOUS
  <2>9. t \in TaskType /\ t.msg = s.msg /\ t.text = s.text /\ t.acked = {}
    BY <2>2, <2>8 DEF IdleTask, TaskType
  <2>10. UNCHANGED task \/ Become(Loop, t)
    BY <2>7, <2>8
  <2>11. QED
    BY <1>3, <2>2, <2>4, <2>5, <2>9, <2>10, LoopSteps
<1>6. QED
  BY <1>4, <1>5

LEMMA RecordMessageKeeps ==
    ASSUME ChatInv, RecordMessage
    PROVE  ChatInv' /\ Grows
<1>1. Loop \in Worker /\ task[Loop].pc # "idle" /\ Outcome(task[Loop]) /\ TypeOK /\ loop.phase = "msgs"
  BY WorkerIs DEF RecordMessage, ChatInv
<1>2. /\ status' \in [Msg -> Status] /\ gaveUp' \subseteq Msg
      /\ \A n \in Msg : status'[n] = "delivered" =>
            status[n] = "delivered" \/ \E d \in Dev : Has(d, n)
  BY <1>1, OutcomeDoes
<1>3. UNCHANGED <<edited, gone, ops, sent, cancels, receipts, box, friend, upsets, closed>>
      /\ Become(Loop, IdleTask)
  BY DEF RecordMessage
<1>4. loop \in LoopType /\ loop.just \subseteq Msg /\ task[Loop].msg \in Msg
  BY <1>1, LoopIs DEF ChatInv, TaskInv
<1>5. \/ loop' = [loop EXCEPT !.just = loop.just \cup {task[Loop].msg}]
      \/ loop' = loop
      \/ loop' = [loop EXCEPT !.pend = {}, !.deferred = TRUE]
  BY DEF RecordMessage
<1>6. loop' \in LoopType /\ loop'.phase = "msgs" /\ loop'.ops = loop.ops
  <2>1. CASE loop' = [loop EXCEPT !.just = loop.just \cup {task[Loop].msg}]
    BY <1>1, <1>4, <2>1 DEF LoopType
  <2>2. CASE loop' = loop
    BY <1>1, <1>4, <2>2
  <2>3. CASE loop' = [loop EXCEPT !.pend = {}, !.deferred = TRUE]
    BY <1>1, <1>4, <2>3 DEF LoopType
  <2>4. QED
    BY <1>5, <2>1, <2>2, <2>3
<1>7. Grows
  BY <1>1, <1>3, GrowsQuiet DEF friend
<1>8. LoopInv'
  BY <1>3, <1>6, <1>7, LoopMoves
<1>9. QED
  BY <1>1, <1>2, <1>3, <1>6, <1>8, RecordKeeps

LEMMA RecordHeldKeeps ==
    ASSUME ChatInv, RecordHeld
    PROVE  ChatInv' /\ Grows
<1>1. Loop \in Worker /\ task[Loop].pc # "idle" /\ TypeOK /\ TaskInv(Loop) /\ loop.phase = "held"
  BY WorkerIs DEF RecordHeld, ChatInv
<1>2. UNCHANGED <<edited, gone, ops, receipts, box, friend, upsets, closed>> /\ Become(Loop, IdleTask)
  BY DEF RecordHeld
<1>3. /\ loop \in LoopType /\ loop.just \subseteq Msg /\ task[Loop].msg \in Msg
      /\ task[Loop].acked \subseteq Dev /\ \A d \in task[Loop].acked : Has(d, task[Loop].msg)
  BY <1>1, LoopIs, TaskIs DEF TaskInv
<1>4. CASE task[Loop].acked = {}
  <2>1. UNCHANGED <<status, gaveUp, sent, cancels, loop>>
    BY <1>4 DEF RecordHeld
  <2>2. Grows
    BY <1>1, <1>2, <2>1, GrowsQuiet DEF friend
  <2>3. LoopInv' /\ loop' \in LoopType
    BY <1>2, <1>3, <2>1, <2>2, LoopKept
  <2>4. status' \in [Msg -> Status] /\ gaveUp' \subseteq Msg
    BY <1>1, <2>1 DEF TypeOK
  <2>5. QED
    BY <1>1, <1>2, <2>1, <2>3, <2>4, RecordKeeps
<1>5. CASE task[Loop].acked # {}
  <2>1. /\ SetStatus(task[Loop].msg, "delivered")
        /\ DeliveredDirectly(task[Loop].msg, task[Loop].acked)
        /\ loop' = [loop EXCEPT !.just = loop.just \cup {task[Loop].msg}]
    BY <1>5 DEF RecordHeld
  <2>2. PICK d \in Dev : Has(d, task[Loop].msg)
    BY <1>3, <1>5
  <2>3. /\ status' \in [Msg -> Status] /\ gaveUp' \subseteq Msg
        /\ \A n \in Msg : status'[n] = "delivered" => status[n] = "delivered" \/ n = task[Loop].msg
    <3>1. "delivered" \in Status
      BY DEF Status
    <3>2. QED
      BY <1>1, <1>3, <2>1, <3>1, SetStatusDoes
  <2>4. \A i \in Item : sent[i] # None => sent'[i] # None
    BY <1>3, <2>1, DirectlyDoes
  <2>5. Grows
    BY <1>1, <1>2, <2>4, GrowsQuiet DEF friend
  <2>6. loop' \in LoopType /\ loop'.phase = "held" /\ loop'.ops = loop.ops
    BY <1>1, <1>3, <2>1 DEF LoopType
  <2>7. LoopInv'
    BY <1>2, <2>5, <2>6, LoopMoves
  <2>8. \E m \in Msg, got \in SUBSET Dev :
           (\A e \in got : Has(e, m)) /\ DeliveredDirectly(m, got)
    BY <1>3, <2>1
  <2>9. \A n \in Msg : status'[n] = "delivered" =>
            status[n] = "delivered" \/ \E e \in Dev : Has(e, n)
    BY <2>2, <2>3
  <2>10. QED
    BY <1>1, <1>2, <2>3, <2>6, <2>7, <2>8, <2>9, RecordKeeps
<1>6. QED
  BY <1>4, <1>5

(***************************************************************************)
(* The outbox loop: edits and unsends.                                     *)
(***************************************************************************)
\* Work on an op goes on: it landed before, and its copies are no others.
LEMMA FollowKept ==
    ASSUME ChatInv, Grows, loop.phase = "follow", loop'.phase = "follow",
           loop'.op = loop.op, loop'.ops = loop.ops, UNCHANGED ops,
           \A c \in loop'.copies : \E b \in loop.copies : c.item = b.item /\ (c.back => b.back)
    PROVE  LoopInv'
<1>1. LoopInv /\ TypeOK
  BY DEF ChatInv
<1>2. \A o \in ops \cup loop.ops : OpOK(o)'
  BY <1>1, OpOKKept DEF LoopInv
<1>3. PICK o \in Op : o = loop.op /\ OpOK(o) /\ Landed(o)
  BY <1>1 DEF LoopInv
<1>4. OpOK(o)' /\ Landed(o)'
  BY <1>3, OpOKKept, LandedKept
<1>5. ASSUME NEW c \in loop'.copies
      PROVE  sent'[c.item] # None /\ box'[c.item].msg = o.msg /\ (c.back => o.kind = "delete")
  <2>1. PICK b \in loop.copies : c.item = b.item /\ (c.back => b.back)
    OBVIOUS
  <2>2. b.item \in Item
    BY <1>1, LoopIs
  <2>3. sent[b.item] # None /\ box[b.item].msg = o.msg /\ (b.back => o.kind = "delete")
    BY <1>1, <1>3 DEF LoopInv
  <2>4. box[b.item] # None
    BY <2>2, <2>3 DEF ChatInv, SentInv
  <2>5. QED
    BY <2>1, <2>2, <2>3, <2>4 DEF Grows, BoxGrows
<1>6. loop'.op = o
  BY <1>3
<1>7. QED
  BY <1>2, <1>3, <1>4, <1>5, <1>6 DEF LoopInv, OpOK, Landed, Shows

LEMMA BackIs ==
    ASSUME TypeOK, loop' = Back
    PROVE  loop' \in LoopType /\ loop'.phase = "ops" /\ loop'.ops = loop.ops
<1>1. loop \in LoopType
  BY LoopIs
<1>2. QED
  BY <1>1 DEF Back, LoopType

LEMMA TakeOpKeeps ==
    ASSUME ChatInv, TakeOp
    PROVE  ChatInv' /\ Grows
<1>1. TypeOK /\ loop.phase = "ops" /\ LoopInv
  BY DEF ChatInv, TakeOp, LoopIdle
<1>2. loop \in LoopType /\ loop.ops \subseteq Op
  BY <1>1, LoopIs
<1>3. UNCHANGED <<chat, sent, task, cancels, receipts, box, friend, upsets, closed>>
  BY DEF TakeOp
<1>4. CASE loop' = Rest
  <2>1. loop' \in LoopType /\ loop'.phase = "rest" /\ loop'.ops = {}
    BY <1>4, RestTyped
  <2>2. LoopInv'
    BY <1>3, <2>1, LoopTurns
  <2>3. QED
    BY <1>3, <2>1, <2>2, LoopSteps
<1>5. ASSUME NEW o \in loop.ops,
             \/ loop' = [loop EXCEPT !.ops = loop.ops \ {o}]
             \/ loop' = [[loop EXCEPT !.ops = loop.ops \ {o}] EXCEPT !.phase = "opsend", !.op = o]
             \/ loop' = [[loop EXCEPT !.ops = loop.ops \ {o}] EXCEPT !.op = o,
                           !.phase = IF o.kind = "delete" THEN "unsend" ELSE "opdeposit"]
      PROVE  ChatInv' /\ Grows
  <2>1. CASE loop' = [loop EXCEPT !.ops = loop.ops \ {o}]
    <3>1. loop' \in LoopType /\ loop'.phase = "ops" /\ loop'.ops \subseteq loop.ops
      BY <1>1, <1>2, <2>1 DEF LoopType
    <3>2. LoopInv'
      BY <1>3, <3>1, LoopTurns
    <3>3. QED
      BY <1>3, <3>1, <3>2, LoopSteps
  <2>2. CASE \/ loop' = [[loop EXCEPT !.ops = loop.ops \ {o}] EXCEPT !.phase = "opsend", !.op = o]
             \/ loop' = [[loop EXCEPT !.ops = loop.ops \ {o}] EXCEPT !.op = o,
                           !.phase = IF o.kind = "delete" THEN "unsend" ELSE "opdeposit"]
    <3>1. PICK rest : rest = [loop EXCEPT !.ops = loop.ops \ {o}]
      OBVIOUS
    <3>2. rest \in LoopType /\ rest.ops = loop.ops \ {o}
      BY <1>2, <3>1 DEF LoopType
    <3>3. PICK phase \in {"opsend", "unsend", "opdeposit"} :
             loop' = [rest EXCEPT !.phase = phase, !.op = o] /\ (phase = "unsend" => o.kind = "delete")
      <4>1. CASE loop' = [rest EXCEPT !.phase = "opsend", !.op = o]
        BY <4>1
      <4>2. CASE loop' = [rest EXCEPT !.op = o, !.phase = IF o.kind = "delete" THEN "unsend" ELSE "opdeposit"]
        <5>1. PICK phase \in {"unsend", "opdeposit"} :
                 phase = (IF o.kind = "delete" THEN "unsend" ELSE "opdeposit")
          OBVIOUS
        <5>2. loop' = [rest EXCEPT !.op = o, !.phase = phase]
          BY <4>2, <5>1
        <5>3. loop' = [rest EXCEPT !.phase = phase, !.op = o]
          BY <3>2, <5>2 DEF LoopType
        <5>4. phase = "unsend" => o.kind = "delete"
          BY <5>1
        <5>5. QED
          BY <5>3, <5>4
      <4>3. QED
        BY <2>2, <3>1, <4>1, <4>2
    <3>4. loop' \in LoopType /\ loop'.phase = phase /\ loop'.op = o /\ loop'.ops = loop.ops \ {o}
      BY <1>2, <3>2, <3>3 DEF LoopType
    <3>5. UNCHANGED <<gone, ops>>
      BY <1>3 DEF chat
    <3>6. (\A p \in ops \cup loop.ops : OpOK(p)) /\ OpOK(o)
      BY <1>1 DEF LoopInv
    <3>7. LoopInv'
      BY <1>2, <3>3, <3>4, <3>5, <3>6 DEF LoopInv, OpOK
    <3>8. QED
      BY <1>3, <3>4, <3>7, LoopSteps
  <2>3. QED
    BY <1>5, <2>1, <2>2
<1>6. QED
  BY <1>4, <1>5 DEF TakeOp

\* A message called back by an unsend that the server answered.
LEMMA ConcludedDoes ==
    ASSUME ChatInv, NEW i \in Item, sent[i] # None, sent' = Concluded(i)
    PROVE  /\ sent' \in [Item -> Sent \cup {None}]
           /\ \A j \in Item : sent[j] # None => sent'[j] # None
           /\ \A j \in Item : sent'[j] # None =>
                 sent[j] # None /\ sent'[j].to = sent[j].to /\ sent'[j].cancel = sent[j].cancel
<1>1. TypeOK
  BY DEF ChatInv
<1>2. PICK state \in ItemState : state = (IF CancelOutcome(i) = "Removed" THEN "canceled" ELSE "delivered")
  BY DEF ItemState
<1>3. sent' = [sent EXCEPT ![i].state = state]
  BY <1>2 DEF Concluded
<1>4. PICK l : l = [sent[i] EXCEPT !.state = state]
  OBVIOUS
<1>5. sent[i] \in Sent
  BY <1>1, LineIs
<1>6. l \in Sent /\ l.to = sent[i].to /\ l.cancel = sent[i].cancel
  BY <1>4, <1>5 DEF Sent, SentState
<1>7. l # None
  BY <1>6, NoneAssumption
<1>8. sent'[i] = l /\ \A j \in Item : j # i => sent'[j] = sent[j]
  BY <1>1, <1>3, <1>4 DEF TypeOK
<1>9. sent' \in [Item -> Sent \cup {None}]
  BY <1>1, <1>3, <1>4, <1>6 DEF TypeOK
<1>10. QED
  BY <1>6, <1>7, <1>8, <1>9

LEMMA OutcomeIsTrue ==
    ASSUME ChatInv, NEW i \in Item, box[i] # None, box[i].kind = "chat",
           CancelOutcome(i) # "Removed"
    PROVE  \E d \in Dev : Has(d, box[i].msg)
<1>1. TypeOK /\ BoxInv(i)
  BY DEF ChatInv
<1>2. box[i].delivered # {}
  BY <1>1 DEF CancelOutcome, BoxInv
<1>3. PICK d \in Dev : i \in seen[d]
  BY <1>1, <1>2, ItemIs DEF BoxInv
<1>4. QED
  BY <1>3 DEF ChatInv, SeenInv

\* What the unsend and the follow-up share: message item i is called back.
LEMMA UnsendCancels ==
    ASSUME ChatInv, NEW i \in Item, sent[i] # None, box[i].msg \in gone, box' = Canceled(i),
           sent' = sent \/ sent' = Concluded(i),
           UNCHANGED <<edited, gone, has, disk, seen, fetch, cancels, receipts, task>>,
           closed \subseteq closed', closed' \subseteq Op, ops' \subseteq ops,
           \A o \in ops : o \in ops' \/ o \in closed' \/ \E d \in Dev : Shows(d, o.msg, o.kind),
           status' \in [Msg -> Status], gaveUp' \subseteq Msg,
           \A m \in Msg : status'[m] = "delivered" =>
               status[m] = "delivered" \/ \E d \in Dev : Has(d, m),
           loop' \in LoopType, Grows => LoopInv', upsets' \in 0 .. MaxUpsets
    PROVE  ChatInv' /\ Grows
<1>1. TypeOK /\ box[i] # None /\ box[i].kind = "chat"
  BY DEF ChatInv, SentInv
<1>2. /\ sent' \in [Item -> Sent \cup {None}]
      /\ \A j \in Item : sent[j] # None => sent'[j] # None
      /\ \A j \in Item : sent'[j] # None =>
            sent[j] # None /\ sent'[j].to = sent[j].to /\ sent'[j].cancel = sent[j].cancel
  <2>1. CASE sent' = sent
    BY <1>1, <2>1 DEF TypeOK
  <2>2. CASE sent' = Concluded(i)
    BY <2>2, ConcludedDoes
  <2>3. QED
    BY <2>1, <2>2
<1>3. box' \in [Item -> ServerItem \cup {None}] /\ BoxGrows
  BY <1>1, CanceledDoes
<1>4. Grows
  BY <1>1, <1>2, <1>3, HasSame DEF Grows
<1>5. ops' \subseteq Op
  BY <1>1 DEF TypeOK
<1>6. TypeOK'
  BY <1>1, <1>2, <1>3, <1>5 DEF TypeOK
<1>7. /\ \A j \in Item : BoxInv(j)'
      /\ \A j \in Item, o \in Op : Waits(j, o) => Waits(j, o)'
  BY <1>1, <1>4, CancelKept
<1>8. \A j \in Item : SentInv(j)'
  BY <1>2, <1>4, LineKept
<1>9. ChangeInv'
  <2>1. ASSUME NEW o \in Op, o \in ops PROVE Remembered(o)'
    BY <2>1 DEF Remembered, Shows
  <2>2. ASSUME NEW o \in Op, NEW j \in Item, Waits(j, o) PROVE Remembered(o)'
    BY <1>7, <2>2 DEF Remembered
  <2>3. QED
    BY <1>4, <2>1, <2>2, ChangeKept
<1>10. LoopInv'
  BY <1>4
<1>11. Real' /\ GoneInv' /\ ReceiptInv'
  BY <1>4, RealKept, GoneKept, ReceiptKept
<1>12. (\A d \in Dev : SeenInv(d)') /\ \A w \in Worker : TaskInv(w)'
  BY <1>4, SeenKept, AllTasksKept
<1>13. QED
  BY <1>4, <1>6, <1>7, <1>8, <1>9, <1>10, <1>11, <1>12 DEF ChatInv

LEMMA UnsendKeeps ==
    ASSUME ChatInv, Unsend
    PROVE  ChatInv' /\ Grows
<1>1. TypeOK /\ LoopInv /\ loop.phase = "unsend"
  BY DEF ChatInv, Unsend
<1>2. PICK o \in Op : o = loop.op /\ OpOK(o) /\ o.kind = "delete"
  BY <1>1 DEF LoopInv
<1>3. UNCHANGED <<edited, gone, has, disk, seen, fetch, cancels, receipts, task>>
  BY DEF Unsend, friend
<1>4. o.msg \in Msg /\ o.msg \in gone
  BY <1>2, OpIs DEF OpOK
<1>5. \A i \in OursHeld(o.msg) : i \in Item /\ sent[i] # None /\ box[i].msg = o.msg /\ box[i].kind = "chat"
                                 /\ box[i] # None
  BY DEF OursHeld, Ours, ChatInv, SentInv
<1>6. /\ \A m \in Msg : status'[m] = "delivered" => status[m] = "delivered" \/ status' # status
      /\ status \in [Msg -> Status] /\ gaveUp \subseteq Msg /\ closed \subseteq Op /\ upsets \in 0 .. MaxUpsets
  BY <1>1 DEF TypeOK
<1>7. CASE /\ loop' = [loop EXCEPT !.phase = "opdeposit"]
           /\ UNCHANGED <<status, gaveUp, ops, sent, closed>>
           /\ \/ UNCHANGED <<box, upsets>>
              \/ \E i \in OursHeld(o.msg) : Upset("reply") /\ Count /\ box' = Canceled(i)
  <2>1. /\ loop' \in LoopType /\ loop'.phase = "opdeposit" /\ loop'.op = loop.op
        /\ loop'.ops = loop.ops
    BY <1>1, <1>7, LoopIs DEF LoopType
  <2>2. LoopInv'
    BY <1>1, <1>2, <1>3, <1>7, <2>1 DEF LoopInv, OpOK
  <2>3. CASE UNCHANGED <<box, upsets>>
    <3>1. UNCHANGED <<chat, sent, task, cancels, receipts, box, friend, upsets, closed>>
      BY <1>3, <1>7, <2>3 DEF chat, friend
    <3>2. QED
      BY <2>1, <2>2, <3>1, LoopSteps
  <2>4. CASE \E i \in OursHeld(o.msg) : Upset("reply") /\ Count /\ box' = Canceled(i)
    <3>1. PICK i \in OursHeld(o.msg) : Upset("reply") /\ Count /\ box' = Canceled(i)
      BY <2>4
    <3>2. upsets' \in 0 .. MaxUpsets
      BY <1>1, <3>1, CountTyped
    <3>3. i \in Item /\ sent[i] # None /\ box[i].msg \in gone
      BY <1>4, <1>5
    <3>4. QED
      BY <1>3, <1>6, <1>7, <2>1, <2>2, <3>1, <3>2, <3>3, UnsendCancels
  <2>5. QED
    BY <1>7, <2>3, <2>4
<1>8. ASSUME NEW i \in OursHeld(o.msg),
             box' = Canceled(i), sent' = Concluded(i), loop' = Back, UNCHANGED upsets,
             IF Settles(CancelOutcome(i))
             THEN /\ ops' = ops \ {o} /\ UNCHANGED <<status, gaveUp>>
                  /\ closed' = IF CancelOutcome(i) = "Removed" THEN closed \cup {o} ELSE closed
             ELSE SetStatus(o.msg, "delivered") /\ UNCHANGED <<ops, closed>>
      PROVE  ChatInv' /\ Grows
  <2>1. i \in Item /\ sent[i] # None /\ box[i].msg = o.msg /\ box[i].kind = "chat" /\ box[i] # None
    BY <1>5
  <2>2. loop' \in LoopType /\ loop'.phase = "ops" /\ loop'.ops = loop.ops
    BY <1>1, <1>8, BackIs
  <2>3. ASSUME ops' \subseteq ops PROVE Grows => LoopInv'
    BY <2>2, <2>3, LoopMoves
  <2>4. CASE Settles(CancelOutcome(i))
    <3>1. ops' = ops \ {o} /\ UNCHANGED <<status, gaveUp>> /\ closed' = closed \cup {o}
      BY <1>8, <2>4 DEF Settles
    <3>2. closed' \subseteq Op
      BY <1>6, <3>1
    <3>3. QED
      BY <1>3, <1>4, <1>6, <1>8, <2>1, <2>2, <2>3, <3>1, <3>2, UnsendCancels
  <2>5. CASE ~ Settles(CancelOutcome(i))
    <3>1. SetStatus(o.msg, "delivered") /\ UNCHANGED <<ops, closed>>
      BY <1>8, <2>5
    <3>2. PICK d \in Dev : Has(d, o.msg)
      BY <2>1, <2>5, OutcomeIsTrue DEF Settles
    <3>3. "delivered" \in Status
      BY DEF Status
    <3>4. /\ status' \in [Msg -> Status] /\ gaveUp' \subseteq Msg
          /\ \A n \in Msg : status'[n] = "delivered" => status[n] = "delivered" \/ n = o.msg
      BY <1>1, <1>4, <3>1, <3>3, SetStatusDoes
    <3>5. \A n \in Msg : status'[n] = "delivered" =>
              status[n] = "delivered" \/ \E e \in Dev : Has(e, n)
      BY <3>2, <3>4
    <3>6. QED
      BY <1>3, <1>4, <1>6, <1>8, <2>1, <2>2, <2>3, <3>1, <3>4, <3>5, UnsendCancels
  <2>6. QED
    BY <2>4, <2>5
<1>9. QED
  BY <1>2, <1>7, <1>8 DEF Unsend

LEMMA OpDepositKeeps ==
    ASSUME ChatInv, OpDeposit
    PROVE  ChatInv' /\ Grows
<1>1. TypeOK /\ LoopInv /\ loop.phase = "opdeposit" /\ loop' = Back
  BY DEF ChatInv, OpDeposit
<1>2. PICK o \in Op : o = loop.op /\ OpOK(o)
  BY <1>1 DEF LoopInv
<1>3. o.msg \in Msg /\ o.kind \in OpKinds
  BY <1>2, OpIs
<1>4. loop' \in LoopType /\ loop'.phase = "ops" /\ loop'.ops = loop.ops
  BY <1>1, BackIs
<1>5. UNCHANGED <<status, gaveUp, edited, gone, sent, task, cancels, receipts, friend, closed>>
  BY DEF OpDeposit
<1>6. UNCHANGED <<has, disk, seen, fetch>>
  BY <1>5 DEF friend
<1>7. CASE UNCHANGED <<ops, box, upsets>>
  <2>1. UNCHANGED <<chat, sent, task, cancels, receipts, box, friend, upsets, closed>>
    BY <1>5, <1>7 DEF chat
  <2>2. LoopInv'
    BY <1>4, <2>1, LoopTurns
  <2>3. QED
    BY <1>4, <2>1, <2>2, LoopSteps
<1>8. CASE /\ Free # {} /\ Put(Min(Free), "op", o.msg, o.kind, Dev)
           /\ \/ ops' = ops \ {o} /\ UNCHANGED upsets
              \/ Upset("reply") /\ Count /\ UNCHANGED ops
  <2>1. o.kind \in Text \cup OpKinds /\ Dev \in SUBSET Dev /\ (o.kind = "delete" => o.msg \in gone)
    BY <1>2, <1>3 DEF OpOK
  <2>2. PICK i : i = Min(Free)
    OBVIOUS
  <2>3. /\ i \in Item /\ box' \in [Item -> ServerItem \cup {None}] /\ BoxGrows /\ box'[i] # None
        /\ box'[i] = [kind |-> "op", msg |-> o.msg, what |-> o.kind, to |-> Dev,
                      delivered |-> {}, refused |-> {}, state |-> "held"]
    BY <1>1, <1>3, <1>8, <2>1, <2>2, PutDoes
  <2>4. upsets' \in 0 .. MaxUpsets
    <3>1. CASE UNCHANGED upsets
      BY <1>1, <3>1 DEF TypeOK
    <3>2. CASE Upset("reply") /\ Count
      BY <1>1, <3>2, CountTyped
    <3>3. QED
      BY <1>8, <3>1, <3>2
  <2>5. ops' \subseteq ops /\ \A p \in ops : p # o => p \in ops'
    BY <1>8
  <2>6. TypeOK'
    BY <1>1, <1>4, <1>5, <1>6, <2>3, <2>4, <2>5 DEF TypeOK
  <2>7. Grows
    BY <1>1, <1>5, <1>6, <2>3, HasSame DEF Grows
  <2>8. /\ \A j \in Item : BoxInv(j)'
        /\ \A j \in Item, p \in Op : Waits(j, p) => Waits(j, p)'
    BY <1>3, <1>8, <2>1, <2>7, PutKept
  <2>9. Waits(i, o)'
    BY <2>3 DEF Waits
  <2>10. ChangeInv'
    <3>1. \A p \in Op : p \in ops => Remembered(p)'
      BY <2>3, <2>5, <2>9 DEF Remembered
    <3>2. \A p \in Op, j \in Item : Waits(j, p) => Remembered(p)'
      BY <2>8 DEF Remembered
    <3>3. QED
      BY <1>5, <2>7, <3>1, <3>2, ChangeKept
  <2>11. LoopInv'
    BY <1>4, <2>5, <2>7, LoopMoves
  <2>12. Real' /\ GoneInv' /\ ReceiptInv'
    BY <1>5, <1>6, <2>7, RealKept, GoneKept, ReceiptKept
  <2>13. (\A j \in Item : SentInv(j)') /\ (\A d \in Dev : SeenInv(d)') /\ \A w \in Worker : TaskInv(w)'
    BY <1>5, <1>6, <2>7, LedgerKept, SeenKept, AllTasksKept
  <2>14. QED
    BY <2>6, <2>7, <2>8, <2>10, <2>11, <2>12, <2>13 DEF ChatInv
<1>9. QED
  BY <1>2, <1>7, <1>8 DEF OpDeposit

LEMMA OpSendKeeps ==
    ASSUME ChatInv, OpSend
    PROVE  ChatInv' /\ Grows
<1>1. TypeOK /\ LoopInv /\ loop.phase = "opsend"
  BY DEF ChatInv, OpSend
<1>2. PICK o \in Op : o = loop.op /\ OpOK(o)
  BY <1>1 DEF LoopInv
<1>3. o.msg \in Msg /\ (o.kind = "edit" \/ o.kind = "delete")
  BY <1>2, OpIs
<1>4. UNCHANGED <<status, gaveUp, edited, gone, ops, sent, task, cancels, receipts, box, seen, fetch, closed>>
  BY DEF OpSend, chat
<1>5. PICK copies : copies =
         {[item |-> i, back |-> loop.op.kind = "delete" /\ sent[i].state = "held"
                                   /\ sent[i].to = {}] :
            i \in {j \in Ours(loop.op.msg) : sent[j].state \in {"held", "delivered"}}}
  OBVIOUS
<1>6. PICK A, L, F :
        /\ A \subseteq {d \in Dev : Applies(has[d][o.msg], o.kind)}
        /\ L \subseteq {d \in Dev : Applies(has[d][o.msg], o.kind)}
        /\ L # {} => Upset("ack")
        /\ F # {} => Upset("disk")
        /\ IF L \cup F = {} THEN UNCHANGED upsets ELSE Count
        /\ has' = ApplyOn(A \cup L, o) /\ Written((A \cup L) \ F)
        /\ loop' = IF A = {} THEN Back ELSE [loop EXCEPT !.phase = "follow", !.copies = copies]
  <2>1. \E A, L, F \in SUBSET {d \in Dev : Applies(has[d][loop.op.msg], loop.op.kind)} :
        /\ L # {} => Upset("ack")
        /\ F # {} => Upset("disk")
        /\ IF L \cup F = {} THEN UNCHANGED upsets ELSE Count
        /\ has' = ApplyOn(A \cup L, loop.op) /\ Written((A \cup L) \ F)
        /\ loop' = IF A = {} THEN Back ELSE [loop EXCEPT !.phase = "follow", !.copies = copies]
    BY <1>5, Zenon DEF OpSend
  <2>2. QED
    BY <1>2, <2>1
<1>7. A \cup L \in SUBSET Dev /\ A \subseteq Dev /\ \A d \in A : Applies(has[d][o.msg], o.kind)
  BY <1>6
<1>8. /\ has' \in [Dev -> [Msg -> Version]] /\ HasGrows
      /\ \A d \in A \cup L : Applies(has[d][o.msg], o.kind) =>
            has'[d][o.msg] = (IF o.kind = "edit" THEN "new" ELSE "gone")
      /\ \A d \in Dev, n \in Msg : has'[d][n] = "gone" => has[d][n] = "gone" \/ n \in gone
  BY <1>1, <1>2, <1>6, <1>7, ApplyDoes
<1>9. Grows
  BY <1>4, <1>8, BoxSame DEF Grows
<1>10. upsets' \in 0 .. MaxUpsets
  <2>1. CASE L \cup F = {}
    BY <1>1, <1>6, <2>1 DEF TypeOK
  <2>2. CASE L # {}
    BY <1>1, <1>6, <2>2, CountTyped
  <2>3. CASE F # {}
    BY <1>1, <1>6, <2>3, CountTyped
  <2>4. QED
    BY <2>1, <2>2, <2>3
<1>11. \A c \in copies : /\ c.item \in Item /\ c.back \in BOOLEAN
                         /\ sent[c.item] # None /\ box[c.item].msg = o.msg
                         /\ c.back => o.kind = "delete"
  <2>1. SUFFICES ASSUME NEW c \in copies
                 PROVE  /\ c.item \in Item /\ c.back \in BOOLEAN
                        /\ sent[c.item] # None /\ box[c.item].msg = o.msg
                        /\ c.back => o.kind = "delete"
    OBVIOUS
  <2>2. PICK i \in Ours(o.msg) :
           c = [item |-> i, back |-> o.kind = "delete" /\ sent[i].state = "held" /\ sent[i].to = {}]
    BY <1>2, <1>5
  <2>3. i \in Item /\ sent[i] # None /\ box[i].msg = o.msg
    BY DEF Ours
  <2>4. c.item = i
    BY <2>2
  <2>5. c.back = (o.kind = "delete" /\ sent[i].state = "held" /\ sent[i].to = {})
    BY <2>2
  <2>6. c.back \in BOOLEAN /\ (c.back => o.kind = "delete")
    BY <2>5, Zenon
  <2>7. QED
    BY <2>3, <2>4, <2>6
<1>12. copies \subseteq [item : Item, back : BOOLEAN]
  <2>1. ASSUME NEW c \in copies PROVE c \in [item : Item, back : BOOLEAN]
    <3>1. PICK i, b : c = [item |-> i, back |-> b]
      BY <1>5
    <3>2. c.item = i /\ c.back = b
      BY <3>1
    <3>3. i \in Item /\ b \in BOOLEAN
      BY <1>11, <3>2
    <3>4. QED
      BY <3>1, <3>3
  <2>2. QED
    BY <2>1
<1>13. loop' \in LoopType /\ LoopInv'
  <2>1. CASE A = {}
    <3>1. loop' = Back
      BY <1>6, <2>1
    <3>2. loop' \in LoopType /\ loop'.phase = "ops" /\ loop'.ops = loop.ops
      BY <1>1, <3>1, BackIs
    <3>3. QED
      BY <1>4, <1>9, <3>2, LoopMoves
  <2>2. CASE A # {}
    <3>1. loop' = [loop EXCEPT !.phase = "follow", !.copies = copies]
      BY <1>6, <2>2
    <3>2. /\ loop' \in LoopType /\ loop'.phase = "follow" /\ loop'.op = o
          /\ loop'.ops = loop.ops /\ loop'.copies = copies
      BY <1>1, <1>2, <1>12, <3>1, LoopIs DEF LoopType
    <3>3. PICK d \in A : has'[d][o.msg] = (IF o.kind = "edit" THEN "new" ELSE "gone")
      BY <1>7, <1>8, <2>2
    <3>4. Landed(o)'
      BY <1>7, <3>3 DEF Landed, Shows
    <3>5. \A p \in ops \cup loop.ops : OpOK(p)'
      BY <1>1, <1>9, OpOKKept DEF LoopInv
    <3>6. OpOK(o)'
      BY <1>2, <1>9, OpOKKept
    <3>7. QED
      BY <1>4, <1>11, <3>2, <3>4, <3>5, <3>6 DEF LoopInv, OpOK, Landed, Shows
  <2>3. QED
    BY <2>1, <2>2
<1>14. TypeOK'
  <2>1. disk' \in [Dev -> [Msg -> Version]]
    BY <1>1, <1>6, <1>8, WrittenDoes
  <2>2. QED
    BY <1>1, <1>4, <1>8, <1>10, <1>13, <2>1 DEF TypeOK
<1>15. GoneInv'
  BY <1>4, <1>8 DEF GoneInv, ChatInv
<1>16. Real' /\ ReceiptInv' /\ ChangeInv'
  BY <1>4, <1>9, RealKept, ReceiptKept, ChangesKept
<1>17. (\A i \in Item : BoxInv(i)' /\ SentInv(i)') /\ (\A d \in Dev : SeenInv(d)')
       /\ \A w \in Worker : TaskInv(w)'
  BY <1>4, <1>9, BoxKept, LedgerKept, SeenKept, AllTasksKept
<1>18. QED
  BY <1>9, <1>13, <1>14, <1>15, <1>16, <1>17 DEF ChatInv

LEMMA FollowBackKeeps ==
    ASSUME ChatInv, NEW c \in loop.copies, FollowBack(c)
    PROVE  ChatInv' /\ Grows
<1>1. TypeOK /\ LoopInv /\ loop.phase = "follow" /\ c.back
  BY DEF ChatInv, FollowBack
<1>2. loop \in LoopType /\ loop.copies \subseteq [item : Item, back : BOOLEAN] /\ c.item \in Item
  BY <1>1, LoopIs
<1>3. PICK o \in Op : o = loop.op /\ OpOK(o)
  BY <1>1 DEF LoopInv
<1>4. sent[c.item] # None /\ box[c.item].msg = o.msg /\ o.kind = "delete"
  BY <1>1, <1>3 DEF LoopInv
<1>5. box[c.item].msg \in gone
  BY <1>3, <1>4 DEF OpOK
<1>6. PICK kept : kept = (loop.copies \ {c}) \cup {[item |-> c.item, back |-> FALSE]}
  OBVIOUS
<1>7. /\ kept \subseteq [item : Item, back : BOOLEAN]
      /\ \A k \in kept : \E b \in loop.copies : k.item = b.item /\ (k.back => b.back)
  <2>1. PICK r : r = [item |-> c.item, back |-> FALSE]
    OBVIOUS
  <2>2. r \in [item : Item, back : BOOLEAN] /\ r.item = c.item /\ r.back = FALSE
    BY <1>2, <2>1
  <2>3. \A k \in kept : k \in loop.copies \/ k = r
    BY <1>6, <2>1
  <2>4. QED
    BY <1>2, <2>2, <2>3
<1>8. PICK on : on = [loop EXCEPT !.copies = kept]
  OBVIOUS
<1>9. PICK off : off = [loop EXCEPT !.copies = loop.copies \ {c}]
  OBVIOUS
<1>10. ASSUME loop' = on \/ loop' = off
       PROVE  /\ loop' \in LoopType /\ loop'.phase = "follow" /\ loop'.op = loop.op
              /\ loop'.ops = loop.ops
              /\ \A k \in loop'.copies : \E b \in loop.copies : k.item = b.item /\ (k.back => b.back)
  <2>1. CASE loop' = on
    <3>1. /\ loop' \in LoopType /\ loop'.phase = "follow" /\ loop'.op = loop.op
          /\ loop'.ops = loop.ops /\ loop'.copies = kept
      BY <1>1, <1>2, <1>7, <1>8, <2>1 DEF LoopType
    <3>2. QED
      BY <1>7, <3>1
  <2>2. CASE loop' = off
    <3>1. /\ loop' \in LoopType /\ loop'.phase = "follow" /\ loop'.op = loop.op
          /\ loop'.ops = loop.ops /\ loop'.copies = loop.copies \ {c}
      BY <1>1, <1>2, <1>9, <2>2 DEF LoopType
    <3>2. QED
      BY <3>1
  <2>3. QED
    BY <1>10, <2>1, <2>2
<1>11. UNCHANGED <<chat, task, cancels, receipts, friend, closed>>
  BY DEF FollowBack
<1>12. UNCHANGED <<status, gaveUp, edited, gone, ops, has, disk, seen, fetch>>
  BY <1>11 DEF chat, friend
<1>13. ASSUME loop' = on \/ loop' = off, Grows PROVE LoopInv'
  BY <1>1, <1>10, <1>12, <1>13, FollowKept
<1>14. CASE loop' = on /\ UNCHANGED <<sent, box, upsets>>
  <2>1. Grows
    BY <1>1, <1>11, <1>12, <1>14, GrowsQuiet
  <2>2. loop' \in LoopType /\ LoopInv'
    BY <1>10, <1>13, <1>14, <2>1
  <2>3. QED
    BY <1>11, <1>14, <2>2, LoopSteps
<1>15. CASE /\ box' = Canceled(c.item) /\ (sent' = sent \/ sent' = Concluded(c.item))
            /\ (loop' = on \/ loop' = off)
            /\ (UNCHANGED upsets \/ (Upset("reply") /\ Count))
  <2>1. upsets' \in 0 .. MaxUpsets
    <3>1. CASE UNCHANGED upsets
      BY <1>1, <3>1 DEF TypeOK
    <3>2. CASE Upset("reply") /\ Count
      BY <1>1, <3>2, CountTyped
    <3>3. QED
      BY <1>15, <3>1, <3>2
  <2>2. status' \in [Msg -> Status] /\ gaveUp' \subseteq Msg /\ closed' \subseteq Op
    BY <1>1, <1>11, <1>12 DEF TypeOK
  <2>3. loop' \in LoopType /\ (Grows => LoopInv')
    BY <1>10, <1>13, <1>15
  <2>4. closed \subseteq closed' /\ ops' \subseteq ops /\ (\A p \in ops : p \in ops')
        /\ \A m \in Msg : status'[m] = "delivered" => status[m] = "delivered"
    BY <1>11, <1>12
  <2>5. UNCHANGED <<edited, gone, has, disk, seen, fetch, cancels, receipts, task>>
    BY <1>11, <1>12
  <2>6. QED
    BY <1>2, <1>4, <1>5, <1>15, <2>1, <2>2, <2>3, <2>4, <2>5, UnsendCancels
<1>16. QED
  BY <1>6, <1>8, <1>9, <1>14, <1>15 DEF FollowBack

LEMMA FollowDepositKeeps ==
    ASSUME ChatInv, NEW c \in loop.copies, FollowDeposit(c)
    PROVE  ChatInv' /\ Grows
<1>1. TypeOK /\ LoopInv /\ loop.phase = "follow"
  BY DEF ChatInv, FollowDeposit
<1>2. loop \in LoopType /\ c.item \in Item /\ loop.copies \subseteq [item : Item, back : BOOLEAN]
  BY <1>1, LoopIs
<1>3. PICK o \in Op : o = loop.op /\ OpOK(o)
  BY <1>1 DEF LoopInv
<1>4. o.msg \in Msg /\ o.kind \in OpKinds
  BY <1>3, OpIs
<1>5. loop' = [loop EXCEPT !.copies = loop.copies \ {c}]
  BY DEF FollowDeposit
<1>6. /\ loop' \in LoopType /\ loop'.phase = "follow" /\ loop'.op = loop.op
      /\ loop'.ops = loop.ops /\ loop'.copies = loop.copies \ {c}
  BY <1>1, <1>2, <1>5 DEF LoopType
<1>7. \A k \in loop'.copies : \E b \in loop.copies : k.item = b.item /\ (k.back => b.back)
  BY <1>6
<1>8. UNCHANGED <<chat, sent, task, cancels, receipts, friend, upsets, closed>>
  BY DEF FollowDeposit
<1>9. UNCHANGED <<status, gaveUp, edited, gone, ops, has, disk, seen, fetch>>
  BY <1>8 DEF chat, friend
<1>10. ASSUME Grows PROVE LoopInv'
  BY <1>1, <1>6, <1>7, <1>9, <1>10, FollowKept
<1>11. CASE UNCHANGED box
  <2>1. Grows
    BY <1>1, <1>8, <1>9, <1>11, GrowsQuiet
  <2>2. LoopInv'
    BY <1>10, <2>1
  <2>3. QED
    BY <1>6, <1>8, <1>11, <2>2, LoopSteps
<1>12. CASE Free # {} /\ Put(Min(Free), "op", o.msg, o.kind, box[c.item].to)
  <2>1. sent[c.item] # None /\ box[c.item] # None
    BY <1>1, <1>2 DEF LoopInv, ChatInv, SentInv
  <2>2. box[c.item].to \in SUBSET Dev /\ o.kind \in Text \cup OpKinds
        /\ (o.kind = "delete" => o.msg \in gone)
    BY <1>1, <1>2, <1>3, <1>4, <2>1, ItemIs DEF OpOK
  <2>3. box' \in [Item -> ServerItem \cup {None}] /\ BoxGrows
    BY <1>1, <1>4, <1>12, <2>2, PutDoes
  <2>4. TypeOK'
    BY <1>1, <1>6, <1>8, <1>9, <2>3 DEF TypeOK
  <2>5. Grows
    BY <1>1, <1>8, <1>9, <2>3, HasSame DEF Grows
  <2>6. /\ \A j \in Item : BoxInv(j)'
        /\ \A j \in Item, p \in Op : Waits(j, p) => Waits(j, p)'
    BY <1>4, <1>12, <2>2, <2>5, PutKept
  <2>7. ChangeInv'
    BY <1>9, <2>5, <2>6, WaitsKept
  <2>8. Real' /\ GoneInv' /\ LoopInv' /\ ReceiptInv'
    BY <1>8, <1>9, <1>10, <2>5, RealKept, GoneKept, ReceiptKept
  <2>9. (\A j \in Item : SentInv(j)') /\ (\A d \in Dev : SeenInv(d)') /\ \A w \in Worker : TaskInv(w)'
    BY <1>8, <1>9, <2>5, LedgerKept, SeenKept, AllTasksKept
  <2>10. QED
    BY <2>4, <2>5, <2>6, <2>7, <2>8, <2>9 DEF ChatInv
<1>13. QED
  BY <1>3, <1>11, <1>12 DEF FollowDeposit

LEMMA FollowDoneKeeps ==
    ASSUME ChatInv, FollowDone
    PROVE  ChatInv' /\ Grows
<1>1. TypeOK /\ LoopInv /\ loop.phase = "follow" /\ loop' = Back
  BY DEF ChatInv, FollowDone
<1>2. PICK o \in Op : o = loop.op /\ OpOK(o) /\ Landed(o)
  BY <1>1 DEF LoopInv
<1>3. loop' \in LoopType /\ loop'.phase = "ops" /\ loop'.ops = loop.ops
  BY <1>1, BackIs
<1>4. UNCHANGED <<status, gaveUp, edited, gone, sent, task, cancels, receipts, box, has, disk, seen, fetch, upsets, closed>>
      /\ ops' = ops \ {o}
  BY <1>2 DEF FollowDone, friend
<1>5. TypeOK'
  BY <1>1, <1>3, <1>4 DEF TypeOK
<1>6. Grows
  BY <1>1, <1>4, GrowsQuiet
<1>7. LoopInv'
  BY <1>3, <1>4, <1>6, LoopMoves
<1>8. ChangeInv'
  <2>1. ASSUME NEW p \in Op, p \in ops, Due(p) PROVE Remembered(p)'
    <3>1. CASE p = o
      <4>1. ~ (o.kind = "edit" /\ o.msg \in gone)
        BY <2>1, <3>1 DEF Due
      <4>2. o \in closed \/ \E d \in Dev : Shows(d, o.msg, o.kind)
        BY <1>2, <4>1 DEF Landed
      <4>3. QED
        BY <1>4, <3>1, <4>2 DEF Remembered, Shows
    <3>2. CASE p # o
      BY <1>4, <2>1, <3>2 DEF Remembered
    <3>3. QED
      BY <3>1, <3>2
  <2>2. ASSUME NEW p \in Op, NEW j \in Item, Waits(j, p) PROVE Remembered(p)'
    BY <1>4, <2>2 DEF Remembered, Waits
  <2>3. QED
    BY <1>4, <1>6, <2>1, <2>2, ChangeKept
<1>9. Real' /\ GoneInv' /\ ReceiptInv'
  BY <1>4, <1>6, RealKept, GoneKept, ReceiptKept
<1>10. (\A i \in Item : BoxInv(i)' /\ SentInv(i)') /\ (\A d \in Dev : SeenInv(d)')
       /\ \A w \in Worker : TaskInv(w)'
  BY <1>4, <1>6, BoxKept, LedgerKept, SeenKept, AllTasksKept
<1>11. QED
  BY <1>5, <1>6, <1>7, <1>8, <1>9, <1>10 DEF ChatInv

(***************************************************************************)
(* The mailbox client's background loop.                                   *)
(***************************************************************************)
\* What a step on the ledger and the server's items leaves alone.
LEMMA BackgroundKeeps ==
    ASSUME ChatInv, Grows, TypeOK', ReceiptInv',
           \A i \in Item : BoxInv(i)' /\ SentInv(i)',
           \A j \in Item, o \in Op : Waits(j, o) => Waits(j, o)',
           UNCHANGED <<edited, gone, ops, loop, task, has, disk, seen, fetch>>,
           \A n \in Msg : status'[n] = "delivered" =>
               status[n] = "delivered" \/ \E d \in Dev : Has(d, n)
    PROVE  ChatInv'
<1>1. Real' /\ GoneInv' /\ LoopInv' /\ ChangeInv'
  BY RealKept, GoneKept, LoopKept, WaitsKept
<1>2. (\A d \in Dev : SeenInv(d)') /\ \A w \in Worker : TaskInv(w)'
  BY SeenKept, AllTasksKept
<1>3. QED
  BY <1>1, <1>2 DEF ChatInv

LEMMA CancelOnKeeps ==
    ASSUME ChatInv, NEW i \in Item, CancelOn(i)
    PROVE  ChatInv' /\ Grows
<1>1. TypeOK /\ SentInv(i)
  BY DEF ChatInv
<1>2. sent[i] # None /\ box[i] # None /\ box[i].kind = "chat" /\ Freed(i)
  BY <1>1 DEF SentInv, CancelOn
<1>3. PICK cancel \in BOOLEAN : sent' = [sent EXCEPT ![i].cancel = cancel]
  BY DEF CancelOn
<1>4. cancels' = cancels \ {i} /\ UNCHANGED <<chat, task, loop, receipts, friend, closed>>
  BY DEF CancelOn
<1>5. UNCHANGED <<status, gaveUp, edited, gone, ops, has, disk, seen, fetch>>
  BY <1>4 DEF chat, friend
<1>6. PICK l : l = [sent[i] EXCEPT !.cancel = cancel]
  OBVIOUS
<1>7. sent[i] \in Sent
  BY <1>1, <1>2, LineIs
<1>8. l \in Sent /\ l.to = sent[i].to
  BY <1>6, <1>7 DEF Sent
<1>9. l # None
  BY <1>8, NoneAssumption
<1>10. /\ sent'[i] = l /\ \A j \in Item : j # i => sent'[j] = sent[j]
       /\ sent' \in [Item -> Sent \cup {None}]
  BY <1>1, <1>3, <1>6, <1>8 DEF TypeOK
<1>11. box' = Canceled(i) \/ box' = box
  BY DEF CancelOn
<1>12. upsets' \in 0 .. MaxUpsets
  <2>1. CASE UNCHANGED upsets
    BY <1>1, <2>1 DEF TypeOK
  <2>2. CASE Upset("reply") /\ Count
    BY <1>1, <2>2, CountTyped
  <2>3. QED
    BY <2>1, <2>2 DEF CancelOn
<1>13. box' \in [Item -> ServerItem \cup {None}] /\ BoxGrows
  BY <1>1, <1>11, CanceledDoes, BoxSame DEF TypeOK
<1>14. TypeOK'
  BY <1>1, <1>4, <1>5, <1>10, <1>12, <1>13 DEF TypeOK
<1>15. Grows
  BY <1>1, <1>2, <1>4, <1>5, <1>9, <1>10, <1>13, HasSame DEF Grows
<1>16. /\ \A j \in Item : BoxInv(j)'
       /\ \A j \in Item, o \in Op : Waits(j, o) => Waits(j, o)'
  <2>1. CASE box' = Canceled(i)
    BY <1>2, <1>15, <2>1, CancelKept
  <2>2. CASE box' = box
    BY <1>15, <2>2, BoxKept DEF Waits
  <2>3. QED
    BY <1>11, <2>1, <2>2
<1>17. SentInv(i)'
  <2>1. Freed(i)'
    BY <1>1, <1>2, <1>15, FreedKept
  <2>2. box'[i] # None /\ box'[i].kind = "chat" /\ box'[i].msg = box[i].msg
    BY <1>2, <1>15 DEF Grows, BoxGrows
  <2>3. \A d \in sent[i].to : has'[d][box[i].msg] # "none"
    BY <1>1, <1>2, <1>5 DEF SentInv, Has
  <2>4. QED
    BY <1>4, <1>8, <1>10, <2>1, <2>2, <2>3 DEF SentInv, Has
<1>18. \A j \in Item : SentInv(j)'
  <2>1. ASSUME NEW j \in Item, j # i PROVE SentInv(j)'
    BY <1>4, <1>10, <1>15, <2>1, LineKept
  <2>2. QED
    BY <1>17, <2>1
<1>19. ReceiptInv'
  BY <1>4, <1>15, ReceiptKept
<1>20. QED
  BY <1>4, <1>5, <1>14, <1>15, <1>16, <1>18, <1>19, BackgroundKeeps

LEMMA RefreshAskKeeps ==
    ASSUME ChatInv, RefreshAsk
    PROVE  ChatInv' /\ Grows
<1>1. TypeOK
  BY DEF ChatInv
<1>2. PICK S \in SUBSET {i \in Item : sent[i] # None} : receipts' = [phase |-> "asked", set |-> S]
  BY DEF RefreshAsk
<1>3. UNCHANGED <<status, gaveUp, edited, gone, ops, sent, task, loop, cancels, box, has, disk, seen, fetch, upsets, closed>>
  BY DEF RefreshAsk, chat, friend
<1>4. receipts'.phase = "asked" /\ receipts'.set = S /\ receipts' \in ReceiptsType
  BY <1>2 DEF ReceiptsType
<1>5. TypeOK'
  BY <1>1, <1>3, <1>4 DEF TypeOK
<1>6. Grows
  BY <1>1, <1>3, GrowsQuiet
<1>7. ReceiptInv'
  BY <1>3, <1>4 DEF ReceiptInv
<1>8. (\A i \in Item : BoxInv(i)' /\ SentInv(i)')
      /\ \A j \in Item, o \in Op : Waits(j, o) => Waits(j, o)'
  BY <1>3, <1>6, BoxKept, LedgerKept DEF Waits
<1>9. QED
  BY <1>3, <1>5, <1>6, <1>7, <1>8, BackgroundKeeps

LEMMA NoReceiptsTyped == NoReceipts \in ReceiptsType /\ NoReceipts.phase = "none"
BY DEF NoReceipts, ReceiptsType

\* What the ledger learns of an item is true: the devices named took it.
LEMMA LearnDoes ==
    ASSUME ChatInv, receipts.phase = "asked", NEW S \in SUBSET receipts.set, NEW F,
           Learn(S, F), UNCHANGED <<sent, box, has>>
    PROVE  receipts' \in ReceiptsType /\ ReceiptInv'
<1>1. TypeOK /\ ReceiptInv
  BY DEF ChatInv
<1>2. receipts.set \subseteq Item /\ \A i \in receipts.set : sent[i] # None
  BY <1>1 DEF TypeOK, ReceiptsType, ReceiptInv
<1>3. CASE S = {}
  BY <1>3, NoReceiptsTyped DEF Learn, ReceiptInv
<1>4. CASE S # {}
  <2>1. PICK R : R = {Learned(i, F) : i \in S}
    OBVIOUS
  <2>2. receipts' = [phase |-> "answered", set |-> R]
    BY <1>4, <2>1 DEF Learn
  <2>3. ASSUME NEW r \in R
        PROVE  /\ r \in Receipt /\ sent[r.item] # None
               /\ r.state = "delivered" => r.to # {}
               /\ \A d \in r.to : Has(d, box[r.item].msg)
    <3>1. PICK i \in S : r = Learned(i, F)
      BY <2>1
    <3>2. i \in Item /\ sent[i] # None
      BY <1>2
    <3>3. box[i] # None /\ box[i].kind = "chat"
      BY <3>2 DEF ChatInv, SentInv
    <3>4. box[i].state \in ItemState /\ box[i].delivered \subseteq Dev
      BY <1>1, <3>2, <3>3, ItemIs
    <3>5. (box[i].state = "delivered" => box[i].delivered # {})
          /\ \A d \in box[i].delivered : i \in seen[d]
      BY <3>2, <3>3 DEF ChatInv, BoxInv
    <3>6. \A d \in box[i].delivered : Has(d, box[i].msg)
      BY <3>3, <3>4, <3>5 DEF ChatInv, SeenInv
    <3>7. CASE i \in F
      <4>1. r = [item |-> i, state |-> "lost", to |-> {}]
        BY <3>1, <3>7 DEF Learned
      <4>2. QED
        BY <3>2, <4>1 DEF Receipt, SentState
    <3>8. CASE i \notin F
      <4>1. r = [item |-> i, state |-> box[i].state, to |-> box[i].delivered]
        BY <3>1, <3>8 DEF Learned
      <4>2. r.item = i /\ r.state = box[i].state /\ r.to = box[i].delivered
        BY <4>1
      <4>3. r \in Receipt
        BY <3>2, <3>4, <4>1 DEF Receipt, SentState
      <4>4. QED
        BY <3>2, <3>5, <3>6, <4>2, <4>3
    <3>9. QED
      BY <3>7, <3>8
  <2>4. R \subseteq Receipt
    BY <2>3
  <2>5. receipts' \in ReceiptsType /\ receipts'.phase = "answered" /\ receipts'.set = R
    BY <2>2, <2>4 DEF ReceiptsType
  <2>6. QED
    BY <2>3, <2>5 DEF ReceiptInv, Has
<1>5. QED
  BY <1>3, <1>4

\* The server's answer, or its silence, changes nothing but what is learned.
LEMMA LearnKeeps ==
    ASSUME ChatInv, receipts.phase = "asked", NEW S \in SUBSET receipts.set, NEW F,
           Learn(S, F), IF F = {} THEN UNCHANGED upsets ELSE Upset("forget") /\ Count,
           UNCHANGED <<chat, sent, task, loop, cancels, box, friend, closed>>
    PROVE  ChatInv' /\ Grows
<1>1. TypeOK
  BY DEF ChatInv
<1>2. UNCHANGED <<status, gaveUp, edited, gone, ops, sent, task, loop, cancels, box, has, disk, seen, fetch, closed>>
  BY DEF chat, friend
<1>3. receipts' \in ReceiptsType /\ ReceiptInv'
  BY <1>2, LearnDoes
<1>4. upsets' \in 0 .. MaxUpsets
  <2>1. CASE F = {}
    BY <1>1, <2>1 DEF TypeOK
  <2>2. CASE F # {}
    BY <1>1, <2>2, CountTyped
  <2>3. QED
    BY <2>1, <2>2
<1>5. TypeOK'
  BY <1>1, <1>2, <1>3, <1>4 DEF TypeOK
<1>6. Grows
  BY <1>1, <1>2, GrowsQuiet
<1>7. (\A i \in Item : BoxInv(i)' /\ SentInv(i)')
      /\ \A j \in Item, o \in Op : Waits(j, o) => Waits(j, o)'
  BY <1>2, <1>6, BoxKept, LedgerKept DEF Waits
<1>8. QED
  BY <1>2, <1>3, <1>5, <1>6, <1>7, BackgroundKeeps

LEMMA RefreshLostKeeps ==
    ASSUME ChatInv, RefreshLost
    PROVE  ChatInv' /\ Grows
<1>1. PICK F \in SUBSET receipts.set :
        /\ IF F = {} THEN UNCHANGED upsets ELSE Upset("forget") /\ Count
        /\ Learn(F, F)
  BY DEF RefreshLost
<1>2. receipts.phase = "asked" /\ UNCHANGED <<chat, sent, task, loop, cancels, box, friend, closed>>
  BY DEF RefreshLost
<1>3. QED
  BY <1>1, <1>2, LearnKeeps

LEMMA RefreshAnswerKeeps ==
    ASSUME ChatInv, RefreshAnswer
    PROVE  ChatInv' /\ Grows
<1>1. PICK S \in SUBSET receipts.set :
        S = {i \in receipts.set : box[i].state # "held" \/ ~(box[i].delivered \subseteq sent[i].to)}
  OBVIOUS
<1>2. PICK F :
        /\ IF F = {} THEN UNCHANGED upsets ELSE Upset("forget") /\ Count
        /\ Learn(S, F)
  BY <1>1 DEF RefreshAnswer
<1>3. receipts.phase = "asked" /\ UNCHANGED <<chat, sent, task, loop, cancels, box, friend, closed>>
  BY DEF RefreshAnswer
<1>4. QED
  BY <1>2, <1>3, LearnKeeps

\* The ledger learns which devices took an item; they noted its id.
LEMMA RefreshLedgerKeeps ==
    ASSUME ChatInv, RefreshLedger
    PROVE  ChatInv' /\ Grows
<1>1. TypeOK /\ receipts.phase = "answered" /\ ReceiptInv
  BY DEF ChatInv, RefreshLedger
<1>2. receipts \in ReceiptsType /\ receipts.set \subseteq Receipt
  BY <1>1 DEF TypeOK, ReceiptsType
<1>3. UNCHANGED <<status, gaveUp, edited, gone, ops, task, loop, cancels, box, has, disk, seen, fetch, upsets, closed>>
  BY DEF RefreshLedger, chat, friend
<1>4. PICK S \in SUBSET Item : S = {i \in Item : \E r \in receipts.set : r.item = i}
  OBVIOUS
<1>5. ASSUME NEW i \in S
      PROVE  \E r \in receipts.set :
                r.item = i /\ sent'[i] = [sent[i] EXCEPT !.state = r.state, !.to = sent[i].to \cup r.to]
  <2>1. PICK r : r = CHOOSE q \in receipts.set : q.item = i
    OBVIOUS
  <2>2. r \in receipts.set /\ r.item = i
    BY <1>4, <2>1
  <2>3. sent'[i] = [sent[i] EXCEPT !.state = r.state, !.to = sent[i].to \cup r.to]
    BY <1>4, <2>1, <2>2 DEF RefreshLedger
  <2>4. QED
    BY <2>2, <2>3
<1>6. \A i \in Item : i \notin S => sent'[i] = sent[i]
  BY <1>4 DEF RefreshLedger
<1>7. ASSUME NEW i \in S
      PROVE  /\ sent[i] # None /\ box[i] # None /\ box[i].kind = "chat"
             /\ sent'[i] \in Sent /\ sent'[i] # None
             /\ sent'[i].cancel = sent[i].cancel
             /\ \A d \in sent'[i].to : Has(d, box[i].msg)
  <2>1. PICK r \in receipts.set :
          r.item = i /\ sent'[i] = [sent[i] EXCEPT !.state = r.state, !.to = sent[i].to \cup r.to]
    BY <1>5
  <2>2. r.state \in SentState /\ r.to \subseteq Dev
    BY <1>2 DEF Receipt
  <2>3. sent[i] # None /\ \A d \in r.to : Has(d, box[i].msg)
    BY <1>1, <2>1 DEF ReceiptInv
  <2>4. box[i] # None /\ box[i].kind = "chat" /\ \A d \in sent[i].to : Has(d, box[i].msg)
    BY <2>3 DEF ChatInv, SentInv
  <2>5. sent[i] \in Sent /\ sent[i].to \subseteq Dev
    BY <1>1, <2>3, LineIs
  <2>6. PICK l : l = [sent[i] EXCEPT !.state = r.state, !.to = sent[i].to \cup r.to]
    OBVIOUS
  <2>7. l \in Sent /\ l.to = sent[i].to \cup r.to /\ l.cancel = sent[i].cancel
    BY <2>2, <2>5, <2>6 DEF Sent
  <2>8. sent'[i] = l
    BY <2>1, <2>6
  <2>9. QED
    BY <2>3, <2>4, <2>7, <2>8, NoneAssumption
<1>8. sent' \in [Item -> Sent \cup {None}]
  <2>1. \A i \in Item : sent[i] \in Sent \cup {None}
    BY <1>1 DEF TypeOK
  <2>2. \A i \in Item : sent'[i] \in Sent \cup {None}
    BY <1>6, <1>7, <2>1
  <2>3. sent' = [i \in Item |-> sent'[i]]
    BY DEF RefreshLedger
  <2>4. QED
    BY <2>2, <2>3
<1>9. \A i \in Item : sent[i] # None => sent'[i] # None
  BY <1>6, <1>7
<1>10. receipts' \in ReceiptsType /\ ReceiptInv'
  <2>1. receipts' = [receipts EXCEPT !.phase = "apply"]
    BY DEF RefreshLedger
  <2>2. /\ receipts' \in ReceiptsType /\ receipts'.phase = "apply"
        /\ receipts'.set = receipts.set
    BY <1>1, <1>2, <2>1 DEF ReceiptsType
  <2>3. ASSUME NEW r \in receipts.set
        PROVE  /\ sent'[r.item] # None
               /\ r.state = "delivered" => r.to # {}
               /\ \A d \in r.to : Has(d, box[r.item].msg)
    <3>1. r.item \in Item
      BY <1>2 DEF Receipt
    <3>2. QED
      BY <1>1, <1>9, <3>1 DEF ReceiptInv
  <2>4. QED
    BY <1>3, <2>2, <2>3 DEF ReceiptInv, Has
<1>11. TypeOK'
  BY <1>1, <1>3, <1>8, <1>10 DEF TypeOK
<1>12. Grows
  BY <1>1, <1>3, <1>9, GrowsQuiet
<1>13. ASSUME NEW i \in Item PROVE SentInv(i)'
  <2>1. CASE i \in S
    <3>1. (sent[i].cancel => Freed(i)) /\ (i \in cancels => Freed(i))
      BY <1>7, <2>1 DEF ChatInv, SentInv
    <3>2. QED
      BY <1>3, <1>7, <2>1, <3>1 DEF SentInv, Freed, Has
  <2>2. CASE i \notin S
    BY <1>3, <1>6, <1>12, <2>2, LineKept
  <2>3. QED
    BY <2>1, <2>2
<1>14. (\A i \in Item : BoxInv(i)') /\ \A j \in Item, o \in Op : Waits(j, o) => Waits(j, o)'
  BY <1>3, <1>12, BoxKept DEF Waits
<1>15. QED
  BY <1>3, <1>10, <1>11, <1>12, <1>13, <1>14, BackgroundKeeps

LEMMA RefreshApplyKeeps ==
    ASSUME ChatInv, NEW r \in receipts.set, RefreshApply(r)
    PROVE  ChatInv' /\ Grows
<1>1. TypeOK /\ receipts.phase = "apply" /\ ReceiptInv
  BY DEF ChatInv, RefreshApply
<1>2. receipts \in ReceiptsType /\ receipts.set \subseteq Receipt
  BY <1>1 DEF TypeOK, ReceiptsType
<1>3. /\ r.item \in Item /\ r.to \subseteq Dev /\ sent[r.item] # None
      /\ r.state = "delivered" => r.to # {}
      /\ \A d \in r.to : Has(d, box[r.item].msg)
  BY <1>1, <1>2 DEF ReceiptInv, Receipt
<1>4. box[r.item].msg \in Msg
  <2>1. box[r.item] # None
    BY <1>3 DEF ChatInv, SentInv
  <2>2. QED
    BY <1>1, <1>3, <2>1, ItemIs
<1>5. UNCHANGED <<edited, gone, ops, sent, task, loop, cancels, box, has, disk, seen, fetch, upsets, closed>>
  BY DEF RefreshApply, friend
<1>6. /\ status' \in [Msg -> Status] /\ gaveUp' \subseteq Msg
      /\ \A n \in Msg : status'[n] = "delivered" =>
            status[n] = "delivered" \/ \E d \in Dev : Has(d, n)
  <2>1. CASE UNCHANGED <<status, gaveUp>>
    BY <1>1, <2>1 DEF TypeOK
  <2>2. CASE Verdict(r) = "delivered" /\ SetStatus(box[r.item].msg, "delivered")
    <3>1. r.to # {}
      BY <1>3, <2>2, Zenon DEF Verdict
    <3>2. PICK d \in Dev : Has(d, box[r.item].msg)
      BY <1>3, <3>1
    <3>3. "delivered" \in Status
      BY DEF Status
    <3>4. /\ status' \in [Msg -> Status] /\ gaveUp' \subseteq Msg
          /\ \A n \in Msg : status'[n] = "delivered" =>
                status[n] = "delivered" \/ n = box[r.item].msg
      BY <1>1, <1>4, <2>2, <3>3, SetStatusDoes
    <3>5. QED
      BY <3>2, <3>4
  <2>3. CASE SetServerFailed(box[r.item].msg)
    BY <1>1, <1>4, <2>3, SetServerFailedDoes
  <2>4. QED
    BY <2>1, <2>2, <2>3 DEF RefreshApply
<1>7. receipts' \in ReceiptsType /\ ReceiptInv'
  <2>1. CASE receipts' = NoReceipts
    BY <2>1, NoReceiptsTyped DEF ReceiptInv
  <2>2. CASE receipts' = [receipts EXCEPT !.set = receipts.set \ {r}]
    <3>1. /\ receipts' \in ReceiptsType /\ receipts'.phase = receipts.phase
          /\ receipts'.set = receipts.set \ {r}
      BY <1>1, <1>2, <2>2 DEF ReceiptsType
    <3>2. Grows
      BY <1>1, <1>5, GrowsQuiet
    <3>3. QED
      BY <3>1, <3>2, ReceiptKept
  <2>3. QED
    BY <2>1, <2>2 DEF RefreshApply
<1>8. TypeOK'
  BY <1>1, <1>5, <1>6, <1>7 DEF TypeOK
<1>9. Grows
  BY <1>1, <1>5, GrowsQuiet
<1>10. (\A i \in Item : BoxInv(i)' /\ SentInv(i)')
      /\ \A j \in Item, o \in Op : Waits(j, o) => Waits(j, o)'
  BY <1>5, <1>9, BoxKept, LedgerKept DEF Waits
<1>11. QED
  BY <1>5, <1>6, <1>7, <1>8, <1>9, <1>10, BackgroundKeeps

(***************************************************************************)
(* A device of the friend.                                                 *)
(***************************************************************************)
LEMMA FetchIs ==
    ASSUME TypeOK, NEW d \in Dev
    PROVE  /\ fetch[d] \in FetchType /\ fetch[d].list \subseteq Item
           /\ fetch[d].item \in Item \cup {None} /\ fetch[d].ok \in BOOLEAN
<1>1. fetch[d] \in FetchType
  BY DEF TypeOK
<1>2. QED
  BY <1>1 DEF FetchType

\* A device goes on with its fetch; it notes an id only with what it stands for.
LEMMA FetchKeeps ==
    ASSUME ChatInv, NEW d \in Dev, NEW f \in FetchType, fetch' = [fetch EXCEPT ![d] = f],
           \A j \in f.list : box[j] # None,
           UNCHANGED <<chat, sent, work, box>>,
           has' \in [Dev -> [Msg -> Version]], HasGrows, disk' \in [Dev -> [Msg -> Version]],
           \A e \in Dev, n \in Msg : has'[e][n] = "gone" => has[e][n] = "gone" \/ n \in gone,
           upsets' \in 0 .. MaxUpsets, closed \subseteq closed', closed' \subseteq Op,
           \/ UNCHANGED seen /\ (f.item # None /\ f.ok => f.item \in seen[d])
           \/ \E i \in Item :
                 /\ seen' = [seen EXCEPT ![d] = seen[d] \cup {i}] /\ f.item = i /\ box[i] # None
                 /\ box[i].kind = "chat" => has'[d][box[i].msg] # "none"
                 /\ box[i].kind = "op" => Settled(d, OpOf(i))'
    PROVE  ChatInv' /\ Grows
<1>1. TypeOK /\ UNCHANGED <<status, gaveUp, edited, gone, ops, task, loop, cancels, receipts>>
  BY DEF ChatInv, chat, work
<1>2. /\ fetch' \in [Dev -> FetchType] /\ fetch'[d] = f
      /\ \A e \in Dev : e # d => fetch'[e] = fetch[e]
  BY <1>1 DEF TypeOK
<1>3. /\ seen' \in [Dev -> SUBSET Item] /\ seen[d] \subseteq seen'[d]
      /\ \A e \in Dev : e # d => seen'[e] = seen[e]
      /\ f.item # None /\ f.ok => f.item \in seen'[d]
      /\ \A i \in seen'[d] : i \in seen[d] \/
            (/\ box[i] # None
             /\ box[i].kind = "chat" => has'[d][box[i].msg] # "none"
             /\ box[i].kind = "op" => Settled(d, OpOf(i))')
  BY SMTT(60), <1>1 DEF TypeOK
<1>4. TypeOK'
  BY <1>1, <1>2, <1>3 DEF TypeOK
<1>5. Grows
  BY <1>1, <1>3, BoxSame DEF Grows
<1>6. SeenInv(d)'
  <2>1. ASSUME NEW i \in seen'[d]
        PROVE  /\ box'[i] # None
               /\ box'[i].kind = "chat" => has'[d][box'[i].msg] # "none"
               /\ box'[i].kind = "op" => Settled(d, OpOf(i))'
    <3>1. CASE i \in seen[d]
      BY <1>5, <3>1, NotedKept
    <3>2. CASE i \notin seen[d]
      BY <1>3, <3>2
    <3>3. QED
      BY <3>1, <3>2
  <2>2. \A i \in fetch'[d].list : box'[i] # None
    BY <1>2
  <2>3. fetch'[d].item # None /\ fetch'[d].ok => fetch'[d].item \in seen'[d]
    BY <1>2, <1>3
  <2>4. QED
    BY <2>1, <2>2, <2>3 DEF SeenInv, Has
<1>7. \A e \in Dev : SeenInv(e)'
  <2>1. ASSUME NEW e \in Dev, e # d PROVE SeenInv(e)'
    BY <1>2, <1>3, <1>5, <2>1, DeviceKept
  <2>2. QED
    BY <1>6, <2>1
<1>8. GoneInv'
  BY <1>1 DEF GoneInv, ChatInv
<1>9. Real' /\ LoopInv' /\ ReceiptInv' /\ ChangeInv'
  BY <1>1, <1>5, RealKept, LoopKept, ReceiptKept, ChangesKept
<1>10. (\A i \in Item : BoxInv(i)' /\ SentInv(i)') /\ \A w \in Worker : TaskInv(w)'
  BY <1>1, <1>5, BoxKept, LedgerKept, AllTasksKept
<1>11. QED
  BY <1>4, <1>5, <1>7, <1>8, <1>9, <1>10 DEF ChatInv

LEMMA FetchListKeeps ==
    ASSUME ChatInv, NEW d \in Dev, FetchList(d)
    PROVE  ChatInv' /\ Grows
<1>1. TypeOK /\ fetch[d] = NoFetch
  BY DEF ChatInv, FetchList
<1>2. Waiting(d) \subseteq Item /\ \A j \in Waiting(d) : box[j] # None
  BY DEF Waiting, HeldItem
<1>3. PICK f : f = [fetch[d] EXCEPT !.list = Waiting(d)]
  OBVIOUS
<1>4. f \in FetchType /\ f.list = Waiting(d) /\ f.item = None
  <2>1. fetch[d] \in FetchType
    BY <1>1, FetchIs
  <2>2. fetch[d].item = None
    BY <1>1 DEF NoFetch
  <2>3. QED
    BY <1>2, <1>3, <2>1, <2>2 DEF FetchType
<1>5. fetch' = [fetch EXCEPT ![d] = f]
  BY <1>3 DEF FetchList
<1>6. UNCHANGED <<chat, sent, work, box, has, disk, seen, upsets, closed>>
  BY DEF FetchList
<1>7. HasGrows /\ has' \in [Dev -> [Msg -> Version]] /\ disk' \in [Dev -> [Msg -> Version]] /\ upsets' \in 0 .. MaxUpsets
      /\ closed' \subseteq Op /\ closed \subseteq closed'
  BY <1>1, <1>6, HasSame DEF TypeOK
<1>8. QED
  BY <1>2, <1>4, <1>5, <1>6, <1>7, FetchKeeps

\* What a device does with the content of an item.
LEMMA TakeDoes ==
    ASSUME ChatInv, NEW d \in Dev, NEW i \in Item, box[i] # None,
           has' = [has EXCEPT ![d][box[i].msg] =
                     IF box[i].kind = "chat" THEN Stored(has[d][box[i].msg], box[i].what)
                     ELSE Applied(has[d][box[i].msg], box[i].what)],
           closed \subseteq closed'
    PROVE  /\ has' \in [Dev -> [Msg -> Version]] /\ HasGrows
           /\ \A e \in Dev, n \in Msg : has'[e][n] = "gone" => has[e][n] = "gone" \/ n \in gone
           /\ box[i].kind = "chat" => has'[d][box[i].msg] # "none"
           /\ box[i].kind = "op" /\ Applies(has[d][box[i].msg], box[i].what) =>
                 has'[d][box[i].msg] = (IF box[i].what = "edit" THEN "new" ELSE "gone")
<1>1. TypeOK /\ BoxInv(i)
  BY DEF ChatInv
<1>2. PICK m \in Msg : m = box[i].msg
  BY <1>1, ItemIs
<1>3. box[i].kind = "chat" \/ box[i].kind = "op"
  BY <1>1, ItemIs
<1>4. PICK new : new = IF box[i].kind = "chat" THEN Stored(has[d][m], box[i].what)
                       ELSE Applied(has[d][m], box[i].what)
  OBVIOUS
<1>5. has' = [has EXCEPT ![d] = [has[d] EXCEPT ![m] = new]]
  BY <1>2, <1>4
<1>6. has[d][m] \in Version
  BY <1>1, HasIs
<1>7. /\ new \in Version /\ (has[d][m] # "none" => new # "none")
      /\ has[d][m] = "gone" => new = "gone"
      /\ new = "gone" => has[d][m] = "gone" \/ m \in gone
      /\ has[d][m] = "new" => new = "new" \/ (new = "gone" /\ m \in gone)
      /\ box[i].kind = "chat" => new # "none"
      /\ box[i].kind = "op" /\ Applies(has[d][m], box[i].what) =>
            new = (IF box[i].what = "edit" THEN "new" ELSE "gone")
  <2>1. CASE box[i].kind = "chat"
    <3>1. box[i].what \in Text
      BY <1>1, <2>1 DEF BoxInv
    <3>2. new = Stored(has[d][m], box[i].what)
      BY <1>4, <2>1
    <3>3. /\ new \in Version /\ new # "none" /\ (has[d][m] # "none" => new = has[d][m])
          /\ new = "gone" => has[d][m] = "gone"
      BY <1>6, <3>1, <3>2, StoredIs
    <3>4. QED
      BY <2>1, <3>3
  <2>2. CASE box[i].kind = "op"
    <3>1. (box[i].what = "edit" \/ box[i].what = "delete") /\ (box[i].what = "delete" => m \in gone)
      BY <1>1, <1>2, <2>2, ChatAssumption DEF BoxInv, OpOK, OpOf
    <3>2. new = Applied(has[d][m], box[i].what)
      BY <1>4, <2>2
    <3>3. /\ new \in Version
          /\ has[d][m] # "none" => new # "none"
          /\ has[d][m] = "gone" => new = "gone"
          /\ new = "gone" => has[d][m] = "gone" \/ box[i].what = "delete"
          /\ has[d][m] = "new" => new = "new" \/ box[i].what = "delete"
          /\ Applies(has[d][m], box[i].what) => new = (IF box[i].what = "edit" THEN "new" ELSE "gone")
      BY <1>6, <3>1, <3>2, AppliedIs
    <3>4. has[d][m] = "new" /\ box[i].what = "delete" => Applies(has[d][m], box[i].what)
      BY DEF Applies
    <3>5. has[d][m] = "new" /\ box[i].what = "delete" => new = "gone"
      BY <3>3, <3>4
    <3>6. QED
      BY <2>2, <3>1, <3>3, <3>5
  <2>3. QED
    BY <1>3, <2>1, <2>2
<1>8. \A e \in Dev : has[e] \in [Msg -> Version]
  BY <1>1 DEF TypeOK
<1>9. /\ has' \in [Dev -> [Msg -> Version]]
      /\ \A e \in Dev, n \in Msg : has'[e][n] = IF e = d /\ n = m THEN new ELSE has[e][n]
  <2>1. PICK row : row = [has[d] EXCEPT ![m] = new]
    OBVIOUS
  <2>2. row \in [Msg -> Version] /\ \A n \in Msg : row[n] = IF n = m THEN new ELSE has[d][n]
    BY <1>7, <1>8, <2>1
  <2>3. has' = [has EXCEPT ![d] = row] /\ has \in [Dev -> [Msg -> Version]]
    BY <1>1, <1>5, <2>1 DEF TypeOK
  <2>4. QED
    BY <2>2, <2>3
<1>10. HasGrows
  BY <1>2, <1>7, <1>9, VersionsGrow
<1>11. QED
  BY <1>2, <1>7, <1>9, <1>10

\* After a change is applied, the device is done with it.
LEMMA AppliedSettles ==
    ASSUME NEW d \in Dev, NEW o \in Op, has'[d][o.msg] = (IF o.kind = "edit" THEN "new" ELSE "gone")
    PROVE  Settled(d, o)'
BY DEF Settled, Shows

LEMMA FetchTakeKeeps ==
    ASSUME ChatInv, NEW d \in Dev, FetchTake(d)
    PROVE  ChatInv' /\ Grows
<1>1. TypeOK /\ SeenInv(d) /\ fetch[d].list # {} /\ fetch[d].item = None
  BY DEF ChatInv, FetchTake
<1>2. fetch[d] \in FetchType /\ fetch[d].list \subseteq Item
  BY <1>1, FetchIs
<1>3. PICK i \in fetch[d].list : i = Min(fetch[d].list)
  BY <1>1, <1>2, MinIsIn
<1>4. i \in Item /\ box[i] # None /\ (\A j \in fetch[d].list : box[j] # None) /\ i # None
  BY <1>1, <1>2, NoneAssumption DEF SeenInv
<1>5. box[i].msg \in Msg /\ (box[i].kind = "chat" \/ box[i].kind = "op")
  BY <1>1, <1>4, ItemIs
<1>6. UNCHANGED <<chat, sent, work, box>>
  BY DEF FetchTake
<1>7. UNCHANGED <<gone>>
  BY <1>6 DEF chat
<1>8. PICK rest : rest = fetch[d].list \ {i}
  OBVIOUS
<1>9. rest \subseteq Item /\ \A j \in rest : box[j] # None
  BY <1>2, <1>4, <1>8
<1>10. PICK leave : leave = [fetch[d] EXCEPT !.list = rest]
  OBVIOUS
<1>11. leave \in FetchType /\ leave.list = rest /\ leave.item = None
  BY <1>1, <1>2, <1>9, <1>10 DEF FetchType
<1>12. PICK take : take = [list |-> rest, item |-> i, ok |-> TRUE]
  OBVIOUS
<1>13. take \in FetchType /\ take.list = rest /\ take.item = i /\ take.ok = TRUE
  BY <1>4, <1>9, <1>12 DEF FetchType
<1>14. PICK turn : turn = [list |-> rest, item |-> i, ok |-> FALSE]
  OBVIOUS
<1>15. turn \in FetchType /\ turn.list = rest /\ turn.item = i /\ turn.ok = FALSE
  BY <1>4, <1>9, <1>14 DEF FetchType
<1>16. PICK waits \in BOOLEAN : waits = (box[i].kind = "op" /\ ~Applies(has[d][box[i].msg], box[i].what))
  OBVIOUS
<1>17. PICK new : new = IF box[i].kind = "chat" THEN Stored(has[d][box[i].msg], box[i].what)
                        ELSE Applied(has[d][box[i].msg], box[i].what)
  OBVIOUS
<1> DEFINE Note == seen' = [seen EXCEPT ![d] = seen[d] \cup {i}]
           Put1(f) == fetch' = [fetch EXCEPT ![d] = f]
           Hold == has' = [has EXCEPT ![d][box[i].msg] = new]
           Typed == disk' \in [Dev -> [Msg -> Version]]
<1>18. \/ /\ i \in seen[d] /\ Put1(take) /\ Note /\ UNCHANGED <<has, disk, upsets, closed>>
       \/ /\ Hold /\ (\E W : Written(W)) /\ UNCHANGED <<upsets, closed>>
          /\ IF waits THEN Put1(leave) /\ UNCHANGED seen ELSE Put1(take) /\ Note
       \/ /\ waits /\ Put1(take) /\ Note /\ UNCHANGED <<has, disk, upsets>>
          /\ closed' = closed \cup {[msg |-> box[i].msg, kind |-> box[i].what]}
       \/ Upset("refuse") /\ Count /\ Put1(turn) /\ UNCHANGED <<seen, has, disk, closed>>
       \/ /\ Upset("disk") /\ Count /\ box[i].kind # "op" /\ Put1(leave)
          /\ UNCHANGED <<seen, has, disk, closed>>
       \/ /\ Upset("disk") /\ Count /\ box[i].kind = "op" /\ ~waits /\ Hold /\ UNCHANGED <<disk, closed>>
          /\ Put1(take) /\ Note
       \/ /\ Upset("death") /\ Count /\ Hold /\ (\E W : Written(W))
          /\ Put1(NoFetch) /\ UNCHANGED <<seen, closed>>
  <2>1. PICK writes : writes = IF box[i].kind = "chat" THEN new # has[d][box[i].msg] ELSE ~waits
    OBVIOUS
  <2>2. \/ /\ i \in seen[d] /\ Put1(take) /\ Note /\ UNCHANGED <<has, disk, upsets, closed>>
        \/ /\ Hold /\ Written(IF writes THEN {d} ELSE {}) /\ UNCHANGED <<upsets, closed>>
           /\ IF waits THEN Put1(leave) /\ UNCHANGED seen ELSE Put1(take) /\ Note
        \/ /\ waits /\ Put1(take) /\ Note /\ UNCHANGED <<has, disk, upsets>>
           /\ closed' = closed \cup {[msg |-> box[i].msg, kind |-> box[i].what]}
        \/ Upset("refuse") /\ Count /\ Put1(turn) /\ UNCHANGED <<seen, has, disk, closed>>
        \/ /\ Upset("disk") /\ Count /\ box[i].kind # "op" /\ Put1(leave)
           /\ UNCHANGED <<seen, has, disk, closed>>
        \/ /\ Upset("disk") /\ Count /\ box[i].kind = "op" /\ ~waits /\ Hold /\ UNCHANGED <<disk, closed>>
           /\ Put1(take) /\ Note
        \/ /\ Upset("death") /\ Count /\ Hold /\ Written({d})
           /\ Put1(NoFetch) /\ UNCHANGED <<seen, closed>>
    BY ZenonT(60), <1>3, <1>8, <1>10, <1>12, <1>14, <1>16, <1>17, <2>1 DEF FetchTake, Taken
  <2> HIDE DEF Note, Put1, Hold
  <2>3. QED
    BY <2>2
<1>19. ASSUME UNCHANGED <<has, disk>>
       PROVE  /\ HasGrows /\ has' \in [Dev -> [Msg -> Version]] /\ Typed
              /\ \A e \in Dev, n \in Msg : has'[e][n] = "gone" => has[e][n] = "gone" \/ n \in gone
  BY <1>1, <1>19, HasSame DEF TypeOK
<1>20. closed \subseteq Op /\ upsets \in 0 .. MaxUpsets /\ NoFetch \in FetchType
       /\ NoFetch.list = {} /\ NoFetch.item = None
  BY <1>1 DEF TypeOK, NoFetch, FetchType
<1>21. ASSUME Hold, closed \subseteq closed', UNCHANGED disk \/ \E W : Written(W)
       PROVE  /\ has' \in [Dev -> [Msg -> Version]] /\ HasGrows /\ Typed
              /\ \A e \in Dev, n \in Msg : has'[e][n] = "gone" => has[e][n] = "gone" \/ n \in gone
              /\ box[i].kind = "chat" => has'[d][box[i].msg] # "none"
              /\ box[i].kind = "op" /\ Applies(has[d][box[i].msg], box[i].what) =>
                    has'[d][box[i].msg] = (IF box[i].what = "edit" THEN "new" ELSE "gone")
  <2>1. has' = [has EXCEPT ![d][box[i].msg] =
                     IF box[i].kind = "chat" THEN Stored(has[d][box[i].msg], box[i].what)
                     ELSE Applied(has[d][box[i].msg], box[i].what)]
    BY <1>17, <1>21
  <2>2. /\ has' \in [Dev -> [Msg -> Version]] /\ HasGrows
        /\ \A e \in Dev, n \in Msg : has'[e][n] = "gone" => has[e][n] = "gone" \/ n \in gone
        /\ box[i].kind = "chat" => has'[d][box[i].msg] # "none"
        /\ box[i].kind = "op" /\ Applies(has[d][box[i].msg], box[i].what) =>
              has'[d][box[i].msg] = (IF box[i].what = "edit" THEN "new" ELSE "gone")
    BY <1>4, <1>21, <2>1, TakeDoes
  <2>3. Typed
    BY <1>1, <1>21, <2>2, WrittenDoes DEF TypeOK
  <2>4. QED
    BY <2>2, <2>3
<1>22. box[i].kind = "op" => OpOf(i) \in Op /\ OpOf(i)' = OpOf(i)
       /\ OpOf(i).msg = box[i].msg /\ OpOf(i).kind = box[i].what
  <2>1. BoxInv(i)
    BY <1>4 DEF ChatInv
  <2>2. QED
    BY <1>4, <1>5, <1>6, <2>1 DEF BoxInv, OpOf, Op
<1>23. ASSUME NEW kind, Upset(kind), Count PROVE upsets' \in 0 .. MaxUpsets
  BY <1>1, <1>23, CountTyped
<1> HIDE DEF Note, Put1, Hold
<1>24. CASE i \in seen[d] /\ Put1(take) /\ Note /\ UNCHANGED <<has, disk, upsets, closed>>
  <2>1. UNCHANGED seen
    BY <1>1, <1>24 DEF Note, TypeOK
  <2>2. take.item # None /\ take.ok => take.item \in seen[d]
    BY <1>13, <1>24
  <2>3. fetch' = [fetch EXCEPT ![d] = take]
    BY <1>24 DEF Put1
  <2>4. QED
    BY <1>6, <1>9, <1>13, <1>19, <1>20, <1>24, <2>1, <2>2, <2>3, FetchKeeps
<1>25. CASE Hold /\ (\E W : Written(W)) /\ UNCHANGED <<upsets, closed>>
            /\ waits /\ Put1(leave) /\ UNCHANGED seen
  <2>1. fetch' = [fetch EXCEPT ![d] = leave]
    BY <1>25 DEF Put1
  <2>2. QED
    BY <1>6, <1>9, <1>11, <1>20, <1>21, <1>25, <2>1, FetchKeeps
<1>26. ASSUME ~waits, Hold, UNCHANGED closed, UNCHANGED disk \/ \E W : Written(W),
              upsets' \in 0 .. MaxUpsets, Put1(take), Note
       PROVE  ChatInv' /\ Grows
  <2>1. fetch' = [fetch EXCEPT ![d] = take] /\ seen' = [seen EXCEPT ![d] = seen[d] \cup {i}]
    BY <1>26 DEF Put1, Note
  <2>2. box[i].kind = "op" => Settled(d, OpOf(i))'
    <3>1. SUFFICES ASSUME box[i].kind = "op" PROVE Settled(d, OpOf(i))'
      OBVIOUS
    <3>2. PICK o \in Op : o = OpOf(i) /\ o = OpOf(i)' /\ o.msg = box[i].msg /\ o.kind = box[i].what
      BY <1>22, <3>1
    <3>3. has'[d][o.msg] = (IF o.kind = "edit" THEN "new" ELSE "gone")
      BY <1>16, <1>21, <1>26, <3>1, <3>2
    <3>4. Settled(d, o)'
      BY <3>3, AppliedSettles
    <3>5. QED
      BY <3>2, <3>4 DEF Settled, Shows
  <2>3. QED
    BY <1>4, <1>6, <1>9, <1>13, <1>20, <1>21, <1>26, <2>1, <2>2, FetchKeeps
<1>27. CASE waits /\ Put1(take) /\ Note /\ UNCHANGED <<has, disk, upsets>>
            /\ closed' = closed \cup {[msg |-> box[i].msg, kind |-> box[i].what]}
  <2>1. fetch' = [fetch EXCEPT ![d] = take] /\ seen' = [seen EXCEPT ![d] = seen[d] \cup {i}]
    BY <1>27 DEF Put1, Note
  <2>2. box[i].kind = "op"
    BY <1>16, <1>27
  <2>3. PICK o \in Op : o = OpOf(i) /\ o = OpOf(i)'
    BY <1>22, <2>2
  <2>4. closed' = closed \cup {o}
    BY <1>27, <2>3 DEF OpOf
  <2>5. Settled(d, OpOf(i))'
    BY <2>3, <2>4 DEF Settled
  <2>6. closed' \subseteq Op /\ closed \subseteq closed' /\ UNCHANGED <<has, disk>>
    BY <1>20, <1>27, <2>4
  <2>7. QED
    BY <1>4, <1>6, <1>9, <1>13, <1>19, <1>20, <1>27, <2>1, <2>2, <2>5, <2>6, FetchKeeps
<1>28. CASE Upset("refuse") /\ Count /\ Put1(turn) /\ UNCHANGED <<seen, has, disk, closed>>
  <2>1. fetch' = [fetch EXCEPT ![d] = turn]
    BY <1>28 DEF Put1
  <2>2. QED
    BY <1>6, <1>9, <1>15, <1>19, <1>20, <1>23, <1>28, <2>1, FetchKeeps
<1>29. CASE Upset("disk") /\ Count /\ box[i].kind # "op" /\ Put1(leave) /\ UNCHANGED <<seen, has, disk, closed>>
  <2>1. fetch' = [fetch EXCEPT ![d] = leave]
    BY <1>29 DEF Put1
  <2>2. QED
    BY <1>6, <1>9, <1>11, <1>19, <1>20, <1>23, <1>29, <2>1, FetchKeeps
<1>30. CASE Upset("disk") /\ Count /\ box[i].kind = "op" /\ ~waits /\ Hold /\ UNCHANGED <<disk, closed>>
            /\ Put1(take) /\ Note
  BY <1>23, <1>26, <1>30
<1>31. CASE Hold /\ (\E W : Written(W)) /\ UNCHANGED <<upsets, closed>> /\ ~waits /\ Put1(take) /\ Note
  BY <1>20, <1>26, <1>31
<1>32. CASE Upset("death") /\ Count /\ Hold /\ (\E W : Written(W))
            /\ Put1(NoFetch) /\ UNCHANGED <<seen, closed>>
  <2>1. fetch' = [fetch EXCEPT ![d] = NoFetch]
    BY <1>32 DEF Put1
  <2>2. QED
    BY <1>6, <1>20, <1>21, <1>23, <1>32, <2>1, FetchKeeps
<1>33. QED
  BY <1>18, <1>24, <1>25, <1>27, <1>28, <1>29, <1>30, <1>31, <1>32

\* An item ends, or is taken or turned down by one more device.
LEMMA AckedDoes ==
    ASSUME TypeOK, NEW i \in Item, NEW d \in Dev, NEW ok \in BOOLEAN, HeldItem(i),
           box' = Acked(i, d, ok)
    PROVE  /\ box' \in [Item -> ServerItem \cup {None}] /\ BoxGrows
           /\ \A j \in Item : j # i => box'[j] = box[j]
           /\ box'[i] # None /\ box'[i].delivered \subseteq Dev
           /\ box'[i].delivered \subseteq box[i].delivered \cup (IF ok THEN {d} ELSE {})
           /\ box'[i].state \in {"held", "delivered", "rejected"}
           /\ box'[i].state = "delivered" => box'[i].delivered # {}
<1>1. box[i] \in ServerItem /\ box[i].state = "held"
  BY ItemIs DEF HeldItem
<1>2. PICK it : it = IF ok THEN [box[i] EXCEPT !.delivered = box[i].delivered \cup {d}]
                     ELSE [box[i] EXCEPT !.refused = box[i].refused \cup {d}]
  OBVIOUS
<1>3. /\ it \in ServerItem /\ it.kind = box[i].kind /\ it.msg = box[i].msg
      /\ it.what = box[i].what /\ it.to = box[i].to /\ it.state = "held"
      /\ it.delivered \subseteq box[i].delivered \cup (IF ok THEN {d} ELSE {})
  <2>1. CASE ok
    <3>1. it = [box[i] EXCEPT !.delivered = box[i].delivered \cup {d}]
      BY <1>2, <2>1
    <3>2. QED
      BY <1>1, <2>1, <3>1 DEF ServerItem
  <2>2. CASE ~ok
    <3>1. it = [box[i] EXCEPT !.refused = box[i].refused \cup {d}]
      BY <1>2, <2>2
    <3>2. QED
      BY <1>1, <2>2, <3>1 DEF ServerItem
  <2>3. QED
    BY <2>1, <2>2
<1>4. PICK end : end = [it EXCEPT !.state = EndState(it)]
  OBVIOUS
<1>5. /\ end \in ServerItem /\ end.kind = it.kind /\ end.msg = it.msg
      /\ end.what = it.what /\ end.to = it.to /\ end.delivered = it.delivered
      /\ end.state = EndState(it)
  <2>1. EndState(it) \in ItemState
    BY DEF EndState, ItemState
  <2>2. QED
    BY <1>3, <1>4, <2>1 DEF ServerItem
<1>6. PICK new : new = IF it.to \subseteq it.delivered \cup it.refused THEN end ELSE it
  OBVIOUS
<1>7. /\ new \in ServerItem /\ new.kind = box[i].kind /\ new.msg = box[i].msg
      /\ new.what = box[i].what /\ new.to = box[i].to
      /\ new.delivered \subseteq box[i].delivered \cup (IF ok THEN {d} ELSE {})
      /\ new.state \in {"held", "delivered", "rejected"}
      /\ new.state = "delivered" => new.delivered # {}
  <2>1. CASE new = end
    BY <1>3, <1>5, <2>1 DEF EndState
  <2>2. CASE new = it
    BY <1>3, <2>2
  <2>3. QED
    BY <1>6, <2>1, <2>2
<1>8. new # None
  BY <1>7, NoneAssumption
<1>9. box' = [box EXCEPT ![i] = new]
  BY <1>2, <1>4, <1>6 DEF Acked
<1>10. box' \in [Item -> ServerItem \cup {None}]
  BY <1>7, <1>9 DEF TypeOK
<1>11. box'[i] = new /\ \A j \in Item : j # i => box'[j] = box[j]
  BY <1>9 DEF TypeOK
<1>12. BoxGrows
  BY <1>7, <1>8, <1>11 DEF BoxGrows
<1>13. new.delivered \subseteq Dev
  BY <1>7 DEF ServerItem
<1>14. QED
  BY <1>7, <1>8, <1>10, <1>11, <1>12, <1>13

LEMMA FetchAckKeeps ==
    ASSUME ChatInv, NEW d \in Dev, FetchAck(d)
    PROVE  ChatInv' /\ Grows
<1>1. TypeOK /\ SeenInv(d) /\ fetch[d].item # None
  BY DEF ChatInv, FetchAck
<1>2. PICK i \in Item : i = fetch[d].item
  BY <1>1, FetchIs
<1>3. PICK ok \in BOOLEAN : ok = fetch[d].ok /\ (ok => i \in seen[d])
  <2>1. fetch[d].ok \in BOOLEAN
    BY <1>1, FetchIs
  <2>2. fetch[d].ok => fetch[d].item \in seen[d]
    BY <1>1 DEF SeenInv
  <2>3. QED
    BY <1>2, <2>1, <2>2
<1>4. UNCHANGED <<chat, sent, work, has, disk, seen, closed>>
  BY DEF FetchAck
<1>5. UNCHANGED <<status, gaveUp, edited, gone, ops, task, loop, cancels, receipts>>
  BY <1>4 DEF chat, work
<1>6. PICK f : f = [[fetch[d] EXCEPT !.item = None] EXCEPT !.ok = FALSE]
  OBVIOUS
<1>7. f \in FetchType /\ f.list = fetch[d].list /\ f.item = None
  <2>1. fetch[d] \in FetchType
    BY <1>1, FetchIs
  <2>2. QED
    BY <1>6, <2>1 DEF FetchType
<1>8. fetch' = [fetch EXCEPT ![d] = f]
  <2>1. fetch' = [fetch EXCEPT ![d].item = None, ![d].ok = FALSE] /\ fetch \in [Dev -> FetchType]
    BY <1>1 DEF FetchAck, TypeOK
  <2>2. QED
    BY <1>6, <2>1
<1>9. /\ fetch' \in [Dev -> FetchType] /\ fetch'[d] = f
      /\ \A e \in Dev : e # d => fetch'[e] = fetch[e]
  BY <1>1, <1>7, <1>8 DEF TypeOK
<1>10. upsets' \in 0 .. MaxUpsets
  <2>1. CASE UNCHANGED upsets
    BY <1>1, <2>1 DEF TypeOK
  <2>2. CASE Upset("ack") /\ Count
    BY <1>1, <2>2, CountTyped
  <2>3. QED
    BY <2>1, <2>2 DEF FetchAck
<1>11. ASSUME Grows, box' \in [Item -> ServerItem \cup {None}],
              \A j \in Item : BoxInv(j)',
              \A o \in Op, j \in Item : Waits(j, o) /\ Due(o) => Remembered(o)'
       PROVE  ChatInv' /\ Grows
  <2>1. TypeOK'
    BY <1>1, <1>4, <1>5, <1>9, <1>10, <1>11 DEF TypeOK
  <2>2. \A e \in Dev : SeenInv(e)'
    <3>1. ASSUME NEW e \in Dev PROVE SeenInv(e)'
      <4>1. fetch'[e].list \subseteq fetch[e].list /\ seen'[e] = seen[e]
            /\ (fetch'[e].item # None /\ fetch'[e].ok => fetch'[e].item = fetch[e].item /\ fetch[e].ok)
        BY <1>4, <1>7, <1>9
      <4>2. QED
        BY <1>11, <4>1, DeviceKept
    <3>2. QED
      BY <3>1
  <2>3. \A o \in Op : o \in ops /\ Due(o) => Remembered(o)'
    BY <1>5 DEF Remembered
  <2>4. ChangeInv'
    BY <1>5, <1>11, <2>3, ChangeKept
  <2>5. Real' /\ GoneInv' /\ LoopInv' /\ ReceiptInv'
    BY <1>4, <1>5, <1>11, RealKept, GoneKept, LoopKept, ReceiptKept
  <2>6. (\A j \in Item : SentInv(j)') /\ \A w \in Worker : TaskInv(w)'
    BY <1>4, <1>5, <1>11, LedgerKept, AllTasksKept
  <2>7. QED
    BY <1>11, <2>1, <2>2, <2>4, <2>5, <2>6 DEF ChatInv
<1>12. CASE UNCHANGED box
  <2>1. Grows
    BY <1>1, <1>4, <1>5, <1>12, GrowsQuiet
  <2>2. (\A j \in Item : BoxInv(j)') /\ box' \in [Item -> ServerItem \cup {None}]
    BY <1>1, <1>12, <2>1, BoxKept DEF TypeOK
  <2>3. \A o \in Op, j \in Item : Waits(j, o) => Remembered(o)'
    BY <1>12 DEF Waits, Remembered
  <2>4. QED
    BY <1>11, <2>1, <2>2, <2>3
<1>13. CASE HeldItem(i) /\ box' = Acked(i, d, ok)
  <2>1. /\ box' \in [Item -> ServerItem \cup {None}] /\ BoxGrows
        /\ \A j \in Item : j # i => box'[j] = box[j]
        /\ box'[i] # None /\ box'[i].delivered \subseteq Dev
        /\ box'[i].delivered \subseteq box[i].delivered \cup (IF ok THEN {d} ELSE {})
        /\ box'[i].state \in {"held", "delivered", "rejected"}
        /\ box'[i].state = "delivered" => box'[i].delivered # {}
    BY <1>1, <1>13, AckedDoes
  <2>2. Grows
    BY <1>1, <1>4, <1>5, <2>1, HasSame DEF Grows
  <2>3. box[i] # None /\ BoxInv(i)
    BY <1>13 DEF HeldItem, ChatInv
  <2>4. \A e \in box'[i].delivered : i \in seen'[e]
    BY <1>3, <1>4, <2>1, <2>3 DEF BoxInv
  <2>5. /\ box'[i].kind = box[i].kind /\ box'[i].msg = box[i].msg /\ box'[i].what = box[i].what
    BY <2>2, <2>3 DEF Grows, BoxGrows
  <2>6. BoxInv(i)'
    BY <1>5, <2>1, <2>3, <2>4, <2>5 DEF BoxInv, OpOK, OpOf
  <2>7. \A j \in Item : BoxInv(j)'
    <3>1. ASSUME NEW j \in Item, j # i PROVE BoxInv(j)'
      BY <2>1, <2>2, <3>1, ItemKept
    <3>2. QED
      BY <2>6, <3>1
  <2>8. ASSUME NEW o \in Op, NEW j \in Item, Waits(j, o), Due(o) PROVE Remembered(o)'
    <3>1. CASE j # i
      BY <2>1, <2>8, <3>1 DEF Waits, Remembered
    <3>2. CASE j = i /\ box'[i].state # "delivered"
      <4>1. Waits(i, o)'
        BY <2>1, <2>5, <2>8, <3>2 DEF Waits
      <4>2. QED
        BY <4>1 DEF Remembered
    <3>3. CASE j = i /\ box'[i].state = "delivered"
      <4>1. PICK e \in Dev : i \in seen'[e]
        BY <2>1, <2>4, <3>3
      <4>2. box[i].kind = "op" /\ OpOf(i) = o
        BY <2>8, <3>3, OpIs DEF Waits, OpOf
      <4>3. i \in seen[e] /\ SeenInv(e)
        BY <1>4, <4>1 DEF ChatInv
      <4>4. Settled(e, o)
        BY <4>2, <4>3 DEF SeenInv
      <4>5. ~ (o.kind = "edit" /\ o.msg \in gone)
        BY <2>8 DEF Due
      <4>6. Shows(e, o.msg, o.kind) \/ o \in closed
        BY <4>4, <4>5 DEF Settled
      <4>7. QED
        BY <1>4, <4>6 DEF Remembered, Shows
    <3>4. QED
      BY <3>1, <3>2, <3>3
  <2>9. QED
    BY <1>11, <2>1, <2>2, <2>7, <2>8
<1>14. QED
  <2>1. box' = box \/ box' = Acked(i, d, ok)
    BY <1>2, <1>3 DEF FetchAck
  <2>2. ~ HeldItem(i) => Acked(i, d, ok) = box
    BY DEF Acked
  <2>3. QED
    BY <1>12, <1>13, <2>1, <2>2

\* A later write saves the rest.
LEMMA RewriteKeeps ==
    ASSUME ChatInv, NEW d \in Dev, Rewrite(d)
    PROVE  ChatInv' /\ Grows
<1>1. TypeOK
  BY DEF ChatInv
<1>2. UNCHANGED <<status, gaveUp, edited, gone, ops, sent, task, loop, cancels, receipts, box,
                  has, seen, fetch, upsets, closed>>
  BY DEF Rewrite, chat, work
<1>3. disk' \in [Dev -> [Msg -> Version]]
  BY <1>1 DEF Rewrite, TypeOK
<1>4. TypeOK'
  BY <1>1, <1>2, <1>3 DEF TypeOK
<1>5. Grows
  BY <1>1, <1>2, GrowsQuiet
<1>6. Real' /\ GoneInv' /\ LoopInv' /\ ReceiptInv' /\ ChangeInv'
  BY <1>2, <1>5, RealKept, GoneKept, LoopKept, ReceiptKept, ChangesKept
<1>7. (\A i \in Item : BoxInv(i)' /\ SentInv(i)') /\ (\A e \in Dev : SeenInv(e)')
      /\ \A w \in Worker : TaskInv(w)'
  BY <1>2, <1>5, BoxKept, LedgerKept, SeenKept, AllTasksKept
<1>8. QED
  BY <1>4, <1>5, <1>6, <1>7 DEF ChatInv

\* A restart takes back only what was not saved, and that is noted.
LEMMA ReopenKeeps ==
    ASSUME ChatInv, DiskInv, NEW d \in Dev, Reopen(d)
    PROVE  ChatInv' /\ Grows
<1>1. TypeOK
  BY DEF ChatInv
<1>2. UNCHANGED <<chat, sent, work, box, disk, seen, upsets>>
  BY DEF Reopen
<1>3. /\ has' = [has EXCEPT ![d] = disk[d]]
      /\ closed' = closed \cup Unsaved(d)
      /\ fetch' = [fetch EXCEPT ![d] = NoFetch]
  BY DEF Reopen
<1>4. /\ has' \in [Dev -> [Msg -> Version]] /\ disk' \in [Dev -> [Msg -> Version]]
      /\ has'[d] = disk[d] /\ \A e \in Dev : e # d => has'[e] = has[e]
  BY <1>1, <1>2, <1>3 DEF TypeOK
<1>5. closed \subseteq closed' /\ closed' \subseteq Op /\ upsets' \in 0 .. MaxUpsets
  BY <1>1, <1>2, <1>3 DEF TypeOK, Unsaved
<1>6. \A m \in Msg : Behind(disk[d][m], has[d][m])
  BY DEF DiskInv
<1>7. \A e \in Dev, m \in Msg : Has(e, m) => Has(e, m)'
  BY <1>4, <1>6 DEF Has, Behind
<1>8. ASSUME NEW e \in Dev, NEW o \in Op, Shows(e, o.msg, o.kind)
      PROVE  Shows(e, o.msg, o.kind)' \/ o \in closed'
  <2>1. o.msg \in Msg
    BY OpIs
  <2>2. CASE e # d \/ disk[d][o.msg] = has[d][o.msg]
    BY <1>4, <1>8, <2>1, <2>2, ShowsIs
  <2>3. CASE e = d /\ disk[d][o.msg] # has[d][o.msg]
    <3>1. o \in Unsaved(d)
      BY <1>8, <2>3, ShowsIs DEF Unsaved
    <3>2. QED
      BY <1>3, <3>1
  <2>4. QED
    BY <2>2, <2>3
<1>9. HasGrows
  BY <1>7, <1>8 DEF HasGrows
<1>10. \A e \in Dev, n \in Msg : has'[e][n] = "gone" => has[e][n] = "gone" \/ n \in gone
  BY <1>4, <1>6 DEF Behind
<1>11. NoFetch \in FetchType /\ NoFetch.list = {} /\ NoFetch.item = None
  BY DEF NoFetch, FetchType
<1>12. QED
  BY <1>2, <1>3, <1>4, <1>5, <1>9, <1>10, <1>11, FetchKeeps

LEMMA ReadReceiptKeeps ==
    ASSUME ChatInv, NEW d \in Dev, NEW m \in Msg, ReadReceipt(d, m)
    PROVE  ChatInv' /\ Grows
<1>1. TypeOK
  BY DEF ChatInv
<1>2. UNCHANGED <<gaveUp, edited, gone, ops, sent, work, box, friend, upsets, closed>>
  BY DEF ReadReceipt
<1>3. UNCHANGED <<task, loop, cancels, receipts, has, disk, seen, fetch>>
  BY <1>2 DEF work, friend
<1>4. PICK R : status' = [n \in Msg |-> IF n \in R THEN "read" ELSE status[n]]
  BY DEF ReadReceipt
<1>5. status' \in [Msg -> Status] /\ \A n \in Msg : status'[n] = "delivered" => status[n] = "delivered"
  BY <1>1, <1>4 DEF TypeOK, Status
<1>6. TypeOK'
  BY <1>1, <1>2, <1>3, <1>5 DEF TypeOK
<1>7. Grows
  BY <1>1, <1>2, <1>3, GrowsQuiet
<1>8. ReceiptInv'
  BY <1>3, <1>7, ReceiptKept
<1>9. (\A i \in Item : BoxInv(i)' /\ SentInv(i)')
      /\ \A j \in Item, o \in Op : Waits(j, o) => Waits(j, o)'
  BY <1>2, <1>3, <1>7, BoxKept, LedgerKept DEF Waits
<1>10. QED
  BY <1>2, <1>3, <1>5, <1>6, <1>7, <1>8, <1>9, BackgroundKeeps

(***************************************************************************)
(* Time and crashes.                                                       *)
(***************************************************************************)
LEMMA ExpireKeeps ==
    ASSUME ChatInv, NEW i \in Item, Expire(i)
    PROVE  ChatInv' /\ Grows
<1>1. TypeOK /\ box[i] # None /\ box[i].state = "held" /\ BoxInv(i)
  BY DEF ChatInv, Expire, HeldItem
<1>2. UNCHANGED <<chat, sent, work, friend, closed>>
  BY DEF Expire
<1>3. UNCHANGED <<status, gaveUp, edited, gone, ops, task, loop, cancels, receipts, has, disk, seen, fetch>>
  BY <1>2 DEF chat, work, friend
<1>4. PICK it : it = [box[i] EXCEPT !.state = "expired"]
  OBVIOUS
<1>5. box[i] \in ServerItem
  BY <1>1, ItemIs
<1>6. /\ it \in ServerItem /\ it.kind = box[i].kind /\ it.msg = box[i].msg /\ it.what = box[i].what
      /\ it.to = box[i].to /\ it.delivered = box[i].delivered /\ it.state = "expired"
  BY <1>4, <1>5 DEF ServerItem, ItemState
<1>7. it # None
  BY <1>6, NoneAssumption
<1>8. box' = [box EXCEPT ![i] = it]
  BY <1>4 DEF Expire
<1>9. /\ box' \in [Item -> ServerItem \cup {None}] /\ box'[i] = it
      /\ \A j \in Item : j # i => box'[j] = box[j]
  BY <1>1, <1>6, <1>8 DEF TypeOK
<1>10. upsets' \in 0 .. MaxUpsets
  BY <1>1, CountTyped DEF Expire
<1>11. TypeOK'
  BY <1>1, <1>2, <1>3, <1>9, <1>10 DEF TypeOK
<1>12. BoxGrows
  BY <1>6, <1>7, <1>9 DEF BoxGrows
<1>13. Grows
  BY <1>1, <1>2, <1>3, <1>12, HasSame DEF Grows
<1>14. BoxInv(i)'
  <2>1. \A d \in it.delivered : i \in seen[d]
    BY <1>1, <1>6 DEF BoxInv
  <2>2. QED
    BY <1>1, <1>3, <1>6, <1>9, <2>1 DEF BoxInv, OpOK, OpOf
<1>15. \A j \in Item : BoxInv(j)'
  <2>1. ASSUME NEW j \in Item, j # i PROVE BoxInv(j)'
    BY <1>9, <1>13, <2>1, ItemKept
  <2>2. QED
    BY <1>14, <2>1
<1>16. ASSUME NEW j \in Item, NEW o \in Op, Waits(j, o) PROVE Waits(j, o)'
  <2>1. CASE j = i
    BY <1>6, <1>7, <1>9, <1>16, <2>1 DEF Waits
  <2>2. CASE j # i
    BY <1>9, <1>16, <2>2 DEF Waits
  <2>3. QED
    BY <2>1, <2>2
<1>17. ReceiptInv' /\ \A j \in Item : SentInv(j)'
  BY <1>2, <1>3, <1>13, ReceiptKept, LedgerKept
<1>18. \A n \in Msg : status'[n] = "delivered" => status[n] = "delivered"
  BY <1>3
<1>19. QED
  BY <1>3, <1>11, <1>13, <1>15, <1>16, <1>17, <1>18, BackgroundKeeps

LEMMA CrashKeeps ==
    ASSUME ChatInv, Crash
    PROVE  ChatInv' /\ Grows
<1>1. TypeOK
  BY DEF ChatInv
<1>2. /\ task' = [w \in Worker |-> IdleTask] /\ loop' = Rest
      /\ cancels' = {} /\ receipts' = NoReceipts
  BY DEF Crash
<1>3. UNCHANGED <<status, gaveUp, edited, gone, ops, sent, box, has, disk, seen, fetch, closed>>
  BY DEF Crash, chat, friend
<1>4. upsets' \in 0 .. MaxUpsets
  BY <1>1, CountTyped DEF Crash
<1>5. /\ task' \in [Worker -> TaskType] /\ \A w \in Worker : task'[w].pc = "idle"
  BY <1>2, IdleTyped
<1>6. loop' \in LoopType /\ loop'.phase = "rest" /\ loop'.ops = {}
  BY <1>2, RestTyped
<1>7. receipts' \in ReceiptsType /\ receipts'.phase = "none"
  BY <1>2, NoReceiptsTyped
<1>8. cancels' \subseteq Item
  BY <1>2
<1>9. TypeOK'
  BY <1>1, <1>3, <1>4, <1>5, <1>6, <1>7, <1>8 DEF TypeOK
<1>10. Grows
  BY <1>1, <1>3, GrowsQuiet
<1>11. LoopInv'
  BY <1>3, <1>6, <1>10, LoopMoves
<1>12. \A i \in Item : SentInv(i)'
  <2>1. ASSUME NEW i \in Item PROVE SentInv(i)'
    BY <1>2, <1>3, <1>10, LineKept
  <2>2. QED
    BY <2>1
<1>13. Real' /\ GoneInv' /\ ChangeInv'
  BY <1>3, <1>10, RealKept, GoneKept, ChangesKept
<1>14. (\A i \in Item : BoxInv(i)') /\ \A d \in Dev : SeenInv(d)'
  BY <1>3, <1>10, BoxKept, SeenKept
<1>15. (\A w \in Worker : TaskInv(w)') /\ ReceiptInv'
  BY <1>5, <1>7 DEF TaskInv, ReceiptInv
<1>16. QED
  BY <1>9, <1>10, <1>11, <1>12, <1>13, <1>14, <1>15 DEF ChatInv

(***************************************************************************)
(* The invariant holds.                                                    *)
(***************************************************************************)
LEMMA InitInv == Init => ChatInv
<1>1. SUFFICES ASSUME Init PROVE ChatInv
  OBVIOUS
<1>2. TypeOK
  <2>1. /\ status \in [Msg -> Status] /\ has \in [Dev -> [Msg -> Version]]
        /\ disk \in [Dev -> [Msg -> Version]]
    BY <1>1 DEF Init, Status, Version
  <2>2. sent \in [Item -> Sent \cup {None}] /\ box \in [Item -> ServerItem \cup {None}]
    BY <1>1 DEF Init
  <2>3. task \in [Worker -> TaskType] /\ loop \in LoopType /\ receipts \in ReceiptsType
    BY <1>1, IdleTyped, RestTyped, NoReceiptsTyped DEF Init
  <2>4. NoFetch \in FetchType
    BY DEF NoFetch, FetchType
  <2>5. seen \in [Dev -> SUBSET Item] /\ fetch \in [Dev -> FetchType]
    BY <1>1, <2>4 DEF Init
  <2>6. upsets \in 0 .. MaxUpsets
    BY <1>1, ChatAssumption DEF Init
  <2>7. QED
    BY <1>1, <2>1, <2>2, <2>3, <2>5, <2>6 DEF Init, TypeOK
<1>3. Real /\ GoneInv
  BY <1>1 DEF Init, Real, GoneInv
<1>4. LoopInv
  BY <1>1, RestTyped DEF Init, LoopInv
<1>5. ReceiptInv
  BY <1>1, NoReceiptsTyped DEF Init, ReceiptInv
<1>6. ChangeInv
  BY <1>1 DEF Init, ChangeInv, Due
<1>7. \A i \in Item : BoxInv(i) /\ SentInv(i)
  BY <1>1 DEF Init, BoxInv, SentInv
<1>8. \A d \in Dev : SeenInv(d)
  BY <1>1 DEF Init, SeenInv, NoFetch
<1>9. \A w \in Worker : TaskInv(w)
  BY <1>1, IdleTyped DEF Init, TaskInv
<1>10. QED
  BY <1>2, <1>3, <1>4, <1>5, <1>6, <1>7, <1>8, <1>9 DEF ChatInv

LEMMA StutterKeeps ==
    ASSUME ChatInv, UNCHANGED vars
    PROVE  ChatInv' /\ Grows
<1>1. TypeOK /\ UNCHANGED <<chat, sent, work, box, friend, upsets, closed>>
  BY DEF ChatInv, vars
<1>2. UNCHANGED <<task, loop, cancels, receipts>>
  BY <1>1 DEF work
<1>3. loop' \in LoopType
  BY <1>1, <1>2 DEF TypeOK
<1>4. UNCHANGED ops /\ Grows
  BY <1>1, GrowsQuiet DEF chat, friend
<1>5. LoopInv'
  BY <1>2, <1>4, LoopKept
<1>6. QED
  BY <1>1, <1>2, <1>3, <1>5, LoopSteps

LEMMA DeliverKeeps ==
    ASSUME ChatInv, NEW m \in Msg, Deliver(m)
    PROVE  ChatInv' /\ Grows
<1>1. m \in Worker
  BY WorkerIs
<1>2. CASE PreviewDone(m)
  BY <1>2, PreviewDoneKeeps
<1>3. CASE Start(m)
  BY <1>3, StartKeeps
<1>4. CASE Dial(m)
  BY <1>1, <1>4, DialKeeps
<1>5. CASE DepositOk(m)
  BY <1>1, <1>5, DepositOkKeeps
<1>6. CASE DepositFail(m)
  BY <1>1, <1>6, DepositFailKeeps
<1>7. CASE RecordSend(m)
  BY <1>7, RecordSendKeeps
<1>8. QED
  BY <1>2, <1>3, <1>4, <1>5, <1>6, <1>7 DEF Deliver

LEMMA OutboxingKeeps ==
    ASSUME ChatInv, Outboxing
    PROVE  ChatInv' /\ Grows
<1>1. Loop \in Worker
  BY WorkerIs
<1>2. CASE \E hold \in Routes : RoundStart(hold)
  BY <1>2, RoundStartKeeps
<1>3. CASE TakeMessage
  BY <1>3, TakeMessageKeeps
<1>4. CASE RecordMessage
  BY <1>4, RecordMessageKeeps
<1>5. CASE TakeHeld
  BY <1>5, TakeHeldKeeps
<1>6. CASE RecordHeld
  BY <1>6, RecordHeldKeeps
<1>7. CASE Dial(Loop)
  BY <1>1, <1>7, DialKeeps
<1>8. CASE DepositOk(Loop)
  BY <1>1, <1>8, DepositOkKeeps
<1>9. CASE DepositFail(Loop)
  BY <1>1, <1>9, DepositFailKeeps
<1>10. CASE TakeOp
  BY <1>10, TakeOpKeeps
<1>11. CASE Unsend
  BY <1>11, UnsendKeeps
<1>12. CASE OpDeposit
  BY <1>12, OpDepositKeeps
<1>13. CASE OpSend
  BY <1>13, OpSendKeeps
<1>14. CASE FollowDone
  BY <1>14, FollowDoneKeeps
<1>15. CASE \E c \in loop.copies : FollowBack(c) \/ FollowDeposit(c)
  BY <1>15, FollowBackKeeps, FollowDepositKeeps
<1>16. QED
  BY <1>2, <1>3, <1>4, <1>5, <1>6, <1>7, <1>8, <1>9, <1>10, <1>11, <1>12, <1>13,
     <1>14, <1>15 DEF Outboxing

LEMMA NextKeeps ==
    ASSUME ChatInv, DiskInv, [Next]_vars
    PROVE  ChatInv' /\ Grows
<1>1. CASE User
  BY <1>1, SendKeeps, ChangeKeeps DEF User
<1>2. CASE Commands
  BY <1>2, DeliverKeeps DEF Commands
<1>3. CASE Outboxing
  BY <1>3, OutboxingKeeps
<1>4. CASE Background
  BY <1>4, CancelOnKeeps, RefreshAskKeeps, RefreshAnswerKeeps, RefreshLostKeeps,
     RefreshLedgerKeeps, RefreshApplyKeeps DEF Background
<1>5. CASE Friend
  BY <1>5, FetchListKeeps, FetchTakeKeeps, FetchAckKeeps, RewriteKeeps, ReopenKeeps,
     ReadReceiptKeeps DEF Friend, Fetch
<1>6. CASE Crash
  BY <1>6, CrashKeeps
<1>7. CASE \E i \in Item : Expire(i)
  BY <1>7, ExpireKeeps
<1>8. CASE UNCHANGED vars
  BY <1>8, StutterKeeps
<1>9. QED
  BY <1>1, <1>2, <1>3, <1>4, <1>5, <1>6, <1>7, <1>8 DEF Next

(***************************************************************************)
(* Memory and disk.                                                        *)
(***************************************************************************)
\* What a step does to one message of one device: nothing; it is written; a
\* change of it is held and not written; the device starts from its disk.
Moves(d, m) ==
    \/ disk'[d][m] = disk[d][m] /\ has'[d][m] = has[d][m]
    \/ disk'[d][m] = has'[d][m] /\ (has[d][m] = "gone" => has'[d][m] = "gone")
    \/ /\ disk'[d][m] = disk[d][m] /\ has[d][m] # "none" /\ has'[d][m] \in {"new", "gone"}
       /\ has[d][m] = "gone" => has'[d][m] = "gone"
    \/ disk'[d][m] = disk[d][m] /\ has'[d][m] = disk[d][m]

DiskKeeps == \A d \in Dev, m \in Msg : disk[d][m] = "gone" => disk'[d][m] = "gone"

LEMMA MovesKeeps ==
    ASSUME DiskInv, \A d \in Dev, m \in Msg : Moves(d, m)
    PROVE  DiskInv' /\ DiskKeeps
<1>1. ASSUME NEW d \in Dev, NEW m \in Msg
      PROVE  Behind(disk'[d][m], has'[d][m]) /\ (disk[d][m] = "gone" => disk'[d][m] = "gone")
  BY DEF Moves, DiskInv, Behind
<1>2. QED
  BY <1>1 DEF DiskInv, DiskKeeps, Behind

LEMMA Unmoved ==
    ASSUME UNCHANGED <<has, disk>>
    PROVE  \A d \in Dev, m \in Msg : Moves(d, m)
BY DEF Moves

LEMMA DialMoves ==
    ASSUME ChatInv, NEW w \in Worker, Dial(w)
    PROVE  \A d \in Dev, m \in Msg : Moves(d, m)
<1>1. TypeOK /\ task[w].msg \in Msg /\ task[w].text \in Text
  BY DEF ChatInv, Dial, TaskInv
<1>2. PICK A, L : /\ has' = StoreOn(A \cup L, task[w].msg, task[w].text)
                  /\ Written({d \in A \cup L : Stored(has[d][task[w].msg], task[w].text) # has[d][task[w].msg]})
  BY DEF Dial
<1>3. PICK n \in Msg, text \in Text : n = task[w].msg /\ text = task[w].text
  BY <1>1
<1>4. SUFFICES ASSUME NEW d \in Dev, NEW m \in Msg PROVE Moves(d, m)
  OBVIOUS
<1>5. has[d] \in [Msg -> Version] /\ has[d][m] \in Version /\ has[d][n] \in Version
  BY <1>1, HasIs
<1>6. has'[d] = IF d \in A \cup L THEN [has[d] EXCEPT ![n] = Stored(has[d][n], text)] ELSE has[d]
  BY <1>2, <1>3 DEF StoreOn
<1>7. disk'[d] = IF d \in A \cup L /\ Stored(has[d][n], text) # has[d][n] THEN has'[d] ELSE disk[d]
  BY <1>2, <1>3 DEF Written
<1>8. has'[d][m] = IF d \in A \cup L /\ m = n THEN Stored(has[d][n], text) ELSE has[d][m]
  BY <1>5, <1>6
<1>9. has[d][n] # "none" => Stored(has[d][n], text) = has[d][n]
  BY DEF Stored
<1>10. CASE d \in A \cup L /\ Stored(has[d][n], text) # has[d][n]
  BY <1>7, <1>8, <1>9, <1>10 DEF Moves
<1>11. CASE ~ (d \in A \cup L /\ Stored(has[d][n], text) # has[d][n])
  BY <1>7, <1>8, <1>11 DEF Moves
<1>12. QED
  BY <1>10, <1>11

LEMMA OpSendMoves ==
    ASSUME ChatInv, OpSend
    PROVE  \A d \in Dev, m \in Msg : Moves(d, m)
<1>1. TypeOK /\ loop.op \in Op
  BY DEF ChatInv, OpSend, LoopInv
<1>2. PICK o \in Op : o = loop.op
  BY <1>1
<1>3. PICK D, F : /\ D \subseteq {d \in Dev : Applies(has[d][o.msg], o.kind)}
                  /\ has' = ApplyOn(D, o) /\ Written(D \ F)
  <2>1. PICK A, L, F \in SUBSET {d \in Dev : Applies(has[d][loop.op.msg], loop.op.kind)} :
          has' = ApplyOn(A \cup L, loop.op) /\ Written((A \cup L) \ F)
    BY Zenon DEF OpSend
  <2>2. A \cup L \in SUBSET {d \in Dev : Applies(has[d][loop.op.msg], loop.op.kind)}
    BY <2>1
  <2>3. QED
    BY <1>2, <2>1, <2>2
<1>4. SUFFICES ASSUME NEW d \in Dev, NEW m \in Msg PROVE Moves(d, m)
  OBVIOUS
<1>5. o.msg \in Msg /\ (o.kind = "edit" \/ o.kind = "delete")
  BY OpIs
<1>6. has[d] \in [Msg -> Version] /\ has[d][m] \in Version /\ has[d][o.msg] \in Version
  BY <1>1, <1>5, HasIs
<1>7. has'[d] = IF d \in D THEN [has[d] EXCEPT ![o.msg] = Applied(has[d][o.msg], o.kind)] ELSE has[d]
  BY <1>3 DEF ApplyOn
<1>8. disk'[d] = IF d \in D \ F THEN has'[d] ELSE disk[d]
  BY <1>3 DEF Written
<1>9. has'[d][m] = IF d \in D /\ m = o.msg THEN Applied(has[d][o.msg], o.kind) ELSE has[d][m]
  BY <1>5, <1>6, <1>7
<1>10. d \in D => /\ has[d][o.msg] # "none" /\ Applied(has[d][o.msg], o.kind) \in {"new", "gone"}
                  /\ (has[d][o.msg] = "gone" => Applied(has[d][o.msg], o.kind) = "gone")
  BY <1>3, <1>5 DEF Applied, Applies
<1>11. QED
  BY <1>8, <1>9, <1>10 DEF Moves

LEMMA FetchTakeMoves ==
    ASSUME ChatInv, NEW e \in Dev, FetchTake(e)
    PROVE  \A d \in Dev, m \in Msg : Moves(d, m)
<1>1. TypeOK /\ SeenInv(e) /\ fetch[e].list # {} /\ fetch[e].list \subseteq Item
  BY FetchIs DEF ChatInv, FetchTake
<1>2. PICK i \in fetch[e].list : i = Min(fetch[e].list)
  BY <1>1, MinIsIn
<1>3. i \in Item /\ box[i] # None /\ BoxInv(i)
  BY <1>1 DEF SeenInv, ChatInv
<1>4. PICK n \in Msg : n = box[i].msg
  BY <1>1, <1>3, ItemIs
<1>5. box[i].kind = "op" => box[i].what = "edit" \/ box[i].what = "delete"
  BY <1>3, ChatAssumption DEF BoxInv
<1>6. PICK new : new = IF box[i].kind = "chat" THEN Stored(has[e][n], box[i].what)
                       ELSE Applied(has[e][n], box[i].what)
  OBVIOUS
<1>7. PICK waits \in BOOLEAN : waits = (box[i].kind = "op" /\ ~Applies(has[e][n], box[i].what))
  OBVIOUS
<1>8. PICK writes : writes = IF box[i].kind = "chat" THEN new # has[e][n] ELSE ~waits
  OBVIOUS
<1>9. \/ UNCHANGED <<has, disk>>
      \/ has' = [has EXCEPT ![e][n] = new] /\ Written(IF writes THEN {e} ELSE {})
      \/ has' = [has EXCEPT ![e][n] = new] /\ UNCHANGED disk /\ writes /\ box[i].kind = "op"
      \/ has' = [has EXCEPT ![e][n] = new] /\ Written({e}) /\ writes
  BY <1>2, <1>4, <1>6, <1>7, <1>8 DEF FetchTake, Taken
<1>10. box[i].kind = "chat" \/ box[i].kind = "op"
  BY <1>1, <1>3, ItemIs
<1>11. /\ writes /\ box[i].kind = "op" =>
             /\ has[e][n] # "none" /\ new \in {"new", "gone"}
             /\ (has[e][n] = "gone" => new = "gone")
       /\ ~writes => new = has[e][n]
       /\ has[e][n] = "gone" => new = "gone"
  BY <1>5, <1>6, <1>7, <1>8, <1>10 DEF Applied, Applies, Stored
<1>12. SUFFICES ASSUME NEW d \in Dev, NEW m \in Msg PROVE Moves(d, m)
  OBVIOUS
<1>13. CASE UNCHANGED <<has, disk>>
  BY <1>13 DEF Moves
<1>14. ASSUME has' = [has EXCEPT ![e][n] = new]
       PROVE  has'[d][m] = IF d = e /\ m = n THEN new ELSE has[d][m]
  <2>1. has \in [Dev -> [Msg -> Version]] /\ has[e] \in [Msg -> Version]
    BY <1>1 DEF TypeOK
  <2>2. has'[d] = IF d = e THEN [has[e] EXCEPT ![n] = new] ELSE has[d]
    BY <1>14, <2>1
  <2>3. QED
    BY <2>1, <2>2
<1>15. CASE has' = [has EXCEPT ![e][n] = new] /\ Written(IF writes THEN {e} ELSE {})
  <2>1. disk'[d] = IF writes /\ d = e THEN has'[d] ELSE disk[d]
    BY <1>15 DEF Written
  <2>2. QED
    BY <1>11, <1>14, <1>15, <2>1 DEF Moves
<1>16. CASE has' = [has EXCEPT ![e][n] = new] /\ UNCHANGED disk /\ writes /\ box[i].kind = "op"
  BY <1>11, <1>14, <1>16 DEF Moves
<1>17. CASE has' = [has EXCEPT ![e][n] = new] /\ Written({e}) /\ writes
  <2>1. disk'[d] = IF d = e THEN has'[d] ELSE disk[d]
    BY <1>17 DEF Written
  <2>2. QED
    BY <1>11, <1>14, <1>17, <2>1 DEF Moves
<1>18. QED
  BY <1>9, <1>13, <1>15, <1>16, <1>17

LEMMA NextMoves ==
    ASSUME ChatInv, [Next]_vars
    PROVE  \A d \in Dev, m \in Msg : Moves(d, m)
<1>1. CASE User
  BY <1>1, Unmoved DEF User, Send, Change, friend
<1>2. CASE Commands
  <2>1. ASSUME NEW m \in Msg, Deliver(m) PROVE \A d \in Dev, n \in Msg : Moves(d, n)
    <3>1. CASE Dial(m)
      BY <3>1, DialMoves, WorkerIs
    <3>2. CASE PreviewDone(m) \/ Start(m) \/ DepositOk(m) \/ DepositFail(m) \/ RecordSend(m)
      BY <3>2, Unmoved DEF PreviewDone, Start, DepositOk, DepositFail, RecordSend, friend
    <3>3. QED
      BY <2>1, <3>1, <3>2 DEF Deliver
  <2>2. QED
    BY <1>2, <2>1 DEF Commands
<1>3. CASE Outboxing
  <2>1. CASE Dial(Loop)
    BY <2>1, DialMoves, WorkerIs
  <2>2. CASE OpSend
    BY <2>2, OpSendMoves
  <2>3. CASE \/ \E hold \in Routes : RoundStart(hold)
             \/ TakeMessage \/ RecordMessage \/ TakeHeld \/ RecordHeld
    BY <2>3, Unmoved DEF RoundStart, TakeMessage, RecordMessage, TakeHeld, RecordHeld, friend
  <2>4. CASE \/ DepositOk(Loop) \/ DepositFail(Loop)
             \/ TakeOp \/ Unsend \/ OpDeposit \/ FollowDone
             \/ \E c \in loop.copies : FollowBack(c) \/ FollowDeposit(c)
    BY <2>4, Unmoved DEF DepositOk, DepositFail, TakeOp, Unsend, OpDeposit, FollowDone,
       FollowBack, FollowDeposit, friend
  <2>5. QED
    BY <1>3, <2>1, <2>2, <2>3, <2>4 DEF Outboxing
<1>4. CASE Background
  BY <1>4, Unmoved DEF Background, CancelOn, RefreshAsk, RefreshAnswer, RefreshLost,
     RefreshLedger, RefreshApply, friend
<1>5. CASE Friend
  <2>1. PICK e \in Dev : Fetch(e) \/ Rewrite(e) \/ Reopen(e) \/ \E m \in Msg : ReadReceipt(e, m)
    BY <1>5 DEF Friend
  <2>2. CASE FetchTake(e)
    BY <2>2, FetchTakeMoves
  <2>3. CASE FetchList(e) \/ FetchAck(e) \/ \E m \in Msg : ReadReceipt(e, m)
    BY <2>3, Unmoved DEF FetchList, FetchAck, ReadReceipt, friend
  <2>4. CASE Rewrite(e)
    <3>1. has' = has /\ disk' = [disk EXCEPT ![e] = has[e]] /\ disk \in [Dev -> [Msg -> Version]]
      BY <2>4 DEF Rewrite, ChatInv, TypeOK
    <3>2. \A d \in Dev : disk'[d] = IF d = e THEN has[e] ELSE disk[d]
      BY <3>1
    <3>3. QED
      BY <3>1, <3>2 DEF Moves
  <2>5. CASE Reopen(e)
    <3>1. disk' = disk /\ has' = [has EXCEPT ![e] = disk[e]] /\ has \in [Dev -> [Msg -> Version]]
      BY <2>5 DEF Reopen, ChatInv, TypeOK
    <3>2. \A d \in Dev : has'[d] = IF d = e THEN disk[e] ELSE has[d]
      BY <3>1
    <3>3. QED
      BY <3>1, <3>2 DEF Moves
  <2>6. QED
    BY <2>1, <2>2, <2>3, <2>4, <2>5 DEF Fetch
<1>6. CASE Crash \/ \E i \in Item : Expire(i)
  BY <1>6, Unmoved DEF Crash, Expire, friend
<1>7. CASE UNCHANGED vars
  BY <1>7, Unmoved DEF vars, friend
<1>8. QED
  BY <1>1, <1>2, <1>3, <1>4, <1>5, <1>6, <1>7 DEF Next

LEMMA ChatInvAlways == Spec => [](ChatInv /\ DiskInv)
<1>1. Init => ChatInv /\ DiskInv
  BY InitInv DEF Init, DiskInv, Behind
<1>2. (ChatInv /\ DiskInv) /\ [Next]_vars => (ChatInv /\ DiskInv)'
  BY NextKeeps, NextMoves, MovesKeeps
<1>3. QED
  BY <1>1, <1>2, PTL DEF Spec

\* A message that is on a device is on its disk.
LEMMA HasIsStored ==
    ASSUME DiskInv, NEW d \in Dev, NEW m \in Msg, Has(d, m)
    PROVE  disk[d][m] # "none"
BY DEF DiskInv, Behind, Has

\* Whatever the user, the loops, the devices and the disturbances do, every
\* store of the sender, of the server and of the devices keeps its form.
THEOREM TypeCorrect == Spec => []TypeOK
<1>1. ChatInv => TypeOK
  BY DEF ChatInv
<1>2. QED
  BY ChatInvAlways, <1>1, PTL

\* A bubble says "delivered" only when a device of the friend stored the
\* message, for any number of messages, devices, copies and disturbances
\* (set_status, apply_receipts, unsend_held).
THEOREM DeliveredIsRealAlways == Spec => []DeliveredIsReal
<1>1. ASSUME ChatInv, DiskInv PROVE DeliveredIsReal
  BY <1>1, HasIsStored DEF ChatInv, Real, DeliveredIsReal
<1>2. QED
  BY ChatInvAlways, <1>1, PTL

\* Direct deliveries never call back a server copy that one of its devices
\* still needs (delivered_directly, cancel_on, retry_cancels).
THEOREM NotCalledBackEarlyAlways == Spec => []NotCalledBackEarly
<1>1. ASSUME ChatInv, DiskInv PROVE NotCalledBackEarly
  <2>1. SUFFICES ASSUME NEW i \in Item, box[i] # None, box[i].kind = "chat",
                        box[i].state = "canceled", box[i].msg \notin gone,
                        NEW d \in box[i].to
                 PROVE  disk[d][box[i].msg] # "none"
    BY DEF NotCalledBackEarly
  <2>2. d \in Dev /\ box[i].msg \in Msg
    BY <1>1, <2>1, ItemIs DEF ChatInv
  <2>3. Has(d, box[i].msg)
    BY <1>1, <2>1 DEF ChatInv, BoxInv, Freed
  <2>4. QED
    BY <1>1, <2>2, <2>3, HasIsStored
<1>2. QED
  BY ChatInvAlways, <1>1, PTL

\* No edit or unsend is dropped before a device shows it, the server has taken
\* the message back, or it was given up where the code says so: by a device that
\* waited three days for its message, or one that ended with its write of the
\* change failed (ack_op, unsend_held, op_follows_copies, receive_one, save_all).
THEOREM ChangeNotForgottenAlways == Spec => []ChangeNotForgotten
<1>1. ASSUME ChatInv PROVE ChangeNotForgotten
  <2>1. SUFFICES ASSUME NEW m \in Msg, NEW kind \in OpKinds,
                        m \in (IF kind = "edit" THEN edited \ gone ELSE gone)
                 PROVE  \/ [msg |-> m, kind |-> kind] \in ops
                        \/ \E d \in Dev : Shows(d, m, kind)
                        \/ \E i \in Item : /\ box[i] # None
                                           /\ box[i].state \in {"held", "rejected", "expired"}
                                           /\ box[i].kind = "op" /\ box[i].msg = m /\ box[i].what = kind
                        \/ [msg |-> m, kind |-> kind] \in closed
    BY DEF ChangeNotForgotten
  <2>2. PICK o \in Op : o = [msg |-> m, kind |-> kind]
    BY DEF Op
  <2>3. o.msg = m /\ o.kind = kind
    BY <2>2
  <2>4. Remembered(o)
    BY <1>1, <2>1, <2>3 DEF ChatInv, ChangeInv, Due
  <2>5. QED
    BY <2>2, <2>3, <2>4 DEF Remembered, Waits
<1>2. QED
  BY ChatInvAlways, <1>1, PTL

\* A device that unsent a message never shows it again, whatever copy of it
\* arrives later (append_durable, apply_edit).
THEOREM UnsentStaysGoneAlways == Spec => UnsentStaysGone
<1>1. ASSUME ChatInv, DiskInv, [Next]_vars
      PROVE  [\A d \in Dev, m \in Msg : disk[d][m] = "gone" => disk'[d][m] = "gone"]_vars
  BY <1>1, NextMoves, MovesKeeps DEF DiskKeeps
<1>2. QED
  BY ChatInvAlways, <1>1, PTL DEF Spec, UnsentStaysGone

=============================================================================
