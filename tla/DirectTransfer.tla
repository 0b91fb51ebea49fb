--------------------------- MODULE DirectTransfer ---------------------------
(***************************************************************************)
(* One big file pushed straight to a friend's device.  The file travels in *)
(* ranges, each on a stream of its own, into a hidden partial that the     *)
(* receiver keeps when the connection is lost; the next attempt sends only *)
(* the ranges the partial still misses, and before the file gets its name  *)
(* both sides compare the hash of every block.                             *)
(*                                                                         *)
(* Both builds are current and the receiver takes files from this friend   *)
(* without asking.  A block stands for the range of one stream and for the *)
(* piece that has a hash of its own; a version number stands for what is   *)
(* in it.  A partial is named after the sender, the name, the size and the *)
(* whole seconds of the modification time of the file, of which only the   *)
(* seconds vary here.                                                      *)
(***************************************************************************)
EXTENDS Integers, FiniteSets, Sequences

CONSTANTS
    Block,      \* the blocks of the file
    Attempts,   \* connections the sender may dial
    MaxStall,   \* attempts in a row that may bring nothing new
    Upsets,     \* what may go wrong, or be asked by the two users
    MaxUpsets,  \* how often
    MaxEdits,   \* how often the file is edited
    None

ASSUME DirectAssumption ==
    /\ Block # {} /\ IsFiniteSet(Block)
    /\ Attempts \in Nat /\ MaxStall \in Nat \ {0} /\ MaxUpsets \in Nat /\ MaxEdits \in Nat
    /\ Upsets \subseteq {"edit", "drop", "crash", "disk", "cancel", "resend", "clear", "wait"}

\* What is not there is told from what could be.
ASSUME NoneAssumption ==
    /\ \A S \in SUBSET Block : S # None
    /\ None \notin Nat \cup {- 1} \cup [Block -> Nat]
                \cup [text : [Block -> Nat \cup {- 1}], dur : SUBSET Block, named : BOOLEAN]

VARIABLES
    src,        \* the file on the sender's disk
    texts,      \* everything that file has been
    snd,        \* the sender's task
    rcv,        \* the receiver's handler of each attempt
    part,       \* the partials on the receiver's disk
    side,       \* their sidecars: the blocks a partial is said to hold
    clearing,   \* what "Clear transfer cache" has still to look at
    landed,     \* the files that got their name, in the order they did
    upsets      \* what went wrong so far

vars == <<src, texts, snd, rcv, part, side, clearing, landed, upsets>>

Attempt == 1 .. Attempts

\* A partial's name: whole seconds, or below zero the throwaway of an attempt.
Second == 0 .. MaxEdits
Key == (- Attempts) .. MaxEdits

Hole == - 1
Text == [Block -> Nat]
NoText == [b \in Block |-> None]
Known(t) == {b \in Block : t[b] # None}

\* `named` is false once the file was deleted under a handler that has it open.
NewPart == [text |-> [b \in Block |-> Hole], dur |-> {}, named |-> TRUE]

NoHandler == [pc |-> "none", key |-> 0, owns |-> FALSE, have |-> {}, cov |-> {}, leaves |-> NoText,
              wire |-> NoText, manifest |-> None, link |-> FALSE, reply |-> "none", stop |-> FALSE]

Begun(att, stall, high) ==
    [pc |-> "idle", att |-> att, stall |-> stall, high |-> high, have |-> {}, stamp |-> None,
     opened |-> FALSE, leaves |-> NoText, held |-> NoText]

\* Partials that some handler owns.
Owned == {rcv[k].key : k \in {j \in Attempt : rcv[j].owns}}

Cur == snd.att
Link == rcv[Cur].link

Init ==
    /\ src = [text |-> [b \in Block |-> 0], stamp |-> 0, secs |-> 0, early |-> FALSE]
    /\ texts = {src.text}
    /\ snd = Begun(0, 0, 0)
    /\ rcv = [k \in Attempt |-> NoHandler]
    /\ part = [f \in Key |-> None]
    /\ side = [f \in Second |-> None]
    /\ clearing = {}
    /\ landed = <<>>
    /\ upsets = 0

Upset(u) == u \in Upsets /\ upsets < MaxUpsets /\ upsets' = upsets + 1

----------------------------------------------------------------------------
(* The sender. *)

\* Each attempt looks at the file anew and dials.
Dial ==
    /\ snd.pc = "idle" /\ Cur < Attempts
    /\ snd' = [Begun(Cur + 1, snd.stall, snd.high) EXCEPT !.pc = "ask"]
    /\ rcv' = [rcv EXCEPT ![Cur + 1] =
                  [NoHandler EXCEPT !.pc = "asked", !.key = src.secs, !.link = TRUE]]
    /\ UNCHANGED <<src, texts, part, side, clearing, landed, upsets>>

\* The friend cannot be reached for as long as the sender keeps dialing.
Unreachable ==
    /\ snd.pc = "idle"
    /\ snd' = [snd EXCEPT !.pc = "failed"]
    /\ UNCHANGED <<src, texts, rcv, part, side, clearing, landed, upsets>>

GotReady ==
    /\ snd.pc = "ask" /\ Link /\ rcv[Cur].reply = "ready"
    /\ snd' = [snd EXCEPT !.pc = "send", !.have = rcv[Cur].have]
    /\ UNCHANGED <<src, texts, rcv, part, side, clearing, landed, upsets>>

\* Mistake: no stream is opened when nothing is missing.
OpenStreamsNotEmpty ==
    /\ snd.pc = "send" /\ ~ snd.opened /\ snd.have # Block
    /\ snd' = [snd EXCEPT !.opened = TRUE, !.stamp = src.stamp]
    /\ UNCHANGED <<src, texts, rcv, part, side, clearing, landed, upsets>>

\* One time stamp for the whole plan, then the streams; a plan with nothing to
\* send still opens one, which is empty.
OpenStreams ==
    /\ snd.pc = "send" /\ ~ snd.opened
    /\ snd' = [snd EXCEPT !.opened = TRUE,
                          !.stamp = IF snd.have = Block THEN None ELSE src.stamp]
    /\ UNCHANGED <<src, texts, rcv, part, side, clearing, landed, upsets>>

\* Meanwhile the blocks the receiver kept are hashed from the file.
HashRetained(b) ==
    /\ snd.pc = "send" /\ b \in snd.have /\ snd.leaves[b] = None
    /\ snd' = [snd EXCEPT !.leaves[b] = src.text[b]]
    /\ UNCHANGED <<src, texts, rcv, part, side, clearing, landed, upsets>>

ReadRange(b) ==
    /\ snd.pc = "send" /\ snd.opened /\ b \notin snd.have /\ snd.held[b] = None
    /\ snd' = [snd EXCEPT !.held[b] = src.text[b]]
    /\ UNCHANGED <<src, texts, rcv, part, side, clearing, landed, upsets>>

\* Mistake: the stamp is not looked at before the last piece goes.
SendRangeUnchecked(b) ==
    /\ snd.pc = "send" /\ snd.held[b] # None /\ snd.leaves[b] = None /\ Link
    /\ snd' = [snd EXCEPT !.leaves[b] = snd.held[b]]
    /\ rcv' = [rcv EXCEPT ![Cur].wire[b] = snd.held[b]]
    /\ UNCHANGED <<src, texts, part, side, clearing, landed, upsets>>

\* The last piece of a range goes only if the file still has its stamp.
SendRange(b) ==
    /\ snd.pc = "send" /\ snd.held[b] # None /\ snd.leaves[b] = None /\ Link
    /\ src.stamp = snd.stamp
    /\ snd' = [snd EXCEPT !.leaves[b] = snd.held[b]]
    /\ rcv' = [rcv EXCEPT ![Cur].wire[b] = snd.held[b]]
    /\ UNCHANGED <<src, texts, part, side, clearing, landed, upsets>>

\* After every block was hashed, the hashes follow.
SendHashes ==
    /\ snd.pc = "send" /\ snd.opened /\ Link
    /\ Known(snd.leaves) = Block
    /\ snd' = [snd EXCEPT !.pc = "wait", !.held = NoText]
    /\ rcv' = [rcv EXCEPT ![Cur].manifest = snd.leaves]
    /\ UNCHANGED <<src, texts, part, side, clearing, landed, upsets>>

\* An attempt failed.  It is repeated as long as attempts bring something new,
\* but only when the receiver had agreed to resume this time.
AttemptFails ==
    /\ \E high \in snd.high .. Cardinality(rcv[Cur].cov) \cup {snd.high} :
          LET stall == IF high > snd.high THEN 0 ELSE snd.stall + 1
              again == snd.pc # "ask" /\ stall < MaxStall
          IN  snd' = [Begun(Cur, stall, high) EXCEPT !.pc = IF again THEN "idle" ELSE "failed"]
    /\ rcv' = [rcv EXCEPT ![Cur].link = FALSE]

SourceChanged ==
    /\ snd.pc = "send" /\ src.stamp # snd.stamp
    /\ \E b \in Block : snd.held[b] # None /\ snd.leaves[b] = None
    /\ AttemptFails
    /\ UNCHANGED <<src, texts, part, side, clearing, landed, upsets>>

SenderLost ==
    /\ snd.pc \in {"ask", "send", "wait"} /\ ~ Link
    /\ AttemptFails
    /\ UNCHANGED <<src, texts, part, side, clearing, landed, upsets>>

GotError ==
    /\ snd.pc \in {"ask", "send", "wait"} /\ Link /\ rcv[Cur].reply = "error"
    /\ AttemptFails
    /\ UNCHANGED <<src, texts, part, side, clearing, landed, upsets>>

\* Terminal: the file arrived, its blocks differ, or the receiver stopped it.
GotVerdict ==
    /\ snd.pc \in {"ask", "send", "wait"} /\ Link
    /\ rcv[Cur].reply \in {"ok", "differs", "stopped"}
    /\ snd' = [snd EXCEPT !.pc = IF rcv[Cur].reply = "ok" THEN "done" ELSE "failed",
                          !.held = NoText, !.stamp = None]
    /\ rcv' = [rcv EXCEPT ![Cur].link = FALSE]
    /\ UNCHANGED <<src, texts, part, side, clearing, landed, upsets>>

----------------------------------------------------------------------------
(* The receiver's handler of one attempt. *)

\* Files of the handler's partial after it let go of it.
Let(k, p) == [part EXCEPT ![rcv[k].key] = IF p = None \/ ~ p.named THEN None ELSE p]

\* Ownership of the partial ends, the handler too.
Over(k, reply) ==
    rcv' = [rcv EXCEPT ![k] = [NoHandler EXCEPT !.pc = "over", !.reply = reply, !.key = rcv[k].key,
                                                !.cov = rcv[k].cov, !.link = rcv[k].link]]

\* The partial a handler opens, with what is kept of an earlier attempt.  A new
\* one starts from nothing, whatever sidecar is found beside it.
Open(k, f, owns, cov) ==
    /\ part' = [part EXCEPT ![f] = IF @ = None THEN NewPart ELSE @]
    /\ rcv' = [rcv EXCEPT ![k] = [rcv[k] EXCEPT !.pc = "ready", !.key = f, !.owns = owns,
                                                !.have = cov, !.cov = cov, !.reply = "ready"]]

Claim(k) ==
    LET f == rcv[k].key
    IN  /\ rcv[k].pc = "asked" /\ f \notin Owned
        /\ Open(k, f, TRUE, IF part[f] = None \/ side[f] = None THEN {} ELSE side[f])
        /\ side' = IF part[f] = None THEN [side EXCEPT ![f] = None] ELSE side
        /\ UNCHANGED <<src, texts, snd, clearing, landed, upsets>>

\* The handler of an earlier attempt did not let go in time: a throwaway.
WaitExpires(k) ==
    /\ Upset("wait")
    /\ rcv[k].pc = "asked" /\ rcv[k].key \in Owned
    /\ Open(k, - k, FALSE, {})
    /\ UNCHANGED <<src, texts, snd, side, clearing, landed>>

FirstStream(k) ==
    /\ rcv[k].pc = "ready" /\ rcv[k].link /\ Cur = k /\ snd.opened
    /\ rcv' = [rcv EXCEPT ![k].pc = "recv"]
    /\ UNCHANGED <<src, texts, snd, part, side, clearing, landed, upsets>>

\* The connection ends before a stream came: the partial stays as it was.
NoStream(k) ==
    /\ rcv[k].pc = "ready" /\ ~ rcv[k].link /\ ~ rcv[k].stop
    /\ part' = Let(k, IF rcv[k].owns THEN part[rcv[k].key] ELSE None)
    /\ Over(k, "error")
    /\ UNCHANGED <<src, texts, snd, side, clearing, landed, upsets>>

\* A partial with a block written into it, not synced yet, and the handler that
\* counts it.
Written(p, b, t) == [p EXCEPT !.text[b] = t, !.dur = p.dur \ {b}]
Counted(h, b) == [h EXCEPT !.cov = h.cov \cup {b}, !.leaves[b] = h.wire[b]]

\* Mistake: a range is counted although its write failed.
ArriveUnwritten(k, b) ==
    /\ rcv[k].pc = "recv" /\ rcv[k].link /\ ~ rcv[k].stop
    /\ rcv[k].wire[b] # None /\ b \notin rcv[k].cov
    /\ rcv' = [rcv EXCEPT ![k] = Counted(@, b)]
    /\ UNCHANGED <<src, texts, snd, part, side, clearing, landed, upsets>>

\* A range is written and flushed, then counted.
Arrive(k, b) ==
    /\ rcv[k].pc = "recv" /\ rcv[k].link /\ ~ rcv[k].stop
    /\ rcv[k].wire[b] # None /\ b \notin rcv[k].cov
    /\ part' = [part EXCEPT ![rcv[k].key] = Written(@, b, rcv[k].wire[b])]
    /\ rcv' = [rcv EXCEPT ![k] = Counted(@, b)]
    /\ UNCHANGED <<src, texts, snd, side, clearing, landed, upsets>>

\* The blocks that were kept are hashed from the partial.
HashPart(k) ==
    /\ rcv[k].pc = "recv" /\ \E b \in rcv[k].have : rcv[k].leaves[b] = None
    /\ rcv' = [rcv EXCEPT ![k].leaves = [b \in Block |-> IF b \in rcv[k].have
                              THEN part[rcv[k].key].text[b] ELSE rcv[k].leaves[b]]]
    /\ UNCHANGED <<src, texts, snd, part, side, clearing, landed, upsets>>

\* What a partial and a sidecar are after the data was synced and then claimed.
Synced(p) == [p EXCEPT !.dur = {b \in Block : p.text[b] # Hole}]
Claimed(k, cov) == IF rcv[k].owns THEN [side EXCEPT ![rcv[k].key] = cov] ELSE side

\* Mistake: the coverage is written without the data being synced.
PersistUnsynced(k) ==
    /\ rcv[k].pc = "recv" /\ rcv[k].owns /\ side[rcv[k].key] # rcv[k].cov
    /\ side' = Claimed(k, rcv[k].cov)
    /\ UNCHANGED <<src, texts, snd, rcv, part, clearing, landed, upsets>>

\* Every now and then the data is synced and the coverage written down.
Persist(k) ==
    /\ rcv[k].pc = "recv" /\ rcv[k].owns /\ side[rcv[k].key] # rcv[k].cov
    /\ part' = [part EXCEPT ![rcv[k].key] = Synced(@)]
    /\ side' = Claimed(k, rcv[k].cov)
    /\ UNCHANGED <<src, texts, snd, rcv, clearing, landed, upsets>>

\* Every block is there: the data is synced, and the coverage is taken back
\* before the blocks are compared.
Complete(k) ==
    /\ rcv[k].pc = "recv" /\ ~ rcv[k].stop
    /\ rcv[k].cov = Block /\ Known(rcv[k].leaves) = Block
    /\ part' = IF rcv[k].owns THEN [part EXCEPT ![rcv[k].key] = Synced(@)] ELSE part
    /\ side' = Claimed(k, None)
    /\ rcv' = [rcv EXCEPT ![k] = [rcv[k] EXCEPT !.pc = "verify", !.wire = NoText]]
    /\ UNCHANGED <<src, texts, snd, clearing, landed, upsets>>

\* Mistake: the hashes are awaited and not compared.
VerifyUncompared(k) ==
    /\ rcv[k].pc = "verify" /\ rcv[k].link /\ ~ rcv[k].stop /\ rcv[k].manifest # None
    /\ rcv' = [rcv EXCEPT ![k].pc = "compare"]
    /\ UNCHANGED <<src, texts, snd, part, side, clearing, landed, upsets>>

\* Blocks that match the sender's are kept for the next attempt, and only those.
Verify(k) ==
    /\ rcv[k].pc = "verify" /\ rcv[k].link /\ ~ rcv[k].stop /\ rcv[k].manifest # None
    /\ IF rcv[k].manifest = rcv[k].leaves
       THEN /\ rcv' = [rcv EXCEPT ![k].pc = "compare"]
            /\ UNCHANGED <<part, side>>
       ELSE /\ side' = Claimed(k, {b \in Block : rcv[k].manifest[b] = rcv[k].leaves[b]})
            /\ part' = Let(k, part[rcv[k].key])
            /\ Over(k, "differs")
    /\ UNCHANGED <<src, texts, snd, clearing, landed, upsets>>

\* Without the hashes nothing of the partial is trusted any more.
LostVerifying(k) ==
    /\ rcv[k].pc = "verify" /\ ~ rcv[k].link /\ ~ rcv[k].stop
    /\ side' = Claimed(k, {})
    /\ part' = Let(k, part[rcv[k].key])
    /\ Over(k, "error")
    /\ UNCHANGED <<src, texts, snd, clearing, landed, upsets>>

\* Mistake: what is already there is not looked at.
CompareNever(k) ==
    /\ rcv[k].pc = "compare"
    /\ rcv' = [rcv EXCEPT ![k].pc = "publish"]
    /\ UNCHANGED <<src, texts, snd, part, side, clearing, landed, upsets>>

\* A file that is already there under its name is not put there twice.
Compare(k) ==
    LET p == part[rcv[k].key]
    IN  /\ rcv[k].pc = "compare"
        /\ IF p.named /\ \E i \in DOMAIN landed : landed[i] = p.text
           THEN /\ part' = [part EXCEPT ![rcv[k].key] = None]
                /\ side' = Claimed(k, None)
                /\ rcv' = [rcv EXCEPT ![k].pc = "tell"]
           ELSE /\ rcv' = [rcv EXCEPT ![k].pc = "publish"]
                /\ UNCHANGED <<part, side>>
        /\ UNCHANGED <<src, texts, snd, clearing, landed, upsets>>

Publish(k) ==
    LET p == part[rcv[k].key]
    IN  /\ rcv[k].pc = "publish"
        /\ IF p.named
           THEN /\ landed' = Append(landed, p.text)
                /\ part' = [part EXCEPT ![rcv[k].key] = None]
                /\ side' = Claimed(k, None)
                /\ rcv' = [rcv EXCEPT ![k].pc = "tell"]
           ELSE /\ part' = Let(k, p)
                /\ Over(k, "error")
                /\ UNCHANGED <<side, landed>>
        /\ UNCHANGED <<src, texts, snd, clearing, upsets>>

Tell(k) ==
    /\ rcv[k].pc = "tell"
    /\ Over(k, "ok")
    /\ UNCHANGED <<src, texts, snd, part, side, clearing, landed, upsets>>

\* The partial and what it holds are kept for the next attempt; a throwaway is
\* removed.
Interrupted(k) ==
    /\ IF rcv[k].owns
       THEN part' = Let(k, Synced(part[rcv[k].key])) /\ side' = Claimed(k, rcv[k].cov)
       ELSE part' = [part EXCEPT ![rcv[k].key] = None] /\ UNCHANGED side
    /\ Over(k, "error")

ReceiverLost(k) ==
    /\ rcv[k].pc = "recv" /\ ~ rcv[k].stop
    /\ ~ rcv[k].link \/ ~ part[rcv[k].key].named
    /\ Interrupted(k)
    /\ UNCHANGED <<src, texts, snd, clearing, landed, upsets>>

\* The receiver's user stopped it: nothing is kept.
Canceled(k) ==
    /\ rcv[k].pc \in {"ready", "recv", "verify"} /\ rcv[k].stop
    /\ part' = [part EXCEPT ![rcv[k].key] = IF rcv[k].pc = "verify" /\ ~ rcv[k].owns THEN @ ELSE None]
    /\ side' = Claimed(k, None)
    /\ Over(k, "stopped")
    /\ UNCHANGED <<src, texts, snd, clearing, landed, upsets>>

----------------------------------------------------------------------------
(* The world. *)

\* Somebody writes to the file while it is being sent, in place.  The seconds of
\* its time need not change.  `early` notes an edit after a kept block was hashed
\* and before the time stamp was taken.
Edit ==
    /\ Upset("edit") /\ src.stamp < MaxEdits
    /\ \E S \in SUBSET Block \ {{}}, same \in BOOLEAN :
          src' = [text |-> [b \in Block |-> IF b \in S THEN src.stamp + 1 ELSE src.text[b]],
                  stamp |-> src.stamp + 1,
                  secs |-> IF same THEN src.secs ELSE src.stamp + 1,
                  early |-> src.early \/ (snd.pc = "send" /\ ~ snd.opened /\ Known(snd.leaves) # {})]
    /\ texts' = texts \cup {src'.text}
    /\ UNCHANGED <<snd, rcv, part, side, clearing, landed>>

Drop ==
    /\ Upset("drop")
    /\ snd.pc \in {"ask", "send", "wait"} /\ Link
    /\ rcv' = [rcv EXCEPT ![Cur].link = FALSE]
    /\ UNCHANGED <<src, texts, snd, part, side, clearing, landed>>

\* Power fails at the receiver: what was not synced may be lost.
Crash ==
    /\ Upset("crash")
    /\ \E S \in SUBSET Block :
          part' = [f \in Key |->
              IF part[f] = None \/ ~ part[f].named THEN None
              ELSE [part[f] EXCEPT !.text = [b \in Block |->
                       IF b \in S \ part[f].dur THEN Hole ELSE part[f].text[b]]]]
    /\ rcv' = [k \in Attempt |-> IF rcv[k].pc = "none" THEN rcv[k]
                  ELSE [NoHandler EXCEPT !.pc = "over", !.key = rcv[k].key, !.cov = rcv[k].cov]]
    /\ clearing' = {}
    /\ UNCHANGED <<src, texts, snd, side, landed>>

DiskFails(k) ==
    /\ Upset("disk")
    /\ rcv[k].pc = "recv"
    /\ Interrupted(k)
    /\ UNCHANGED <<src, texts, snd, clearing, landed>>

ReceiverCancels(k) ==
    /\ Upset("cancel")
    /\ rcv[k].pc \in {"ready", "recv", "verify"} /\ ~ rcv[k].stop
    /\ rcv' = [rcv EXCEPT ![k] = [rcv[k] EXCEPT !.stop = TRUE, !.reply = "stopped"]]
    /\ UNCHANGED <<src, texts, snd, part, side, clearing, landed>>

SenderStops ==
    /\ Upset("cancel")
    /\ snd.pc \in {"ask", "send", "wait"}
    /\ snd' = [snd EXCEPT !.pc = "failed"]
    /\ rcv' = [rcv EXCEPT ![Cur].link = FALSE]
    /\ UNCHANGED <<src, texts, part, side, clearing, landed>>

\* The user sends the same file once more.
SendAgain ==
    /\ Upset("resend")
    /\ snd.pc \in {"done", "failed"}
    /\ snd' = Begun(Cur, 0, 0)
    /\ UNCHANGED <<src, texts, rcv, part, side, clearing, landed>>

\* "Clear transfer cache" notes which partials are in use and then goes through
\* the directory.
ClearStarts ==
    /\ Upset("clear")
    /\ clearing' = {<<f, "part">> : f \in {g \in Second \ Owned : part[g] # None}}
              \cup {<<f, "side">> : f \in {g \in Second \ Owned : side[g] # None}}
    /\ clearing' # {}
    /\ UNCHANGED <<src, texts, snd, rcv, part, side, landed>>

ClearRemoves ==
    /\ \E c \in clearing :
          LET f == c[1]
          IN  /\ clearing' = clearing \ {c}
              /\ IF c[2] = "side"
                 THEN side' = [side EXCEPT ![f] = None] /\ UNCHANGED part
                 ELSE /\ part' = [part EXCEPT ![f] =
                             IF part[f] # None /\ f \in Owned
                             THEN [part[f] EXCEPT !.named = FALSE] ELSE None]
                      /\ UNCHANGED side
    /\ UNCHANGED <<src, texts, snd, rcv, landed, upsets>>

----------------------------------------------------------------------------
Sender ==
    \/ Dial \/ Unreachable \/ GotReady \/ OpenStreams \/ SendHashes
    \/ \E b \in Block : HashRetained(b) \/ ReadRange(b) \/ SendRange(b)
    \/ SourceChanged \/ SenderLost \/ GotError \/ GotVerdict

Receiver(k) ==
    \/ Claim(k) \/ FirstStream(k) \/ NoStream(k)
    \/ HashPart(k) \/ \E b \in Block : Arrive(k, b)
    \/ Persist(k) \/ Complete(k) \/ Verify(k) \/ LostVerifying(k)
    \/ Compare(k) \/ Publish(k) \/ Tell(k) \/ ReceiverLost(k) \/ Canceled(k)

World ==
    \/ Edit \/ Drop \/ Crash \/ SenderStops \/ SendAgain \/ ClearStarts \/ ClearRemoves
    \/ \E k \in Attempt : WaitExpires(k) \/ DiskFails(k) \/ ReceiverCancels(k)

Next == Sender \/ World \/ \E k \in Attempt : Receiver(k)

Spec == Init /\ [][Next]_vars

\* Tasks that can go on do; nothing is assumed of the two users or of faults.
Fairness == WF_vars(Sender) /\ \A k \in Attempt : WF_vars(Receiver(k))

FairSpec == Spec /\ Fairness

----------------------------------------------------------------------------
(* Properties. *)

TextOrNone == [Block -> Nat \cup {None}]

SrcType == [text : Text, stamp : Nat, secs : Second, early : BOOLEAN]

SndType == [pc : {"idle", "ask", "send", "wait", "done", "failed"}, att : 0 .. Attempts,
            stall : 0 .. MaxStall, high : 0 .. Cardinality(Block), have : SUBSET Block,
            stamp : Nat \cup {None}, opened : BOOLEAN, leaves : TextOrNone, held : TextOrNone]

HandlerType == [pc : {"none", "asked", "ready", "recv", "verify", "compare", "publish", "tell", "over"},
                key : Key, owns : BOOLEAN, have : SUBSET Block, cov : SUBSET Block,
                leaves : [Block -> Nat \cup {None, Hole}], wire : TextOrNone,
                manifest : {None} \cup Text, link : BOOLEAN,
                reply : {"none", "ready", "ok", "differs", "error", "stopped"}, stop : BOOLEAN]

PartType == [text : [Block -> Nat \cup {Hole}], dur : SUBSET Block, named : BOOLEAN]

\* The type of the state of a sender, of the handlers and of their files.
TypeOK ==
    /\ src \in SrcType
    /\ texts \subseteq Text
    /\ snd \in SndType
    /\ rcv \in [Attempt -> HandlerType]
    /\ part \in [Key -> {None} \cup PartType]
    /\ side \in [Second -> {None} \cup SUBSET Block]
    /\ clearing \subseteq Second \X {"part", "side"}
    /\ landed \in Seq(Text)
    /\ upsets \in 0 .. MaxUpsets

\* A file that got its name is one the sender's file has been, never one with a
\* hole and never a mix of two of its versions, except in one window: the file is
\* edited after a kept block was hashed and before the stamp of the plan is taken.
WholeUnlessEarly == src.early \/ \A i \in DOMAIN landed : landed[i] \in texts

\* A send that says it is done left, at the receiver, a file with exactly the
\* blocks it hashed.
DoneIsLanded == snd.pc = "done" => \E i \in DOMAIN landed : landed[i] = snd.leaves

\* A retry after a lost receipt, a resend or a late handler never leaves the same
\* file twice, as long as all attempts went into one partial.
NoSecondCopy ==
    \/ \E k, j \in 1 .. Cur : rcv[k].key # rcv[j].key
    \/ \A i, j \in DOMAIN landed : landed[i] = landed[j] => i = j

\* A resumed attempt never counts on a block its partial does not hold, also
\* after a power cut and when partials are being cleared.
ResumeIsReal ==
    \A k \in Attempt : rcv[k].pc \in {"ready", "recv", "verify"} =>
        \A b \in rcv[k].have : part[rcv[k].key].text[b] # Hole

\* A send comes to an end, and so does every handler it left behind.
EverySendEnds ==
    /\ []<>(snd.pc \in {"done", "failed"})
    /\ \A k \in Attempt : []<>(rcv[k].pc \in {"none", "over"})

=============================================================================
