------------------------ MODULE DirectTransferProofs ------------------------
(***************************************************************************)
(* Theorems about DirectTransfer, for every value of its constants.        *)
(***************************************************************************)
EXTENDS DirectTransfer, FiniteSetTheorems, TLAPS

(***************************************************************************)
(* The invariant.                                                          *)
(***************************************************************************)
\* A handler that has a partial open, and one that has not published it yet.
Active == {"ready", "recv", "verify", "compare", "publish", "tell"}
InFile == Active \ {"tell"}

\* A sender that may go on has attempts left to waste; it sends to a handler that
\* opened its partial.
SenderInv ==
    /\ snd.pc \in {"idle", "ask", "send", "wait"} => snd.stall < MaxStall
    /\ snd.pc \in {"ask", "send", "wait"} => snd.att \in Attempt /\ rcv[snd.att].pc # "none"
    /\ snd.pc = "ask" => snd.leaves = NoText /\ snd.held = NoText /\ ~ snd.opened
    /\ snd.pc = "send" => rcv[snd.att].pc \notin {"none", "asked"}

\* The partial of a handler: the one of the file, which it then owns, or its own
\* throwaway.
KeyInv(k) ==
    /\ k > snd.att => rcv[k].pc = "none"
    /\ rcv[k].key \in Second \cup {- k}
    /\ rcv[k].pc \in {"none", "asked"} =>
          /\ rcv[k].key \in Second /\ rcv[k].reply = "none"
          /\ rcv[k].leaves = NoText /\ rcv[k].manifest = None
    /\ rcv[k].owns <=> rcv[k].pc \in Active /\ rcv[k].key \in Second

OwnersInv ==
    \A j, k \in Attempt : rcv[j].owns /\ rcv[k].owns /\ rcv[j].key = rcv[k].key => j = k

Has(t) == \E i \in DOMAIN landed : landed[i] = t

\* What the two ends of a connection know of each other.
LinkInv(k) ==
    /\ rcv[k].link => k = snd.att /\ snd.pc \in {"ask", "send", "wait"}
    /\ rcv[k].link /\ rcv[k].manifest # None /\ rcv[k].pc \in Active
          => snd.pc = "wait" /\ snd.leaves = rcv[k].manifest
    /\ rcv[k].link /\ rcv[k].reply = "ok" => snd.pc = "wait" /\ Has(snd.leaves)
    /\ rcv[k].pc = "tell" => Has(rcv[k].manifest)

\* The partial of a handler holds what the handler counts on.
FileInv(k) ==
    rcv[k].pc \in InFile =>
        /\ part[rcv[k].key] # None
        /\ rcv[k].have \subseteq rcv[k].cov
        /\ \A b \in rcv[k].cov : part[rcv[k].key].text[b] # Hole
        /\ \A b \in Block : rcv[k].leaves[b] # None => rcv[k].leaves[b] = part[rcv[k].key].text[b]
        /\ rcv[k].pc \in {"verify", "compare", "publish"} =>
              /\ rcv[k].cov = Block /\ Known(rcv[k].leaves) = Block
              /\ rcv[k].owns => part[rcv[k].key].dur = Block
        /\ rcv[k].pc \in {"compare", "publish"} =>
              rcv[k].manifest # None /\ rcv[k].manifest = rcv[k].leaves
        /\ rcv[k].pc \in {"ready", "recv"} /\ rcv[k].owns /\ side[rcv[k].key] # None
              => side[rcv[k].key] \subseteq rcv[k].cov

\* The hashes a handler got are of one version of the file, except that a kept
\* block may be older than that version and its hash newer.
HashesOf(k, t) ==
    \A b \in Block : IF b \in rcv[k].have
                     THEN part[rcv[k].key].text[b] =< t[b] /\ t[b] =< rcv[k].manifest[b]
                     ELSE rcv[k].manifest[b] = t[b]

ManifestInv(k) ==
    rcv[k].pc \in InFile /\ rcv[k].manifest # None =>
        src.early \/ \E t \in texts : HashesOf(k, t)

\* A partial holds, safe from a power cut, what its sidecar says.
DiskInv(f) ==
    part[f] # None /\ side[f] # None =>
        \A b \in side[f] : part[f].text[b] # Hole /\ b \in part[f].dur

\* Nothing is newer than the file.
BoundInv ==
    /\ src.text \in texts
    /\ \A b \in Block : src.text[b] =< src.stamp
    /\ snd.stamp # None => snd.stamp =< src.stamp
    /\ \A f \in Key : part[f] # None => \A b \in Block : part[f].text[b] =< src.text[b]
    /\ \A k \in Attempt, b \in Block : rcv[k].wire[b] # None => rcv[k].wire[b] =< src.text[b]
    /\ \A b \in Block : snd.held[b] # None => snd.held[b] =< src.text[b]

\* t was the file when its stamp was taken: as long as the stamp is the same, t is
\* what was read and sent; a kept block was hashed then or later, and the one in the
\* partial is not newer.
StampedAs(t) ==
    /\ \A b \in Block : t[b] =< src.text[b]
    /\ src.stamp = snd.stamp =>
          src.text = t /\ \A b \in Block : snd.held[b] # None => snd.held[b] = t[b]
    /\ \A b \in Block : snd.leaves[b] # None =>
          IF b \in snd.have THEN t[b] =< snd.leaves[b] ELSE snd.leaves[b] = t[b]
    /\ rcv[snd.att].pc \in InFile =>
          \A b \in snd.have : part[rcv[snd.att].key].text[b] =< t[b]

SendInv ==
    snd.pc = "send" =>
        /\ rcv[snd.att].pc \in InFile => snd.have = rcv[snd.att].have
        /\ \A b \in snd.have : snd.held[b] = None
        /\ ~ snd.opened =>
              /\ snd.held = NoText
              /\ \A b \in Block : snd.leaves[b] # None =>
                    b \in snd.have /\ (src.early \/ snd.leaves[b] = src.text[b])
        /\ snd.opened => src.early \/ \E t \in texts : StampedAs(t)

\* All attempts went into one partial; then no two files that landed are the same,
\* and the one about to land is not there.
SameKeys == \A k, j \in 1 .. snd.att : rcv[k].key = rcv[j].key

CopyInv ==
    SameKeys =>
        /\ \A i, j \in DOMAIN landed : landed[i] = landed[j] => i = j
        /\ \A k \in 1 .. snd.att :
              rcv[k].pc = "publish" /\ part[rcv[k].key].named => ~ Has(part[rcv[k].key].text)

TransferInv ==
    /\ TypeOK /\ SenderInv /\ OwnersInv /\ BoundInv /\ SendInv /\ CopyInv
    /\ \A k \in Attempt : KeyInv(k) /\ LinkInv(k) /\ FileInv(k) /\ ManifestInv(k)
    /\ \A f \in Second : DiskInv(f)
    /\ WholeUnlessEarly /\ DoneIsLanded

(***************************************************************************)
(* Constants and types.                                                    *)
(***************************************************************************)
LEMMA KeysAre ==
    /\ Second \subseteq Key
    /\ \A k \in Attempt : - k \in Key /\ - k \notin Second /\ k \in Nat
    /\ \A j, k \in Attempt : - j = - k => j = k
    /\ 0 \in Second
BY DirectAssumption DEF Second, Key, Attempt

LEMMA NoneIs ==
    /\ \A n \in Nat : n # None
    /\ None # Hole
    /\ \A S \in SUBSET Block : S # None
    /\ \A t \in Text : t # None
    /\ \A p \in PartType : p # None
BY NoneAssumption DEF Hole, Text, PartType

LEMMA BlocksAre ==
    /\ Cardinality(Block) \in Nat
    /\ \A S \in SUBSET Block : Cardinality(S) \in Nat /\ Cardinality(S) =< Cardinality(Block)
BY DirectAssumption, FS_CardinalityType, FS_Subset

LEMMA NoTextTyped == NoText \in TextOrNone /\ \A b \in Block : NoText[b] = None
BY DEF NoText, TextOrNone

LEMMA NewPartTyped ==
    /\ NewPart \in PartType /\ NewPart.dur = {} /\ NewPart.named = TRUE
    /\ \A b \in Block : NewPart.text[b] = Hole
BY DEF NewPart, PartType

LEMMA NoHandlerTyped ==
    /\ NoHandler \in HandlerType
    /\ NoHandler.pc = "none" /\ NoHandler.owns = FALSE /\ NoHandler.link = FALSE
    /\ NoHandler.have = {} /\ NoHandler.cov = {} /\ NoHandler.manifest = None
    /\ NoHandler.wire = NoText /\ NoHandler.leaves = NoText /\ NoHandler.stop = FALSE
<1>1. 0 \in Key
  BY KeysAre
<1>2. NoText \in TextOrNone /\ NoText \in [Block -> Nat \cup {None, Hole}]
  BY DEF NoText, TextOrNone
<1>3. QED
  BY <1>1, <1>2 DEF NoHandler, HandlerType

LEMMA BegunTyped ==
    ASSUME NEW att \in 0 .. Attempts, NEW stall \in 0 .. MaxStall,
           NEW high \in 0 .. Cardinality(Block)
    PROVE  /\ Begun(att, stall, high) \in SndType
           /\ Begun(att, stall, high).pc = "idle" /\ Begun(att, stall, high).att = att
           /\ Begun(att, stall, high).stall = stall /\ Begun(att, stall, high).high = high
           /\ Begun(att, stall, high).stamp = None /\ Begun(att, stall, high).held = NoText
           /\ Begun(att, stall, high).leaves = NoText /\ Begun(att, stall, high).opened = FALSE
           /\ Begun(att, stall, high).have = {}
BY NoTextTyped DEF Begun, SndType

LEMMA HandlerIs ==
    ASSUME TypeOK, NEW k \in Attempt
    PROVE  /\ rcv[k] \in HandlerType
           /\ rcv[k].key \in Key /\ rcv[k].owns \in BOOLEAN /\ rcv[k].link \in BOOLEAN
           /\ rcv[k].stop \in BOOLEAN
           /\ rcv[k].have \subseteq Block /\ rcv[k].cov \subseteq Block
           /\ rcv[k].leaves \in [Block -> Nat \cup {None, Hole}]
           /\ rcv[k].wire \in TextOrNone /\ rcv[k].manifest \in {None} \cup Text
BY DEF TypeOK, HandlerType

LEMMA PartIs ==
    ASSUME TypeOK, NEW f \in Key, part[f] # None
    PROVE  /\ part[f] \in PartType
           /\ part[f].text \in [Block -> Nat \cup {Hole}]
           /\ part[f].dur \subseteq Block /\ part[f].named \in BOOLEAN
           /\ \A b \in Block : part[f].text[b] \in Int
BY DEF TypeOK, PartType, Hole

LEMMA SenderIs ==
    ASSUME TypeOK
    PROVE  /\ snd \in SndType /\ snd.att \in 0 .. Attempts /\ snd.stall \in 0 .. MaxStall
           /\ snd.high \in 0 .. Cardinality(Block) /\ snd.have \subseteq Block
           /\ snd.stamp \in Nat \cup {None} /\ snd.opened \in BOOLEAN
           /\ snd.leaves \in TextOrNone /\ snd.held \in TextOrNone
BY DEF TypeOK, SndType

LEMMA SourceIs ==
    ASSUME TypeOK
    PROVE  /\ src \in SrcType /\ src.text \in Text /\ src.stamp \in Nat /\ src.secs \in Second
           /\ src.early \in BOOLEAN
           /\ \A b \in Block : src.text[b] \in Nat
BY DEF TypeOK, SrcType, Text

(***************************************************************************)
(* What a step of the sender leaves alone.                                 *)
(***************************************************************************)
Same(h, g) ==
    /\ h.pc = g.pc /\ h.key = g.key /\ h.owns = g.owns /\ h.have = g.have /\ h.cov = g.cov
    /\ h.leaves = g.leaves /\ h.manifest = g.manifest /\ h.reply = g.reply

HandlersKept == \A j \in Attempt : Same(rcv'[j], rcv[j])

Kept ==
    /\ \A k \in Attempt : KeyInv(k) /\ FileInv(k) /\ ManifestInv(k)
    /\ \A f \in Second : DiskInv(f)
    /\ OwnersInv /\ CopyInv /\ WholeUnlessEarly

LEMMA HandlersSame == ASSUME UNCHANGED rcv PROVE HandlersKept
BY DEF HandlersKept, Same

LEMMA HandlersKeep ==
    ASSUME TransferInv, HandlersKept, snd'.att = snd.att,
           UNCHANGED <<src, texts, part, side, landed>>
    PROVE  Kept'
<1>1. ASSUME NEW k \in Attempt PROVE KeyInv(k)'
  <2>1. KeyInv(k)
    BY DEF TransferInv
  <2>2. /\ rcv'[k].pc = rcv[k].pc /\ rcv'[k].key = rcv[k].key /\ rcv'[k].owns = rcv[k].owns
        /\ rcv'[k].leaves = rcv[k].leaves /\ rcv'[k].manifest = rcv[k].manifest
        /\ rcv'[k].reply = rcv[k].reply
    BY DEF HandlersKept, Same
  <2>3. QED
    BY <2>1, <2>2, Zenon DEF KeyInv
<1>2. ASSUME NEW k \in Attempt PROVE FileInv(k)'
  BY DEF TransferInv, FileInv, HandlersKept, Same
<1>3. ASSUME NEW k \in Attempt PROVE ManifestInv(k)'
  BY DEF TransferInv, ManifestInv, HashesOf, HandlersKept, Same
<1>4. ASSUME NEW f \in Second PROVE DiskInv(f)'
  BY DEF TransferInv, DiskInv
<1>5. OwnersInv'
  BY DEF TransferInv, OwnersInv, HandlersKept, Same
<1>6. CopyInv'
  <2>1. \A j \in 1 .. snd.att : j \in Attempt
    <3>1. snd.att \in 0 .. Attempts
      BY SenderIs DEF TransferInv
    <3>2. QED
      BY <3>1, DirectAssumption DEF Attempt
  <2>2. SameKeys' => SameKeys
    BY <2>1 DEF SameKeys, HandlersKept, Same
  <2>3. QED
    BY <2>1, <2>2 DEF TransferInv, CopyInv, HandlersKept, Same, Has
<1>7. WholeUnlessEarly'
  BY DEF TransferInv, WholeUnlessEarly
<1>8. QED
  BY <1>1, <1>2, <1>3, <1>4, <1>5, <1>6, <1>7 DEF Kept

\* A handler whose connection is gone knows nothing of the sender.
LEMMA Unlinked ==
    ASSUME TransferInv, HandlersKept, UNCHANGED landed,
           \A j \in Attempt : ~ rcv'[j].link
    PROVE  \A j \in Attempt : LinkInv(j)'
BY DEF TransferInv, HandlersKept, Same, LinkInv, Has

\* The connection of the only attempt that has one is cut.
LEMMA CutDoes ==
    ASSUME TransferInv, rcv' = [rcv EXCEPT ![Cur].link = FALSE]
    PROVE  /\ rcv' \in [Attempt -> HandlerType] /\ HandlersKept
           /\ \A j \in Attempt : ~ rcv'[j].link
           /\ \A j \in Attempt : rcv'[j].wire = rcv[j].wire
<1>1. rcv \in [Attempt -> HandlerType]
  BY DEF TransferInv, TypeOK
<1>2. \A j \in Attempt : j # Cur => ~ rcv[j].link /\ rcv'[j] = rcv[j]
  BY <1>1, Zenon DEF TransferInv, LinkInv, Cur
<1>3. CASE Cur \in Attempt
  <2>1. PICK h : h = [rcv[Cur] EXCEPT !.link = FALSE]
    OBVIOUS
  <2>2. rcv'[Cur] = h /\ rcv' = [rcv EXCEPT ![Cur] = h]
    BY <1>1, <1>3, <2>1
  <2>3. h \in HandlerType /\ Same(h, rcv[Cur]) /\ h.link = FALSE /\ h.wire = rcv[Cur].wire
    BY ZenonT(60), <1>1, <1>3, <2>1 DEF HandlerType, Same
  <2>4. QED
    BY <1>1, <1>2, <1>3, <2>2, <2>3 DEF HandlersKept, Same
<1>4. CASE Cur \notin Attempt
  <2>1. rcv' = rcv
    BY <1>1, <1>4
  <2>2. QED
    BY <1>1, <1>2, <1>4, <2>1, HandlersSame
<1>5. QED
  BY <1>3, <1>4

\* What is sent and read stays within the file.
LEMMA BoundKept ==
    ASSUME TransferInv, UNCHANGED <<src, texts, part>>,
           snd'.stamp = None \/ snd'.stamp = snd.stamp \/ snd'.stamp = src.stamp,
           \A b \in Block : snd'.held[b] # None => snd'.held[b] = snd.held[b] \/ snd'.held[b] = src.text[b],
           \A k \in Attempt, b \in Block : rcv'[k].wire[b] # None =>
               rcv'[k].wire[b] = rcv[k].wire[b] \/ (snd.held[b] # None /\ rcv'[k].wire[b] = snd.held[b])
    PROVE  BoundInv'
<1>1. \A b \in Block : src.text[b] \in Nat
  BY SourceIs DEF TransferInv
<1>2. src.stamp \in Nat
  BY SourceIs DEF TransferInv
<1>3. src'.text \in texts' /\ \A b \in Block : src'.text[b] =< src'.stamp
  BY DEF TransferInv, BoundInv
<1>4. snd'.stamp # None => snd'.stamp =< src'.stamp
  BY <1>2 DEF TransferInv, BoundInv
<1>5. \A f \in Key : part'[f] # None => \A b \in Block : part'[f].text[b] =< src'.text[b]
  BY DEF TransferInv, BoundInv
<1>6. \A k \in Attempt, b \in Block : rcv'[k].wire[b] # None => rcv'[k].wire[b] =< src'.text[b]
  BY DEF TransferInv, BoundInv
<1>7. \A b \in Block : snd'.held[b] # None => snd'.held[b] =< src'.text[b]
  BY <1>1 DEF TransferInv, BoundInv
<1>8. QED
  BY <1>3, <1>4, <1>5, <1>6, <1>7 DEF BoundInv

\* An attempt that fails leaves the sender idle, or done with it.
LEMMA FailsKeeps ==
    ASSUME TransferInv, snd.pc \in {"ask", "send", "wait"}, AttemptFails,
           UNCHANGED <<src, texts, part, side, clearing, landed, upsets>>
    PROVE  TransferInv'
<1> TypeOK
  BY DEF TransferInv
<1>1. PICK high \in snd.high .. Cardinality(rcv[Cur].cov) \cup {snd.high} :
        LET stall == IF high > snd.high THEN 0 ELSE snd.stall + 1
            again == snd.pc # "ask" /\ stall < MaxStall
        IN  snd' = [Begun(Cur, stall, high) EXCEPT !.pc = IF again THEN "idle" ELSE "failed"]
  BY DEF AttemptFails
<1>2. PICK stall : stall = IF high > snd.high THEN 0 ELSE snd.stall + 1
  OBVIOUS
<1>3. PICK pc : pc = IF snd.pc # "ask" /\ stall < MaxStall THEN "idle" ELSE "failed"
  OBVIOUS
<1>4. snd' = [Begun(Cur, stall, high) EXCEPT !.pc = pc]
  BY <1>1, <1>2, <1>3
<1>5. Cur \in Attempt /\ Cur \in 0 .. Attempts
  BY SenderIs DEF Cur, TransferInv, SenderInv
<1>6. stall \in 0 .. MaxStall /\ (pc = "idle" => stall < MaxStall) /\ pc \in {"idle", "failed"}
  <2>1. snd.stall \in 0 .. MaxStall /\ snd.stall < MaxStall
    BY SenderIs DEF TransferInv, SenderInv
  <2>2. QED
    BY <1>2, <1>3, <2>1, DirectAssumption
<1>7. high \in 0 .. Cardinality(Block)
  <2>1. rcv[Cur].cov \in SUBSET Block
    BY <1>5, HandlerIs
  <2>2. snd.high \in 0 .. Cardinality(Block)
    BY SenderIs
  <2>3. QED
    BY <2>1, <2>2, BlocksAre
<1>8. PICK s : s = Begun(Cur, stall, high)
  OBVIOUS
<1>8a. /\ s \in SndType /\ s.pc = "idle" /\ s.att = Cur /\ s.stall = stall
       /\ s.stamp = None /\ s.held = NoText
  <2>1. Begun(Cur, stall, high) \in SndType
    BY <1>5, <1>6, <1>7, BegunTyped
  <2>2. QED
    BY <1>8, <2>1 DEF Begun
<1>9. /\ snd' \in SndType /\ snd'.pc = pc /\ snd'.att = Cur /\ snd'.stall = stall
      /\ snd'.stamp = None /\ snd'.held = NoText
  BY <1>4, <1>6, <1>8, <1>8a DEF SndType
<1>10. rcv' = [rcv EXCEPT ![Cur].link = FALSE]
  BY DEF AttemptFails
<1>11. /\ rcv' \in [Attempt -> HandlerType] /\ HandlersKept
       /\ \A j \in Attempt : ~ rcv'[j].link
       /\ \A j \in Attempt : rcv'[j].wire = rcv[j].wire
  BY <1>10, CutDoes
<1>12. TypeOK'
  BY <1>9, <1>11 DEF TypeOK
<1>13. Kept'
  BY <1>9, <1>11, HandlersKeep DEF Cur
<1>14. \A j \in Attempt : LinkInv(j)'
  BY <1>11, Unlinked
<1>15. BoundInv'
  <2>1. \A b \in Block : snd'.held[b] = None
    BY <1>9, NoTextTyped
  <2>2. QED
    BY <1>9, <1>11, <2>1, BoundKept
<1>16. SenderInv' /\ SendInv' /\ DoneIsLanded'
  BY <1>6, <1>9 DEF SenderInv, SendInv, DoneIsLanded
<1>17. QED
  BY <1>12, <1>13, <1>14, <1>15, <1>16 DEF Kept, TransferInv

(***************************************************************************)
(* The sender.                                                             *)
(***************************************************************************)
\* What a handler knows of a sender that goes on, and has not sent its hashes or
\* keeps to them.
LEMMA LinksKept ==
    ASSUME TransferInv, HandlersKept, UNCHANGED landed, snd'.att = snd.att,
           \A j \in Attempt : rcv'[j].link = rcv[j].link,
           snd.pc \in {"ask", "send", "wait"} => snd'.pc \in {"ask", "send", "wait"},
           snd.pc = "wait" => snd'.pc = "wait" /\ snd'.leaves = snd.leaves
    PROVE  \A j \in Attempt : LinkInv(j)'
<1> SUFFICES ASSUME NEW j \in Attempt PROVE LinkInv(j)'
  OBVIOUS
<1>1. LinkInv(j) /\ Same(rcv'[j], rcv[j])
  BY DEF TransferInv, HandlersKept
<1>2. \A t : Has(t) => Has(t)'
  BY DEF Has
<1>3. QED
  BY <1>1, <1>2 DEF LinkInv, Same, Has

LEMMA SenderSteps ==
    ASSUME TransferInv, NEW s \in SndType, snd' = s, s.att = snd.att, s.stall = snd.stall,
           UNCHANGED <<src, texts, rcv, part, side, clearing, landed>>,
           upsets' \in 0 .. MaxUpsets,
           snd.pc \in {"ask", "send"} /\ s.pc = "send",
           rcv[snd.att].pc \notin {"none", "asked"},
           s.stamp = None \/ s.stamp = snd.stamp \/ s.stamp = src.stamp,
           \A b \in Block : s.held[b] # None => s.held[b] = snd.held[b] \/ s.held[b] = src.text[b],
           SendInv'
    PROVE  TransferInv'
<1> TypeOK /\ HandlersKept
  BY HandlersSame DEF TransferInv
<1>1. TypeOK'
  BY DEF TypeOK
<1>2. Kept'
  BY HandlersKeep
<1>3. \A j \in Attempt : LinkInv(j)'
  BY LinksKept
<1>4. BoundInv'
  BY BoundKept
<1>5. SenderInv' /\ DoneIsLanded'
  BY DEF TransferInv, SenderInv, DoneIsLanded
<1>6. QED
  BY <1>1, <1>2, <1>3, <1>4, <1>5 DEF Kept, TransferInv

LEMMA GotReadyKeeps == ASSUME TransferInv, GotReady PROVE TransferInv'
<1> TypeOK /\ Cur \in Attempt
  BY DEF TransferInv, GotReady, SenderInv, Cur
<1>1. PICK s : s = [snd EXCEPT !.pc = "send", !.have = rcv[Cur].have]
  OBVIOUS
<1>2. snd \in SndType /\ rcv[Cur].have \subseteq Block
  BY SenderIs, HandlerIs
<1>3. /\ s \in SndType /\ s.pc = "send" /\ s.have = rcv[Cur].have
      /\ s.att = snd.att /\ s.stall = snd.stall /\ s.stamp = snd.stamp
      /\ s.held = snd.held /\ s.leaves = snd.leaves /\ s.opened = snd.opened
  BY <1>1, <1>2 DEF SndType
<1>4. snd' = s
  BY <1>1 DEF GotReady
<1>5. rcv[snd.att].pc \notin {"none", "asked"}
  BY DEF TransferInv, KeyInv, GotReady, Cur
<1>6. SendInv'
  BY <1>2, <1>3, <1>4, NoTextTyped DEF TransferInv, SenderInv, SendInv, GotReady, Cur
<1>7. QED
  <2>1. snd.pc = "ask" /\ upsets \in 0 .. MaxUpsets
    BY DEF GotReady, TypeOK
  <2>2. UNCHANGED <<src, texts, rcv, part, side, clearing, landed, upsets>>
    BY DEF GotReady
  <2>3. QED
    BY <1>3, <1>4, <1>5, <1>6, <2>1, <2>2, SenderSteps

LEMMA OpenStreamsKeeps == ASSUME TransferInv, OpenStreams PROVE TransferInv'
<1> TypeOK /\ Cur \in Attempt
  BY DEF TransferInv, OpenStreams, SenderInv, Cur
<1>1. PICK s : s = [snd EXCEPT !.opened = TRUE,
                               !.stamp = IF snd.have = Block THEN None ELSE src.stamp]
  OBVIOUS
<1>2. snd \in SndType /\ src.stamp \in Nat /\ src.text \in Text
  BY SenderIs, SourceIs
<1>3. /\ s \in SndType /\ s.pc = snd.pc /\ s.have = snd.have
      /\ s.att = snd.att /\ s.stall = snd.stall /\ s.stamp \in {None, src.stamp}
      /\ s.held = snd.held /\ s.leaves = snd.leaves /\ s.opened = TRUE
  BY <1>1, <1>2 DEF SndType
<1>4. snd' = s /\ snd.pc = "send" /\ ~ snd.opened
  BY <1>1 DEF OpenStreams
<1>5. UNCHANGED <<src, texts, rcv, part, side, clearing, landed, upsets>>
  BY DEF OpenStreams
<1>6. /\ snd.held = NoText
      /\ \A b \in Block : snd.leaves[b] # None =>
            b \in snd.have /\ (src.early \/ snd.leaves[b] = src.text[b])
      /\ rcv[snd.att].pc \in InFile => snd.have = rcv[snd.att].have
      /\ \A b \in snd.have : snd.held[b] = None
  BY <1>4 DEF TransferInv, SendInv
<1>7. \A b \in Block : src.text[b] \in Nat
  BY SourceIs
<1>8. ASSUME ~ src.early PROVE StampedAs(src.text)'
  <2>1. \A b \in Block : src.text[b] =< src'.text[b]
    BY <1>5, <1>7
  <2>2. \A b \in Block : snd'.held[b] = None
    BY <1>3, <1>4, <1>6, NoTextTyped
  <2>3. \A b \in Block : snd'.leaves[b] # None => b \in snd'.have /\ src.text[b] =< snd'.leaves[b]
    BY <1>3, <1>4, <1>6, <1>7, <1>8
  <2>4. rcv'[snd'.att].pc \in InFile =>
           \A b \in snd'.have : part'[rcv'[snd'.att].key].text[b] =< src.text[b]
    <3> SUFFICES ASSUME rcv[Cur].pc \in InFile
                 PROVE  \A b \in snd.have : part[rcv[Cur].key].text[b] =< src.text[b]
      BY <1>3, <1>4, <1>5 DEF Cur
    <3>1. rcv[Cur].key \in Key /\ part[rcv[Cur].key] # None /\ snd.have \subseteq Block
      BY HandlerIs, SenderIs DEF TransferInv, FileInv
    <3>2. QED
      BY <3>1 DEF TransferInv, BoundInv
  <2>5. QED
    BY <1>5, <2>1, <2>2, <2>3, <2>4 DEF StampedAs
<1>9. SendInv'
  <2>1. src.text \in texts
    BY DEF TransferInv, BoundInv
  <2>2. QED
    BY <1>3, <1>4, <1>5, <1>6, <1>8, <2>1 DEF SendInv
<1>10. QED
  <2>1. rcv[snd.att].pc \notin {"none", "asked"} /\ upsets \in 0 .. MaxUpsets
    BY <1>4 DEF TransferInv, SenderInv, TypeOK
  <2>2. QED
    BY <1>3, <1>4, <1>5, <1>9, <2>1, SenderSteps

\* A step of an attempt that has its stamp.
LEMMA StampedKept ==
    ASSUME TransferInv, snd.pc = "send", snd.opened, HandlersKept,
           UNCHANGED <<src, texts, part>>,
           snd'.pc = snd.pc, snd'.have = snd.have, snd'.att = snd.att, snd'.stamp = snd.stamp,
           snd'.opened = snd.opened,
           \A b \in Block : \/ snd'.held[b] = None \/ snd'.held[b] = snd.held[b]
                            \/ b \notin snd.have /\ snd'.held[b] = src.text[b],
           \A b \in Block : snd'.leaves[b] # None =>
               \/ snd'.leaves[b] = snd.leaves[b]
               \/ b \in snd.have /\ snd'.leaves[b] = src.text[b]
               \/ src.stamp = snd.stamp /\ b \notin snd.have
                  /\ snd.held[b] # None /\ snd'.leaves[b] = snd.held[b]
    PROVE  SendInv'
<1> TypeOK /\ Cur \in Attempt
  BY DEF TransferInv, SenderInv, Cur
<1>1. ASSUME NEW t \in texts, StampedAs(t) PROVE StampedAs(t)'
  <2>1. \A b \in Block : t[b] =< src'.text[b]
    BY <1>1 DEF StampedAs
  <2>2. src'.stamp = snd'.stamp =>
          src'.text = t /\ \A b \in Block : snd'.held[b] # None => snd'.held[b] = t[b]
    BY <1>1 DEF StampedAs
  <2>3. ASSUME NEW b \in Block, snd'.leaves[b] # None
        PROVE  IF b \in snd'.have THEN t[b] =< snd'.leaves[b] ELSE snd'.leaves[b] = t[b]
    BY <1>1, <2>3 DEF StampedAs
  <2>4. rcv'[snd'.att].pc \in InFile =>
           \A b \in snd'.have : part'[rcv'[snd'.att].key].text[b] =< t[b]
    BY <1>1 DEF StampedAs, HandlersKept, Same, Cur
  <2>5. QED
    BY <2>1, <2>2, <2>3, <2>4 DEF StampedAs
<1>2. snd.have \subseteq Block
  BY SenderIs
<1>3. \A b \in snd.have : snd'.held[b] = None
  BY <1>2 DEF TransferInv, SendInv
<1>4. QED
  BY <1>1, <1>3 DEF TransferInv, SendInv, HandlersKept, Same, Cur

LEMMA HashRetainedKeeps ==
    ASSUME TransferInv, NEW b \in Block, HashRetained(b)
    PROVE  TransferInv'
<1> TypeOK /\ Cur \in Attempt
  BY DEF TransferInv, HashRetained, SenderInv, Cur
<1>1. PICK s : s = [snd EXCEPT !.leaves[b] = src.text[b]]
  OBVIOUS
<1>2. snd \in SndType /\ src.text[b] \in Nat
  BY SenderIs, SourceIs
<1>3. /\ s \in SndType /\ s.pc = snd.pc /\ s.have = snd.have
      /\ s.att = snd.att /\ s.stall = snd.stall /\ s.stamp = snd.stamp
      /\ s.held = snd.held /\ s.opened = snd.opened
      /\ s.leaves = [snd.leaves EXCEPT ![b] = src.text[b]]
  BY <1>1, <1>2 DEF SndType, TextOrNone
<1>4. /\ snd' = s /\ snd.pc = "send" /\ b \in snd.have
      /\ UNCHANGED <<src, texts, rcv, part, side, clearing, landed, upsets>>
  BY <1>1 DEF HashRetained
<1>5. s.leaves[b] = src.text[b] /\ \A c \in Block : c # b => s.leaves[c] = snd.leaves[c]
  BY <1>2, <1>3 DEF SndType, TextOrNone
<1>6. SendInv'
  <2>1. CASE snd.opened
    BY <1>3, <1>4, <1>5, <2>1, StampedKept, HandlersSame
  <2>2. CASE ~ snd.opened
    BY <1>3, <1>4, <1>5, <2>2 DEF TransferInv, SendInv
  <2>3. QED
    BY <2>1, <2>2
<1>7. QED
  <2>1. rcv[snd.att].pc \notin {"none", "asked"} /\ upsets \in 0 .. MaxUpsets
    BY <1>4 DEF TransferInv, SenderInv, TypeOK
  <2>2. QED
    BY <1>3, <1>4, <1>6, <2>1, SenderSteps

LEMMA ReadRangeKeeps ==
    ASSUME TransferInv, NEW b \in Block, ReadRange(b)
    PROVE  TransferInv'
<1> TypeOK /\ Cur \in Attempt
  BY DEF TransferInv, ReadRange, SenderInv, Cur
<1>1. PICK s : s = [snd EXCEPT !.held[b] = src.text[b]]
  OBVIOUS
<1>2. snd \in SndType /\ src.text[b] \in Nat
  BY SenderIs, SourceIs
<1>3. /\ s \in SndType /\ s.pc = snd.pc /\ s.have = snd.have
      /\ s.att = snd.att /\ s.stall = snd.stall /\ s.stamp = snd.stamp
      /\ s.leaves = snd.leaves /\ s.opened = snd.opened
      /\ s.held = [snd.held EXCEPT ![b] = src.text[b]]
  BY <1>1, <1>2 DEF SndType, TextOrNone
<1>4. /\ snd' = s /\ snd.pc = "send" /\ snd.opened
      /\ UNCHANGED <<src, texts, rcv, part, side, clearing, landed, upsets>>
      /\ b \notin snd.have
  BY <1>1 DEF ReadRange
<1>5. s.held[b] = src.text[b] /\ \A c \in Block : c # b => s.held[c] = snd.held[c]
  BY <1>2, <1>3 DEF SndType, TextOrNone
<1>6. SendInv'
  BY <1>3, <1>4, <1>5, StampedKept, HandlersSame
<1>7. QED
  <2>1. rcv[snd.att].pc \notin {"none", "asked"} /\ upsets \in 0 .. MaxUpsets
    BY <1>4 DEF TransferInv, SenderInv, TypeOK
  <2>2. QED
    BY <1>3, <1>4, <1>5, <1>6, <2>1, SenderSteps

LEMMA SendRangeKeeps ==
    ASSUME TransferInv, NEW b \in Block, SendRange(b)
    PROVE  TransferInv'
<1> TypeOK /\ Cur \in Attempt
  BY DEF TransferInv, SendRange, SenderInv, Cur
<1>1. PICK s : s = [snd EXCEPT !.leaves[b] = snd.held[b]]
  OBVIOUS
<1>2. PICK h : h = [rcv[Cur] EXCEPT !.wire[b] = snd.held[b]]
  OBVIOUS
<1>3. /\ snd' = s /\ snd.pc = "send" /\ snd.held[b] # None /\ snd.leaves[b] = None
      /\ src.stamp = snd.stamp /\ rcv[Cur].link
      /\ UNCHANGED <<src, texts, part, side, clearing, landed, upsets>>
  BY <1>1 DEF SendRange, Link
<1>4. rcv' = [rcv EXCEPT ![Cur] = h]
  BY <1>2 DEF SendRange
<1>5. snd \in SndType /\ rcv[Cur] \in HandlerType /\ snd.held[b] \in Nat
  BY <1>3, SenderIs, HandlerIs DEF TextOrNone
<1>6. /\ s \in SndType /\ s.pc = snd.pc /\ s.have = snd.have
      /\ s.att = snd.att /\ s.stall = snd.stall /\ s.stamp = snd.stamp
      /\ s.held = snd.held /\ s.opened = snd.opened
      /\ s.leaves = [snd.leaves EXCEPT ![b] = snd.held[b]]
  BY <1>1, <1>5 DEF SndType, TextOrNone
<1>7. s.leaves[b] = snd.held[b] /\ \A c \in Block : c # b => s.leaves[c] = snd.leaves[c]
  BY <1>5, <1>6 DEF SndType, TextOrNone
<1>8. /\ h \in HandlerType /\ Same(h, rcv[Cur]) /\ h.link = rcv[Cur].link
      /\ h.wire = [rcv[Cur].wire EXCEPT ![b] = snd.held[b]]
  BY <1>2, <1>5 DEF HandlerType, Same, TextOrNone
<1>9. h.wire[b] = snd.held[b] /\ \A c \in Block : c # b => h.wire[c] = rcv[Cur].wire[c]
  BY <1>5, <1>8 DEF HandlerType, TextOrNone
<1>10. /\ rcv' \in [Attempt -> HandlerType] /\ rcv'[Cur] = h
       /\ \A j \in Attempt : j # Cur => rcv'[j] = rcv[j]
  BY <1>4, <1>8 DEF TypeOK
<1>11. HandlersKept /\ \A j \in Attempt : rcv'[j].link = rcv[j].link
  BY <1>8, <1>10 DEF HandlersKept, Same
<1>12. TypeOK'
  BY <1>3, <1>6, <1>10 DEF TypeOK
<1>13. Kept'
  BY <1>3, <1>6, <1>11, HandlersKeep
<1>14. \A j \in Attempt : LinkInv(j)'
  BY <1>3, <1>6, <1>11, LinksKept
<1>15. BoundInv'
  <2>1. ASSUME NEW k \in Attempt, NEW c \in Block, rcv'[k].wire[c] # None
        PROVE  rcv'[k].wire[c] = rcv[k].wire[c] \/ (snd.held[c] # None /\ rcv'[k].wire[c] = snd.held[c])
    BY <1>3, <1>9, <1>10
  <2>2. QED
    BY <1>3, <1>6, <2>1, BoundKept
<1>16. snd.opened
  BY <1>3, NoTextTyped DEF TransferInv, SendInv
<1>17. SendInv'
  <2>1. b \notin snd.have
    BY <1>3 DEF TransferInv, SendInv
  <2>2. QED
    BY <1>3, <1>6, <1>7, <1>11, <1>16, <2>1, StampedKept
<1>18. SenderInv' /\ DoneIsLanded'
  <2>1. rcv'[snd.att].pc = rcv[snd.att].pc
    BY <1>11 DEF HandlersKept, Same, Cur
  <2>2. QED
    BY <1>3, <1>6, <2>1 DEF TransferInv, SenderInv, DoneIsLanded
<1>19. QED
  BY <1>12, <1>13, <1>14, <1>15, <1>17, <1>18 DEF Kept, TransferInv

LEMMA UnreachableKeeps == ASSUME TransferInv, Unreachable PROVE TransferInv'
<1> TypeOK /\ HandlersKept
  BY HandlersSame DEF TransferInv, Unreachable
<1>1. PICK s : s = [snd EXCEPT !.pc = "failed"]
  OBVIOUS
<1>2. /\ s \in SndType /\ s.pc = "failed" /\ s.att = snd.att /\ s.stamp = snd.stamp /\ s.held = snd.held
  BY <1>1, SenderIs DEF SndType
<1>3. /\ snd' = s /\ snd.pc = "idle"
      /\ UNCHANGED <<src, texts, rcv, part, side, clearing, landed, upsets>>
  BY <1>1 DEF Unreachable
<1>4. TypeOK'
  BY <1>2, <1>3 DEF TypeOK
<1>5. Kept'
  BY <1>2, <1>3, HandlersKeep
<1>6. \A j \in Attempt : ~ rcv'[j].link
  BY <1>3, Zenon DEF TransferInv, LinkInv
<1>7. \A j \in Attempt : LinkInv(j)'
  BY <1>3, <1>6, Unlinked
<1>8. BoundInv'
  BY <1>2, <1>3, BoundKept
<1>9. SenderInv' /\ SendInv' /\ DoneIsLanded'
  BY <1>2, <1>3 DEF SenderInv, SendInv, DoneIsLanded
<1>10. QED
  BY <1>4, <1>5, <1>7, <1>8, <1>9 DEF Kept, TransferInv

\* The sender is through with this attempt: it lost the connection, has a verdict
\* or was stopped.
LEMMA EndsKeep ==
    ASSUME TransferInv, NEW s \in SndType, snd' = s, s.att = snd.att, s.pc \in {"done", "failed"},
           s.stamp = None \/ s.stamp = snd.stamp, s.held = NoText \/ s.held = snd.held,
           rcv' = [rcv EXCEPT ![Cur].link = FALSE],
           UNCHANGED <<src, texts, part, side, clearing, landed>>, upsets' \in 0 .. MaxUpsets,
           s.pc = "done" => Has(s.leaves)
    PROVE  TransferInv'
<1> TypeOK
  BY DEF TransferInv
<1>1. /\ rcv' \in [Attempt -> HandlerType] /\ HandlersKept
      /\ \A j \in Attempt : ~ rcv'[j].link
      /\ \A j \in Attempt : rcv'[j].wire = rcv[j].wire
  BY CutDoes
<1>2. TypeOK'
  BY <1>1 DEF TypeOK
<1>3. Kept'
  BY <1>1, HandlersKeep
<1>4. \A j \in Attempt : LinkInv(j)'
  BY <1>1, Unlinked
<1>5. BoundInv'
  <2>1. \A b \in Block : snd'.held[b] # None => snd'.held[b] = snd.held[b]
    BY NoTextTyped
  <2>2. QED
    BY <1>1, <2>1, BoundKept
<1>6. SenderInv' /\ SendInv' /\ DoneIsLanded'
  BY DEF SenderInv, SendInv, DoneIsLanded, Has
<1>7. QED
  BY <1>2, <1>3, <1>4, <1>5, <1>6 DEF Kept, TransferInv

LEMMA GotVerdictKeeps == ASSUME TransferInv, GotVerdict PROVE TransferInv'
<1> TypeOK /\ Cur \in Attempt
  BY DEF TransferInv, GotVerdict, SenderInv, Cur
<1>1. PICK pc : pc = IF rcv[Cur].reply = "ok" THEN "done" ELSE "failed"
  OBVIOUS
<1>2. PICK s : s = [snd EXCEPT !.pc = pc, !.held = NoText, !.stamp = None]
  OBVIOUS
<1>3. /\ s \in SndType /\ s.pc = pc /\ s.att = snd.att /\ s.stamp = None /\ s.held = NoText
      /\ s.leaves = snd.leaves
  BY <1>1, <1>2, SenderIs, NoTextTyped DEF SndType
<1>4. /\ snd' = s /\ rcv[Cur].link /\ rcv' = [rcv EXCEPT ![Cur].link = FALSE]
      /\ UNCHANGED <<src, texts, part, side, clearing, landed, upsets>>
  BY <1>1, <1>2 DEF GotVerdict, Link
<1>5. pc = "done" => Has(snd.leaves)
  BY <1>1, <1>4 DEF TransferInv, LinkInv
<1>6. upsets' \in 0 .. MaxUpsets
  BY <1>4 DEF TypeOK
<1>7. QED
  BY <1>1, <1>3, <1>4, <1>5, <1>6, EndsKeep

LEMMA SenderStopsKeeps == ASSUME TransferInv, SenderStops PROVE TransferInv'
<1> TypeOK
  BY DEF TransferInv
<1>1. PICK s : s = [snd EXCEPT !.pc = "failed"]
  OBVIOUS
<1>2. /\ s \in SndType /\ s.pc = "failed" /\ s.att = snd.att /\ s.stamp = snd.stamp /\ s.held = snd.held
  BY <1>1, SenderIs DEF SndType
<1>3. /\ snd' = s /\ rcv' = [rcv EXCEPT ![Cur].link = FALSE]
      /\ UNCHANGED <<src, texts, part, side, clearing, landed>>
  BY <1>1 DEF SenderStops
<1>4. upsets' \in 0 .. MaxUpsets
  BY DirectAssumption DEF SenderStops, Upset, TypeOK
<1>5. QED
  BY <1>2, <1>3, <1>4, EndsKeep

LEMMA FailKeeps ==
    ASSUME TransferInv, SourceChanged \/ SenderLost \/ GotError
    PROVE  TransferInv'
BY FailsKeeps DEF SourceChanged, SenderLost, GotError

LEMMA SendHashesKeeps == ASSUME TransferInv, SendHashes PROVE TransferInv'
<1> TypeOK /\ Cur \in Attempt
  BY DEF TransferInv, SendHashes, SenderInv, Cur
<1>1. PICK s : s = [snd EXCEPT !.pc = "wait", !.held = NoText]
  OBVIOUS
<1>2. PICK h : h = [rcv[Cur] EXCEPT !.manifest = snd.leaves]
  OBVIOUS
<1>3. /\ snd' = s /\ snd.pc = "send" /\ snd.opened /\ rcv[Cur].link
      /\ Known(snd.leaves) = Block
      /\ UNCHANGED <<src, texts, part, side, clearing, landed, upsets>>
  BY <1>1 DEF SendHashes, Link
<1>4. rcv' = [rcv EXCEPT ![Cur] = h]
  BY <1>2 DEF SendHashes
<1>5. snd.leaves \in Text /\ \A b \in Block : snd.leaves[b] # None
  <2>1. \A b \in Block : snd.leaves[b] # None
    BY <1>3 DEF Known
  <2>2. QED
    BY <2>1, SenderIs DEF TextOrNone, Text
<1>6. snd \in SndType /\ rcv[Cur] \in HandlerType
  BY SenderIs, HandlerIs
<1>7. /\ s \in SndType /\ s.pc = "wait" /\ s.have = snd.have /\ s.att = snd.att
      /\ s.stall = snd.stall /\ s.stamp = snd.stamp /\ s.held = NoText /\ s.leaves = snd.leaves
  BY <1>1, <1>6, NoTextTyped DEF SndType
<1>8. /\ h \in HandlerType /\ h.manifest = snd.leaves
      /\ h.pc = rcv[Cur].pc /\ h.key = rcv[Cur].key /\ h.owns = rcv[Cur].owns
      /\ h.have = rcv[Cur].have /\ h.cov = rcv[Cur].cov /\ h.leaves = rcv[Cur].leaves
      /\ h.reply = rcv[Cur].reply /\ h.link = rcv[Cur].link /\ h.wire = rcv[Cur].wire
  BY <1>2, <1>5, <1>6 DEF HandlerType
<1>9. /\ rcv' \in [Attempt -> HandlerType] /\ rcv'[Cur] = h
      /\ \A j \in Attempt : j # Cur => rcv'[j] = rcv[j]
  BY <1>4, <1>8 DEF TypeOK
<1>10. \A j \in Attempt : /\ rcv'[j].pc = rcv[j].pc /\ rcv'[j].key = rcv[j].key
                          /\ rcv'[j].owns = rcv[j].owns /\ rcv'[j].have = rcv[j].have
                          /\ rcv'[j].cov = rcv[j].cov /\ rcv'[j].leaves = rcv[j].leaves
                          /\ rcv'[j].reply = rcv[j].reply /\ rcv'[j].link = rcv[j].link
                          /\ rcv'[j].wire = rcv[j].wire
  BY <1>8, <1>9
<1>11. TypeOK'
  BY <1>3, <1>7, <1>9 DEF TypeOK
<1>12. KeyInv(Cur) /\ LinkInv(Cur) /\ FileInv(Cur)
  BY DEF TransferInv
<1>13. rcv[Cur].pc \in Active => rcv[Cur].manifest = None
  BY <1>3, <1>12 DEF LinkInv
<1>14. rcv[Cur].pc \notin {"compare", "publish", "tell"}
  <2>1. rcv[Cur].pc \notin {"compare", "publish"}
    BY <1>12, <1>13 DEF FileInv, Active, InFile
  <2>2. ASSUME rcv[Cur].pc = "tell" PROVE FALSE
    <3>1. PICK i \in DOMAIN landed : landed[i] = rcv[Cur].manifest
      BY <1>12, <2>2 DEF LinkInv, Has
    <3>2. landed[i] \in Text
      BY DEF TypeOK
    <3>3. QED
      BY <1>13, <2>2, <3>1, <3>2, NoneIs DEF Active
  <2>3. QED
    BY <2>1, <2>2
<1>14a. rcv[Cur].pc \notin {"none", "asked"}
  BY <1>3 DEF TransferInv, SenderInv, Cur
<1>15. ASSUME NEW k \in Attempt
       PROVE  KeyInv(k)' /\ LinkInv(k)' /\ FileInv(k)' /\ ManifestInv(k)'
  <2>1. KeyInv(k) /\ LinkInv(k) /\ FileInv(k) /\ ManifestInv(k)
    BY DEF TransferInv
  <2>2. KeyInv(k)'
    <3>1. rcv[k].pc \in {"none", "asked"} => rcv'[k].manifest = rcv[k].manifest
      BY <1>9, <1>14a
    <3>2. QED
      BY <1>3, <1>7, <1>10, <2>1, <3>1, Zenon DEF KeyInv
  <2>3. LinkInv(k)'
    <3>1. CASE k = Cur
      BY <1>3, <1>7, <1>8, <1>9, <1>12, <1>14, <3>1 DEF LinkInv, Cur
    <3>2. CASE k # Cur
      <4>1. ~ rcv'[k].link /\ rcv'[k] = rcv[k]
        BY <1>9, <1>10, <2>1, <3>2 DEF LinkInv, Cur
      <4>2. QED
        BY <1>3, <2>1, <4>1 DEF LinkInv, Has
    <3>3. QED
      BY <3>1, <3>2
  <2>4. FileInv(k)'
    <3>1. CASE k = Cur
      BY <1>3, <1>10, <1>14, <2>1, <3>1 DEF FileInv
    <3>2. CASE k # Cur
      BY <1>3, <1>9, <2>1, <3>2 DEF FileInv
    <3>3. QED
      BY <3>1, <3>2
  <2>5. ManifestInv(k)'
    <3>1. CASE k = Cur
      <4> SUFFICES ASSUME rcv[Cur].pc \in InFile, ~ src.early
                   PROVE  \E t \in texts : HashesOf(k, t)'
        BY <1>3, <1>10, <3>1 DEF ManifestInv
      <4>1. PICK t \in texts : StampedAs(t)
        BY <1>3 DEF TransferInv, SendInv
      <4>2. snd.have = rcv[Cur].have
        BY <1>3 DEF TransferInv, SendInv, Cur
      <4>3. snd.have \subseteq Block
        BY SenderIs
      <4>4. HashesOf(k, t)'
        BY <1>3, <1>5, <1>8, <1>9, <3>1, <4>1, <4>2, <4>3 DEF StampedAs, HashesOf, Cur
      <4>5. QED
        BY <4>4
    <3>2. CASE k # Cur
      BY <1>3, <1>9, <2>1, <3>2 DEF ManifestInv, HashesOf
    <3>3. QED
      BY <3>1, <3>2
  <2>6. QED
    BY <2>2, <2>3, <2>4, <2>5
<1>16. OwnersInv' /\ WholeUnlessEarly'
  BY <1>3, <1>10 DEF TransferInv, OwnersInv, WholeUnlessEarly
<1>17. \A f \in Second : DiskInv(f)'
  BY <1>3 DEF TransferInv, DiskInv
<1>18. CopyInv'
  <2>1. \A j \in 1 .. snd.att : j \in Attempt
    BY SenderIs, DirectAssumption DEF Attempt
  <2>2. SameKeys' => SameKeys
    BY <1>3, <1>7, <1>10, <2>1 DEF SameKeys
  <2>3. QED
    BY <1>3, <1>7, <1>10, <2>1, <2>2 DEF TransferInv, CopyInv, Has
<1>19. BoundInv'
  <2>1. \A b \in Block : snd'.held[b] = None
    BY <1>3, <1>7, NoTextTyped
  <2>2. QED
    BY <1>3, <1>7, <1>10, <2>1, BoundKept
<1>20. SenderInv' /\ SendInv' /\ DoneIsLanded'
  <2>1. snd'.att = Cur /\ rcv'[snd'.att].pc # "none"
    BY <1>3, <1>7, <1>10, <1>14a DEF Cur
  <2>2. SenderInv'
    BY <1>3, <1>7, <2>1 DEF TransferInv, SenderInv, Cur
  <2>3. SendInv' /\ DoneIsLanded'
    BY <1>3, <1>7 DEF SendInv, DoneIsLanded
  <2>4. QED
    BY <2>2, <2>3
<1>21. QED
  BY <1>11, <1>15, <1>16, <1>17, <1>18, <1>19, <1>20 DEF TransferInv

LEMMA DialKeeps == ASSUME TransferInv, Dial PROVE TransferInv'
<1> TypeOK
  BY DEF TransferInv
<1>1. PICK k : k = Cur + 1
  OBVIOUS
<1>2. k \in Attempt /\ k \in 0 .. Attempts /\ snd.att \in Nat /\ k = snd.att + 1
  BY <1>1, SenderIs, DirectAssumption DEF Dial, Attempt, Cur
<1>3. PICK h : h = [NoHandler EXCEPT !.pc = "asked", !.key = src.secs, !.link = TRUE]
  OBVIOUS
<1>4. PICK g : g = Begun(k, snd.stall, snd.high)
  OBVIOUS
<1>5. PICK s : s = [g EXCEPT !.pc = "ask"]
  OBVIOUS
<1>6. /\ h \in HandlerType /\ h.pc = "asked" /\ h.key = src.secs /\ h.link = TRUE
      /\ h.owns = FALSE /\ h.manifest = None /\ h.reply = "none" /\ h.wire = NoText
      /\ h.leaves = NoText
  <2>1. src.secs \in Key /\ NoHandler \in HandlerType
    BY SourceIs, KeysAre, NoHandlerTyped
  <2>2. h \in HandlerType
    BY <1>3, <2>1 DEF HandlerType
  <2>3. QED
    BY <1>3, <2>2 DEF NoHandler
<1>7. /\ s \in SndType /\ s.pc = "ask" /\ s.att = k /\ s.stall = snd.stall
      /\ s.stamp = None /\ s.held = NoText /\ s.leaves = NoText /\ s.opened = FALSE
  <2>1. snd.stall \in 0 .. MaxStall /\ snd.high \in 0 .. Cardinality(Block)
    BY SenderIs
  <2>2. g \in SndType
    BY <1>2, <1>4, <2>1, BegunTyped
  <2>3. s \in SndType
    BY <1>5, <2>2 DEF SndType
  <2>4. QED
    BY <1>4, <1>5, <2>3 DEF Begun
<1>8. /\ snd' = s /\ snd.pc = "idle" /\ rcv' = [rcv EXCEPT ![k] = h]
      /\ UNCHANGED <<src, texts, part, side, clearing, landed, upsets>>
  BY <1>1, <1>3, <1>4, <1>5 DEF Dial
<1>9. /\ rcv' \in [Attempt -> HandlerType] /\ rcv'[k] = h
      /\ \A j \in Attempt : j # k => rcv'[j] = rcv[j]
  BY <1>2, <1>6, <1>8 DEF TypeOK
<1>10. TypeOK'
  BY <1>7, <1>8, <1>9 DEF TypeOK
<1>11. \A j \in Attempt : ~ rcv[j].link /\ KeyInv(j) /\ LinkInv(j) /\ FileInv(j) /\ ManifestInv(j)
  BY <1>8, Zenon DEF TransferInv, LinkInv
<1>12. ASSUME NEW j \in Attempt
       PROVE  KeyInv(j)' /\ LinkInv(j)' /\ FileInv(j)' /\ ManifestInv(j)'
  <2>1. CASE j = k
    <3>1. rcv'[j] = h /\ src.secs \in Second
      BY <1>9, <2>1, SourceIs
    <3>2. KeyInv(j)'
      BY <1>2, <1>6, <1>7, <1>8, <2>1, <3>1 DEF KeyInv, Active
    <3>3. LinkInv(j)'
      BY <1>6, <1>7, <1>8, <2>1, <3>1 DEF LinkInv
    <3>4. FileInv(j)' /\ ManifestInv(j)'
      BY <1>6, <3>1 DEF FileInv, ManifestInv, InFile, Active
    <3>5. QED
      BY <3>2, <3>3, <3>4
  <2>2. CASE j # k
    <3>1. rcv'[j] = rcv[j] /\ ~ rcv[j].link
      BY <1>9, <1>11, <2>2
    <3>2. j > k => j > snd.att
      BY <1>2 DEF Attempt
    <3>3. KeyInv(j)'
      BY <1>7, <1>8, <1>11, <3>1, <3>2, Zenon DEF KeyInv
    <3>4. LinkInv(j)'
      BY <1>8, <1>11, <3>1 DEF LinkInv, Has
    <3>5. FileInv(j)' /\ ManifestInv(j)'
      BY <1>8, <1>11, <3>1 DEF FileInv, ManifestInv, HashesOf
    <3>6. QED
      BY <3>3, <3>4, <3>5
  <2>3. QED
    BY <2>1, <2>2
<1>13. OwnersInv'
  BY <1>6, <1>9, Zenon DEF TransferInv, OwnersInv
<1>14. WholeUnlessEarly'
  BY <1>8 DEF TransferInv, WholeUnlessEarly
<1>15. \A f \in Second : DiskInv(f)'
  BY <1>8 DEF TransferInv, DiskInv
<1>16. CopyInv'
  <2>1. \A j \in 1 .. snd.att : j \in 1 .. k /\ j # k /\ j \in Attempt
    BY <1>2, SenderIs, DirectAssumption DEF Attempt
  <2>2. \A j \in 1 .. k : j = k \/ j \in 1 .. snd.att
    BY <1>2
  <2>3. SameKeys' => SameKeys
    BY <1>7, <1>8, <1>9, <2>1 DEF SameKeys
  <2>4. QED
    BY <1>6, <1>7, <1>8, <1>9, <2>1, <2>2, <2>3 DEF TransferInv, CopyInv, Has
<1>17. BoundInv'
  <2>1. \A b \in Block : snd'.held[b] = None /\ h.wire[b] = None
    BY <1>6, <1>7, <1>8, NoTextTyped
  <2>2. \A j \in Attempt, b \in Block : rcv'[j].wire[b] # None => rcv'[j].wire[b] = rcv[j].wire[b]
    BY <1>9, <2>1
  <2>3. QED
    BY <1>7, <1>8, <2>1, <2>2, BoundKept
<1>18. SenderInv' /\ SendInv' /\ DoneIsLanded'
  BY <1>2, <1>6, <1>7, <1>8, <1>9 DEF TransferInv, SenderInv, SendInv, DoneIsLanded
<1>19. QED
  BY <1>10, <1>12, <1>13, <1>14, <1>15, <1>16, <1>17, <1>18 DEF TransferInv

LEMMA SendAgainKeeps == ASSUME TransferInv, SendAgain PROVE TransferInv'
<1> TypeOK /\ HandlersKept
  BY HandlersSame DEF TransferInv, SendAgain
<1>1. PICK s : s = Begun(Cur, 0, 0)
  OBVIOUS
<1>2. /\ s \in SndType /\ s.pc = "idle" /\ s.att = snd.att /\ s.stall = 0 /\ s.stamp = None
      /\ s.held = NoText
  <2>1. Cur \in 0 .. Attempts /\ 0 \in 0 .. MaxStall /\ 0 \in 0 .. Cardinality(Block)
    BY SenderIs, BlocksAre, DirectAssumption DEF Cur
  <2>2. s \in SndType
    BY <1>1, <2>1, BegunTyped
  <2>3. QED
    BY <1>1, <2>2 DEF Begun, Cur
<1>3. /\ snd' = s /\ snd.pc \in {"done", "failed"}
      /\ UNCHANGED <<src, texts, rcv, part, side, clearing, landed>>
  BY <1>1 DEF SendAgain
<1>4. upsets' \in 0 .. MaxUpsets
  BY DirectAssumption DEF SendAgain, Upset, TypeOK
<1>5. TypeOK'
  BY <1>2, <1>3, <1>4 DEF TypeOK
<1>6. Kept'
  BY <1>2, <1>3, HandlersKeep
<1>7. \A j \in Attempt : ~ rcv'[j].link
  BY <1>3, Zenon DEF TransferInv, LinkInv
<1>8. \A j \in Attempt : LinkInv(j)'
  BY <1>3, <1>7, Unlinked
<1>9. BoundInv'
  <2>1. \A b \in Block : snd'.held[b] = None
    BY <1>2, <1>3, NoTextTyped
  <2>2. QED
    BY <1>2, <1>3, <2>1, BoundKept
<1>10. SenderInv' /\ SendInv' /\ DoneIsLanded'
  BY <1>2, <1>3, DirectAssumption DEF SenderInv, SendInv, DoneIsLanded
<1>11. QED
  BY <1>5, <1>6, <1>8, <1>9, <1>10 DEF Kept, TransferInv

LEMMA DropKeeps == ASSUME TransferInv, Drop PROVE TransferInv'
<1> TypeOK
  BY DEF TransferInv
<1>1. /\ rcv' = [rcv EXCEPT ![Cur].link = FALSE] /\ Cur \in Attempt
      /\ UNCHANGED <<src, texts, snd, part, side, clearing, landed>>
  BY DEF Drop, TransferInv, SenderInv, Cur
<1>2. upsets' \in 0 .. MaxUpsets
  BY DirectAssumption DEF Drop, Upset, TypeOK
<1>3. /\ rcv' \in [Attempt -> HandlerType] /\ HandlersKept
      /\ \A j \in Attempt : ~ rcv'[j].link
      /\ \A j \in Attempt : rcv'[j].wire = rcv[j].wire
  BY <1>1, CutDoes
<1>4. TypeOK'
  BY <1>1, <1>2, <1>3 DEF TypeOK
<1>5. Kept'
  BY <1>1, <1>3, HandlersKeep
<1>6. \A j \in Attempt : LinkInv(j)'
  BY <1>1, <1>3, Unlinked
<1>7. BoundInv'
  BY <1>1, <1>3, BoundKept
<1>8. Same(rcv'[Cur], rcv[Cur]) /\ snd' = snd
  BY <1>1, <1>3 DEF HandlersKept
<1>9. SenderInv' /\ DoneIsLanded'
  BY <1>1, <1>8 DEF TransferInv, SenderInv, DoneIsLanded, Same, Cur
<1>10. SendInv'
  BY <1>1, <1>8 DEF TransferInv, SendInv, StampedAs, Same, Cur
<1>11. QED
  BY <1>4, <1>5, <1>6, <1>7, <1>9, <1>10 DEF Kept, TransferInv

(***************************************************************************)
(* The handlers.                                                           *)
(***************************************************************************)
\* A partial is open in one handler at most.
LEMMA Alone ==
    ASSUME TransferInv, NEW k \in Attempt, rcv[k].pc \in Active
    PROVE  \A j \in Attempt : j # k /\ rcv[j].pc \in Active => rcv[j].key # rcv[k].key
<1> SUFFICES ASSUME NEW j \in Attempt, rcv[j].pc \in Active, rcv[j].key = rcv[k].key
             PROVE  j = k
  OBVIOUS
<1>1. KeyInv(j) /\ KeyInv(k)
  BY DEF TransferInv
<1>2. CASE rcv[k].key \in Second
  <2>1. rcv[j].owns /\ rcv[k].owns
    BY <1>1, <1>2, Zenon DEF KeyInv
  <2>2. QED
    BY <2>1, Zenon DEF TransferInv, OwnersInv
<1>3. CASE rcv[k].key \notin Second
  BY <1>1, <1>3, KeysAre DEF KeyInv
<1>4. QED
  BY <1>2, <1>3

\* A step of a handler touches its own partial and sidecar.
Local(f) ==
    /\ part' \in [Key -> {None} \cup PartType]
    /\ side' \in [Second -> {None} \cup SUBSET Block]
    /\ \A g \in Key : g # f => part'[g] = part[g]
    /\ \A g \in Second : g # f => side'[g] = side[g]
    /\ f \in Second => DiskInv(f)'
    /\ part'[f] # None => \A b \in Block : part'[f].text[b] =< src.text[b]

LandedGrows ==
    /\ landed' \in Seq(Text)
    /\ \A i \in DOMAIN landed : i \in DOMAIN landed' /\ landed'[i] = landed[i]

LEMMA HandlerSteps ==
    ASSUME TransferInv, NEW k \in Attempt, NEW h \in HandlerType, rcv' = [rcv EXCEPT ![k] = h],
           Local(h.key), LandedGrows, UNCHANGED <<src, texts, snd, clearing>>,
           upsets' \in 0 .. MaxUpsets,
           rcv[k].pc # "none", h.pc \notin {"none", "asked"},
           \A j \in Attempt : j # k /\ rcv[j].pc \in Active => rcv[j].key # h.key,
           h.key = rcv[k].key \/ h.key = - k,
           h.owns <=> h.pc \in Active /\ h.key \in Second,
           LinkInv(k)', FileInv(k)', ManifestInv(k)',
           \A b \in Block : h.wire[b] # None => h.wire[b] = rcv[k].wire[b],
           h.pc \in InFile =>
              \/ rcv[k].pc = "asked"
              \/ /\ rcv[k].pc \in InFile /\ h.have = rcv[k].have /\ h.key = rcv[k].key
                 /\ \A b \in h.have : part'[h.key].text[b] = part[h.key].text[b],
           WholeUnlessEarly',
           SameKeys => /\ \A i, j \in DOMAIN landed' : landed'[i] = landed'[j] => i = j
                       /\ h.pc = "publish" /\ part'[h.key].named => ~ Has(part[h.key].text)'
    PROVE  TransferInv'
<1> TypeOK
  BY DEF TransferInv
<1>1. /\ rcv' \in [Attempt -> HandlerType] /\ rcv'[k] = h
      /\ \A j \in Attempt : j # k => rcv'[j] = rcv[j]
  BY DEF TypeOK
<1>2. h.key \in Key
  BY DEF HandlerType
<1>3. \A j \in Attempt : KeyInv(j) /\ LinkInv(j) /\ FileInv(j) /\ ManifestInv(j) /\ rcv[j].key \in Key
  BY HandlerIs DEF TransferInv
<1>4. k =< snd.att /\ snd.att \in Nat
  <2>1. ~ (k > snd.att)
    BY <1>3 DEF KeyInv
  <2>2. QED
    BY <2>1, SenderIs DEF Attempt
<1>5. \A t : Has(t) => Has(t)'
  BY DEF Has, LandedGrows
<1>6. TypeOK'
  BY <1>1 DEF TypeOK, Local, LandedGrows
<1>7. SenderInv'
  BY <1>1 DEF TransferInv, SenderInv
<1>8. ASSUME NEW j \in Attempt PROVE KeyInv(j)'
  <2>1. CASE j = k
    <3>1. ~ (k > snd.att)
      BY <1>3 DEF KeyInv
    <3>2. h.key \in Second \cup {- k}
      BY <1>3 DEF KeyInv
    <3>3. QED
      BY <1>1, <2>1, <3>1, <3>2, Zenon DEF KeyInv
  <2>2. CASE j # k
    BY <1>1, <1>3, <2>2, ZenonT(60) DEF KeyInv
  <2>3. QED
    BY <2>1, <2>2
<1>9. OwnersInv'
  <2> SUFFICES ASSUME NEW i \in Attempt, NEW j \in Attempt, rcv'[i].owns, rcv'[j].owns,
                      rcv'[i].key = rcv'[j].key
               PROVE  i = j
    BY Zenon DEF OwnersInv
  <2>1. rcv'[i].pc \in Active /\ rcv'[j].pc \in Active
    BY <1>8, Zenon DEF KeyInv
  <2>2. CASE i = k
    BY <1>1, <2>1, <2>2
  <2>3. CASE j = k
    BY <1>1, <2>1, <2>3
  <2>4. CASE i # k /\ j # k
    BY <1>1, <2>4, Zenon DEF TransferInv, OwnersInv
  <2>5. QED
    BY <2>2, <2>3, <2>4
<1>10. ASSUME NEW j \in Attempt PROVE LinkInv(j)' /\ FileInv(j)' /\ ManifestInv(j)'
  <2>1. CASE j = k
    BY <2>1
  <2>2. CASE j # k
    <3>1. rcv'[j] = rcv[j]
      BY <1>1, <2>2
    <3>2. LinkInv(j)'
      BY <1>3, <1>5, <3>1 DEF LinkInv
    <3>3. rcv[j].pc \in InFile => rcv[j].key # h.key /\ part'[rcv[j].key] = part[rcv[j].key]
      BY <1>3, <2>2 DEF InFile, Active, Local
    <3>4. rcv[j].pc \in InFile /\ rcv[j].owns => side'[rcv[j].key] = side[rcv[j].key]
      <4>1. rcv[j].owns => rcv[j].key \in Second
        BY <1>3, Zenon DEF KeyInv
      <4>2. QED
        BY <3>3, <4>1 DEF Local
    <3>5. FileInv(j)'
      BY <1>3, <3>1, <3>3, <3>4 DEF FileInv
    <3>6. ManifestInv(j)'
      BY <1>3, <3>1, <3>3 DEF ManifestInv, HashesOf
    <3>7. QED
      BY <3>2, <3>5, <3>6
  <2>3. QED
    BY <2>1, <2>2
<1>11. \A f \in Second : DiskInv(f)'
  <2> SUFFICES ASSUME NEW f \in Second PROVE DiskInv(f)'
    OBVIOUS
  <2>1. CASE f = h.key
    BY <2>1 DEF Local
  <2>2. CASE f # h.key
    BY <2>2, KeysAre DEF Local, DiskInv, TransferInv
  <2>3. QED
    BY <2>1, <2>2
<1>12. BoundInv'
  <2>1. \A f \in Key : part'[f] # None => \A b \in Block : part'[f].text[b] =< src'.text[b]
    BY DEF Local, TransferInv, BoundInv
  <2>2. \A j \in Attempt, b \in Block : rcv'[j].wire[b] # None => rcv'[j].wire[b] =< src'.text[b]
    BY <1>1 DEF TransferInv, BoundInv
  <2>3. QED
    BY <2>1, <2>2 DEF TransferInv, BoundInv
<1>13. SendInv'
  <2> SUFFICES ASSUME snd.pc = "send" PROVE SendInv'
    BY DEF SendInv
  <2>1. snd.att \in Attempt /\ rcv[snd.att].pc \notin {"none", "asked"}
    BY DEF TransferInv, SenderInv
  <2>2. snd.have \subseteq Block
    BY SenderIs
  <2>3. rcv'[snd.att].pc \in InFile =>
          /\ rcv[snd.att].pc \in InFile /\ rcv'[snd.att].have = rcv[snd.att].have
          /\ \A b \in rcv[snd.att].have :
                part'[rcv'[snd.att].key].text[b] = part[rcv[snd.att].key].text[b]
    <3>1. CASE snd.att = k
      BY <1>1, <2>1, <3>1
    <3>2. CASE snd.att # k
      BY <1>1, <1>3, <2>1, <3>2 DEF InFile, Active, Local
    <3>3. QED
      BY <3>1, <3>2
  <2>4. rcv[snd.att].pc \in InFile => snd.have = rcv[snd.att].have
    BY DEF TransferInv, SendInv
  <2>5. ASSUME NEW t \in texts, StampedAs(t) PROVE StampedAs(t)'
    BY <2>3, <2>4, <2>5 DEF StampedAs
  <2>6. QED
    BY <2>3, <2>4, <2>5 DEF TransferInv, SendInv
<1>14. CopyInv'
  <2> SUFFICES ASSUME SameKeys' PROVE CopyInv'
    BY DEF CopyInv
  <2>1. \A j \in 1 .. snd.att : j \in Attempt
    BY SenderIs, DirectAssumption DEF Attempt
  <2>2. k \in 1 .. snd.att
    BY <1>4 DEF Attempt
  <2>3. \A j \in 1 .. snd.att : rcv'[j].key = h.key
    BY <1>1, <2>2 DEF SameKeys
  <2>4. SameKeys
    <3>1. CASE h.key = rcv[k].key
      BY <1>1, <2>1, <2>2, <2>3, <3>1 DEF SameKeys
    <3>2. CASE h.key = - k
      <4>1. ASSUME NEW j \in 1 .. snd.att PROVE j = k
        <5>1. ASSUME j # k PROVE FALSE
          <6>1. rcv[j].key = - k /\ rcv[j].key \in Second \cup {- j} /\ j \in Attempt
            BY <1>1, <1>3, <2>1, <2>3, <3>2, <5>1 DEF KeyInv
          <6>2. QED
            BY <5>1, <6>1, KeysAre
        <5>2. QED
          BY <5>1
      <4>2. QED
        BY <4>1 DEF SameKeys
    <3>3. QED
      BY <3>1, <3>2
  <2>5. ASSUME NEW j \in 1 .. snd.att, rcv'[j].pc = "publish", part'[rcv'[j].key].named
        PROVE  ~ Has(part[rcv[j].key].text)'
    <3>1. CASE j = k
      BY <1>1, <2>4, <2>5, <3>1 DEF Has, Local
    <3>2. CASE j # k
      <4>1. rcv'[j] = rcv[j] /\ rcv[j].pc \in Active /\ rcv[j].key = h.key
        BY <1>1, <2>1, <2>3, <2>5, <3>2 DEF Active
      <4>2. QED
        BY <2>1, <3>2, <4>1
    <3>3. QED
      BY <3>1, <3>2
  <2>6. QED
    BY <1>1, <2>1, <2>4, <2>5 DEF CopyInv, Has
<1>15. DoneIsLanded'
  BY <1>5 DEF TransferInv, DoneIsLanded, Has
<1>16. QED
  BY <1>6, <1>7, <1>8, <1>9, <1>10, <1>11, <1>12, <1>13, <1>14, <1>15 DEF TransferInv

LEMMA LocalSame ==
    ASSUME TransferInv, NEW f \in Key, UNCHANGED <<part, side>>
    PROVE  Local(f)
BY DEF Local, TransferInv, TypeOK, DiskInv, BoundInv

LEMMA PartSets ==
    ASSUME TypeOK, NEW f \in Key, NEW p \in {None} \cup PartType, part' = [part EXCEPT ![f] = p]
    PROVE  /\ part' \in [Key -> {None} \cup PartType] /\ part'[f] = p
           /\ \A g \in Key : g # f => part'[g] = part[g]
BY DEF TypeOK

\* What a handler writes into its sidecar.
LEMMA ClaimedDoes ==
    ASSUME TransferInv, NEW k \in Attempt, rcv[k].pc \in Active,
           NEW q \in {None} \cup SUBSET Block, side' = Claimed(k, q)
    PROVE  /\ side' \in [Second -> {None} \cup SUBSET Block]
           /\ \A g \in Second : g # rcv[k].key => side'[g] = side[g]
           /\ rcv[k].key \in Second => side'[rcv[k].key] = q
<1> TypeOK /\ KeyInv(k)
  BY DEF TransferInv
<1>1. CASE rcv[k].owns
  <2>1. rcv[k].key \in Second
    BY <1>1, Zenon DEF KeyInv
  <2>2. side' = [side EXCEPT ![rcv[k].key] = q]
    BY <1>1 DEF Claimed
  <2>3. QED
    BY <2>1, <2>2 DEF TypeOK
<1>2. CASE ~ rcv[k].owns
  <2>1. rcv[k].key \notin Second
    BY <1>2, Zenon DEF KeyInv
  <2>2. side' = side
    BY <1>2 DEF Claimed
  <2>3. QED
    BY <2>1, <2>2 DEF TypeOK
<1>3. QED
  BY <1>1, <1>2

LEMMA SyncedIs ==
    ASSUME NEW p \in PartType
    PROVE  /\ Synced(p) \in PartType /\ Synced(p).text = p.text /\ Synced(p).named = p.named
           /\ Synced(p).dur = {b \in Block : p.text[b] # Hole}
BY DEF Synced, PartType

\* A partial keeps its blocks while a handler lets go of it.
LEMMA LocalIs ==
    ASSUME TransferInv, NEW f \in Key, NEW p \in {None} \cup PartType,
           part' = [part EXCEPT ![f] = p],
           side' \in [Second -> {None} \cup SUBSET Block],
           \A g \in Second : g # f => side'[g] = side[g],
           p # None => part[f] # None /\ p.text = part[f].text,
           f \in Second /\ p # None /\ side'[f] # None =>
              \A b \in side'[f] : p.text[b] # Hole /\ b \in p.dur
    PROVE  Local(f)
<1>1. /\ part' \in [Key -> {None} \cup PartType] /\ part'[f] = p
      /\ \A g \in Key : g # f => part'[g] = part[g]
  BY PartSets DEF TransferInv
<1>2. p # None => \A b \in Block : p.text[b] =< src.text[b]
  BY DEF TransferInv, BoundInv
<1>3. QED
  BY <1>1, <1>2 DEF Local, DiskInv

\* A handler that is over claims nothing but what it reported.
LEMMA OverSteps ==
    ASSUME TransferInv, NEW k \in Attempt, rcv[k].pc \in Active,
           NEW reply \in {"ok", "differs", "error", "stopped"}, Over(k, reply),
           Local(rcv[k].key), UNCHANGED <<src, texts, snd, clearing, landed>>,
           upsets' \in 0 .. MaxUpsets,
           reply = "ok" => rcv[k].pc = "tell"
    PROVE  TransferInv'
<1> TypeOK /\ LinkInv(k) /\ KeyInv(k) /\ WholeUnlessEarly /\ CopyInv
  BY DEF TransferInv
<1>1. PICK h : h = [NoHandler EXCEPT !.pc = "over", !.reply = reply, !.key = rcv[k].key,
                                     !.cov = rcv[k].cov, !.link = rcv[k].link]
  OBVIOUS
<1>2. /\ h \in HandlerType /\ h.pc = "over" /\ h.reply = reply /\ h.key = rcv[k].key
      /\ h.owns = FALSE /\ h.manifest = None /\ h.wire = NoText
  <2>1. h \in HandlerType
    BY <1>1, NoHandlerTyped, HandlerIs DEF HandlerType
  <2>2. QED
    BY <1>1, <2>1 DEF NoHandler
<1>3. h.link = rcv[k].link
  BY <1>1 DEF NoHandler
<1>4. rcv' = [rcv EXCEPT ![k] = h]
  BY <1>1 DEF Over
<1>5. rcv'[k] = h
  BY <1>4 DEF TypeOK
<1>6. FileInv(k)' /\ ManifestInv(k)'
  BY <1>2, <1>5 DEF FileInv, ManifestInv, InFile, Active
<1>7. LinkInv(k)'
  <2>1. h.link /\ reply = "ok" => snd.pc = "wait" /\ Has(snd.leaves)
    <3> SUFFICES ASSUME rcv[k].link, reply = "ok" PROVE snd.pc = "wait" /\ Has(snd.leaves)
      BY <1>3
    <3>1. PICK i \in DOMAIN landed : landed[i] = rcv[k].manifest
      BY DEF LinkInv, Has
    <3>2. rcv[k].manifest # None
      BY <3>1, NoneIs DEF TypeOK
    <3>3. QED
      BY <3>1, <3>2 DEF LinkInv, Has, Active
  <2>2. QED
    BY <1>2, <1>3, <1>5, <2>1 DEF LinkInv, Has
<1>8. \A j \in Attempt : j # k /\ rcv[j].pc \in Active => rcv[j].key # h.key
  BY <1>2, Alone
<1>9. h.owns <=> h.pc \in Active /\ h.key \in Second
  BY <1>2 DEF Active
<1>10. \A b \in Block : h.wire[b] = None
  BY <1>2, NoTextTyped
<1>11. LandedGrows /\ WholeUnlessEarly' /\ (SameKeys => \A i, j \in DOMAIN landed' : landed'[i] = landed'[j] => i = j)
  BY DEF LandedGrows, TypeOK, WholeUnlessEarly, CopyInv
<1>12. rcv[k].pc # "none" /\ h.pc \notin {"none", "asked"} \cup InFile /\ h.pc # "publish"
  BY <1>2 DEF Active, InFile
<1>13. QED
  BY <1>2, <1>4, <1>6, <1>7, <1>8, <1>9, <1>10, <1>11, <1>12, HandlerSteps

LEMMA OpenKeeps ==
    ASSUME TransferInv, NEW k \in Attempt, NEW f \in Key, NEW owns \in BOOLEAN,
           NEW cov \in SUBSET Block,
           Open(k, f, owns, cov), rcv[k].pc = "asked", f = rcv[k].key \/ f = - k,
           owns <=> f \in Second,
           \A j \in Attempt : j # k /\ rcv[j].pc \in Active => rcv[j].key # f,
           \A b \in cov : part[f] # None /\ part[f].text[b] # Hole,
           side' \in [Second -> {None} \cup SUBSET Block],
           \A g \in Second : g # f => side'[g] = side[g],
           f \in Second /\ part[f] = None => side'[f] = None,
           f \in Second /\ part[f] # None =>
               side'[f] = side[f] /\ (side[f] # None => side[f] \subseteq cov),
           UNCHANGED <<src, texts, snd, clearing, landed>>, upsets' \in 0 .. MaxUpsets
    PROVE  TransferInv'
<1> TypeOK /\ LinkInv(k) /\ KeyInv(k) /\ WholeUnlessEarly /\ CopyInv
  BY DEF TransferInv
<1>1. PICK p : p = IF part[f] = None THEN NewPart ELSE part[f]
  OBVIOUS
<1>2. p \in PartType /\ (part[f] # None => p = part[f]) /\ (part[f] = None => p = NewPart)
  BY <1>1, NewPartTyped, PartIs
<1>3. part' = [part EXCEPT ![f] = p]
  BY <1>1 DEF Open
<1>4. /\ part' \in [Key -> {None} \cup PartType] /\ part'[f] = p
      /\ \A g \in Key : g # f => part'[g] = part[g]
  BY <1>2, <1>3, PartSets
<1>5. p # None
  BY <1>2, NoneIs
<1>6. Local(f)
  <2>1. f \in Second => DiskInv(f)'
    <3> SUFFICES ASSUME f \in Second, side'[f] # None,
                        NEW b \in side'[f]
                 PROVE  p.text[b] # Hole /\ b \in p.dur
      BY <1>4 DEF DiskInv
    <3>1. part[f] # None /\ side'[f] = side[f] /\ p = part[f]
      BY <1>2
    <3>2. QED
      BY <3>1 DEF TransferInv, DiskInv
  <2>2. \A b \in Block : p.text[b] =< src.text[b]
    <3>1. CASE part[f] = None
      BY <1>2, <3>1, NewPartTyped, SourceIs DEF Hole
    <3>2. CASE part[f] # None
      BY <1>2, <3>2 DEF TransferInv, BoundInv
    <3>3. QED
      BY <3>1, <3>2
  <2>3. QED
    BY <1>4, <2>1, <2>2 DEF Local
<1>7. PICK h : h = [rcv[k] EXCEPT !.pc = "ready", !.key = f, !.owns = owns,
                                  !.have = cov, !.cov = cov, !.reply = "ready"]
  OBVIOUS
<1>8. /\ h \in HandlerType /\ h.pc = "ready" /\ h.key = f /\ h.owns = owns /\ h.have = cov
      /\ h.cov = cov /\ h.reply = "ready" /\ h.leaves = rcv[k].leaves /\ h.wire = rcv[k].wire
      /\ h.manifest = rcv[k].manifest /\ h.link = rcv[k].link
  <2>1. rcv[k] \in HandlerType
    BY HandlerIs
  <2>2. h \in HandlerType
    BY <1>7, <2>1 DEF HandlerType
  <2>3. h.owns = owns
    BY <1>7, <2>1 DEF HandlerType
  <2>4. h.link = rcv[k].link
    BY <1>7, <2>1 DEF HandlerType
  <2>5. h.pc = "ready" /\ h.key = f /\ h.have = cov /\ h.cov = cov /\ h.reply = "ready"
    BY <1>7, <2>1 DEF HandlerType
  <2>6. h.leaves = rcv[k].leaves /\ h.wire = rcv[k].wire /\ h.manifest = rcv[k].manifest
    BY <1>7, <2>1 DEF HandlerType
  <2>7. QED
    BY <2>2, <2>3, <2>4, <2>5, <2>6
<1>9. rcv' = [rcv EXCEPT ![k] = h]
  BY <1>7 DEF Open
<1>10. rcv'[k] = h
  BY <1>9 DEF TypeOK
<1>11. h.manifest = None /\ \A b \in Block : h.leaves[b] = None
  BY <1>8, NoTextTyped DEF KeyInv
<1>12. LinkInv(k)'
  BY <1>8, <1>10, <1>11 DEF LinkInv
<1>13. FileInv(k)'
  <2>1. \A b \in cov : p.text[b] # Hole
    BY <1>2
  <2>2. owns /\ side'[f] # None => side'[f] \subseteq cov
    OBVIOUS
  <2>3. QED
    BY <1>4, <1>5, <1>8, <1>10, <1>11, <2>1, <2>2 DEF FileInv
<1>14. ManifestInv(k)'
  BY <1>10, <1>11 DEF ManifestInv
<1>15. h.owns <=> h.pc \in Active /\ h.key \in Second
  BY <1>8 DEF Active
<1>16. LandedGrows /\ WholeUnlessEarly' /\ (SameKeys => \A i, j \in DOMAIN landed' : landed'[i] = landed'[j] => i = j)
  BY DEF LandedGrows, TypeOK, WholeUnlessEarly, CopyInv
<1>17. \A b \in Block : h.wire[b] # None => h.wire[b] = rcv[k].wire[b]
  BY <1>8
<1>18. QED
  BY <1>6, <1>8, <1>9, <1>12, <1>13, <1>14, <1>15, <1>16, <1>17, HandlerSteps

LEMMA ClaimKeeps ==
    ASSUME TransferInv, NEW k \in Attempt, Claim(k)
    PROVE  TransferInv'
<1> TypeOK
  BY DEF TransferInv
<1>1. PICK f : f = rcv[k].key
  OBVIOUS
<1>2. /\ rcv[k].pc = "asked" /\ f \notin Owned
      /\ Open(k, f, TRUE, IF part[f] = None \/ side[f] = None THEN {} ELSE side[f])
      /\ side' = IF part[f] = None THEN [side EXCEPT ![f] = None] ELSE side
      /\ UNCHANGED <<src, texts, snd, clearing, landed, upsets>>
  BY <1>1 DEF Claim
<1>3. f \in Second /\ f \in Key
  BY <1>1, <1>2, KeysAre DEF TransferInv, KeyInv
<1>4. PICK cov : cov = IF part[f] = None \/ side[f] = None THEN {} ELSE side[f]
  OBVIOUS
<1>5. cov \in SUBSET Block
  BY <1>3, <1>4 DEF TypeOK
<1>6. \A b \in cov : part[f] # None /\ part[f].text[b] # Hole
  BY <1>3, <1>4 DEF TransferInv, DiskInv
<1>7. /\ side' \in [Second -> {None} \cup SUBSET Block]
      /\ \A g \in Second : g # f => side'[g] = side[g]
      /\ part[f] = None => side'[f] = None
      /\ part[f] # None => side'[f] = side[f] /\ (side[f] # None => side[f] \subseteq cov)
  BY <1>2, <1>3, <1>4 DEF TypeOK
<1>8. ASSUME NEW j \in Attempt, rcv[j].pc \in Active PROVE rcv[j].key # f
  <2>1. rcv[j].key = f => rcv[j].owns
    BY <1>3, <1>8, Zenon DEF TransferInv, KeyInv
  <2>2. QED
    BY <1>2, <2>1 DEF Owned
<1>9. Open(k, f, TRUE, cov) /\ upsets' \in 0 .. MaxUpsets
  BY <1>2, <1>4 DEF TypeOK
<1>10. \A j \in Attempt : j # k /\ rcv[j].pc \in Active => rcv[j].key # f
  BY <1>8
<1>11. f = rcv[k].key \/ f = - k
  BY <1>1
<1>12. PICK owns \in BOOLEAN : owns = TRUE
  OBVIOUS
<1>13. (owns <=> f \in Second) /\ Open(k, f, owns, cov)
  BY <1>3, <1>9, <1>12
<1>14. QED
  BY <1>2, <1>3, <1>5, <1>6, <1>7, <1>9, <1>10, <1>11, <1>13, OpenKeeps

LEMMA WaitExpiresKeeps ==
    ASSUME TransferInv, NEW k \in Attempt, WaitExpires(k)
    PROVE  TransferInv'
<1> TypeOK
  BY DEF TransferInv
<1>1. /\ rcv[k].pc = "asked" /\ Open(k, - k, FALSE, {})
      /\ UNCHANGED <<src, texts, snd, side, clearing, landed>>
  BY DEF WaitExpires
<1>2. upsets' \in 0 .. MaxUpsets
  BY DirectAssumption DEF WaitExpires, Upset, TypeOK
<1>3. - k \in Key /\ - k \notin Second
  BY KeysAre
<1>4. ASSUME NEW j \in Attempt, j # k PROVE rcv[j].key # - k
  BY <1>3, <1>4, KeysAre DEF TransferInv, KeyInv
<1>5. side' \in [Second -> {None} \cup SUBSET Block] /\ \A g \in Second : side'[g] = side[g]
  BY <1>1 DEF TypeOK
<1>6. PICK f \in Key : f = - k
  BY <1>3
<1>7. PICK owns \in BOOLEAN : owns = FALSE
  OBVIOUS
<1>8. PICK cov \in SUBSET Block : cov = {}
  OBVIOUS
<1>9. /\ f \notin Second /\ (owns <=> f \in Second) /\ Open(k, f, owns, cov)
      /\ \A b \in cov : part[f] # None /\ part[f].text[b] # Hole
      /\ \A j \in Attempt : j # k /\ rcv[j].pc \in Active => rcv[j].key # f
      /\ \A g \in Second : g # f => side'[g] = side[g]
  BY <1>1, <1>3, <1>4, <1>5, <1>6, <1>7, <1>8
<1>10. QED
  BY <1>1, <1>2, <1>5, <1>6, <1>9, OpenKeeps

\* A step that leaves the partial alone.
LEMMA QuietSteps ==
    ASSUME TransferInv, NEW k \in Attempt, NEW h \in HandlerType, rcv' = [rcv EXCEPT ![k] = h],
           UNCHANGED <<src, texts, snd, part, side, clearing, landed>>, upsets' \in 0 .. MaxUpsets,
           rcv[k].pc \in InFile, h.pc \in InFile,
           h.key = rcv[k].key, h.owns = rcv[k].owns, h.have = rcv[k].have,
           h.manifest = rcv[k].manifest, h.link = rcv[k].link, h.wire = rcv[k].wire,
           h.reply = rcv[k].reply \/ h.reply = "stopped",
           FileInv(k)',
           SameKeys /\ h.pc = "publish" /\ part[h.key].named => ~ Has(part[h.key].text)
    PROVE  TransferInv'
<1> TypeOK /\ LinkInv(k) /\ KeyInv(k) /\ WholeUnlessEarly /\ CopyInv /\ ManifestInv(k)
  BY DEF TransferInv
<1>1. rcv'[k] = h
  BY DEF TypeOK
<1>2. rcv[k].pc \in Active /\ h.pc \in Active /\ h.pc # "tell" /\ rcv[k].pc # "none"
      /\ h.pc \notin {"none", "asked"}
  BY DEF InFile, Active
<1>3. h.key \in Key
  BY DEF HandlerType
<1>4. Local(h.key)
  BY <1>3, LocalSame
<1>5. LinkInv(k)'
  BY <1>1, <1>2 DEF LinkInv, Has
<1>6. ManifestInv(k)'
  BY <1>1 DEF ManifestInv, HashesOf
<1>7. h.owns <=> h.pc \in Active /\ h.key \in Second
  BY <1>2, Zenon DEF KeyInv
<1>8. \A j \in Attempt : j # k /\ rcv[j].pc \in Active => rcv[j].key # h.key
  BY <1>2, Alone
<1>9. LandedGrows /\ WholeUnlessEarly'
  BY DEF LandedGrows, TypeOK, WholeUnlessEarly
<1>10. SameKeys => /\ \A i, j \in DOMAIN landed' : landed'[i] = landed'[j] => i = j
                   /\ h.pc = "publish" /\ part'[h.key].named => ~ Has(part[h.key].text)'
  BY DEF CopyInv, Has
<1>11. \A b \in Block : h.wire[b] # None => h.wire[b] = rcv[k].wire[b]
  OBVIOUS
<1>12. \A b \in h.have : part'[h.key].text[b] = part[h.key].text[b]
  OBVIOUS
<1>13. QED
  BY <1>2, <1>4, <1>5, <1>6, <1>7, <1>8, <1>9, <1>10, <1>11, <1>12, HandlerSteps

LEMMA FirstStreamKeeps ==
    ASSUME TransferInv, NEW k \in Attempt, FirstStream(k)
    PROVE  TransferInv'
<1> TypeOK /\ FileInv(k)
  BY DEF TransferInv
<1>1. PICK h : h = [rcv[k] EXCEPT !.pc = "recv"]
  OBVIOUS
<1>2. /\ h \in HandlerType /\ h.pc = "recv" /\ h.key = rcv[k].key /\ h.owns = rcv[k].owns
      /\ h.have = rcv[k].have /\ h.cov = rcv[k].cov /\ h.leaves = rcv[k].leaves
      /\ h.wire = rcv[k].wire /\ h.manifest = rcv[k].manifest /\ h.link = rcv[k].link
      /\ h.reply = rcv[k].reply
  BY <1>1, HandlerIs DEF HandlerType
<1>3. /\ rcv[k].pc = "ready" /\ rcv' = [rcv EXCEPT ![k] = h]
      /\ UNCHANGED <<src, texts, snd, part, side, clearing, landed, upsets>>
  BY <1>1 DEF FirstStream, TypeOK
<1>4. rcv'[k] = h
  BY <1>3 DEF TypeOK
<1>5. FileInv(k)'
  BY <1>2, <1>3, <1>4 DEF FileInv, InFile, Active
<1>6. QED
  BY <1>2, <1>3, <1>5, QuietSteps DEF InFile, Active, TypeOK

LEMMA HashPartKeeps ==
    ASSUME TransferInv, NEW k \in Attempt, HashPart(k)
    PROVE  TransferInv'
<1> TypeOK /\ FileInv(k)
  BY DEF TransferInv
<1>1. PICK l : l = [b \in Block |-> IF b \in rcv[k].have THEN part[rcv[k].key].text[b]
                                    ELSE rcv[k].leaves[b]]
  OBVIOUS
<1>2. PICK h : h = [rcv[k] EXCEPT !.leaves = l]
  OBVIOUS
<1>3. /\ rcv[k].pc = "recv" /\ rcv' = [rcv EXCEPT ![k] = h]
      /\ UNCHANGED <<src, texts, snd, part, side, clearing, landed, upsets>>
  BY <1>1, <1>2 DEF HashPart, TypeOK
<1>4. part[rcv[k].key].text \in [Block -> Nat \cup {Hole}]
  BY <1>3, HandlerIs, PartIs DEF FileInv, InFile, Active
<1>5. /\ l \in [Block -> Nat \cup {None, Hole}]
      /\ \A b \in Block : l[b] = part[rcv[k].key].text[b] \/ l[b] = rcv[k].leaves[b]
  BY <1>1, <1>4, HandlerIs
<1>6. /\ h \in HandlerType /\ h.pc = rcv[k].pc /\ h.key = rcv[k].key /\ h.owns = rcv[k].owns
      /\ h.have = rcv[k].have /\ h.cov = rcv[k].cov /\ h.leaves = l
      /\ h.wire = rcv[k].wire /\ h.manifest = rcv[k].manifest /\ h.link = rcv[k].link
      /\ h.reply = rcv[k].reply
  BY <1>2, <1>5, HandlerIs DEF HandlerType
<1>7. rcv'[k] = h
  BY <1>3, <1>6 DEF TypeOK
<1>8. FileInv(k)'
  BY <1>3, <1>5, <1>6, <1>7 DEF FileInv, InFile, Active
<1>9. QED
  BY <1>3, <1>6, <1>8, QuietSteps DEF InFile, Active, TypeOK

LEMMA ReceiverCancelsKeeps ==
    ASSUME TransferInv, NEW k \in Attempt, ReceiverCancels(k)
    PROVE  TransferInv'
<1> TypeOK /\ FileInv(k)
  BY DEF TransferInv
<1>1. PICK h : h = [rcv[k] EXCEPT !.stop = TRUE, !.reply = "stopped"]
  OBVIOUS
<1>2. /\ h \in HandlerType /\ h.pc = rcv[k].pc /\ h.key = rcv[k].key /\ h.owns = rcv[k].owns
      /\ h.have = rcv[k].have /\ h.cov = rcv[k].cov /\ h.leaves = rcv[k].leaves
      /\ h.wire = rcv[k].wire /\ h.manifest = rcv[k].manifest /\ h.link = rcv[k].link
      /\ h.reply = "stopped"
  BY <1>1, HandlerIs DEF HandlerType
<1>3. /\ rcv[k].pc \in {"ready", "recv", "verify"} /\ rcv' = [rcv EXCEPT ![k] = h]
      /\ UNCHANGED <<src, texts, snd, part, side, clearing, landed>>
  BY <1>1 DEF ReceiverCancels, TypeOK
<1>4. upsets' \in 0 .. MaxUpsets
  BY DirectAssumption DEF ReceiverCancels, Upset, TypeOK
<1>5. rcv'[k] = h
  BY <1>2, <1>3 DEF TypeOK
<1>6. FileInv(k)'
  BY <1>2, <1>3, <1>5 DEF FileInv, InFile, Active
<1>7. QED
  BY <1>2, <1>3, <1>4, <1>6, QuietSteps DEF InFile, Active

\* A handler lets go of its partial and is over.
LEMMA LetKeeps ==
    ASSUME TransferInv, NEW k \in Attempt, rcv[k].pc \in Active,
           NEW reply \in {"differs", "error", "stopped"}, Over(k, reply),
           NEW p \in {None} \cup PartType, part' = Let(k, p),
           p # None => part[rcv[k].key] # None /\ p.text = part[rcv[k].key].text,
           side' \in [Second -> {None} \cup SUBSET Block],
           \A g \in Second : g # rcv[k].key => side'[g] = side[g],
           rcv[k].key \in Second /\ p # None /\ side'[rcv[k].key] # None =>
              \A b \in side'[rcv[k].key] : p.text[b] # Hole /\ b \in p.dur,
           UNCHANGED <<src, texts, snd, clearing, landed>>, upsets' \in 0 .. MaxUpsets
    PROVE  TransferInv'
<1>1. PICK q : q = IF p = None \/ ~ p.named THEN None ELSE p
  OBVIOUS
<1>2. q \in {None} \cup PartType /\ (q # None => q = p)
  BY <1>1
<1>3. part' = [part EXCEPT ![rcv[k].key] = q]
  BY <1>1 DEF Let
<1>4. rcv[k].key \in Key
  BY HandlerIs DEF TransferInv
<1>5. Local(rcv[k].key)
  BY <1>2, <1>3, <1>4, LocalIs
<1>6. QED
  BY <1>5, OverSteps

LEMMA NoStreamKeeps ==
    ASSUME TransferInv, NEW k \in Attempt, NoStream(k)
    PROVE  TransferInv'
<1> TypeOK /\ FileInv(k) /\ KeyInv(k) /\ rcv[k].key \in Key
  BY HandlerIs DEF TransferInv
<1>1. PICK p : p = IF rcv[k].owns THEN part[rcv[k].key] ELSE None
  OBVIOUS
<1>2. /\ rcv[k].pc = "ready" /\ part' = Let(k, p) /\ Over(k, "error")
      /\ UNCHANGED <<src, texts, snd, side, clearing, landed, upsets>>
  BY <1>1 DEF NoStream
<1>3. p \in {None} \cup PartType /\ (p # None => p = part[rcv[k].key])
  BY <1>1 DEF TypeOK
<1>4. \A f \in Second : DiskInv(f)
  BY DEF TransferInv
<1>5. rcv[k].key \in Second /\ p # None /\ side'[rcv[k].key] # None =>
              \A b \in side'[rcv[k].key] : p.text[b] # Hole /\ b \in p.dur
  BY <1>2, <1>3, <1>4 DEF DiskInv
<1>6. side' \in [Second -> {None} \cup SUBSET Block] /\ upsets' \in 0 .. MaxUpsets
      /\ \A g \in Second : g # rcv[k].key => side'[g] = side[g]
  BY <1>2 DEF TypeOK
<1>7. QED
  BY <1>2, <1>3, <1>5, <1>6, LetKeeps DEF Active

LEMMA LostVerifyingKeeps ==
    ASSUME TransferInv, NEW k \in Attempt, LostVerifying(k)
    PROVE  TransferInv'
<1> TypeOK /\ rcv[k].key \in Key
  BY HandlerIs DEF TransferInv
<1>1. PICK p : p = part[rcv[k].key]
  OBVIOUS
<1>2. /\ rcv[k].pc = "verify" /\ rcv[k].pc \in Active /\ part' = Let(k, p) /\ Over(k, "error")
      /\ side' = Claimed(k, {}) /\ UNCHANGED <<src, texts, snd, clearing, landed, upsets>>
  BY <1>1 DEF LostVerifying, Active
<1>3. p \in {None} \cup PartType
  BY <1>1 DEF TypeOK
<1>4. PICK q \in {None} \cup SUBSET Block : q = {}
  OBVIOUS
<1>5. /\ side' \in [Second -> {None} \cup SUBSET Block]
      /\ \A g \in Second : g # rcv[k].key => side'[g] = side[g]
      /\ rcv[k].key \in Second => side'[rcv[k].key] = q
  BY <1>2, <1>4, ClaimedDoes
<1>6. rcv[k].key \in Second /\ p # None /\ side'[rcv[k].key] # None =>
              \A b \in side'[rcv[k].key] : p.text[b] # Hole /\ b \in p.dur
  BY <1>4, <1>5
<1>7. upsets' \in 0 .. MaxUpsets
  BY <1>2 DEF TypeOK
<1>8. QED
  BY <1>1, <1>2, <1>3, <1>5, <1>6, <1>7, LetKeeps

LEMMA InterruptedKeeps ==
    ASSUME TransferInv, NEW k \in Attempt, rcv[k].pc = "recv", Interrupted(k),
           UNCHANGED <<src, texts, snd, clearing, landed>>, upsets' \in 0 .. MaxUpsets
    PROVE  TransferInv'
<1> TypeOK /\ FileInv(k) /\ KeyInv(k) /\ rcv[k].key \in Key /\ rcv[k].pc \in Active
  BY HandlerIs DEF TransferInv, Active
<1>1. Over(k, "error")
  BY DEF Interrupted
<1>2. CASE rcv[k].owns
  <2>1. part[rcv[k].key] # None /\ part[rcv[k].key] \in PartType
    BY PartIs DEF FileInv, InFile, Active
  <2>2. PICK p : p = Synced(part[rcv[k].key])
    OBVIOUS
  <2>3. /\ p \in PartType /\ p.text = part[rcv[k].key].text
        /\ p.dur = {b \in Block : p.text[b] # Hole}
    BY <2>1, <2>2, SyncedIs
  <2>4. part' = Let(k, p) /\ side' = Claimed(k, rcv[k].cov)
    BY <1>2, <2>2 DEF Interrupted
  <2>5. PICK q \in {None} \cup SUBSET Block : q = rcv[k].cov
    BY HandlerIs
  <2>6. /\ side' \in [Second -> {None} \cup SUBSET Block]
        /\ \A g \in Second : g # rcv[k].key => side'[g] = side[g]
        /\ rcv[k].key \in Second => side'[rcv[k].key] = q
    BY <2>4, <2>5, ClaimedDoes
  <2>7. \A b \in q : b \in Block /\ p.text[b] # Hole
    BY <2>3, <2>5, HandlerIs DEF FileInv, InFile, Active
  <2>8. rcv[k].key \in Second /\ p # None /\ side'[rcv[k].key] # None =>
              \A b \in side'[rcv[k].key] : p.text[b] # Hole /\ b \in p.dur
    BY <2>3, <2>6, <2>7
  <2>9. QED
    BY <1>1, <2>1, <2>3, <2>4, <2>6, <2>8, LetKeeps
<1>3. CASE ~ rcv[k].owns
  <2>1. part' = [part EXCEPT ![rcv[k].key] = None] /\ side' = side
    BY <1>3 DEF Interrupted
  <2>2. PICK p \in {None} \cup PartType : p = None
    OBVIOUS
  <2>3. Local(rcv[k].key)
    BY <2>1, <2>2, LocalIs DEF TypeOK
  <2>4. QED
    BY <1>1, <2>3, OverSteps
<1>4. QED
  BY <1>2, <1>3

LEMMA LostKeeps ==
    ASSUME TransferInv, NEW k \in Attempt, ReceiverLost(k) \/ DiskFails(k)
    PROVE  TransferInv'
<1>1. upsets' \in 0 .. MaxUpsets
  BY DirectAssumption DEF ReceiverLost, DiskFails, Upset, TransferInv, TypeOK
<1>2. QED
  BY <1>1, InterruptedKeeps DEF ReceiverLost, DiskFails

LEMMA CanceledKeeps ==
    ASSUME TransferInv, NEW k \in Attempt, Canceled(k)
    PROVE  TransferInv'
<1> TypeOK /\ rcv[k].key \in Key
  BY HandlerIs DEF TransferInv
<1>1. PICK p : p = IF rcv[k].pc = "verify" /\ ~ rcv[k].owns THEN part[rcv[k].key] ELSE None
  OBVIOUS
<1>2. /\ rcv[k].pc \in Active /\ part' = [part EXCEPT ![rcv[k].key] = p] /\ Over(k, "stopped")
      /\ side' = Claimed(k, None) /\ UNCHANGED <<src, texts, snd, clearing, landed, upsets>>
  BY <1>1 DEF Canceled, Active
<1>3. p \in {None} \cup PartType /\ (p # None => p = part[rcv[k].key])
  BY <1>1 DEF TypeOK
<1>4. PICK q \in {None} \cup SUBSET Block : q = None
  OBVIOUS
<1>5. /\ side' \in [Second -> {None} \cup SUBSET Block]
      /\ \A g \in Second : g # rcv[k].key => side'[g] = side[g]
      /\ rcv[k].key \in Second => side'[rcv[k].key] = q
  BY <1>2, <1>4, ClaimedDoes
<1>6. Local(rcv[k].key)
  BY <1>2, <1>3, <1>4, <1>5, LocalIs
<1>7. upsets' \in 0 .. MaxUpsets
  BY <1>2 DEF TypeOK
<1>8. QED
  BY <1>2, <1>6, <1>7, OverSteps

LEMMA TellKeeps ==
    ASSUME TransferInv, NEW k \in Attempt, Tell(k)
    PROVE  TransferInv'
<1>1. /\ rcv[k].pc = "tell" /\ Over(k, "ok")
      /\ UNCHANGED <<src, texts, snd, part, side, clearing, landed, upsets>>
  BY DEF Tell
<1>2. rcv[k].key \in Key /\ upsets' \in 0 .. MaxUpsets
  BY <1>1, HandlerIs DEF TransferInv, TypeOK
<1>3. Local(rcv[k].key)
  BY <1>1, <1>2, LocalSame
<1>4. QED
  BY <1>1, <1>2, <1>3, OverSteps DEF Active

LEMMA ArriveKeeps ==
    ASSUME TransferInv, NEW k \in Attempt, NEW b \in Block, Arrive(k, b)
    PROVE  TransferInv'
<1> TypeOK /\ FileInv(k) /\ KeyInv(k) /\ LinkInv(k) /\ ManifestInv(k) /\ rcv[k].key \in Key
  BY HandlerIs DEF TransferInv
<1>1. PICK f : f = rcv[k].key
  OBVIOUS
<1>2. PICK t : t = rcv[k].wire[b]
  OBVIOUS
<1>3. PICK p : p = Written(part[f], b, t)
  OBVIOUS
<1>4. PICK h : h = Counted(rcv[k], b)
  OBVIOUS
<1>5. /\ rcv[k].pc = "recv" /\ t # None /\ b \notin rcv[k].cov
      /\ part' = [part EXCEPT ![f] = p] /\ rcv' = [rcv EXCEPT ![k] = h]
      /\ UNCHANGED <<src, texts, snd, side, clearing, landed, upsets>>
  BY <1>1, <1>2, <1>3, <1>4 DEF Arrive, TypeOK
<1>6. /\ part[f] # None /\ part[f] \in PartType /\ f \in Key
      /\ rcv[k].have \subseteq rcv[k].cov /\ rcv[k].cov \subseteq Block
      /\ \A c \in rcv[k].cov : part[f].text[c] # Hole
      /\ \A c \in Block : rcv[k].leaves[c] # None => rcv[k].leaves[c] = part[f].text[c]
      /\ rcv[k].owns /\ side[f] # None => side[f] \subseteq rcv[k].cov
  BY <1>1, <1>5, HandlerIs, PartIs DEF FileInv, InFile, Active
<1>7. t \in Nat /\ t # Hole /\ t =< src.text[b]
  <2>1. t \in Nat
    BY <1>2, <1>5, HandlerIs DEF TextOrNone
  <2>2. QED
    BY <1>2, <1>5, <2>1 DEF TransferInv, BoundInv, Hole
<1>8. /\ p \in PartType /\ p.text = [part[f].text EXCEPT ![b] = t] /\ p.dur = part[f].dur \ {b}
      /\ p.named = part[f].named
  BY <1>3, <1>6, <1>7 DEF PartType, Written
<1>9. p.text[b] = t /\ \A c \in Block : c # b => p.text[c] = part[f].text[c]
  BY <1>6, <1>8 DEF PartType
<1>10. /\ h \in HandlerType /\ h.pc = "recv" /\ h.key = f /\ h.owns = rcv[k].owns
       /\ h.have = rcv[k].have /\ h.cov = rcv[k].cov \cup {b}
       /\ h.leaves = [rcv[k].leaves EXCEPT ![b] = t]
       /\ h.wire = rcv[k].wire /\ h.manifest = rcv[k].manifest /\ h.link = rcv[k].link
       /\ h.reply = rcv[k].reply
  <2>1. rcv[k] \in HandlerType /\ [rcv[k].leaves EXCEPT ![b] = t] \in [Block -> Nat \cup {None, Hole}]
    BY <1>7, HandlerIs
  <2>2. h \in HandlerType
    BY <1>2, <1>4, <2>1 DEF HandlerType, Counted
  <2>3. QED
    BY ZenonT(60), <1>1, <1>2, <1>4, <1>5, <2>1, <2>2 DEF HandlerType, Counted
<1>11. h.leaves[b] = t /\ \A c \in Block : c # b => h.leaves[c] = rcv[k].leaves[c]
  BY <1>10, HandlerIs
<1>12. /\ part' \in [Key -> {None} \cup PartType] /\ part'[f] = p
       /\ \A g \in Key : g # f => part'[g] = part[g]
  BY <1>5, <1>6, <1>8, PartSets
<1>13. rcv'[k] = h /\ p # None
  BY <1>5, <1>8, <1>10, NoneIs DEF TypeOK
<1>14. \A c \in Block : p.text[c] =< src.text[c]
  BY <1>6, <1>7, <1>9 DEF TransferInv, BoundInv
<1>15. Local(f)
  <2>1. f \in Second => DiskInv(f)'
    <3> SUFFICES ASSUME f \in Second, side[f] # None, NEW c \in side[f]
                 PROVE  p.text[c] # Hole /\ c \in p.dur
      BY <1>5, <1>12 DEF DiskInv
    <3>1. c \in rcv[k].cov
      <4>1. rcv[k].owns
        BY <1>1, <1>5, Zenon DEF KeyInv, Active
      <4>2. QED
        BY <1>6, <4>1
    <3>2. part[f].text[c] # Hole /\ c \in part[f].dur /\ c # b /\ c \in Block
      BY <1>5, <1>6, <3>1 DEF TransferInv, DiskInv
    <3>3. QED
      BY <1>8, <1>9, <3>2
  <2>2. QED
    BY <1>5, <1>12, <1>14, <2>1 DEF Local, TypeOK
<1>16. FileInv(k)'
  <2>1. \A c \in h.cov : p.text[c] # Hole
    BY <1>6, <1>7, <1>9, <1>10
  <2>2. \A c \in Block : h.leaves[c] # None => h.leaves[c] = p.text[c]
    BY <1>6, <1>9, <1>11
  <2>3. h.owns /\ side'[f] # None => side'[f] \subseteq h.cov
    <3>1. h.owns => rcv[k].owns
      BY <1>10, Zenon
    <3>2. QED
      BY <1>5, <1>6, <1>10, <3>1
  <2>4. h.have \subseteq h.cov
    BY <1>6, <1>10
  <2>5. QED
    BY <1>10, <1>12, <1>13, <2>1, <2>2, <2>3, <2>4 DEF FileInv
<1>17. \A c \in rcv[k].have : p.text[c] = part[f].text[c]
  BY <1>5, <1>6, <1>9
<1>18. ManifestInv(k)'
  <2>1. \A u : HashesOf(k, u) => HashesOf(k, u)'
    BY <1>1, <1>10, <1>12, <1>13, <1>17 DEF HashesOf
  <2>2. rcv[k].pc \in InFile
    BY <1>5 DEF InFile, Active
  <2>3. QED
    BY <1>5, <1>10, <1>13, <2>1, <2>2 DEF ManifestInv
<1>19. LinkInv(k)'
  BY <1>5, <1>10, <1>13 DEF LinkInv, Has, Active
<1>20. h.owns <=> h.pc \in Active /\ h.key \in Second
  BY <1>1, <1>5, <1>10, Zenon DEF KeyInv, Active
<1>21. \A j \in Attempt : j # k /\ rcv[j].pc \in Active => rcv[j].key # h.key
  BY <1>1, <1>5, <1>10, Alone DEF Active
<1>22. LandedGrows /\ WholeUnlessEarly' /\ (SameKeys => \A i, j \in DOMAIN landed' : landed'[i] = landed'[j] => i = j)
  BY <1>5 DEF LandedGrows, TypeOK, WholeUnlessEarly, CopyInv, TransferInv
<1>23. \A c \in h.have : part'[h.key].text[c] = part[h.key].text[c]
  BY <1>10, <1>12, <1>17
<1>24. rcv[k].pc # "none" /\ rcv[k].pc \in InFile /\ h.pc \notin {"none", "asked", "publish"}
       /\ upsets' \in 0 .. MaxUpsets /\ h.key = rcv[k].key
       /\ \A c \in Block : h.wire[c] # None => h.wire[c] = rcv[k].wire[c]
  BY <1>1, <1>5, <1>10 DEF InFile, Active, TypeOK
<1>25. QED
  BY <1>5, <1>10, <1>15, <1>16, <1>18, <1>19, <1>20, <1>21, <1>22, <1>23, <1>24, HandlerSteps

\* A step that leaves what is in the partial.
LEMMA TextSteps ==
    ASSUME TransferInv, NEW k \in Attempt, NEW h \in HandlerType, rcv' = [rcv EXCEPT ![k] = h],
           NEW p \in PartType, part' = [part EXCEPT ![rcv[k].key] = p],
           p.text = part[rcv[k].key].text,
           side' \in [Second -> {None} \cup SUBSET Block],
           \A g \in Second : g # rcv[k].key => side'[g] = side[g],
           rcv[k].key \in Second /\ side'[rcv[k].key] # None =>
               \A b \in side'[rcv[k].key] : p.text[b] # Hole /\ b \in p.dur,
           UNCHANGED <<src, texts, snd, clearing, landed>>, upsets' \in 0 .. MaxUpsets,
           rcv[k].pc \in InFile, h.pc \in InFile, h.pc # "publish",
           h.key = rcv[k].key, h.owns = rcv[k].owns, h.have = rcv[k].have,
           h.manifest = rcv[k].manifest, h.link = rcv[k].link, h.reply = rcv[k].reply,
           h.wire = rcv[k].wire \/ h.wire = NoText,
           FileInv(k)'
    PROVE  TransferInv'
<1> TypeOK /\ LinkInv(k) /\ KeyInv(k) /\ WholeUnlessEarly /\ CopyInv /\ ManifestInv(k)
    /\ FileInv(k) /\ rcv[k].key \in Key
  BY HandlerIs DEF TransferInv
<1>1. rcv'[k] = h
  BY DEF TypeOK
<1>2. rcv[k].pc \in Active /\ h.pc \in Active /\ h.pc # "tell" /\ rcv[k].pc # "none"
      /\ h.pc \notin {"none", "asked"}
  BY DEF InFile, Active
<1>3. part[rcv[k].key] # None
  BY DEF FileInv
<1>4. Local(h.key)
  BY <1>3, LocalIs
<1>5. LinkInv(k)'
  BY <1>1, <1>2 DEF LinkInv, Has
<1>6. part'[h.key].text = part[rcv[k].key].text
  BY DEF TypeOK
<1>7. ManifestInv(k)'
  BY <1>1, <1>6 DEF ManifestInv, HashesOf
<1>8. h.owns <=> h.pc \in Active /\ h.key \in Second
  BY <1>2, Zenon DEF KeyInv
<1>9. \A j \in Attempt : j # k /\ rcv[j].pc \in Active => rcv[j].key # h.key
  BY <1>2, Alone
<1>10. LandedGrows /\ WholeUnlessEarly'
  BY DEF LandedGrows, TypeOK, WholeUnlessEarly
<1>11. SameKeys => \A i, j \in DOMAIN landed' : landed'[i] = landed'[j] => i = j
  BY DEF CopyInv
<1>12. \A b \in Block : h.wire[b] # None => h.wire[b] = rcv[k].wire[b]
  BY NoTextTyped
<1>13. \A b \in h.have : part'[h.key].text[b] = part[h.key].text[b]
  BY <1>6
<1>14. QED
  BY ZenonT(60), <1>2, <1>4, <1>5, <1>7, <1>8, <1>9, <1>10, <1>11, <1>12, <1>13, HandlerSteps

LEMMA PersistKeeps ==
    ASSUME TransferInv, NEW k \in Attempt, Persist(k)
    PROVE  TransferInv'
<1> TypeOK /\ FileInv(k) /\ KeyInv(k) /\ rcv[k].key \in Key
  BY HandlerIs DEF TransferInv
<1>1. PICK f : f = rcv[k].key
  OBVIOUS
<1>2. PICK p : p = Synced(part[f])
  OBVIOUS
<1>3. /\ rcv[k].pc = "recv" /\ rcv[k].pc \in InFile /\ rcv[k].pc \in Active
      /\ part' = [part EXCEPT ![f] = p] /\ side' = Claimed(k, rcv[k].cov)
      /\ UNCHANGED <<src, texts, snd, rcv, clearing, landed, upsets>>
  BY <1>1, <1>2 DEF Persist, InFile, Active
<1>4. part[f] # None /\ part[f] \in PartType
  BY <1>1, <1>3, PartIs DEF FileInv
<1>5. /\ p \in PartType /\ p.text = part[f].text /\ p.dur = {b \in Block : p.text[b] # Hole}
  BY <1>2, <1>4, SyncedIs
<1>6. PICK q \in {None} \cup SUBSET Block : q = rcv[k].cov
  BY HandlerIs
<1>7. /\ side' \in [Second -> {None} \cup SUBSET Block]
      /\ \A g \in Second : g # f => side'[g] = side[g]
      /\ f \in Second => side'[f] = q
  BY <1>1, <1>3, <1>6, ClaimedDoes
<1>8. \A b \in q : b \in Block /\ p.text[b] # Hole
  BY <1>1, <1>3, <1>5, <1>6, HandlerIs DEF FileInv
<1>9. PICK h : h = rcv[k]
  OBVIOUS
<1>10. h \in HandlerType /\ rcv' = [rcv EXCEPT ![k] = h] /\ rcv'[k] = h
  BY <1>3, <1>9 DEF TypeOK
<1>11. part'[f] = p /\ p # None
  BY <1>1, <1>3, <1>5, NoneIs DEF TypeOK
<1>12. FileInv(k)'
  <2>1. rcv[k].owns => f \in Second
    BY <1>1, Zenon DEF KeyInv
  <2>2. rcv'[k].owns /\ side'[f] # None => side'[f] \subseteq rcv'[k].cov
    BY <1>3, <1>6, <1>7, <2>1
  <2>3. rcv'[k] = rcv[k]
    BY <1>9, <1>10
  <2>4. QED
    BY <1>1, <1>3, <1>5, <1>11, <2>2, <2>3 DEF FileInv
<1>13. f \in Second /\ side'[f] # None => \A b \in side'[f] : p.text[b] # Hole /\ b \in p.dur
  BY <1>5, <1>7, <1>8
<1>14. upsets' \in 0 .. MaxUpsets
  BY <1>3 DEF TypeOK
<1>15. QED
  BY <1>1, <1>3, <1>5, <1>7, <1>9, <1>10, <1>12, <1>13, <1>14, TextSteps

LEMMA CompleteKeeps ==
    ASSUME TransferInv, NEW k \in Attempt, Complete(k)
    PROVE  TransferInv'
<1> TypeOK /\ FileInv(k) /\ KeyInv(k) /\ rcv[k].key \in Key
  BY HandlerIs DEF TransferInv
<1>1. PICK f : f = rcv[k].key
  OBVIOUS
<1>2. PICK p : p = IF rcv[k].owns THEN Synced(part[f]) ELSE part[f]
  OBVIOUS
<1>3. PICK h : h = [rcv[k] EXCEPT !.pc = "verify", !.wire = NoText]
  OBVIOUS
<1>4. /\ rcv[k].pc = "recv" /\ rcv[k].pc \in InFile /\ rcv[k].pc \in Active
      /\ rcv[k].cov = Block /\ Known(rcv[k].leaves) = Block
      /\ side' = Claimed(k, None) /\ rcv' = [rcv EXCEPT ![k] = h]
      /\ UNCHANGED <<src, texts, snd, clearing, landed, upsets>>
  BY <1>3 DEF Complete, InFile, Active
<1>5. part' = [part EXCEPT ![f] = p]
  BY <1>1, <1>2 DEF Complete, TypeOK
<1>6. part[f] # None /\ part[f] \in PartType
  BY <1>1, <1>4, PartIs DEF FileInv
<1>7. p \in PartType /\ p.text = part[f].text
      /\ (rcv[k].owns => p.dur = {b \in Block : p.text[b] # Hole})
  BY <1>2, <1>6, SyncedIs
<1>8. \A b \in Block : p.text[b] # Hole
  BY <1>1, <1>4, <1>7 DEF FileInv
<1>9. PICK q \in {None} \cup SUBSET Block : q = None
  OBVIOUS
<1>10. /\ side' \in [Second -> {None} \cup SUBSET Block]
       /\ \A g \in Second : g # f => side'[g] = side[g]
       /\ f \in Second => side'[f] = q
  BY <1>1, <1>4, <1>9, ClaimedDoes
<1>11. /\ h \in HandlerType /\ h.pc = "verify" /\ h.key = f /\ h.owns = rcv[k].owns
       /\ h.have = rcv[k].have /\ h.cov = rcv[k].cov /\ h.leaves = rcv[k].leaves
       /\ h.wire = NoText /\ h.manifest = rcv[k].manifest /\ h.link = rcv[k].link
       /\ h.reply = rcv[k].reply
  BY <1>1, <1>3, HandlerIs, NoTextTyped DEF HandlerType
<1>12. rcv'[k] = h
  BY <1>4, <1>11 DEF TypeOK
<1>13. part'[f] = p /\ p # None
  BY <1>1, <1>5, <1>7, NoneIs DEF TypeOK
<1>14. FileInv(k)'
  <2>1. h.owns => p.dur = Block
    <3>1. h.owns => rcv[k].owns
      BY <1>11, Zenon
    <3>2. QED
      BY <1>7, <1>8, <3>1
  <2>2. \A b \in Block : h.leaves[b] # None => h.leaves[b] = p.text[b]
    BY <1>1, <1>4, <1>7, <1>11 DEF FileInv
  <2>3. QED
    BY <1>4, <1>8, <1>11, <1>12, <1>13, <2>1, <2>2, HandlerIs DEF FileInv
<1>15. upsets' \in 0 .. MaxUpsets
  BY <1>4 DEF TypeOK
<1>16. h.pc \in InFile /\ h.pc # "publish"
  BY <1>11 DEF InFile, Active
<1>17. f \in Second /\ side'[f] # None => \A b \in side'[f] : p.text[b] # Hole /\ b \in p.dur
  BY <1>9, <1>10
<1>18. QED
  BY <1>1, <1>4, <1>5, <1>7, <1>10, <1>11, <1>14, <1>15, <1>16, <1>17, TextSteps

\* Only the stage of a handler changes.
LEMMA StageIs ==
    ASSUME TypeOK, NEW k \in Attempt, NEW pc \in {"compare", "publish", "tell"},
           NEW h, h = [rcv[k] EXCEPT !.pc = pc]
    PROVE  /\ h \in HandlerType /\ h.pc = pc /\ h.key = rcv[k].key /\ h.owns = rcv[k].owns
           /\ h.have = rcv[k].have /\ h.cov = rcv[k].cov /\ h.leaves = rcv[k].leaves
           /\ h.wire = rcv[k].wire /\ h.manifest = rcv[k].manifest /\ h.link = rcv[k].link
           /\ h.reply = rcv[k].reply
BY HandlerIs DEF HandlerType

LEMMA VerifyKeeps ==
    ASSUME TransferInv, NEW k \in Attempt, Verify(k)
    PROVE  TransferInv'
<1> TypeOK /\ FileInv(k) /\ KeyInv(k) /\ rcv[k].key \in Key
  BY HandlerIs DEF TransferInv
<1>1. /\ rcv[k].pc = "verify" /\ rcv[k].pc \in InFile /\ rcv[k].pc \in Active
      /\ rcv[k].manifest # None
      /\ UNCHANGED <<src, texts, snd, clearing, landed, upsets>>
  BY DEF Verify, InFile, Active
<1>2. upsets' \in 0 .. MaxUpsets
  BY <1>1 DEF TypeOK
<1>3. CASE rcv[k].manifest = rcv[k].leaves
  <2>1. PICK h : h = [rcv[k] EXCEPT !.pc = "compare"]
    OBVIOUS
  <2>2. /\ h \in HandlerType /\ h.pc = "compare" /\ h.key = rcv[k].key /\ h.owns = rcv[k].owns
        /\ h.have = rcv[k].have /\ h.cov = rcv[k].cov /\ h.leaves = rcv[k].leaves
        /\ h.wire = rcv[k].wire /\ h.manifest = rcv[k].manifest /\ h.link = rcv[k].link
        /\ h.reply = rcv[k].reply
    BY <2>1, StageIs
  <2>3. rcv' = [rcv EXCEPT ![k] = h] /\ UNCHANGED <<part, side>>
    BY <1>3, <2>1 DEF Verify, TypeOK
  <2>4. rcv'[k] = h
    BY <2>2, <2>3 DEF TypeOK
  <2>5. FileInv(k)'
    BY <1>1, <1>3, <2>2, <2>3, <2>4 DEF FileInv, InFile, Active
  <2>6. h.pc \in InFile /\ h.pc # "publish"
    BY <2>2 DEF InFile, Active
  <2>7. QED
    BY <1>1, <1>2, <2>2, <2>3, <2>5, <2>6, QuietSteps
<1>4. CASE rcv[k].manifest # rcv[k].leaves
  <2>1. PICK q : q = {b \in Block : rcv[k].manifest[b] = rcv[k].leaves[b]}
    OBVIOUS
  <2>2. q \in {None} \cup SUBSET Block /\ q \subseteq Block
    BY <2>1
  <2>3. side' = Claimed(k, q) /\ part' = Let(k, part[rcv[k].key]) /\ Over(k, "differs")
    BY <1>4, <2>1 DEF Verify
  <2>4. /\ side' \in [Second -> {None} \cup SUBSET Block]
        /\ \A g \in Second : g # rcv[k].key => side'[g] = side[g]
        /\ rcv[k].key \in Second => side'[rcv[k].key] = q
    BY <1>1, <2>2, <2>3, ClaimedDoes
  <2>5. PICK p \in {None} \cup PartType : p = part[rcv[k].key]
    BY DEF TypeOK
  <2>6. rcv[k].key \in Second => p.dur = Block /\ \A b \in Block : p.text[b] # Hole
    <3>1. rcv[k].key \in Second => rcv[k].owns
      BY <1>1, Zenon DEF KeyInv
    <3>2. QED
      BY <1>1, <2>5, <3>1 DEF FileInv
  <2>7. rcv[k].key \in Second /\ p # None /\ side'[rcv[k].key] # None =>
              \A b \in side'[rcv[k].key] : p.text[b] # Hole /\ b \in p.dur
    BY <2>2, <2>4, <2>6
  <2>8. QED
    BY <1>1, <1>2, <2>3, <2>4, <2>5, <2>7, LetKeeps
<1>5. QED
  BY <1>3, <1>4

\* The partial of a handler that compares and publishes is what the sender hashed.
LEMMA Whole ==
    ASSUME TransferInv, NEW k \in Attempt, rcv[k].pc \in {"compare", "publish"}
    PROVE  /\ part[rcv[k].key] \in PartType /\ part[rcv[k].key].text \in Text
           /\ rcv[k].manifest = part[rcv[k].key].text
           /\ src.early \/ part[rcv[k].key].text \in texts
<1> TypeOK /\ FileInv(k) /\ ManifestInv(k) /\ rcv[k].key \in Key /\ rcv[k].pc \in InFile
  BY HandlerIs DEF TransferInv, InFile, Active
<1>1. PICK t : t = part[rcv[k].key].text
  OBVIOUS
<1>2. part[rcv[k].key] \in PartType /\ t \in [Block -> Nat \cup {Hole}]
  BY <1>1, PartIs DEF FileInv
<1>3. /\ \A b \in Block : t[b] # Hole /\ rcv[k].leaves[b] = t[b]
      /\ rcv[k].manifest # None /\ rcv[k].manifest = rcv[k].leaves
  BY <1>1, <1>2 DEF FileInv, Known
<1>4. t \in Text
  BY <1>2, <1>3 DEF Text
<1>5. rcv[k].manifest = t
  BY <1>3, <1>4, HandlerIs DEF Text
<1>6. ASSUME NEW u \in texts, HashesOf(k, u) PROVE u = t
  <2>1. u \in Text
    BY DEF TypeOK
  <2>2. \A b \in Block : u[b] \in Nat /\ t[b] \in Nat
    BY <1>4, <2>1 DEF Text
  <2>3. \A b \in Block : u[b] = t[b]
    BY <1>1, <1>5, <1>6, <2>2 DEF HashesOf
  <2>4. QED
    BY <1>4, <2>1, <2>3 DEF Text
<1>7. src.early \/ t \in texts
  BY <1>3, <1>6 DEF ManifestInv
<1>8. QED
  BY <1>1, <1>2, <1>4, <1>5, <1>7

\* The file is there, under its name: the handler reports it.
LEMMA LandedSteps ==
    ASSUME TransferInv, NEW k \in Attempt, rcv[k].pc \in {"compare", "publish"},
           rcv' = [rcv EXCEPT ![k].pc = "tell"],
           part' = [part EXCEPT ![rcv[k].key] = None], side' = Claimed(k, None),
           LandedGrows, \E i \in DOMAIN landed' : landed'[i] = rcv[k].manifest,
           UNCHANGED <<src, texts, snd, clearing, upsets>>, WholeUnlessEarly',
           SameKeys => \A i, j \in DOMAIN landed' : landed'[i] = landed'[j] => i = j
    PROVE  TransferInv'
<1> TypeOK /\ LinkInv(k) /\ KeyInv(k) /\ rcv[k].key \in Key /\ rcv[k].pc \in Active
  BY HandlerIs DEF TransferInv, Active
<1>1. PICK h : h = [rcv[k] EXCEPT !.pc = "tell"]
  OBVIOUS
<1>2. /\ h \in HandlerType /\ h.pc = "tell" /\ h.key = rcv[k].key /\ h.owns = rcv[k].owns
      /\ h.have = rcv[k].have /\ h.cov = rcv[k].cov /\ h.leaves = rcv[k].leaves
      /\ h.wire = rcv[k].wire /\ h.manifest = rcv[k].manifest /\ h.link = rcv[k].link
      /\ h.reply = rcv[k].reply
  BY <1>1, StageIs
<1>3. rcv' = [rcv EXCEPT ![k] = h] /\ rcv'[k] = h
  BY <1>1 DEF TypeOK
<1>4. PICK q \in {None} \cup SUBSET Block : q = None
  OBVIOUS
<1>5. /\ side' \in [Second -> {None} \cup SUBSET Block]
      /\ \A g \in Second : g # rcv[k].key => side'[g] = side[g]
      /\ rcv[k].key \in Second => side'[rcv[k].key] = q
  BY <1>4, ClaimedDoes
<1>6. PICK p \in {None} \cup PartType : p = None
  OBVIOUS
<1>7. Local(h.key)
  BY <1>2, <1>5, <1>6, LocalIs
<1>8. \A t : Has(t) => Has(t)'
  BY DEF Has, LandedGrows
<1>9. LinkInv(k)'
  BY <1>2, <1>3, <1>8 DEF LinkInv, Has, Active
<1>10. FileInv(k)' /\ ManifestInv(k)'
  BY <1>2, <1>3 DEF FileInv, ManifestInv, InFile
<1>11. h.owns <=> h.pc \in Active /\ h.key \in Second
  BY <1>2, Zenon DEF KeyInv, Active
<1>12. \A j \in Attempt : j # k /\ rcv[j].pc \in Active => rcv[j].key # h.key
  BY <1>2, Alone
<1>13. rcv[k].pc # "none" /\ h.pc \notin {"none", "asked", "publish"} \cup InFile
       /\ upsets' \in 0 .. MaxUpsets
  BY <1>2 DEF InFile, Active, TypeOK
<1>14. \A b \in Block : h.wire[b] # None => h.wire[b] = rcv[k].wire[b]
  BY <1>2
<1>15. QED
  BY <1>2, <1>3, <1>7, <1>9, <1>10, <1>11, <1>12, <1>13, <1>14, HandlerSteps

LEMMA CompareKeeps ==
    ASSUME TransferInv, NEW k \in Attempt, Compare(k)
    PROVE  TransferInv'
<1> TypeOK /\ FileInv(k) /\ rcv[k].key \in Key /\ CopyInv /\ WholeUnlessEarly
  BY HandlerIs DEF TransferInv
<1>1. PICK p : p = part[rcv[k].key]
  OBVIOUS
<1>2. rcv[k].pc = "compare" /\ UNCHANGED <<src, texts, snd, clearing, landed, upsets>>
  BY DEF Compare
<1>3. p \in PartType /\ rcv[k].manifest = p.text
  BY <1>1, <1>2, Whole
<1>4. CASE p.named /\ Has(p.text)
  <2>1. /\ part' = [part EXCEPT ![rcv[k].key] = None] /\ side' = Claimed(k, None)
        /\ rcv' = [rcv EXCEPT ![k].pc = "tell"]
    BY <1>1, <1>4 DEF Compare, Has
  <2>2. /\ LandedGrows /\ WholeUnlessEarly'
        /\ \E i \in DOMAIN landed' : landed'[i] = rcv[k].manifest
    BY <1>2, <1>3, <1>4 DEF LandedGrows, TypeOK, WholeUnlessEarly, Has
  <2>3. QED
    BY <1>2, <2>1, <2>2, LandedSteps DEF CopyInv
<1>5. CASE ~ (p.named /\ Has(p.text))
  <2>1. PICK h : h = [rcv[k] EXCEPT !.pc = "publish"]
    OBVIOUS
  <2>2. /\ h \in HandlerType /\ h.pc = "publish" /\ h.key = rcv[k].key /\ h.owns = rcv[k].owns
        /\ h.have = rcv[k].have /\ h.cov = rcv[k].cov /\ h.leaves = rcv[k].leaves
        /\ h.wire = rcv[k].wire /\ h.manifest = rcv[k].manifest /\ h.link = rcv[k].link
        /\ h.reply = rcv[k].reply
    BY <2>1, StageIs
  <2>3. rcv' = [rcv EXCEPT ![k] = h] /\ UNCHANGED <<part, side>>
    BY <1>1, <1>5, <2>1 DEF Compare, Has, TypeOK
  <2>4. rcv'[k] = h
    BY <2>2, <2>3 DEF TypeOK
  <2>5. FileInv(k)'
    BY <1>2, <2>2, <2>3, <2>4 DEF FileInv, InFile, Active
  <2>6. h.pc \in InFile /\ rcv[k].pc \in InFile /\ upsets' \in 0 .. MaxUpsets
    BY <1>2, <2>2 DEF InFile, Active, TypeOK
  <2>7. part[h.key].named => ~ Has(part[h.key].text)
    BY <1>1, <1>5, <2>2
  <2>8. QED
    BY <1>2, <2>2, <2>3, <2>5, <2>6, <2>7, QuietSteps
<1>6. QED
  BY <1>4, <1>5

LEMMA AppendDoes ==
    ASSUME landed \in Seq(Text), NEW t \in Text, landed' = Append(landed, t)
    PROVE  /\ LandedGrows /\ \E i \in DOMAIN landed' : landed'[i] = t
           /\ \A i \in DOMAIN landed' : i \in DOMAIN landed \/ landed'[i] = t
           /\ \A i, j \in DOMAIN landed' : i \notin DOMAIN landed /\ j \notin DOMAIN landed => i = j
<1>1. /\ landed' \in Seq(Text) /\ Len(landed') = Len(landed) + 1
      /\ \A i \in 1 .. Len(landed) : landed'[i] = landed[i]
      /\ landed'[Len(landed) + 1] = t
  OBVIOUS
<1>2. /\ DOMAIN landed = 1 .. Len(landed) /\ DOMAIN landed' = 1 .. Len(landed')
      /\ Len(landed) \in Nat
  BY <1>1
<1>3. QED
  BY <1>1, <1>2 DEF LandedGrows, Has

LEMMA PublishKeeps ==
    ASSUME TransferInv, NEW k \in Attempt, Publish(k)
    PROVE  TransferInv'
<1> TypeOK /\ KeyInv(k) /\ rcv[k].key \in Key /\ CopyInv /\ WholeUnlessEarly
  BY HandlerIs DEF TransferInv
<1>1. PICK p : p = part[rcv[k].key]
  OBVIOUS
<1>2. /\ rcv[k].pc = "publish" /\ rcv[k].pc \in Active
      /\ UNCHANGED <<src, texts, snd, clearing, upsets>>
  BY DEF Publish, Active
<1>3. /\ p \in PartType /\ p.text \in Text /\ rcv[k].manifest = p.text
      /\ src.early \/ p.text \in texts
  BY <1>1, <1>2, Whole
<1>4. CASE p.named
  <2>1. /\ landed' = Append(landed, p.text)
        /\ part' = [part EXCEPT ![rcv[k].key] = None] /\ side' = Claimed(k, None)
        /\ rcv' = [rcv EXCEPT ![k].pc = "tell"]
    BY <1>1, <1>4 DEF Publish
  <2>2. /\ LandedGrows /\ \E i \in DOMAIN landed' : landed'[i] = p.text
        /\ \A i \in DOMAIN landed' : i \in DOMAIN landed \/ landed'[i] = p.text
        /\ \A i, j \in DOMAIN landed' : i \notin DOMAIN landed /\ j \notin DOMAIN landed => i = j
    BY <1>3, <2>1, AppendDoes DEF TypeOK
  <2>3. WholeUnlessEarly'
    BY <1>2, <1>3, <2>2 DEF WholeUnlessEarly, LandedGrows
  <2>4. SameKeys => \A i, j \in DOMAIN landed' : landed'[i] = landed'[j] => i = j
    <3>1. ~ (k > snd.att)
      BY <1>2 DEF KeyInv
    <3>2. k \in 1 .. snd.att
      BY <3>1, SenderIs DEF Attempt
    <3>3. SameKeys => ~ Has(p.text)
      BY <1>1, <1>2, <1>4, <3>2 DEF CopyInv
    <3>4. QED
      BY <2>2, <3>3 DEF CopyInv, LandedGrows, Has
  <2>5. \E i \in DOMAIN landed' : landed'[i] = rcv[k].manifest
    BY <1>3, <2>2 DEF Has
  <2>6. QED
    BY <1>2, <2>1, <2>2, <2>3, <2>4, <2>5, LandedSteps
<1>5. CASE ~ p.named
  <2>1. /\ part' = Let(k, p) /\ Over(k, "error") /\ UNCHANGED <<side, landed>>
    BY <1>1, <1>5 DEF Publish
  <2>2. side' \in [Second -> {None} \cup SUBSET Block] /\ upsets' \in 0 .. MaxUpsets
        /\ \A g \in Second : g # rcv[k].key => side'[g] = side[g]
    BY <1>2, <2>1 DEF TypeOK
  <2>3. rcv[k].key \in Second /\ p # None /\ side'[rcv[k].key] # None =>
              \A b \in side'[rcv[k].key] : p.text[b] # Hole /\ b \in p.dur
    BY <1>1, <2>1 DEF TransferInv, DiskInv
  <2>4. p # None
    BY <1>3, NoneIs
  <2>5. QED
    BY <1>1, <1>2, <1>3, <2>1, <2>2, <2>3, <2>4, LetKeeps
<1>6. QED
  BY <1>4, <1>5

(***************************************************************************)
(* The world.                                                              *)
(***************************************************************************)
LEMMA EditKeeps == ASSUME TransferInv, Edit PROVE TransferInv'
<1> TypeOK
  BY DEF TransferInv
<1>1. PICK S \in SUBSET Block \ {{}}, same \in BOOLEAN :
          src' = [text |-> [b \in Block |-> IF b \in S THEN src.stamp + 1 ELSE src.text[b]],
                  stamp |-> src.stamp + 1,
                  secs |-> IF same THEN src.secs ELSE src.stamp + 1,
                  early |-> src.early \/ (snd.pc = "send" /\ ~ snd.opened /\ Known(snd.leaves) # {})]
  BY DEF Edit
<1>2. PICK t : t = [b \in Block |-> IF b \in S THEN src.stamp + 1 ELSE src.text[b]]
  OBVIOUS
<1>3. PICK secs : secs = IF same THEN src.secs ELSE src.stamp + 1
  OBVIOUS
<1>4. PICK early : early = (src.early \/ (snd.pc = "send" /\ ~ snd.opened /\ Known(snd.leaves) # {}))
  OBVIOUS
<1>5. src' = [text |-> t, stamp |-> src.stamp + 1, secs |-> secs, early |-> early]
  BY <1>1, <1>2, <1>3, <1>4
<1>6. /\ src'.text = t /\ src'.stamp = src.stamp + 1 /\ src'.secs = secs /\ src'.early = early
  BY <1>5
<1>7. /\ texts' = texts \cup {t} /\ src.stamp < MaxEdits
      /\ UNCHANGED <<snd, rcv, part, side, clearing, landed>>
  BY <1>6 DEF Edit
<1>8. upsets' \in 0 .. MaxUpsets
  BY DirectAssumption DEF Edit, Upset, TypeOK
<1>9. src.stamp \in Nat /\ src.secs \in Second /\ \A b \in Block : src.text[b] \in Nat
  BY SourceIs
<1>10. \A b \in Block : src.text[b] =< src.stamp
  BY DEF TransferInv, BoundInv
<1>11. /\ t \in Text /\ \A b \in Block : t[b] \in Nat /\ src.text[b] =< t[b] /\ t[b] =< src.stamp + 1
  <2>1. \A b \in Block : t[b] = IF b \in S THEN src.stamp + 1 ELSE src.text[b]
    BY <1>2
  <2>2. \A b \in Block : t[b] \in Nat
    BY <1>9, <2>1
  <2>3. t \in Text
    BY <1>2, <1>9 DEF Text
  <2>4. QED
    BY <1>9, <1>10, <2>1, <2>2, <2>3
<1>12. secs \in Second
  BY <1>3, <1>7, <1>9, DirectAssumption DEF Second
<1>13. early \in BOOLEAN /\ (src.early => early)
  BY <1>4
<1>14. TypeOK'
  <2>1. src' \in SrcType
    <3>1. src.stamp + 1 \in Nat
      BY <1>9
    <3>2. QED
      BY <1>5, <1>11, <1>12, <1>13, <3>1 DEF SrcType
  <2>2. QED
    BY <1>7, <1>8, <1>11, <2>1 DEF TypeOK
<1>15. SenderInv' /\ OwnersInv' /\ CopyInv' /\ DoneIsLanded'
  BY <1>7 DEF TransferInv, SenderInv, OwnersInv, CopyInv, SameKeys, DoneIsLanded, Has
<1>16. ASSUME NEW k \in Attempt
       PROVE  KeyInv(k)' /\ LinkInv(k)' /\ FileInv(k)' /\ ManifestInv(k)'
  <2>1. KeyInv(k)'
    BY <1>7 DEF TransferInv, KeyInv
  <2>2. LinkInv(k)' /\ FileInv(k)'
    BY <1>7 DEF TransferInv, LinkInv, FileInv, Has
  <2>3. \A u : HashesOf(k, u) => HashesOf(k, u)'
    BY <1>7 DEF HashesOf
  <2>4. ManifestInv(k)'
    BY <1>6, <1>7, <1>13, <2>3 DEF TransferInv, ManifestInv
  <2>5. QED
    BY <2>1, <2>2, <2>4
<1>17. \A f \in Second : DiskInv(f)'
  BY <1>7 DEF TransferInv, DiskInv
<1>18. BoundInv'
  <2>1. src'.text \in texts' /\ \A b \in Block : src'.text[b] =< src'.stamp
    BY <1>6, <1>7, <1>11
  <2>2. snd'.stamp # None => snd'.stamp =< src'.stamp
    BY <1>6, <1>7, <1>9, SenderIs DEF TransferInv, BoundInv
  <2>3. \A f \in Key : part'[f] # None => \A b \in Block : part'[f].text[b] =< src'.text[b]
    <3> SUFFICES ASSUME NEW f \in Key, part[f] # None, NEW b \in Block
                 PROVE  part[f].text[b] =< t[b]
      BY <1>6, <1>7
    <3>1. part[f].text[b] \in Int /\ part[f].text[b] =< src.text[b]
      BY PartIs DEF TransferInv, BoundInv
    <3>2. QED
      BY <1>9, <1>11, <3>1
  <2>4. \A k \in Attempt, b \in Block : rcv'[k].wire[b] # None => rcv'[k].wire[b] =< src'.text[b]
    <3> SUFFICES ASSUME NEW k \in Attempt, NEW b \in Block, rcv[k].wire[b] # None
                 PROVE  rcv[k].wire[b] =< t[b]
      BY <1>6, <1>7
    <3>1. rcv[k].wire[b] \in Nat /\ rcv[k].wire[b] =< src.text[b]
      BY HandlerIs DEF TransferInv, BoundInv, TextOrNone
    <3>2. QED
      BY <1>9, <1>11, <3>1
  <2>5. \A b \in Block : snd'.held[b] # None => snd'.held[b] =< src'.text[b]
    <3> SUFFICES ASSUME NEW b \in Block, snd.held[b] # None
                 PROVE  snd.held[b] =< t[b]
      BY <1>6, <1>7
    <3>1. snd.held[b] \in Nat /\ snd.held[b] =< src.text[b]
      BY SenderIs DEF TransferInv, BoundInv, TextOrNone
    <3>2. QED
      BY <1>9, <1>11, <3>1
  <2>6. QED
    BY <2>1, <2>2, <2>3, <2>4, <2>5 DEF BoundInv
<1>19. SendInv'
  <2> SUFFICES ASSUME snd.pc = "send" PROVE SendInv'
    BY <1>7 DEF SendInv
  <2>1. src'.stamp # snd.stamp
    <3>1. snd.stamp \in Nat => snd.stamp =< src.stamp
      BY NoneIs DEF TransferInv, BoundInv
    <3>2. src'.stamp \in Nat /\ src'.stamp > src.stamp
      BY <1>6, <1>9
    <3>3. QED
      BY <1>9, <3>1, <3>2
  <2>2. ASSUME NEW u \in texts, StampedAs(u) PROVE StampedAs(u)'
    <3>1. u \in Text
      BY DEF TypeOK
    <3>2. \A b \in Block : u[b] =< src'.text[b]
      <4> SUFFICES ASSUME NEW b \in Block PROVE u[b] =< t[b]
        BY <1>6
      <4>1. u[b] \in Nat /\ u[b] =< src.text[b]
        BY <2>2, <3>1 DEF StampedAs, Text
      <4>2. QED
        BY <1>9, <1>11, <4>1
    <3>3. QED
      BY <1>7, <2>1, <2>2, <3>2 DEF StampedAs
  <2>3. ASSUME ~ snd.opened, NEW b \in Block, snd.leaves[b] # None PROVE early
    BY <1>4, <2>3 DEF Known
  <2>4. QED
    BY <1>6, <1>7, <1>13, <2>2, <2>3 DEF TransferInv, SendInv
<1>20. WholeUnlessEarly'
  BY <1>6, <1>7, <1>13 DEF TransferInv, WholeUnlessEarly
<1>21. QED
  BY <1>14, <1>15, <1>16, <1>17, <1>18, <1>19, <1>20 DEF TransferInv

LEMMA CrashKeeps == ASSUME TransferInv, Crash PROVE TransferInv'
<1> TypeOK
  BY DEF TransferInv
<1>1. PICK S \in SUBSET Block :
          part' = [f \in Key |->
              IF part[f] = None \/ ~ part[f].named THEN None
              ELSE [part[f] EXCEPT !.text = [b \in Block |->
                       IF b \in S \ part[f].dur THEN Hole ELSE part[f].text[b]]]]
  BY DEF Crash
<1>2. /\ rcv' = [k \in Attempt |-> IF rcv[k].pc = "none" THEN rcv[k]
                    ELSE [NoHandler EXCEPT !.pc = "over", !.key = rcv[k].key, !.cov = rcv[k].cov]]
      /\ clearing' = {} /\ UNCHANGED <<src, texts, snd, side, landed>>
  BY DEF Crash
<1>3. upsets' \in 0 .. MaxUpsets
  <2>1. Upset("crash")
    BY DEF Crash
  <2>2. QED
    BY <2>1, DirectAssumption DEF Upset, TypeOK
<1>4. ASSUME NEW f \in Key, part'[f] # None
      PROVE  /\ part[f] # None /\ part'[f] \in PartType /\ part'[f].dur = part[f].dur
             /\ \A b \in Block : part'[f].text[b] = part[f].text[b]
                                 \/ (part'[f].text[b] = Hole /\ b \notin part[f].dur)
  <2>1. part[f] # None
    BY <1>1, <1>4
  <2>2. PICK u : u = [b \in Block |-> IF b \in S \ part[f].dur THEN Hole ELSE part[f].text[b]]
    OBVIOUS
  <2>3. part'[f] = [part[f] EXCEPT !.text = u]
    BY <1>1, <1>4, <2>2
  <2>4. part[f] \in PartType /\ part[f].text \in [Block -> Nat \cup {Hole}]
    BY <2>1, PartIs
  <2>5. u \in [Block -> Nat \cup {Hole}]
    BY <2>2, <2>4
  <2>6. part'[f] \in PartType /\ part'[f].text = u /\ part'[f].dur = part[f].dur
    BY <2>3, <2>4, <2>5 DEF PartType
  <2>7. QED
    BY <2>1, <2>2, <2>6
<1>5. part' \in [Key -> {None} \cup PartType]
  <2>1. part' = [f \in Key |-> part'[f]]
    BY <1>1
  <2>2. \A f \in Key : part'[f] \in {None} \cup PartType
    BY <1>4
  <2>3. QED
    BY <2>1, <2>2
<1>6. ASSUME NEW k \in Attempt
      PROVE  /\ rcv'[k] \in HandlerType /\ rcv'[k].key = rcv[k].key
             /\ rcv[k].pc = "none" => rcv'[k] = rcv[k]
             /\ rcv[k].pc # "none" => /\ rcv'[k].pc = "over" /\ rcv'[k].owns = FALSE
                                      /\ rcv'[k].link = FALSE /\ rcv'[k].wire = NoText
  <2>1. CASE rcv[k].pc = "none"
    BY <1>2, <2>1, HandlerIs
  <2>2. CASE rcv[k].pc # "none"
    <3>1. PICK h : h = [NoHandler EXCEPT !.pc = "over", !.key = rcv[k].key, !.cov = rcv[k].cov]
      OBVIOUS
    <3>2. rcv'[k] = h
      BY <1>2, <2>2, <3>1
    <3>3. h \in HandlerType
      BY <3>1, NoHandlerTyped, HandlerIs DEF HandlerType
    <3>4. h.pc = "over" /\ h.owns = FALSE /\ h.link = FALSE /\ h.wire = NoText /\ h.key = rcv[k].key
      BY <3>1, NoHandlerTyped DEF HandlerType
    <3>5. QED
      BY <2>2, <3>2, <3>3, <3>4
  <2>3. QED
    BY <2>1, <2>2
<1>7. rcv' \in [Attempt -> HandlerType]
  <2>1. rcv' = [k \in Attempt |-> rcv'[k]]
    BY <1>2
  <2>2. QED
    BY <1>6, <2>1
<1>8. TypeOK'
  BY <1>2, <1>3, <1>5, <1>7 DEF TypeOK
<1>9. ASSUME NEW k \in Attempt PROVE rcv'[k].pc \in {"none", "over"} /\ ~ rcv'[k].owns /\ ~ rcv'[k].link
  <2>1. CASE rcv[k].pc = "none"
    <3>1. ~ rcv[k].owns
      BY <2>1, Zenon DEF TransferInv, KeyInv, Active
    <3>2. ~ rcv[k].link
      BY <2>1 DEF TransferInv, LinkInv, SenderInv
    <3>3. QED
      BY <1>6, <2>1, <3>1, <3>2
  <2>2. CASE rcv[k].pc # "none"
    BY <1>6, <2>2
  <2>3. QED
    BY <2>1, <2>2
<1>10. SenderInv'
  BY <1>2, <1>6 DEF TransferInv, SenderInv
<1>11. ASSUME NEW k \in Attempt
       PROVE  KeyInv(k)' /\ LinkInv(k)' /\ FileInv(k)' /\ ManifestInv(k)'
  <2>1. KeyInv(k)'
    <3>1. KeyInv(k)
      BY DEF TransferInv
    <3>2. CASE rcv[k].pc = "none"
      BY <1>2, <1>6, <1>9, <3>1, <3>2, Zenon DEF KeyInv, Active
    <3>3. CASE rcv[k].pc # "none"
      <4>1. rcv'[k].pc = "over" /\ rcv'[k].key = rcv[k].key /\ snd' = snd /\ ~ rcv'[k].owns
        BY <1>2, <1>6, <1>9, <3>3
      <4>2. rcv'[k].owns <=> rcv'[k].pc \in Active /\ rcv'[k].key \in Second
        BY <4>1 DEF Active
      <4>3. QED
        BY <3>1, <3>3, <4>1, <4>2 DEF KeyInv
    <3>4. QED
      BY <3>2, <3>3
  <2>2. LinkInv(k)' /\ FileInv(k)' /\ ManifestInv(k)'
    BY <1>9 DEF LinkInv, FileInv, ManifestInv, InFile, Active
  <2>3. QED
    BY <2>1, <2>2
<1>12. OwnersInv'
  BY <1>9 DEF OwnersInv
<1>13. \A f \in Second : DiskInv(f)'
  <2> SUFFICES ASSUME NEW f \in Second, part'[f] # None, side[f] # None, NEW b \in side[f]
               PROVE  part'[f].text[b] # Hole /\ b \in part'[f].dur
    BY <1>2 DEF DiskInv
  <2>1. f \in Key /\ b \in Block
    BY KeysAre DEF TypeOK
  <2>2. part[f] # None /\ part[f].text[b] # Hole /\ b \in part[f].dur
    BY <1>4, <2>1 DEF TransferInv, DiskInv
  <2>3. QED
    BY <1>4, <2>1, <2>2
<1>14. BoundInv'
  <2>1. ASSUME NEW f \in Key, part'[f] # None, NEW b \in Block
        PROVE  part'[f].text[b] =< src.text[b]
    BY <1>4, <2>1, SourceIs DEF TransferInv, BoundInv, Hole
  <2>2. ASSUME NEW k \in Attempt, NEW b \in Block, rcv'[k].wire[b] # None
        PROVE  rcv'[k].wire[b] =< src.text[b]
    BY <1>6, <2>2, NoTextTyped DEF TransferInv, BoundInv
  <2>3. QED
    BY <1>2, <2>1, <2>2 DEF TransferInv, BoundInv
<1>15. SendInv'
  <2> SUFFICES ASSUME snd.pc = "send" PROVE SendInv'
    BY <1>2 DEF SendInv
  <2>1. rcv'[snd.att].pc \notin InFile
    BY <1>9 DEF TransferInv, SenderInv, InFile, Active
  <2>2. \A u : StampedAs(u) => StampedAs(u)'
    BY <1>2, <2>1 DEF StampedAs
  <2>3. QED
    BY <1>2, <2>1, <2>2 DEF TransferInv, SendInv
<1>16. CopyInv'
  <2>1. \A j \in 1 .. snd.att : j \in Attempt
    BY SenderIs, DirectAssumption DEF Attempt
  <2>2. SameKeys' => SameKeys
    <3>1. \A j \in 1 .. snd.att : rcv'[j].key = rcv[j].key
      BY <1>6, <2>1
    <3>2. snd'.att = snd.att
      BY <1>2
    <3>3. ASSUME SameKeys', NEW i \in 1 .. snd.att, NEW j \in 1 .. snd.att
          PROVE  rcv[i].key = rcv[j].key
      <4>1. rcv'[i].key = rcv'[j].key
        BY ONLY <3>2, <3>3 DEF SameKeys
      <4>2. QED
        BY ONLY <3>1, <3>3, <4>1
    <3>4. QED
      BY <3>3 DEF SameKeys
  <2>3. QED
    BY <1>2, <1>9, <2>1, <2>2 DEF TransferInv, CopyInv
<1>17. WholeUnlessEarly' /\ DoneIsLanded'
  BY <1>2 DEF TransferInv, WholeUnlessEarly, DoneIsLanded
<1>18. QED
  BY <1>8, <1>10, <1>11, <1>12, <1>13, <1>14, <1>15, <1>16, <1>17 DEF TransferInv

LEMMA ClearStartsKeeps == ASSUME TransferInv, ClearStarts PROVE TransferInv'
<1>1. UNCHANGED <<src, texts, snd, rcv, part, side, landed>>
  BY DEF ClearStarts
<1>2. upsets' \in 0 .. MaxUpsets /\ clearing' \subseteq Second \X {"part", "side"}
  BY DirectAssumption DEF ClearStarts, Upset, TransferInv, TypeOK
<1>3. TypeOK'
  BY <1>1, <1>2 DEF TransferInv, TypeOK
<1>4. Kept'
  BY <1>1, HandlersSame, HandlersKeep
<1>5. SenderInv' /\ BoundInv' /\ DoneIsLanded'
  BY <1>1 DEF TransferInv, SenderInv, BoundInv, DoneIsLanded
<1>6. \A k \in Attempt : LinkInv(k)'
  BY <1>1 DEF TransferInv, LinkInv, Has
<1>7. SendInv'
  BY <1>1 DEF TransferInv, SendInv, StampedAs
<1>8. QED
  BY <1>3, <1>4, <1>5, <1>6, <1>7 DEF Kept, TransferInv

LEMMA ClearRemovesKeeps == ASSUME TransferInv, ClearRemoves PROVE TransferInv'
<1> TypeOK
  BY DEF TransferInv
<1>1. PICK c \in clearing :
          /\ clearing' = clearing \ {c}
          /\ IF c[2] = "side"
             THEN side' = [side EXCEPT ![c[1]] = None] /\ UNCHANGED part
             ELSE /\ part' = [part EXCEPT ![c[1]] =
                         IF part[c[1]] # None /\ c[1] \in Owned
                         THEN [part[c[1]] EXCEPT !.named = FALSE] ELSE None]
                  /\ UNCHANGED side
  BY DEF ClearRemoves
<1>2. UNCHANGED <<src, texts, snd, rcv, landed, upsets>>
  BY DEF ClearRemoves
<1>3. PICK f \in Second : f = c[1]
  BY <1>1 DEF TypeOK
<1>4. f \in Key
  BY KeysAre
<1>5. \A g \in Second : side'[g] = side[g] \/ side'[g] = None
  BY <1>1, <1>3 DEF TypeOK
<1>6. side' \in [Second -> {None} \cup SUBSET Block]
  BY <1>1, <1>3 DEF TypeOK
<1>7. PICK p : p = IF part[f] # None /\ f \in Owned
                   THEN [part[f] EXCEPT !.named = FALSE] ELSE None
  OBVIOUS
<1>8. /\ p \in {None} \cup PartType
      /\ p # None => /\ part[f] # None /\ p.text = part[f].text /\ p.dur = part[f].dur
                     /\ ~ p.named
      /\ f \in Owned /\ part[f] # None => p # None
  <2>1. CASE part[f] # None /\ f \in Owned
    <3>1. p = [part[f] EXCEPT !.named = FALSE] /\ part[f] \in PartType
      BY <1>4, <1>7, <2>1, PartIs
    <3>2. p \in PartType /\ p.text = part[f].text /\ p.dur = part[f].dur /\ p.named = FALSE
      BY <3>1 DEF PartType
    <3>3. QED
      BY <2>1, <3>2, NoneIs
  <2>2. CASE ~ (part[f] # None /\ f \in Owned)
    BY <1>7, <2>2
  <2>3. QED
    BY <2>1, <2>2
<1>9. /\ part' \in [Key -> {None} \cup PartType]
      /\ \A g \in Key : g # f => part'[g] = part[g]
      /\ part'[f] = part[f] \/ part'[f] = p
  <2>1. CASE c[2] = "side"
    BY <1>1, <2>1 DEF TypeOK
  <2>2. CASE c[2] # "side"
    <3>1. part' = [part EXCEPT ![f] = p]
      BY <1>1, <1>3, <1>7, <2>2
    <3>2. QED
      BY <1>4, <1>8, <3>1, PartSets
  <2>3. QED
    BY <2>1, <2>2
<1>10. ASSUME NEW g \in Key, part'[g] # None
       PROVE  /\ part[g] # None /\ part'[g].text = part[g].text /\ part'[g].dur = part[g].dur
              /\ part'[g].named => part[g].named
  BY <1>8, <1>9, <1>10
<1>11. ASSUME NEW k \in Attempt, rcv[k].pc \in InFile
       PROVE  /\ part'[rcv[k].key] # None
              /\ part'[rcv[k].key].text = part[rcv[k].key].text
              /\ part'[rcv[k].key].dur = part[rcv[k].key].dur
              /\ part'[rcv[k].key].named => part[rcv[k].key].named
  <2>1. rcv[k].key \in Key /\ part[rcv[k].key] # None
    BY <1>11, HandlerIs DEF TransferInv, FileInv
  <2>2. rcv[k].key = f => f \in Owned
    <3>1. rcv[k].key \in Second => rcv[k].owns
      BY <1>11, Zenon DEF TransferInv, KeyInv, InFile
    <3>2. QED
      BY <3>1 DEF Owned
  <2>3. part'[rcv[k].key] # None
    BY <1>8, <1>9, <2>1, <2>2
  <2>4. QED
    BY <1>10, <2>1, <2>3
<1>12. TypeOK'
  BY <1>1, <1>2, <1>6, <1>9 DEF TypeOK
<1>13. SenderInv' /\ OwnersInv' /\ DoneIsLanded' /\ WholeUnlessEarly'
  BY <1>2 DEF TransferInv, SenderInv, OwnersInv, DoneIsLanded, WholeUnlessEarly
<1>14. ASSUME NEW k \in Attempt
       PROVE  KeyInv(k)' /\ LinkInv(k)' /\ FileInv(k)' /\ ManifestInv(k)'
  <2>1. KeyInv(k)'
    BY <1>2 DEF TransferInv, KeyInv
  <2>2. LinkInv(k)'
    BY <1>2 DEF TransferInv, LinkInv, Has
  <2>3. FileInv(k)'
    <3> SUFFICES ASSUME rcv[k].pc \in InFile PROVE FileInv(k)'
      BY <1>2 DEF FileInv
    <3>1. FileInv(k)
      BY DEF TransferInv
    <3>2. rcv[k].owns /\ side'[rcv[k].key] # None => side'[rcv[k].key] = side[rcv[k].key]
      <4>1. rcv[k].owns => rcv[k].key \in Second
        BY Zenon DEF TransferInv, KeyInv
      <4>2. QED
        BY <1>5, <4>1
    <3>3. QED
      BY <1>2, <1>11, <3>1, <3>2 DEF FileInv
  <2>4. ManifestInv(k)'
    BY <1>2, <1>11 DEF TransferInv, ManifestInv, HashesOf
  <2>5. QED
    BY <2>1, <2>2, <2>3, <2>4
<1>15. \A g \in Second : DiskInv(g)'
  <2> SUFFICES ASSUME NEW g \in Second, part'[g] # None, side'[g] # None, NEW b \in side'[g]
               PROVE  part'[g].text[b] # Hole /\ b \in part'[g].dur
    BY DEF DiskInv
  <2>1. g \in Key /\ side'[g] = side[g]
    BY <1>5, KeysAre
  <2>2. QED
    BY <1>10, <2>1 DEF TransferInv, DiskInv
<1>16. BoundInv'
  BY <1>2, <1>10 DEF TransferInv, BoundInv
<1>17. SendInv'
  <2> SUFFICES ASSUME snd.pc = "send" PROVE SendInv'
    BY <1>2 DEF SendInv
  <2>1. snd.att \in Attempt
    BY DEF TransferInv, SenderInv
  <2>2. \A u : StampedAs(u) => StampedAs(u)'
    BY <1>2, <1>11, <2>1 DEF StampedAs
  <2>3. QED
    BY <1>2, <2>2 DEF TransferInv, SendInv
<1>18. CopyInv'
  <2>1. \A j \in 1 .. snd.att : j \in Attempt
    BY SenderIs, DirectAssumption DEF Attempt
  <2>2. SameKeys' => SameKeys
    BY <1>2 DEF SameKeys
  <2>3. QED
    BY <1>2, <1>11, <2>1, <2>2 DEF TransferInv, CopyInv, Has, InFile, Active
<1>19. QED
  BY <1>12, <1>13, <1>14, <1>15, <1>16, <1>17, <1>18 DEF TransferInv

(***************************************************************************)
(* All steps.                                                              *)
(***************************************************************************)
LEMMA InitInv == Init => TransferInv
<1> SUFFICES ASSUME Init PROVE TransferInv
  OBVIOUS
<1>1. PICK s : s = Begun(0, 0, 0)
  OBVIOUS
<1>2. /\ s \in SndType /\ s.pc = "idle" /\ s.att = 0 /\ s.stall = 0 /\ s.stamp = None
      /\ s.held = NoText
  <2>1. 0 \in 0 .. Attempts /\ 0 \in 0 .. MaxStall /\ 0 \in 0 .. Cardinality(Block)
    BY BlocksAre, DirectAssumption
  <2>2. s \in SndType
    BY <1>1, <2>1, BegunTyped
  <2>3. QED
    BY <1>1, <2>2 DEF Begun
<1>3. PICK t : t = [b \in Block |-> 0]
  OBVIOUS
<1>4. t \in Text /\ \A b \in Block : t[b] = 0
  BY <1>3 DEF Text
<1>5. /\ src = [text |-> t, stamp |-> 0, secs |-> 0, early |-> FALSE]
      /\ texts = {src.text} /\ snd = s
      /\ rcv = [k \in Attempt |-> NoHandler]
      /\ part = [f \in Key |-> None] /\ side = [f \in Second |-> None]
      /\ clearing = {} /\ landed = <<>> /\ upsets = 0
  BY <1>1, <1>3 DEF Init
<1>6. src.text = t /\ src.stamp = 0 /\ src \in SrcType
  BY <1>4, <1>5, KeysAre DEF SrcType
<1>7. TypeOK
  <2>1. rcv \in [Attempt -> HandlerType]
    BY <1>5, NoHandlerTyped
  <2>2. part \in [Key -> {None} \cup PartType] /\ side \in [Second -> {None} \cup SUBSET Block]
    BY <1>5
  <2>3. landed \in Seq(Text) /\ upsets \in 0 .. MaxUpsets
    BY <1>5, DirectAssumption
  <2>4. QED
    BY <1>2, <1>4, <1>5, <1>6, <2>1, <2>2, <2>3 DEF TypeOK
<1>8. \A k \in Attempt : rcv[k] = NoHandler /\ NoHandler.reply = "none" /\ NoHandler.key = 0
  BY <1>5 DEF NoHandler
<1>9. ASSUME NEW k \in Attempt PROVE KeyInv(k) /\ LinkInv(k) /\ FileInv(k) /\ ManifestInv(k)
  <2>1. KeyInv(k)
    BY <1>8, NoHandlerTyped, KeysAre DEF KeyInv, Active
  <2>2. LinkInv(k)
    BY <1>8, NoHandlerTyped DEF LinkInv
  <2>3. FileInv(k) /\ ManifestInv(k)
    BY <1>8, NoHandlerTyped DEF FileInv, ManifestInv, InFile, Active
  <2>4. QED
    BY <2>1, <2>2, <2>3
<1>10. OwnersInv
  BY <1>8, NoHandlerTyped DEF OwnersInv
<1>11. \A f \in Second : DiskInv(f)
  BY <1>5 DEF DiskInv
<1>12. BoundInv
  BY <1>2, <1>4, <1>5, <1>6, <1>8, NoHandlerTyped, NoTextTyped DEF BoundInv
<1>13. SenderInv /\ SendInv /\ DoneIsLanded
  BY <1>2, <1>5, DirectAssumption DEF SenderInv, SendInv, DoneIsLanded
<1>14. CopyInv /\ WholeUnlessEarly
  <2>1. DOMAIN landed = {} /\ 1 .. snd.att = {}
    BY <1>2, <1>5
  <2>2. QED
    BY <2>1 DEF CopyInv, WholeUnlessEarly
<1>15. QED
  BY <1>7, <1>9, <1>10, <1>11, <1>12, <1>13, <1>14 DEF TransferInv

LEMMA StutterKeeps == ASSUME TransferInv, UNCHANGED vars PROVE TransferInv'
<1>1. UNCHANGED <<src, texts, snd, rcv, part, side, clearing, landed, upsets>>
  BY DEF vars
<1>2. TypeOK' /\ Kept'
  BY <1>1, HandlersSame, HandlersKeep DEF TransferInv, TypeOK
<1>3. SenderInv' /\ BoundInv' /\ DoneIsLanded'
  BY <1>1 DEF TransferInv, SenderInv, BoundInv, DoneIsLanded
<1>4. \A k \in Attempt : LinkInv(k)'
  BY <1>1 DEF TransferInv, LinkInv, Has
<1>5. SendInv'
  BY <1>1 DEF TransferInv, SendInv, StampedAs
<1>6. QED
  BY <1>2, <1>3, <1>4, <1>5 DEF Kept, TransferInv

LEMMA SenderKeeps == ASSUME TransferInv, Sender PROVE TransferInv'
<1>1. CASE Dial \/ Unreachable \/ GotReady
  BY <1>1, DialKeeps, UnreachableKeeps, GotReadyKeeps
<1>2. CASE OpenStreams \/ SendHashes \/ GotVerdict
  BY <1>2, OpenStreamsKeeps, SendHashesKeeps, GotVerdictKeeps
<1>3. CASE SourceChanged \/ SenderLost \/ GotError
  BY <1>3, FailKeeps
<1>4. ASSUME NEW b \in Block, HashRetained(b) \/ ReadRange(b) \/ SendRange(b)
      PROVE  TransferInv'
  BY <1>4, HashRetainedKeeps, ReadRangeKeeps, SendRangeKeeps
<1>5. QED
  BY <1>1, <1>2, <1>3, <1>4 DEF Sender

LEMMA ReceiverKeeps ==
    ASSUME TransferInv, NEW k \in Attempt, Receiver(k)
    PROVE  TransferInv'
<1>1. CASE Claim(k) \/ FirstStream(k) \/ NoStream(k) \/ HashPart(k)
  BY <1>1, ClaimKeeps, FirstStreamKeeps, NoStreamKeeps, HashPartKeeps
<1>2. CASE \E b \in Block : Arrive(k, b)
  BY <1>2, ArriveKeeps
<1>3. CASE Persist(k) \/ Complete(k) \/ Verify(k) \/ LostVerifying(k)
  BY <1>3, PersistKeeps, CompleteKeeps, VerifyKeeps, LostVerifyingKeeps
<1>4. CASE Compare(k) \/ Publish(k) \/ Tell(k) \/ ReceiverLost(k) \/ Canceled(k)
  BY <1>4, CompareKeeps, PublishKeeps, TellKeeps, LostKeeps, CanceledKeeps
<1>5. QED
  BY <1>1, <1>2, <1>3, <1>4 DEF Receiver

LEMMA WorldKeeps == ASSUME TransferInv, World PROVE TransferInv'
<1>1. CASE Edit \/ Drop \/ Crash \/ SenderStops \/ SendAgain
  BY <1>1, EditKeeps, DropKeeps, CrashKeeps, SenderStopsKeeps, SendAgainKeeps
<1>2. CASE ClearStarts \/ ClearRemoves
  BY <1>2, ClearStartsKeeps, ClearRemovesKeeps
<1>3. ASSUME NEW k \in Attempt, WaitExpires(k) \/ DiskFails(k) \/ ReceiverCancels(k)
      PROVE  TransferInv'
  BY <1>3, WaitExpiresKeeps, LostKeeps, ReceiverCancelsKeeps
<1>4. QED
  BY <1>1, <1>2, <1>3 DEF World

LEMMA TransferInvAlways == Spec => []TransferInv
<1>1. TransferInv /\ [Next]_vars => TransferInv'
  BY SenderKeeps, ReceiverKeeps, WorldKeeps, StutterKeeps DEF Next
<1>2. QED
  BY InitInv, <1>1, PTL DEF Spec

(***************************************************************************)
(* The theorems.                                                           *)
(***************************************************************************)
\* Whatever the two users, the network and the disk do, the sender's task, the
\* handlers, the partials and their sidecars keep their form.
THEOREM TypeCorrect == Spec => []TypeOK
<1>1. TransferInv => TypeOK
  BY DEF TransferInv
<1>2. QED
  BY TransferInvAlways, <1>1, PTL

\* A file never lands with a hole or as a mix of two versions, for any number of
\* blocks, attempts and edits, except when it is edited in the one window in which
\* a kept block is hashed before the stamp is taken (send_ranges_hashed,
\* hash_retained_file, verify_received_indexed).
THEOREM WholeUnlessEarlyAlways == Spec => []WholeUnlessEarly
<1>1. TransferInv => WholeUnlessEarly
  BY DEF TransferInv
<1>2. QED
  BY TransferInvAlways, <1>1, PTL

\* "Done" at the sender means that exactly the blocks it hashed are at the receiver
\* (finalize_received, read_landed).
THEOREM DoneIsLandedAlways == Spec => []DoneIsLanded
<1>1. TransferInv => DoneIsLanded
  BY DEF TransferInv
<1>2. QED
  BY TransferInvAlways, <1>1, PTL

\* Attempts that went into one partial never leave the same file twice
\* (claim_partial, identical_landed, publish_unique_owned).
THEOREM NoSecondCopyAlways == Spec => []NoSecondCopy
<1>1. TransferInv => NoSecondCopy
  BY DEF TransferInv, CopyInv, SameKeys, NoSecondCopy, Cur
<1>2. QED
  BY TransferInvAlways, <1>1, PTL

\* A resumed attempt finds in its partial every block it counts on, after any power
\* cut and any clearing (save_sidecar_checked, prepare_partial,
\* clear_transfer_cache).
THEOREM ResumeIsRealAlways == Spec => []ResumeIsReal
<1>1. TransferInv => ResumeIsReal
  BY DEF TransferInv, FileInv, ResumeIsReal, InFile, Active
<1>2. QED
  BY TransferInvAlways, <1>1, PTL

=============================================================================
