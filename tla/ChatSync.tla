----------------------------- MODULE ChatSync -----------------------------
(***************************************************************************)
(* One chat message a person sent, on each of that person's own devices    *)
(* (chat.rs), and the exchanges that keep the devices in step              *)
(* (account.rs).                                                           *)
(*                                                                         *)
(* The device that sent the message owns its delivery; on every device it  *)
(* can be edited, unsent and reacted to, and the friend's read receipt     *)
(* reaches any one device.  Each change is stamped with the device's clock *)
(* (never below the stamps the copy has).  Two copies are merged field by  *)
(* field: an unsend wins, the text and each reaction follow their own      *)
(* clock, the delivery status moves forward.                               *)
(*                                                                         *)
(* An exchange is four frames: a summary, the list of the other side, the  *)
(* messages that differ with a list of wanted ones, and those.  Either     *)
(* side may change, or merge from another exchange, between two of them.   *)
(* Copies of older builds, received messages (the same code without a      *)
(* status) and the trimming of long threads are left out.                  *)
(***************************************************************************)
EXTENDS Naturals, FiniteSets

CONSTANTS
  Dev,        \* the person's devices
  Origin,     \* the one the message was sent from
  Emoji,      \* reactions, each of one author
  Skew,       \* how far each device's clock is ahead
  Gap,        \* how long it may be between two changes
  Upsets,     \* what may happen besides edits
  MaxEvents,  \* bound: changes, receipts and lost exchanges, together
  None        \* no copy, no clock, no exchange

ASSUME DevAssumption == Origin \in Dev /\ Skew \in [Dev -> Nat]
ASSUME GapAssumption == Gap \subseteq Nat \ {0}
ASSUME BoundAssumption ==
  /\ MaxEvents \in Nat
  /\ Upsets \subseteq {"unsend", "react", "preview", "receipt", "later", "lost"}

VARIABLES
  copy,      \* the message on each device
  ex,        \* ex[c][s]: the exchange device c began with s
  inStep,    \* inStep[c]: the devices c has told all it has
  time,      \* real time
  arrived,   \* the friend has the message
  wish,      \* what the person wrote: with a link?, and wanted last
  events

vars == <<copy, ex, inStep, time, arrived, wish, events>>

Status == {"sending", "sent", "delivered", "read"}
Clock == [at : Nat, on : BOOLEAN]
Message == [status : Status, text : Nat, edited : BOOLEAN, deleted : BOOLEAN,
            preview : BOOLEAN, rev : Nat, textRev : Nat, clk : [Emoji -> Clock \cup {None}]]

\* No copy and no clock are neither.
ASSUME NoneAssumption == None \notin Message \cup Clock

---------------------------------------------------------------------------
(* Merging two copies *)

(* status_rank: what is short of a confirmed delivery counts as nothing. *)
Rank(status) == CASE status = "read" -> 2 [] status = "delivered" -> 1 [] OTHER -> 0

(* bump_rev *)
BumpRev(d, m) == IF time' + Skew[d] > m.rev THEN time' + Skew[d] ELSE m.rev + 1

(* Mistake: a digest of the stamp of the whole copy. *)
HashWhole(m) ==
  IF m = None THEN None ELSE [rev |-> m.rev, rank |-> Rank(m.status), deleted |-> m.deleted]

(* sync_hash: what the digests tell apart. *)
Hash(m) ==
  IF m = None THEN None
  ELSE [rev |-> m.rev, rank |-> Rank(m.status), deleted |-> m.deleted,
        edited |-> m.edited, textRev |-> m.textRev, clk |-> m.clk]

Clocked(m) == m.textRev > 0 \/ \E r \in Emoji : m.clk[r] # None

(* legacy_clocks: a copy that changed and has no clock of its own is taken *)
(* to have got its text, if edited, and to have seen what the other copy   *)
(* has clocks for, at its last change.  A reaction always has its clock    *)
(* here, so that such a copy has none of its own.                          *)
LegacyClocks(m, o) ==
  IF m.rev = 0 \/ Clocked(m) \/ ~Clocked(o) THEN m
  ELSE [m EXCEPT !.textRev = IF m.edited THEN m.rev ELSE m.textRev,
                 !.clk = [r \in Emoji |->
          IF o.clk[r] = None THEN None ELSE [at |-> m.rev, on |-> FALSE]]]

(* Mistake: the text follows the stamp of the whole copy. *)
TextNewerWhole(x, m) == m.rev > x.rev

(* Does the text of m replace the one of x? *)
TextNewer(x, m) ==
  IF m.textRev = 0 /\ x.textRev = 0
    THEN m.rev > x.rev \/ (m.rev = x.rev /\ m.edited /\ ~x.edited)
    ELSE m.textRev > x.textRev

(* The later of two clocks of a reaction; of equal ones, the removal. *)
LaterClock(a, b) ==
  IF b # None /\ (a = None \/ b.at > a.at \/ (b.at = a.at /\ ~b.on)) THEN b ELSE a

Higher(a, b) == IF b > a THEN b ELSE a

(* merge_fields: another device's copy n is merged into our copy o. *)
MergeFields(o, n) ==
  LET m == LegacyClocks(n, o)
      x == LegacyClocks(o, m)
      rev == Higher(x.rev, m.rev)
  IN IF x.deleted THEN [x EXCEPT !.rev = rev]
     ELSE IF m.deleted
     THEN [x EXCEPT !.deleted = TRUE, !.text = 0, !.preview = FALSE,
                    !.textRev = Higher(@, m.textRev), !.rev = rev]
     ELSE LET t == IF TextNewer(x, m)
                     THEN [x EXCEPT !.text = m.text, !.edited = m.edited,
                                    !.preview = m.preview, !.textRev = m.textRev]
                     ELSE x
          IN [t EXCEPT !.clk = [r \in Emoji |-> LaterClock(x.clk[r], m.clk[r])],
                       !.rev = rev]

(* "Not ours to deliver: the device that sent it owns the retry." *)
Foreign(m) == IF Rank(m.status) = 0 THEN [m EXCEPT !.status = "sent"] ELSE m

(* merge_synced: what device's copy x becomes when n arrives. *)
Merged(x, n) ==
  LET m == Foreign(n) IN
  IF x = None THEN m
  ELSE [MergeFields(x, m) EXCEPT
          !.status = IF Rank(m.status) > Rank(x.status) THEN m.status ELSE x.status]

---------------------------------------------------------------------------

(* The message is on the device that sent it. *)
Init ==
  /\ copy = [d \in Dev |-> IF d # Origin THEN None
       ELSE [status |-> "sending", text |-> 1, edited |-> FALSE, deleted |-> FALSE,
             preview |-> FALSE, rev |-> 0, textRev |-> 0, clk |-> [r \in Emoji |-> None]]]
  /\ ex = [c \in Dev |-> [s \in Dev |-> None]]
  /\ inStep = [c \in Dev |-> {}]
  /\ time = 1
  /\ arrived = FALSE
  /\ wish \in [link : BOOLEAN, text : {1}, unsent : {FALSE}, react : {{}}]
  /\ events = 0

Event(kind) ==
  /\ kind \in Upsets \cup {"edit"}
  /\ events < MaxEvents
  /\ events' = events + 1

(* The copy of device d becomes m.  The fingerprint of a device that       *)
(* changes is no longer the one its last exchanges ended with.             *)
Becomes(d, m) ==
  /\ copy' = [copy EXCEPT ![d] = m]
  /\ inStep' = IF Hash(m) = Hash(copy[d]) THEN inStep ELSE [inStep EXCEPT ![d] = {}]

(* A change of device d's copy, some time after the one before it. *)
Change(d, kind, m) ==
  /\ Event(kind)
  /\ \E g \in Gap : time' = time + g
  /\ Becomes(d, m)
  /\ UNCHANGED <<ex, arrived>>

---------------------------------------------------------------------------
(* What the person does on a device *)

(* apply_edit; every edit is a text of its own, with the link it had. *)
Edit(d) ==
  LET rev == BumpRev(d, copy[d]) IN
  /\ copy[d] # None /\ ~copy[d].deleted
  /\ Change(d, "edit", [copy[d] EXCEPT !.text = time', !.edited = TRUE,
                          !.rev = rev, !.textRev = rev])
  /\ wish' = [wish EXCEPT !.text = time']

(* apply_delete *)
Unsend(d) ==
  LET rev == BumpRev(d, copy[d]) IN
  /\ copy[d] # None
  /\ Change(d, "unsend", [copy[d] EXCEPT !.deleted = TRUE, !.text = 0,
                            !.preview = FALSE, !.rev = rev, !.textRev = rev])
  /\ wish' = [wish EXCEPT !.unsent = TRUE]

(* apply_reaction, note_reaction_rev: a reaction is put on or taken off. *)
React(d, r) ==
  LET rev == BumpRev(d, copy[d])
      m == copy[d]
      on == m.clk[r] = None \/ ~m.clk[r].on
  IN /\ copy[d] # None
     /\ Change(d, "react", [m EXCEPT !.rev = rev, !.clk[r] = [at |-> rev, on |-> on]])
     /\ wish' = [wish EXCEPT !.react = IF on THEN @ \cup {r} ELSE @ \ {r}]

(* set_link_preview: the preview of a link arrives on the sending device,  *)
(* which has not sent the message yet.                                     *)
Preview ==
  LET rev == BumpRev(Origin, copy[Origin]) IN
  /\ wish.link /\ ~arrived
  /\ ~copy[Origin].deleted /\ ~copy[Origin].preview
  /\ Change(Origin, "preview", [copy[Origin] EXCEPT !.preview = TRUE, !.rev = rev])
  /\ UNCHANGED wish

---------------------------------------------------------------------------
(* The friend *)

(* outbox: the sending device tries until the friend's answer comes back. *)
Deliver ==
  LET m == copy[Origin] IN
  /\ m.status = "sending" /\ ~m.deleted
  /\ arrived' = TRUE
  /\ \/ Becomes(Origin, [m EXCEPT !.status = "delivered"]) /\ UNCHANGED events
     \/ ~arrived /\ Event("lost") /\ UNCHANGED <<copy, inStep>>
  /\ UNCHANGED <<ex, time, wish>>

(* mark_read_up_to: a receipt for this message, or ("later") for one sent  *)
(* after it, reaches device d.                                             *)
ReadReceipt(d) ==
  /\ copy[d] # None
  /\ copy[d].status \in {"delivered", "sent"}
  /\ \/ arrived /\ Event("receipt")
     \/ ~arrived /\ Event("later")
  /\ Becomes(d, [copy[d] EXCEPT !.status = "read"])
  /\ UNCHANGED <<ex, time, arrived, wish>>

---------------------------------------------------------------------------
(* An exchange *)

SetEx(c, s, x) == ex' = [ex EXCEPT ![c][s] = x]

(* round, client_exchange: summaries of our threads. *)
Hello(c, s) ==
  /\ c # s
  /\ ex[c][s] = None
  /\ s \notin inStep[c]
  /\ SetEx(c, s, [step |-> "hello", list |-> Hash(copy[c]), msg |-> None, want |-> FALSE])
  /\ UNCHANGED <<copy, inStep, time, arrived, wish, events>>

(* server_exchange, differing_lists: our list, unless the summaries agree. *)
Lists(c, s) ==
  /\ ex[c][s] # None /\ ex[c][s].step = "hello"
  /\ LET same == Hash(copy[s]) = ex[c][s].list IN
     SetEx(c, s, [ex[c][s] EXCEPT !.step = IF same THEN "last" ELSE "lists",
                                  !.list = IF same THEN None ELSE Hash(copy[s])])
  /\ UNCHANGED <<copy, inStep, time, arrived, wish, events>>

(* plan: what the other side lacks, and what we want of it. *)
Plan(c, s) ==
  /\ ex[c][s] # None /\ ex[c][s].step = "lists"
  /\ LET differs == Hash(copy[c]) # ex[c][s].list IN
     SetEx(c, s, [ex[c][s] EXCEPT !.step = "plan", !.list = None,
                    !.msg = IF differs THEN copy[c] ELSE None,
                    !.want = differs /\ ex[c][s].list # None])
  /\ UNCHANGED <<copy, inStep, time, arrived, wish, events>>

Apply(d, m) ==
  IF m = None THEN UNCHANGED <<copy, inStep>> ELSE Becomes(d, Merged(copy[d], m))

(* server_exchange: merge what came, and send what was wanted. *)
Serve(c, s) ==
  /\ ex[c][s] # None /\ ex[c][s].step = "plan"
  /\ Apply(s, ex[c][s].msg)
  /\ SetEx(c, s, [ex[c][s] EXCEPT !.step = "last", !.want = FALSE,
                    !.msg = IF ex[c][s].want THEN copy'[s] ELSE None])
  /\ UNCHANGED <<time, arrived, wish, events>>

(* round: the fingerprint after an exchange is remembered for that device. *)
InStep(told, s) == told \cup {s}

(* client_exchange, round: merge it; in step until something changes. *)
Last(c, s) ==
  /\ ex[c][s] # None /\ ex[c][s].step = "last"
  /\ LET m == ex[c][s].msg
         now == IF m = None THEN copy[c] ELSE Merged(copy[c], m)
         told == IF Hash(now) = Hash(copy[c]) THEN inStep[c] ELSE {}
     IN /\ copy' = [copy EXCEPT ![c] = now]
        /\ inStep' = [inStep EXCEPT ![c] = InStep(told, s)]
  /\ SetEx(c, s, None)
  /\ UNCHANGED <<time, arrived, wish, events>>

(* A frame is lost or a device goes away: tried again after a pause. *)
Lost(c, s) ==
  /\ ex[c][s] # None
  /\ Event("lost")
  /\ SetEx(c, s, None)
  /\ UNCHANGED <<copy, inStep, time, arrived, wish>>

(* REFRESH: ten minutes later the other device is asked all the same. *)
Refresh(c, s) ==
  /\ ex[c][s] = None
  /\ s \in inStep[c]
  /\ inStep' = [inStep EXCEPT ![c] = @ \ {s}]
  /\ UNCHANGED <<copy, ex, time, arrived, wish, events>>

---------------------------------------------------------------------------

Exchange(c, s) == Hello(c, s) \/ Lists(c, s) \/ Plan(c, s) \/ Serve(c, s) \/ Last(c, s)

Next ==
  \/ \E d \in Dev : Edit(d) \/ Unsend(d) \/ ReadReceipt(d) \/ \E r \in Emoji : React(d, r)
  \/ Preview \/ Deliver
  \/ \E c, s \in Dev : Exchange(c, s) \/ Lost(c, s) \/ Refresh(c, s)

Spec == Init /\ [][Next]_vars

(* Devices find each other again and again: every exchange that is due is  *)
(* begun, goes on or is noticed to have failed, and ten minutes pass.      *)
Fairness ==
  \A c \in Dev : \A s \in Dev \ {c} : WF_vars(Exchange(c, s)) /\ WF_vars(Refresh(c, s))

FairSpec == Spec /\ Fairness

---------------------------------------------------------------------------
(* Properties *)

(* Types; and the stamp of a copy is not below those of its parts, which   *)
(* the next change has to be above.                                        *)
TypeOK ==
  /\ copy \in [Dev -> Message \cup {None}]
  /\ \A d \in Dev : copy[d] # None =>
       /\ copy[d].textRev <= copy[d].rev
       /\ \A r \in Emoji : copy[d].clk[r] # None => copy[d].clk[r].at <= copy[d].rev
  /\ \A c, s \in Dev : ex[c][s] # None =>
       /\ ex[c][s].step \in {"hello", "lists", "plan", "last"}
       /\ ex[c][s].msg \in Message \cup {None}
  /\ time \in Nat /\ arrived \in BOOLEAN

(* Until the friend has the message, the device that sent it keeps trying, *)
(* unless it was unsent.                                                   *)
NotGivenUp == ~arrived => copy[Origin].status = "sending" \/ copy[Origin].deleted

Reactions(m) == {r \in Emoji : m.clk[r] # None /\ m.clk[r].on}

Shown(m) ==
  IF m.deleted THEN "unsent"
  ELSE [text |-> m.text, reactions |-> Reactions(m), rank |-> Rank(m.status)]

(* What the person last wanted: unsent if it was unsent anywhere, with the  *)
(* latest text and the latest choice of every reaction, whichever device   *)
(* each was made on (reactions to a message with a link aside:             *)
(* set_link_preview stamps the copy without a clock of its own, and        *)
(* legacy_clocks then takes it for an older build's copy that has taken    *)
(* the reaction off).                                                      *)
AsWanted(m) ==
  /\ m.deleted = wish.unsent
  /\ ~wish.unsent => m.text = wish.text /\ (wish.link \/ Reactions(m) = wish.react)

(* Devices whose digests agree stop asking each other: by then they show   *)
(* the message alike, and as the person last wanted it.                    *)
Agreed == \A d, e \in Dev : copy[d] # None /\ Hash(copy[d]) = Hash(copy[e])

AgreedIsWanted ==
  Agreed => \A d \in Dev : AsWanted(copy[d]) /\ Shown(copy[d]) = Shown(copy[Origin])

(* In the end every device shows it so. *)
Converges ==
  <>[](\A d \in Dev :
         copy[d] # None /\ AsWanted(copy[d]) /\ Shown(copy[d]) = Shown(copy[Origin]))

===========================================================================
