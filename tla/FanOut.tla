------------------------------- MODULE FanOut -------------------------------
(***************************************************************************)
(* One file send to a person with several devices (src-tauri/src/          *)
(* fanout.rs): a direct leg per device, one Transfer Server copy for the   *)
(* devices that do not answer, a durable queue for the rest, the user's    *)
(* pause, cancel and resume, server receipts, and restarts.                *)
(*                                                                         *)
(* On disk: the record `dev` (fanout.json) and the client's list `sent` of *)
(* server copies (mailbox/client.rs).  In memory: `live` (LIVE: the cancel *)
(* flag, its reason, the devices running), the tasks `runs`, `leg` and     *)
(* `holds`.  Every use of the record is under one lock, so one update is   *)
(* one step.  The Transfer Server is external here (TransferServer models  *)
(* it): `copy` is what it holds.                                           *)
(***************************************************************************)
EXTENDS Integers, FiniteSets

CONSTANTS
    Dev,          \* the person's devices
    Item,         \* ids of server copies: bound on how many deposits begin
    MaxAttempts,  \* MAX_ATTEMPTS: failures after which a device is given up
    Upsets,       \* the disturbances that may happen
    MaxUpsets,    \* bound: disturbances per behaviour
    None

ASSUME FanOutAssumption ==
    /\ IsFiniteSet(Dev) /\ Dev # {}
    /\ MaxAttempts \in Nat \ {0}
    /\ MaxUpsets \in Nat
    /\ Upsets \subseteq {"paused", "canceled", "resume", "crash", "reply", "goDirect"}
    /\ None \notin Item

StopStates == {"paused", "canceled"}
State == {"sending", "uploading", "offline", "delivered", "held", "waiting",
          "failed", "declined"} \cup StopStates

\* What the variables hold when they hold something.
Delivery == [state : State, attempts : 0..MaxAttempts, item : Item \cup {None}]
Sent == [state : {"uploading", "held", "rejected", "canceled", "delivered", "expired"},
         to : SUBSET Dev]
Live == [cancel : BOOLEAN, reason : StopStates \cup {None}, running : SUBSET Dev]
Hold == [devs : SUBSET Dev, later : SUBSET Dev, item : Item \cup {None},
         pc : {"check", "queue", "upload", "again", "stored", "mark"}]
Copy == [to : SUBSET Dev, taken : SUBSET Dev, lists : BOOLEAN,
         st : {"held", "delivered", "rejected", "canceled", "expired"}]

ASSUME NoneAssumption == None \notin Sent \cup Live \cup Copy

VARIABLES
    dev,       \* Record.devices: [state, attempts, item]
    sent,      \* our list of server copies: [state, to]
    live,      \* LIVE: [cancel, reason, running], or None
    runs,      \* Engine::run tasks: the devices of each
    leg,       \* where each device's leg is
    holds,     \* Engine::hold_or_queue tasks
    copy,      \* external: the server's copies [to, taken, st, lists]
    cancels,   \* mailbox.cancel calls under way
    got,       \* the devices that have the files
    over,      \* 30 days have passed, or the files are gone
    word,      \* the user's last word on the send: "send", "paused" or "canceled"
    upsets     \* the user's stops and resumes, and faults, so far

record == <<dev, sent>>
tasks == <<live, runs, leg, holds>>
server == <<copy, cancels, got>>
bounds == <<over, word, upsets>>
vars == <<record, tasks, server, bounds>>

\* Someone works on a device in such a state.
Busy(s) == s \in {"sending", "uploading", "offline"}
Running == IF live = None THEN {} ELSE live.running
Canceled == live # None /\ live.cancel

\* stop_state.
StopState == IF live # None /\ live.reason = "paused" THEN "paused" ELSE "canceled"

Upset(k) == k \in Upsets /\ upsets < MaxUpsets /\ upsets' = upsets + 1


\* update: every device of S gets state s.
WithState(D, S, s) == [d \in Dev |-> IF d \in S THEN [D[d] EXCEPT !.state = s] ELSE D[d]]
WithLegs(S, l) == [d \in Dev |-> IF d \in S THEN l ELSE leg[d]]

(***************************************************************************)
(* Starting: begin (Init), retry_due, and a resume.                        *)
(***************************************************************************)
\* start: the devices no task works on yet; a stop still unwinding stays.
Start(S) ==
    LET fresh == S \ Running
    IN  /\ live' = IF live = None
                   THEN [cancel |-> FALSE, reason |-> None, running |-> S]
                   ELSE [live EXCEPT !.running = live.running \cup S]
        /\ runs' = IF fresh = {} THEN runs ELSE runs \cup {fresh}
        /\ leg' = WithLegs(fresh, "start")
        /\ UNCHANGED <<holds>>

Waiting == {d \in Dev : dev[d].state = "waiting" /\ d \notin Running}

\* retry_due: devices whose turn it is (offline long enough, or seen).
RetryDue(S) ==
    /\ S # {} /\ S \subseteq Waiting
    /\ ~over
    /\ Start(S)
    /\ UNCHANGED <<record, server, bounds>>

\* Mistake: given up only when nobody is left who does not wait.
GiveUpAll ==
    /\ over /\ Waiting = Dev
    /\ dev' = WithState(dev, Dev, "failed")
    /\ UNCHANGED <<sent, tasks, server, bounds>>

\* retry_due, past WAIT_MAX_MS or without the files: all that wait are given up.
GiveUp ==
    /\ over /\ Waiting # {}
    /\ dev' = WithState(dev, {d \in Dev : dev[d].state = "waiting"}, "failed")
    /\ UNCHANGED <<sent, tasks, server, bounds>>

Owed == {d \in Dev : dev[d].state \in {"paused", "failed", "waiting"}}

\* send: the user sends the same files again; only the devices still owed.
Resume ==
    /\ Upset("resume")
    /\ \A d \in Dev : ~Busy(dev[d].state)
    /\ \E d \in Dev : dev[d].state \in {"paused", "failed"}
    /\ dev' = [d \in Dev |-> IF d \in Owed
                             THEN [dev[d] EXCEPT !.state = "waiting", !.attempts = 0]
                             ELSE dev[d]]
    /\ Start(Owed)
    /\ word' = "send"
    /\ UNCHANGED <<sent, server, over>>

(***************************************************************************)
(* leg: one device, directly.                                              *)
(***************************************************************************)
\* "Only a device that is still owed it."
StillOwed(s) == s \in {"waiting", "sending", "offline"}

LegStart(d) ==
    /\ leg[d] = "start"
    /\ IF Canceled
       THEN /\ dev' = WithState(dev, {d}, StopState)
            /\ leg' = WithLegs({d}, "none")
       ELSE IF StillOwed(dev[d].state)
       THEN /\ dev' = [dev EXCEPT ![d].state = "sending", ![d].item = None]
            /\ leg' = WithLegs({d}, "direct")
       ELSE /\ leg' = WithLegs({d}, "none")
            /\ UNCHANGED dev
    /\ UNCHANGED <<sent, live, runs, holds, server, bounds>>

Outcome == {"delivered", "offline", "declined", "canceled", "paused", "failed"}

\* Mistake: failures are counted but never too many.
FailedAgain(r) == [r EXCEPT !.attempts = @ + 1, !.state = "waiting"]

\* A failure counts, and is tried again later until it has happened too often.
Failed(r) ==
    [r EXCEPT !.attempts = r.attempts + 1,
              !.state = IF r.attempts + 1 >= MaxAttempts THEN "failed" ELSE "waiting"]

\* What the leg's end makes of the device.
AfterLeg(r, out) ==
    CASE out = "delivered"               -> [r EXCEPT !.state = "delivered"]
      [] out # "delivered" /\ Canceled   -> [r EXCEPT !.state = StopState]
      [] out = "failed" /\ ~ Canceled    -> Failed(r)
      [] OTHER                           -> [r EXCEPT !.state = out]

\* env.direct returns; the flag is read and the record written at once (a few
\* instructions apart).  A transfer that failed may have arrived all the same.
DirectEnds(d, out) ==
    /\ leg[d] = "direct"
    /\ out = "paused" => Canceled
    /\ dev' = [dev EXCEPT ![d] = AfterLeg(dev[d], out)]
    /\ leg' = WithLegs({d}, IF out = "offline" /\ ~Canceled THEN "offline" ELSE "none")
    /\ \/ out # "delivered" /\ UNCHANGED got
       \/ out \in {"delivered", "failed"} /\ got' = got \cup {d}
    /\ UNCHANGED <<sent, live, runs, holds, copy, cancels, bounds>>

(***************************************************************************)
(* hold_or_queue: the devices that did not answer.  A task has the devices *)
(* it works on, and those whose own copies come later.                     *)
(***************************************************************************)
Held == UNION {h.devs \cup h.later : h \in holds}

\* run: held together once all legs are over, or once each had its first dial.
HoldStart(r) ==
    /\ r \in runs
    /\ LET offline == {d \in r : leg[d] = "offline"} \ Held
       IN  /\ offline # {}
           /\ holds' = holds \cup {[devs |-> offline, later |-> {}, pc |-> "check", item |-> None]}
    /\ UNCHANGED <<record, live, runs, leg, server, bounds>>

\* A task is done with its devices: over, or on to the next one's own copy.
HoldDone(h) ==
    /\ leg' = WithLegs(h.devs, "none")
    /\ \/ /\ h.later = {}
          /\ holds' = holds \ {h}
       \/ \E d \in h.later :
             holds' = (holds \ {h}) \cup
                      {[devs |-> {d}, later |-> h.later \ {d}, pc |-> "check", item |-> None]}

HoldStep(h, g) == holds' = (holds \ {h}) \cup {g}

\* A stop seen before anything was queued.
HoldStopped(h) ==
    /\ h.pc = "check" /\ Canceled
    /\ dev' = WithState(dev, h.devs, StopState)
    /\ HoldDone(h)
    /\ UNCHANGED <<sent, live, runs, server, bounds>>

HoldChecked(h) ==
    /\ h.pc = "check" /\ ~Canceled
    /\ HoldStep(h, [h EXCEPT !.pc = "queue"])
    /\ UNCHANGED <<record, live, runs, leg, server, bounds>>

\* No server can take it for them, or the files cannot be read: they wait.
HoldQueue(h) ==
    /\ h.pc = "queue"
    /\ dev' = WithState(dev, h.devs, "waiting")
    /\ HoldDone(h)
    /\ UNCHANGED <<sent, live, runs, server, bounds>>

\* The copies an earlier deposit left incomplete, sealed for the same devices.
Resumable(S) == {i \in Item : sent[i] # None /\ sent[i].state = "uploading" /\ sent[i].to = S}
Unused == {i \in Item : sent[i] = None}

\* deposit_files begins, for the devices S a server can hold it for; the others wait.
HoldDeposit(h, S, i) ==
    /\ h.pc = "queue"
    /\ S # {} /\ S \subseteq h.devs
    /\ i \in Resumable(S) \/ (Resumable(S) = {} /\ i \in Unused)
    /\ dev' = WithState(WithState(dev, h.devs \ S, "waiting"), S, "uploading")
    /\ sent' = [sent EXCEPT ![i] = [state |-> "uploading", to |-> S]]
    /\ leg' = WithLegs(h.devs \ S, "none")
    /\ HoldStep(h, [h EXCEPT !.devs = S, !.pc = "upload", !.item = i])
    /\ UNCHANGED <<live, runs, server, bounds>>

\* An older server hands a copy to whoever comes first: each gets its own.
HoldSplit(h, S) ==
    /\ h.pc = "queue"
    /\ S \subseteq h.devs /\ Cardinality(S) > 1
    /\ dev' = WithState(WithState(dev, h.devs \ S, "waiting"), S, "uploading")
    /\ leg' = WithLegs(h.devs \ S, "none")
    /\ \E d \in S : HoldStep(h, [h EXCEPT !.devs = {d}, !.later = h.later \cup (S \ {d}), !.pc = "check"])
    /\ UNCHANGED <<sent, live, runs, server, bounds>>

\* The server has it all (`lists`: it names who took it).  Its answer may be
\* lost: the deposit fails as unreachable, and stays resumable.
UploadStored(h, lists) ==
    /\ h.pc = "upload"
    /\ copy' = IF copy[h.item] # None THEN copy
               ELSE [copy EXCEPT ![h.item] = [to |-> h.devs, taken |-> {}, st |-> "held", lists |-> lists]]
    /\ \/ /\ HoldStep(h, [h EXCEPT !.pc = "stored"])
          /\ UNCHANGED <<dev, leg, upsets>>
       \/ /\ Upset("reply")
          /\ dev' = WithState(dev, h.devs, "waiting")
          /\ HoldDone(h)
    /\ UNCHANGED <<sent, live, runs, cancels, got, over, word>>

\* Unreachable (the partial stays "uploading"), refused, or a file changed under
\* it (the copy is taken back): back to the queue.
UploadFails(h, state, back) ==
    /\ h.pc = "upload"
    /\ sent' = [sent EXCEPT ![h.item].state = state]
    /\ cancels' = cancels \cup back
    /\ dev' = WithState(dev, h.devs, "waiting")
    /\ HoldDone(h)
    /\ UNCHANGED <<live, runs, copy, got, bounds>>

\* The upload noticed the stop; the partial stays.
UploadCanceled(h) ==
    /\ h.pc = "upload" /\ Canceled
    /\ dev' = WithState(dev, h.devs, StopState)
    /\ HoldDone(h)
    /\ UNCHANGED <<sent, live, runs, server, bounds>>

\* A recipient came online mid-upload: the copy is dropped, its devices get a
\* leg each; those still away come back here.
UploadGoDirect(h) ==
    /\ h.pc = "upload"
    /\ Upset("goDirect")
    /\ sent' = [sent EXCEPT ![h.item].state = "canceled"]
    /\ cancels' = cancels \cup {h.item}
    /\ leg' = WithLegs(h.devs, "start")
    /\ HoldStep(h, [h EXCEPT !.pc = "again", !.item = None])
    /\ UNCHANGED <<dev, live, runs, copy, got, over, word>>

HoldAgain(h) ==
    /\ h.pc = "again"
    /\ \A d \in h.devs : leg[d] \in {"none", "offline"}
    /\ LET still == {d \in h.devs : leg[d] = "offline"}
       IN  IF still = {} THEN HoldDone(h)
           ELSE HoldStep(h, [h EXCEPT !.devs = still, !.pc = "check"]) /\ UNCHANGED leg
    /\ UNCHANGED <<record, live, runs, server, bounds>>

\* abandon: the copies still on (or on their way to) a server are taken back.
Abandoned == {i \in Item : sent[i] # None /\ sent[i].state \in {"uploading", "held"}}
AbandonSent(S) == [i \in Item |-> IF i \in S THEN [sent[i] EXCEPT !.state = "canceled"] ELSE sent[i]]

\* Held; or stopped just as the upload finished: then a cancel takes it back.
HoldResult(h) ==
    /\ h.pc = "stored"
    /\ IF ~Canceled
       THEN /\ sent' = [sent EXCEPT ![h.item].state = "held"]
            /\ HoldStep(h, [h EXCEPT !.pc = "mark"])
            /\ UNCHANGED <<dev, leg, cancels>>
       ELSE LET back == IF StopState = "canceled" THEN Abandoned \cup {h.item} ELSE {}
            IN  /\ sent' = IF back = {} THEN [sent EXCEPT ![h.item].state = "held"]
                           ELSE AbandonSent(back)
                /\ cancels' = cancels \cup back
                /\ dev' = WithState(dev, h.devs, StopState)
                /\ HoldDone(h)
    /\ UNCHANGED <<live, runs, copy, got, bounds>>

HoldMark(h) ==
    /\ h.pc = "mark"
    /\ dev' = [d \in Dev |-> IF d \in h.devs
                             THEN [dev[d] EXCEPT !.state = "held", !.item = h.item] ELSE dev[d]]
    /\ HoldDone(h)
    /\ UNCHANGED <<sent, live, runs, server, bounds>>

\* run: its legs and holds are over, its devices run no more.
RunEnd(r) ==
    /\ r \in runs
    /\ \A d \in r : leg[d] = "none" /\ d \notin Held
    /\ runs' = runs \ {r}
    /\ live' = IF live.running \subseteq r THEN None ELSE [live EXCEPT !.running = live.running \ r]
    /\ UNCHANGED <<record, leg, holds, server, bounds>>

(***************************************************************************)
(* stop: the user pauses or cancels.                                       *)
(***************************************************************************)
\* The devices the stop is written down for at once.
Stoppable(d, reason) ==
    IF d \in Running THEN Busy(dev[d].state)
    ELSE \/ dev[d].state \in {"waiting", "offline"}
         \/ dev[d].state = "held" /\ reason = "canceled"

\* The flag goes up, the record is written, and a cancel takes the copies back
\* (three locks one after the other; one step here).
Stop(reason) ==
    /\ Upset(reason)
    /\ word' = reason
    /\ live' = IF live = None THEN None ELSE [live EXCEPT !.cancel = TRUE, !.reason = reason]
    /\ dev' = WithState(dev, {d \in Dev : Stoppable(d, reason)}, reason)
    /\ LET had == \E d \in Dev : dev[d].state \in {"held", "uploading"}
           back == IF had /\ reason = "canceled" THEN Abandoned ELSE {}
       IN  sent' = AbandonSent(back) /\ cancels' = cancels \cup back
    /\ UNCHANGED <<runs, leg, holds, copy, got, over>>

(***************************************************************************)
(* Receipts.                                                               *)
(***************************************************************************)
\* What mailbox.status says of a copy: how it ended, or who took it so far.
\* An older server names nobody.
Listed(c) == IF c.lists THEN c.taken ELSE {}

\* Mistake: an empty list is taken for everyone.
ProvesAny(r, d, sharing) == d \in r.to \/ (r.st = "delivered" /\ r.to = {})

\* "An empty list only proves delivery when the copy was for one device."
Proves(r, d, sharing) ==
    \/ d \in r.to
    \/ r.st = "delivered" /\ r.to = {} /\ sharing = 1

\* Mistake: a copy that was turned down is queued for a direct try.
AfterReceiptRetry(rec, r, d, sharing) ==
    IF Proves(r, d, sharing) THEN [rec EXCEPT !.state = "delivered"]
    ELSE CASE r.st \in {"delivered", "rejected", "expired"} -> [rec EXCEPT !.state = "waiting"]
           [] r.st = "canceled" -> [rec EXCEPT !.state = "canceled"]
           [] OTHER -> rec

\* receipt: what the end of its copy makes of a device.
AfterReceipt(rec, r, d, sharing) ==
    IF Proves(r, d, sharing) THEN [rec EXCEPT !.state = "delivered"]
    ELSE CASE r.st \in {"delivered", "rejected"} -> [rec EXCEPT !.state = "failed"]
           [] r.st = "canceled" -> [rec EXCEPT !.state = "canceled"]
           [] r.st \in {"expired"} -> Failed([rec EXCEPT !.item = None])
           [] OTHER -> rec

\* refresh_status has news of copy i, and notes it in `sent`.
News(i) ==
    /\ sent[i] # None /\ sent[i].state = "held"
    /\ copy[i].st # "held" \/ Listed(copy[i]) # {}

\* refresh_status and apply_receipts: the news reach the devices of that copy.
Poll(i) ==
    /\ News(i)
    /\ sent' = [sent EXCEPT ![i].state = copy[i].st]
    /\ LET r == [st |-> copy[i].st, to |-> Listed(copy[i])]
           of == {d \in Dev : dev[d].item = i}
       IN  dev' = [d \in Dev |-> IF d \in of /\ dev[d].state = "held"
                                 THEN AfterReceipt(dev[d], r, d, Cardinality(of)) ELSE dev[d]]
    /\ UNCHANGED <<tasks, server, bounds>>

(***************************************************************************)
(* External: the server, its recipients, time and restarts.                *)
(***************************************************************************)
\* A device collects its copy; an older server is then done with it.
ServerTake(i, d) ==
    /\ copy[i] # None /\ copy[i].st = "held" /\ d \in copy[i].to \ copy[i].taken
    /\ got' = got \cup {d}
    /\ copy' = [copy EXCEPT ![i].taken = copy[i].taken \cup {d},
                            ![i].st = IF ~copy[i].lists \/ copy[i].to = copy[i].taken \cup {d}
                                      THEN "delivered" ELSE "held"]
    /\ UNCHANGED <<record, tasks, cancels, bounds>>

\* It ends otherwise: every device took it or turned it down, it expired, or
\* the server lost it.
ServerEnd(i, st) ==
    /\ copy[i] # None /\ copy[i].st = "held"
    /\ st = "delivered" => copy[i].taken # {}
    /\ st = "rejected" => copy[i].taken = {}
    /\ copy' = [copy EXCEPT ![i].st = st]
    /\ UNCHANGED <<record, tasks, cancels, got, bounds>>

\* cancel_on reaches the server (retried until it does).
ServerCancel(i) ==
    /\ i \in cancels /\ cancels' = cancels \ {i}
    /\ copy' = IF copy[i] # None /\ copy[i].st = "held" THEN [copy EXCEPT ![i].st = "canceled"] ELSE copy
    /\ UNCHANGED <<record, tasks, got, bounds>>

TimeOver ==
    /\ ~over /\ over' = TRUE
    /\ UNCHANGED <<record, tasks, server, word, upsets>>

\* The app dies, perhaps before the news it noted reached the record or the
\* cancels it began were sent; started again: recover.
Restart ==
    /\ Upset("crash")
    /\ dev' = WithState(dev, {d \in Dev : Busy(dev[d].state) \/ dev[d].state = "waiting"}, "waiting")
    /\ live' = None /\ runs' = {} /\ holds' = {}
    /\ leg' = [d \in Dev |-> "none"]
    /\ cancels' \in SUBSET cancels
    /\ \E lost \in SUBSET {i \in Item : News(i)} :
          sent' = [i \in Item |-> IF i \in lost THEN [sent[i] EXCEPT !.state = copy[i].st] ELSE sent[i]]
    /\ UNCHANGED <<copy, got, over, word>>

-----------------------------------------------------------------------------
\* After begin: the record is saved and every device has its leg.
Init ==
    /\ dev = [d \in Dev |-> [state |-> "sending", attempts |-> 0, item |-> None]]
    /\ sent = [i \in Item |-> None]
    /\ live = [cancel |-> FALSE, reason |-> None, running |-> Dev]
    /\ runs = {Dev} /\ leg = [d \in Dev |-> "start"] /\ holds = {}
    /\ copy = [i \in Item |-> None] /\ cancels = {} /\ got = {}
    /\ over = FALSE /\ word = "send" /\ upsets = 0

LegStep(d) == LegStart(d) \/ \E out \in Outcome : DirectEnds(d, out)

HoldProgress(h) ==
    \/ HoldStopped(h) \/ HoldChecked(h) \/ HoldQueue(h)
    \/ \E S \in SUBSET h.devs : HoldSplit(h, S) \/ \E i \in Item : HoldDeposit(h, S, i)
    \/ \E lists \in BOOLEAN : UploadStored(h, lists)
    \/ UploadFails(h, "uploading", {})
    \/ \E back \in {{}, {h.item}} : UploadFails(h, "rejected", back)
    \/ UploadCanceled(h) \/ UploadGoDirect(h) \/ HoldAgain(h) \/ HoldResult(h) \/ HoldMark(h)

RunProgress == \E r \in runs : HoldStart(r) \/ RunEnd(r)

Next ==
    \/ \E d \in Dev : LegStep(d)
    \/ \E h \in holds : HoldProgress(h)
    \/ RunProgress
    \/ \E S \in SUBSET Dev : RetryDue(S)
    \/ GiveUp \/ Resume
    \/ \E reason \in StopStates : Stop(reason)
    \/ \E i \in Item : Poll(i) \/ ServerCancel(i)
    \/ \E i \in Item, d \in Dev : ServerTake(i, d)
    \/ \E i \in Item, st \in {"delivered", "rejected", "expired"} : ServerEnd(i, st)
    \/ TimeOver \/ Restart

Spec == Init /\ [][Next]_vars
-----------------------------------------------------------------------------
\* Types of the variables.
TypeOK ==
    /\ dev \in [Dev -> Delivery]
    /\ sent \in [Item -> Sent \cup {None}]
    /\ live \in Live \cup {None}
    /\ runs \subseteq SUBSET Dev
    /\ leg \in [Dev -> {"none", "start", "direct", "offline"}]
    /\ holds \subseteq Hold
    /\ copy \in [Item -> Copy \cup {None}]
    /\ cancels \subseteq Item /\ got \subseteq Dev /\ over \in BOOLEAN
    /\ word \in StopStates \cup {"send"}
    /\ upsets \in 0..MaxUpsets

(***************************************************************************)
(* Safety.                                                                 *)
(***************************************************************************)
\* "Delivered" under a device is true: it has the files, by its leg or from a
\* server, old servers that do not say who took a shared copy included.
DeliveredIsTrue == \A d \in Dev : dev[d].state = "delivered" => d \in got

\* The device turned the server's copy down: it is "never push[ed] at them
\* directly instead", unless the user sends it again.
RefusalIsRespected ==
    [][\A d \in Dev :
        (/\ dev[d].state = "held" /\ dev'[d].state # "held"
         /\ copy[dev[d].item].st = "rejected")
        => dev'[d].state \in {"failed"} \cup StopStates]_vars

(***************************************************************************)
(* Liveness.  The tasks run (a transfer has its own timeouts, LegGuard     *)
(* reports a leg that died), though none is promised its turn before the   *)
(* others; the queue is looked at every minute, and 30 days pass.          *)
(***************************************************************************)
TaskStep ==
    \/ \E d \in Dev : LegStep(d)
    \/ \E h \in holds : HoldProgress(h)
    \/ RunProgress
    \/ \E S \in SUBSET Dev : RetryDue(S)

Fairness == WF_vars(TaskStep) /\ WF_vars(GiveUp) /\ WF_vars(TimeOver)

FairSpec == Spec /\ Fairness

\* A device left "uploading" when no task works on it: a device found at the
\* door (GoDirect) that cannot be reached after all, whose leg ends while the
\* check for what is still owed does not count "uploading".
Stranded(d) == dev[d].state = "uploading" /\ d \notin Running

\* Nobody waits for ever: in the end every device has the files, or a server
\* holds them for it, or the send to it ended with a word to the user; whatever
\* is stopped, resumed or restarted meanwhile.
EveryDeviceSettles ==
    <>[](\A d \in Dev :
            \/ dev[d].state \in {"delivered", "held", "failed", "declined"} \cup StopStates
            \/ Stranded(d))
=============================================================================
