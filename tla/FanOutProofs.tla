---------------------------- MODULE FanOutProofs ----------------------------
(***************************************************************************)
(* Theorems about FanOut, for every value of its constants.                *)
(***************************************************************************)
EXTENDS FanOut, FiniteSetTheorems, TLAPS

(***************************************************************************)
(* The invariant.                                                          *)
(***************************************************************************)
\* Somebody works on device d: its leg, or a hold that will write its state.
Worked(d) ==
    \/ leg[d] # "none"
    \/ \E h \in holds : d \in h.later \/ (d \in h.devs /\ h.pc # "again")

\* A device that was tried too often, or that a server holds it for, rests.
RestInv(d) ==
    /\ dev[d].attempts = MaxAttempts => dev[d].state = "failed" /\ ~ Worked(d)
    /\ dev[d].state = "held" => ~ Worked(d)

\* Runs have their devices to themselves, and those are marked running.
TasksInv ==
    /\ \A r \in runs : r # {}
    /\ \A r, q \in runs : r # q => r \cap q = {}
    /\ Running = UNION runs
    /\ \A d \in Dev : leg[d] # "none" => d \in Running

\* A hold has running devices that did not answer, and once it uploads a copy,
\* that copy is for these devices.
Parts(h) == h.devs \cup h.later

HoldOK(h) ==
    /\ h.devs # {} /\ h.devs \cap h.later = {} /\ Parts(h) \subseteq Running
    /\ \A d \in h.later : leg[d] = "offline"
    /\ h.pc # "again" => \A d \in h.devs : leg[d] = "offline"
    /\ h.pc \in {"upload", "stored", "mark"} =>
          /\ h.item \in Item /\ sent[h.item] # None /\ sent[h.item].to = h.devs
          /\ h.pc # "upload" => copy[h.item] # None

HoldsInv ==
    /\ \A h, g \in holds : h # g => Parts(h) \cap Parts(g) = {}
    /\ \A h \in holds : HoldOK(h)

\* What a server holds is what was sent there, and who took it has it.
CopyInv(i) ==
    /\ copy[i] # None =>
          /\ sent[i] # None /\ copy[i].to = sent[i].to
          /\ copy[i].taken \subseteq copy[i].to \cap got
          /\ copy[i].st = "delivered" => copy[i].taken # {}
          /\ copy[i].st = "rejected" => copy[i].taken = {}
    /\ sent[i] # None /\ sent[i].state = "held" => copy[i] # None

\* A device is held for by a copy that was sent for it; and as long as a copy is
\* held that names nobody, it is the copy of all its devices or of none.
HeldInv(d) ==
    dev[d].state = "held" =>
        LET i == dev[d].item
        IN  /\ i \in Item /\ sent[i] # None /\ d \in sent[i].to
            /\ sent[i].state = "held" /\ ~ copy[i].lists
               => \A e \in sent[i].to : dev[e].state = "held" /\ dev[e].item = i

SendInv ==
    /\ TypeOK /\ TasksInv /\ HoldsInv /\ DeliveredIsTrue
    /\ \A d \in Dev : RestInv(d) /\ HeldInv(d)
    /\ \A i \in Item : CopyInv(i)

(***************************************************************************)
(* How a step may change things: most steps leave alone what servers hold. *)
(***************************************************************************)
\* A device changes only into a state that claims nothing, and never from held.
Quiet ==
    \A d \in Dev :
        \/ dev'[d] = dev[d]
        \/ /\ dev[d].state # "held" /\ dev'[d].state \notin {"held", "delivered"}
           /\ dev'[d].attempts # MaxAttempts

\* Nobody begins to work on a device.
NoMoreWork == \A d \in Dev : Worked(d)' => Worked(d)

\* Copies sent stay sent to the same devices; one becomes held when the server
\* has it and before any device says so.
SentKept ==
    \A i \in Item :
        /\ sent[i] # None => sent'[i] # None /\ sent'[i].to = sent[i].to
        /\ sent'[i] # None /\ sent'[i].state = "held"
           => \/ sent[i] # None /\ sent[i].state = "held"
              \/ copy[i] # None /\ \A d \in Dev : ~ (dev[d].state = "held" /\ dev[d].item = i)

\* The step of RefusalIsRespected.
Respected ==
    \A d \in Dev :
        (/\ dev[d].state = "held" /\ dev'[d].state # "held"
         /\ copy[dev[d].item].st = "rejected")
        => dev'[d].state \in {"failed"} \cup StopStates

LEMMA QuietRespects == ASSUME Quiet PROVE Respected
BY DEF Quiet, Respected

\* What the record says of held and delivered devices stays true.
LEMMA DevKept ==
    ASSUME SendInv, Quiet, SentKept, got \subseteq got',
           \A i \in Item : copy[i] # None => copy'[i].lists = copy[i].lists
    PROVE  DeliveredIsTrue' /\ \A d \in Dev : HeldInv(d)'
<1>1. DeliveredIsTrue'
  BY DEF SendInv, DeliveredIsTrue, Quiet
<1>2. ASSUME NEW d \in Dev PROVE HeldInv(d)'
  <2> SUFFICES ASSUME dev'[d].state = "held" PROVE HeldInv(d)'
    BY DEF HeldInv
  <2>1. dev'[d] = dev[d] /\ dev[d].state = "held"
    BY DEF Quiet
  <2>2. PICK i : i = dev[d].item
    OBVIOUS
  <2>3. i \in Item /\ sent[i] # None /\ d \in sent[i].to
    BY <2>1, <2>2 DEF SendInv, HeldInv
  <2>4. sent'[i] # None /\ sent'[i].to = sent[i].to
    BY <2>3 DEF SentKept
  <2>5. ASSUME sent'[i].state = "held", ~ copy'[i].lists, NEW e \in sent'[i].to
        PROVE  dev'[e].state = "held" /\ dev'[e].item = i
    <3>1. sent[i].state = "held"
      BY <2>1, <2>2, <2>3, <2>4, <2>5 DEF SentKept
    <3>2. copy[i] # None
      BY <2>3, <3>1 DEF SendInv, CopyInv
    <3>3. ~ copy[i].lists
      BY <2>3, <2>5, <3>2
    <3>4. dev[e].state = "held" /\ dev[e].item = i
      BY <2>1, <2>2, <2>3, <2>4, <2>5, <3>1, <3>3 DEF SendInv, HeldInv
    <3>5. e \in Dev
      BY <2>3, <2>4, <2>5 DEF SendInv, TypeOK, Sent
    <3>6. QED
      BY <3>4, <3>5 DEF Quiet
  <2>6. QED
    BY <2>1, <2>2, <2>3, <2>4, <2>5 DEF HeldInv
<1>3. QED
  BY <1>1, <1>2

\* Devices that rested still rest.
LEMMA RestKept ==
    ASSUME SendInv, Quiet,
           \A d \in Dev : Worked(d)' => Worked(d) \/ dev'[d] # dev[d]
    PROVE  \A d \in Dev : RestInv(d)'
<1>1. ASSUME NEW d \in Dev PROVE RestInv(d)'
  <2>1. CASE dev'[d] = dev[d]
    BY <2>1 DEF SendInv, RestInv
  <2>2. CASE dev'[d] # dev[d]
    BY <2>2 DEF Quiet, RestInv
  <2>3. QED
    BY <2>1, <2>2
<1>2. QED
  BY <1>1

\* The server's copies are as before.
LEMMA CopiesKept ==
    ASSUME SendInv, SentKept, UNCHANGED copy, got \subseteq got'
    PROVE  \A i \in Item : CopyInv(i)'
BY DEF SendInv, SentKept, CopyInv

\* What a hold relies on outside itself.
LEMMA HoldKept ==
    ASSUME NEW h \in Hold, HoldOK(h), Parts(h) \subseteq Running',
           \A d \in Parts(h) : leg'[d] = leg[d],
           \A i \in Item : sent[i] # None => sent'[i] # None /\ sent'[i].to = sent[i].to,
           \A i \in Item : copy[i] # None => copy'[i] # None
    PROVE  HoldOK(h)'
BY DEF HoldOK, Parts

\* No hold is touched.
LEMMA HoldsUntouched ==
    ASSUME SendInv, UNCHANGED holds, \A h \in holds : Parts(h) \subseteq Running',
           \A h \in holds : \A d \in Parts(h) : leg'[d] = leg[d],
           \A i \in Item : sent[i] # None => sent'[i] # None /\ sent'[i].to = sent[i].to,
           \A i \in Item : copy[i] # None => copy'[i] # None
    PROVE  HoldsInv'
<1>1. \A h \in holds : HoldOK(h)'
  BY HoldKept DEF SendInv, HoldsInv, TypeOK
<1>2. QED
  BY <1>1 DEF SendInv, HoldsInv, Parts

\* The devices a task holds are worked on: not held, and not tried too often.
LEMMA HeldOut ==
    ASSUME SendInv, NEW h \in holds, NEW d \in h.devs,
           h.pc # "again" \/ leg[d] = "offline"
    PROVE  /\ d \in Dev /\ Worked(d) /\ dev[d].state # "held"
           /\ dev[d].attempts # MaxAttempts
<1>1. d \in Dev
  BY DEF SendInv, TypeOK, Hold
<1>2. Worked(d)
  BY DEF Worked
<1>3. QED
  BY <1>1, <1>2 DEF SendInv, RestInv

\* One hold becomes another one of its devices, or ends.
LEMMA HoldReplaced ==
    ASSUME SendInv, NEW h \in holds, NEW G \in SUBSET Hold,
           holds' = (holds \ {h}) \cup G,
           \A f, g \in G : f = g,
           \A g \in G : HoldOK(g)' /\ Parts(g) \subseteq Parts(h),
           leg' \in [Dev -> {"none", "start", "direct", "offline"}],
           \A d \in Dev \ h.devs : leg'[d] = leg[d],
           \A i \in Item : sent[i] # None => sent'[i] # None /\ sent'[i].to = sent[i].to,
           \A i \in Item : copy[i] # None => copy'[i] # None,
           UNCHANGED <<live, runs>>
    PROVE  /\ TasksInv' /\ HoldsInv' /\ holds' \subseteq Hold
<1>1. Running' = Running
  BY DEF Running
<1>2. h \in Hold /\ HoldOK(h)
  BY DEF SendInv, TypeOK, HoldsInv
<1>3. TasksInv'
  <2>1. \A d \in Dev : leg'[d] # "none" => d \in Running
    BY <1>2 DEF SendInv, TasksInv, HoldOK, Parts
  <2>2. QED
    BY <1>1, <2>1 DEF SendInv, TasksInv
<1>4. \A g \in holds \ {h} : g \in Hold /\ HoldOK(g) /\ Parts(g) \cap Parts(h) = {}
  BY DEF SendInv, HoldsInv, TypeOK
<1>5. \A g \in holds \ {h} : HoldOK(g)'
  <2> SUFFICES ASSUME NEW g \in holds \ {h} PROVE HoldOK(g)'
    OBVIOUS
  <2>1. Parts(g) \subseteq Running'
    BY <1>1, <1>4 DEF HoldOK
  <2>2. \A d \in Parts(g) : d \in Dev \ h.devs
    BY <1>4 DEF Parts, Hold
  <2>3. QED
    BY <1>4, <2>1, <2>2, HoldKept
<1>6. \A f, g \in holds' : f # g => Parts(f) \cap Parts(g) = {}
  <2>1. \A f, g \in holds \ {h} : f # g => Parts(f) \cap Parts(g) = {}
    BY DEF SendInv, HoldsInv
  <2>2. QED
    BY <1>4, <2>1
<1>7. holds' \subseteq Hold
  BY <1>4
<1>8. QED
  BY <1>3, <1>5, <1>6, <1>7 DEF HoldsInv

(***************************************************************************)
(* The helpers of the model.                                               *)
(***************************************************************************)
\* update.
LEMMA WithStateType ==
    ASSUME NEW D \in [Dev -> Delivery], NEW S, NEW s \in State
    PROVE  /\ WithState(D, S, s) \in [Dev -> Delivery]
           /\ \A d \in Dev :
                 /\ WithState(D, S, s)[d].attempts = D[d].attempts
                 /\ WithState(D, S, s)[d].item = D[d].item
                 /\ d \in S => WithState(D, S, s)[d].state = s
                 /\ d \notin S => WithState(D, S, s)[d] = D[d]
BY DEF WithState, Delivery

LEMMA WithLegsType ==
    ASSUME SendInv, NEW S, NEW l \in {"none", "start", "direct", "offline"}
    PROVE  /\ WithLegs(S, l) \in [Dev -> {"none", "start", "direct", "offline"}]
           /\ \A d \in Dev : WithLegs(S, l)[d] = IF d \in S THEN l ELSE leg[d]
BY DEF WithLegs, SendInv, TypeOK

\* stop_state.
LEMMA StopStateType == StopState \in StopStates /\ StopStates \subseteq State
BY DEF StopState, StopStates, State

\* Devices nobody held a copy for, and that may still be tried, get a state that
\* claims nothing.
LEMMA StateQuiet ==
    ASSUME SendInv, NEW S \in SUBSET Dev, NEW s \in State \ {"held", "delivered"},
           \A d \in S : dev[d].state # "held" /\ dev[d].attempts # MaxAttempts,
           dev' = WithState(dev, S, s)
    PROVE  Quiet /\ dev' \in [Dev -> Delivery]
<1>1. dev \in [Dev -> Delivery]
  BY DEF SendInv, TypeOK
<1>2. QED
  BY <1>1, WithStateType DEF Quiet

\* A task is done with its devices, or goes on to the next one's own copy.
LEMMA HoldDoneKeeps ==
    ASSUME SendInv, NEW h \in holds, HoldDone(h),
           \A i \in Item : sent[i] # None => sent'[i] # None /\ sent'[i].to = sent[i].to,
           \A i \in Item : copy[i] # None => copy'[i] # None,
           UNCHANGED <<live, runs>>
    PROVE  /\ TasksInv' /\ HoldsInv' /\ holds' \subseteq Hold
           /\ leg' \in [Dev -> {"none", "start", "direct", "offline"}]
           /\ NoMoreWork /\ \A d \in h.devs : ~ Worked(d)'
<1>1. h \in Hold /\ HoldOK(h)
  BY DEF SendInv, TypeOK, HoldsInv
<1>2. /\ leg' \in [Dev -> {"none", "start", "direct", "offline"}]
      /\ \A d \in Dev : leg'[d] = IF d \in h.devs THEN "none" ELSE leg[d]
  BY WithLegsType DEF HoldDone
<1>3. PICK G \in SUBSET Hold :
         /\ holds' = (holds \ {h}) \cup G
         /\ \A f, g \in G : f = g
         /\ \A g \in G : \E d \in h.later : g = [devs |-> {d}, later |-> h.later \ {d},
                                                 pc |-> "check", item |-> None]
  <2>1. CASE h.later = {} /\ holds' = holds \ {h}
    <3>1. {} \in SUBSET Hold /\ holds' = (holds \ {h}) \cup {}
      BY <2>1
    <3>2. QED
      BY <3>1
  <2>2. ASSUME NEW d \in h.later,
               holds' = (holds \ {h}) \cup
                        {[devs |-> {d}, later |-> h.later \ {d}, pc |-> "check", item |-> None]}
        PROVE  \E G \in SUBSET Hold :
                 /\ holds' = (holds \ {h}) \cup G
                 /\ \A f, g \in G : f = g
                 /\ \A g \in G : \E e \in h.later : g = [devs |-> {e}, later |-> h.later \ {e},
                                                         pc |-> "check", item |-> None]
    <3>1. PICK g : g = [devs |-> {d}, later |-> h.later \ {d}, pc |-> "check", item |-> None]
      OBVIOUS
    <3>2. g \in Hold
      BY <1>1, <3>1 DEF Hold
    <3>3. PICK G : G = {g}
      OBVIOUS
    <3>4. G \in SUBSET Hold /\ holds' = (holds \ {h}) \cup G /\ \A f, k \in G : f = k
      BY <2>2, <3>1, <3>2, <3>3
    <3>5. \A k \in G : \E e \in h.later : k = [devs |-> {e}, later |-> h.later \ {e},
                                              pc |-> "check", item |-> None]
      BY <3>1, <3>3
    <3>6. QED
      BY <3>4, <3>5
  <2>3. QED
    BY <2>1, <2>2 DEF HoldDone
<1>4. \A g \in G : HoldOK(g)' /\ Parts(g) \subseteq Parts(h) /\ Parts(g) = h.later
  <2> SUFFICES ASSUME NEW g \in G
               PROVE  HoldOK(g)' /\ Parts(g) \subseteq Parts(h) /\ Parts(g) = h.later
    OBVIOUS
  <2>1. PICK d \in h.later : g = [devs |-> {d}, later |-> h.later \ {d}, pc |-> "check", item |-> None]
    BY <1>3
  <2>2. /\ g.devs = {d} /\ g.later = h.later \ {d} /\ g.pc = "check"
        /\ Parts(g) = h.later /\ Parts(g) \subseteq Parts(h)
    BY <2>1 DEF Parts
  <2>3. \A e \in h.later : e \in Dev /\ leg'[e] = "offline"
    BY <1>1, <1>2 DEF HoldOK, Hold
  <2>4. Running' = Running
    BY DEF Running
  <2>5. QED
    BY <1>1, <2>2, <2>3, <2>4 DEF HoldOK
<1>5. TasksInv' /\ HoldsInv' /\ holds' \subseteq Hold
  BY <1>2, <1>3, <1>4, HoldReplaced
<1>6. NoMoreWork
  <2> SUFFICES ASSUME NEW d \in Dev, Worked(d)' PROVE Worked(d)
    BY DEF NoMoreWork
  <2>1. CASE leg'[d] # "none"
    BY <1>2, <2>1 DEF Worked
  <2>2. ASSUME NEW g \in holds', d \in g.later \/ (d \in g.devs /\ g.pc # "again")
        PROVE  Worked(d)
    <3>1. CASE g \in holds
      BY <2>2, <3>1 DEF Worked
    <3>2. CASE g \in G
      BY <1>4, <2>2, <3>2 DEF Worked, Parts
    <3>3. QED
      BY <1>3, <3>1, <3>2
  <2>3. QED
    BY <2>1, <2>2 DEF Worked
<1>7. \A d \in h.devs : ~ Worked(d)'
  <2> SUFFICES ASSUME NEW d \in h.devs PROVE ~ Worked(d)'
    OBVIOUS
  <2>1. leg'[d] = "none"
    BY <1>1, <1>2 DEF Hold
  <2>2. \A g \in holds \ {h} : d \notin Parts(g)
    BY DEF SendInv, HoldsInv, Parts
  <2>3. \A g \in G : d \notin Parts(g)
    BY <1>1, <1>4 DEF HoldOK
  <2>4. \A g \in holds' : d \notin Parts(g)
    BY <1>3, <2>2, <2>3
  <2>5. QED
    BY <2>1, <2>4 DEF Worked, Parts
<1>8. QED
  BY <1>2, <1>5, <1>6, <1>7

\* A task goes on with some of its devices; legs change only for these.
LEMMA HoldStepKeeps ==
    ASSUME SendInv, NEW h \in holds, NEW g \in Hold, HoldStep(h, g),
           HoldOK(g)', Parts(g) \subseteq Parts(h),
           leg' \in [Dev -> {"none", "start", "direct", "offline"}],
           \A d \in Dev \ h.devs : leg'[d] = leg[d],
           \A i \in Item : sent[i] # None => sent'[i] # None /\ sent'[i].to = sent[i].to,
           \A i \in Item : copy[i] # None => copy'[i] # None,
           UNCHANGED <<live, runs>>
    PROVE  TasksInv' /\ HoldsInv' /\ holds' \subseteq Hold
<1>1. PICK G : G = {g}
  OBVIOUS
<1>2. /\ G \in SUBSET Hold /\ holds' = (holds \ {h}) \cup G
      /\ \A f, k \in G : f = k
      /\ \A k \in G : HoldOK(k)' /\ Parts(k) \subseteq Parts(h)
  BY <1>1 DEF HoldStep
<1>3. QED
  BY <1>2, HoldReplaced

\* It was worked on by its hold or its leg before, if it is now.
LEMMA HoldStepWork ==
    ASSUME SendInv, NEW h \in holds, NEW g \in Hold, HoldStep(h, g),
           Parts(g) \subseteq Parts(h),
           h.pc # "again" \/ (g.later = h.later /\ \A d \in g.devs : leg[d] # "none"),
           \A d \in Dev : leg'[d] # "none" => leg[d] # "none"
    PROVE  NoMoreWork
<1> SUFFICES ASSUME NEW d \in Dev, Worked(d)' PROVE Worked(d)
  BY DEF NoMoreWork
<1>1. h \in Hold /\ HoldOK(h)
  BY DEF SendInv, TypeOK, HoldsInv
<1>2. CASE leg'[d] # "none"
  BY <1>2 DEF Worked
<1>3. ASSUME NEW f \in holds', d \in f.later \/ (d \in f.devs /\ f.pc # "again")
      PROVE  Worked(d)
  <2>1. CASE f \in holds
    BY <1>3, <2>1 DEF Worked
  <2>2. CASE f = g
    <3>1. CASE h.pc # "again"
      BY <1>3, <2>2, <3>1 DEF Worked, Parts
    <3>2. CASE d \in h.later
      BY <3>2 DEF Worked
    <3>3. CASE d \in g.devs /\ leg[d] # "none"
      BY <3>3 DEF Worked
    <3>4. QED
      BY <1>3, <2>2, <3>1, <3>2, <3>3
  <2>3. QED
    BY <2>1, <2>2 DEF HoldStep
<1>4. QED
  BY <1>2, <1>3 DEF Worked

(***************************************************************************)
(* Every step keeps the invariant, and respects a refusal.                 *)
(***************************************************************************)
\* A step that leaves alone the server, and claims nothing new.
LEMMA QuietStep ==
    ASSUME SendInv, Quiet, SentKept, TasksInv', HoldsInv', holds' \subseteq Hold,
           leg' \in [Dev -> {"none", "start", "direct", "offline"}],
           dev' \in [Dev -> Delivery], sent' \in [Item -> Sent \cup {None}],
           live' \in Live \cup {None}, runs' \subseteq SUBSET Dev,
           UNCHANGED <<copy, got, over>>, cancels' \subseteq Item,
           word' \in StopStates \cup {"send"}, upsets' \in 0..MaxUpsets,
           \A d \in Dev : Worked(d)' => Worked(d) \/ dev'[d] # dev[d]
    PROVE  SendInv' /\ Respected
<1>1. TypeOK'
  BY DEF SendInv, TypeOK
<1>2. QED
  BY <1>1, QuietRespects, DevKept, RestKept, CopiesKept DEF SendInv

\* Nothing but the hold, its legs and the record change.
LEMMA HoldQuiet ==
    ASSUME SendInv, NEW h \in holds, HoldDone(h), h.pc # "again",
           NEW s \in State \ {"held", "delivered"}, dev' = WithState(dev, h.devs, s),
           SentKept, sent' \in [Item -> Sent \cup {None}], cancels' \subseteq Item,
           UNCHANGED <<live, runs, copy, got, over, word>>, upsets' \in 0..MaxUpsets
    PROVE  SendInv' /\ Respected
<1>1. h.devs \in SUBSET Dev
  BY DEF SendInv, TypeOK, Hold
<1>2. Quiet /\ dev' \in [Dev -> Delivery]
  BY <1>1, HeldOut, StateQuiet
<1>3. /\ TasksInv' /\ HoldsInv' /\ holds' \subseteq Hold
      /\ leg' \in [Dev -> {"none", "start", "direct", "offline"}] /\ NoMoreWork
  BY HoldDoneKeeps DEF SentKept
<1>4. live' \in Live \cup {None} /\ runs' \subseteq SUBSET Dev /\ word' \in StopStates \cup {"send"}
  BY DEF SendInv, TypeOK
<1>5. QED
  BY <1>2, <1>3, <1>4, QuietStep DEF NoMoreWork

\* The list of copies stays, so it keeps what it says.
LEMMA SentSame == ASSUME UNCHANGED sent PROVE SentKept
BY DEF SentKept

LEMMA HoldStoppedStep ==
    ASSUME SendInv, NEW h \in holds, HoldStopped(h)
    PROVE  SendInv' /\ Respected
<1>1. StopState \in State \ {"held", "delivered"}
  BY StopStateType DEF StopStates
<1>2. h.pc # "again" /\ HoldDone(h) /\ dev' = WithState(dev, h.devs, StopState)
  BY DEF HoldStopped
<1>3. UNCHANGED <<sent, live, runs, copy, cancels, got, over, word, upsets>>
  BY DEF HoldStopped, server, bounds
<1>4. /\ sent' \in [Item -> Sent \cup {None}] /\ cancels' \subseteq Item
      /\ upsets' \in 0..MaxUpsets
  BY <1>3 DEF SendInv, TypeOK
<1>5. QED
  BY <1>1, <1>2, <1>3, <1>4, SentSame, HoldQuiet

LEMMA HoldQueueStep ==
    ASSUME SendInv, NEW h \in holds, HoldQueue(h)
    PROVE  SendInv' /\ Respected
<1>1. "waiting" \in State \ {"held", "delivered"}
  BY DEF State
<1>2. h.pc # "again" /\ HoldDone(h) /\ dev' = WithState(dev, h.devs, "waiting")
  BY DEF HoldQueue
<1>3. UNCHANGED <<sent, live, runs, copy, cancels, got, over, word, upsets>>
  BY DEF HoldQueue, server, bounds
<1>4. /\ sent' \in [Item -> Sent \cup {None}] /\ cancels' \subseteq Item
      /\ upsets' \in 0..MaxUpsets
  BY <1>3 DEF SendInv, TypeOK
<1>5. QED
  BY <1>1, <1>2, <1>3, <1>4, SentSame, HoldQuiet

\* Marking a copy as ended, or as uploading, keeps what the list says.
LEMMA SentMarked ==
    ASSUME SendInv, NEW i \in Item, sent[i] # None,
           NEW s \in {"uploading", "rejected", "canceled"},
           sent' = [sent EXCEPT ![i].state = s]
    PROVE  SentKept /\ sent' \in [Item -> Sent \cup {None}]
<1>1. sent[i] \in Sent
  BY DEF SendInv, TypeOK
<1>2. [sent[i] EXCEPT !.state = s] \in Sent
  BY <1>1 DEF Sent
<1>3. sent' = [sent EXCEPT ![i] = [sent[i] EXCEPT !.state = s]] /\ sent \in [Item -> Sent \cup {None}]
  BY DEF SendInv, TypeOK
<1>4. [sent[i] EXCEPT !.state = s].to = sent[i].to /\ [sent[i] EXCEPT !.state = s].state = s
  BY <1>1 DEF Sent
<1>5. sent' \in [Item -> Sent \cup {None}]
  BY <1>2, <1>3
<1>6. \A j \in Item : sent'[j] = IF j = i THEN [sent[i] EXCEPT !.state = s] ELSE sent[j]
  BY <1>3
<1>7. QED
  BY <1>2, <1>4, <1>5, <1>6, NoneAssumption DEF SentKept

\* A task that uploads a copy for its devices.
LEMMA Uploading ==
    ASSUME SendInv, NEW h \in holds, h.pc \in {"upload", "stored", "mark"}
    PROVE  /\ h.item \in Item /\ sent[h.item] \in Sent /\ sent[h.item] # None
           /\ sent[h.item].to = h.devs
           /\ h.pc # "upload" => copy[h.item] # None
           /\ \A d \in Dev : ~ (dev[d].state = "held" /\ dev[d].item = h.item)
<1>1. h.item \in Item /\ sent[h.item] # None /\ sent[h.item].to = h.devs
      /\ (h.pc # "upload" => copy[h.item] # None)
  BY DEF SendInv, HoldsInv, HoldOK
<1>2. sent[h.item] \in Sent
  BY <1>1 DEF SendInv, TypeOK
<1>3. ASSUME NEW d \in Dev, dev[d].state = "held", dev[d].item = h.item PROVE FALSE
  <2>1. d \in h.devs
    BY <1>1, <1>3 DEF SendInv, HeldInv
  <2>2. QED
    BY <1>3, <2>1, HeldOut
<1>4. QED
  BY <1>1, <1>2, <1>3

LEMMA UploadFailsStep ==
    ASSUME SendInv, NEW h \in holds, NEW s \in {"uploading", "rejected"},
           NEW back \in SUBSET {h.item}, UploadFails(h, s, back)
    PROVE  SendInv' /\ Respected
<1>1. "waiting" \in State \ {"held", "delivered"}
  BY DEF State
<1>2. h.pc = "upload" /\ HoldDone(h) /\ dev' = WithState(dev, h.devs, "waiting")
  BY DEF UploadFails
<1>3. SentKept /\ sent' \in [Item -> Sent \cup {None}] /\ h.item \in Item
  BY <1>2, Uploading, SentMarked DEF UploadFails
<1>4. UNCHANGED <<live, runs, copy, got, over, word, upsets>>
  BY DEF UploadFails, bounds
<1>5. cancels' \subseteq Item /\ upsets' \in 0..MaxUpsets
  BY <1>3, <1>4 DEF UploadFails, SendInv, TypeOK
<1>6. QED
  BY <1>1, <1>2, <1>3, <1>4, <1>5, HoldQuiet

LEMMA UploadCanceledStep ==
    ASSUME SendInv, NEW h \in holds, UploadCanceled(h)
    PROVE  SendInv' /\ Respected
<1>1. StopState \in State \ {"held", "delivered"}
  BY StopStateType DEF StopStates
<1>2. h.pc # "again" /\ HoldDone(h) /\ dev' = WithState(dev, h.devs, StopState)
  BY DEF UploadCanceled
<1>3. UNCHANGED <<sent, live, runs, copy, cancels, got, over, word, upsets>>
  BY DEF UploadCanceled, server, bounds
<1>4. /\ sent' \in [Item -> Sent \cup {None}] /\ cancels' \subseteq Item
      /\ upsets' \in 0..MaxUpsets
  BY <1>3 DEF SendInv, TypeOK
<1>5. QED
  BY <1>1, <1>2, <1>3, <1>4, SentSame, HoldQuiet

\* A hold that goes on, with nothing said of its devices but perhaps that they
\* wait or are being uploaded for.
LEMMA HoldGoesOn ==
    ASSUME SendInv, NEW h \in holds, NEW g \in Hold, HoldStep(h, g), HoldOK(g)',
           Parts(g) \subseteq Parts(h), h.pc # "again" \/ UNCHANGED dev,
           h.pc # "again" \/ (g.later = h.later /\ \A d \in g.devs : leg[d] # "none"),
           leg' \in [Dev -> {"none", "start", "direct", "offline"}],
           \A d \in Dev \ h.devs : leg'[d] = leg[d],
           \A d \in h.devs : leg'[d] # "none" => leg[d] # "none",
           dev' \in [Dev -> Delivery],
           \A d \in Dev \ h.devs : dev'[d] = dev[d],
           \A d \in h.devs : dev'[d] = dev[d] \/
               (dev'[d].state \notin {"held", "delivered"} /\ dev'[d].attempts = dev[d].attempts),
           SentKept, sent' \in [Item -> Sent \cup {None}], cancels' \subseteq Item,
           UNCHANGED <<live, runs, copy, got, over, word>>, upsets' \in 0..MaxUpsets
    PROVE  SendInv' /\ Respected
<1>1. h \in Hold
  BY DEF SendInv, TypeOK
<1>2. TasksInv' /\ HoldsInv' /\ holds' \subseteq Hold
  BY HoldStepKeeps DEF SentKept
<1>3. \A d \in Dev : leg'[d] # "none" => leg[d] # "none"
  BY <1>1 DEF Hold
<1>4. NoMoreWork
  BY <1>3, HoldStepWork
<1>5. Quiet
  <2>1. CASE UNCHANGED dev
    BY <2>1 DEF Quiet
  <2>2. CASE h.pc # "again"
    BY <2>2, HeldOut DEF Quiet
  <2>3. QED
    BY <2>1, <2>2
<1>6. live' \in Live \cup {None} /\ runs' \subseteq SUBSET Dev /\ word' \in StopStates \cup {"send"}
  BY DEF SendInv, TypeOK
<1>7. QED
  BY <1>2, <1>4, <1>5, <1>6, QuietStep DEF NoMoreWork

LEMMA HoldCheckedStep ==
    ASSUME SendInv, NEW h \in holds, HoldChecked(h)
    PROVE  SendInv' /\ Respected
<1>1. h \in Hold /\ HoldOK(h) /\ h.pc = "check"
  BY DEF SendInv, TypeOK, HoldsInv, HoldChecked
<1>2. PICK g : g = [h EXCEPT !.pc = "queue"]
  OBVIOUS
<1>3. g \in Hold /\ g.devs = h.devs /\ g.later = h.later /\ g.pc = "queue"
  BY <1>1, <1>2 DEF Hold
<1>4. UNCHANGED <<dev, sent, live, runs, leg, copy, cancels, got, over, word, upsets>>
  BY DEF HoldChecked, record, server, bounds
<1>5. HoldStep(h, g)
  BY <1>2 DEF HoldChecked
<1>6. Running' = Running
  BY <1>4 DEF Running
<1>7. HoldOK(g)' /\ Parts(g) \subseteq Parts(h)
  BY <1>1, <1>3, <1>4, <1>6 DEF HoldOK, Parts
<1>8. /\ leg' \in [Dev -> {"none", "start", "direct", "offline"}] /\ dev' \in [Dev -> Delivery]
      /\ sent' \in [Item -> Sent \cup {None}] /\ cancels' \subseteq Item /\ upsets' \in 0..MaxUpsets
  BY <1>4 DEF SendInv, TypeOK
<1>9. SentKept
  BY <1>4, SentSame
<1>10. QED
  BY <1>1, <1>3, <1>4, <1>5, <1>7, <1>8, <1>9, HoldGoesOn

\* The devices of S are uploaded for, the others of the task wait.
LEMMA Queued ==
    ASSUME SendInv, NEW h \in holds, NEW S \in SUBSET h.devs,
           dev' = WithState(WithState(dev, h.devs \ S, "waiting"), S, "uploading")
    PROVE  /\ dev' \in [Dev -> Delivery]
           /\ \A d \in Dev \ h.devs : dev'[d] = dev[d]
           /\ \A d \in h.devs : /\ dev'[d].state \notin {"held", "delivered"}
                                /\ dev'[d].attempts = dev[d].attempts
<1>1. dev \in [Dev -> Delivery] /\ h.devs \subseteq Dev
  BY DEF SendInv, TypeOK, Hold
<1>2. {"waiting", "uploading"} \subseteq State
  BY DEF State
<1>3. PICK D : D = WithState(dev, h.devs \ S, "waiting")
  OBVIOUS
<1>4. /\ D \in [Dev -> Delivery]
      /\ \A d \in Dev : /\ D[d].attempts = dev[d].attempts
                        /\ d \in h.devs \ S => D[d].state = "waiting"
                        /\ d \notin h.devs \ S => D[d] = dev[d]
  BY <1>1, <1>2, <1>3, WithStateType
<1>5. /\ dev' \in [Dev -> Delivery]
      /\ \A d \in Dev : /\ dev'[d].attempts = D[d].attempts
                        /\ d \in S => dev'[d].state = "uploading"
                        /\ d \notin S => dev'[d] = D[d]
  <2>1. dev' = WithState(D, S, "uploading")
    BY <1>3
  <2>2. /\ WithState(D, S, "uploading") \in [Dev -> Delivery]
        /\ \A d \in Dev :
              /\ WithState(D, S, "uploading")[d].attempts = D[d].attempts
              /\ d \in S => WithState(D, S, "uploading")[d].state = "uploading"
              /\ d \notin S => WithState(D, S, "uploading")[d] = D[d]
    <3>1. "uploading" \in State /\ D \in [Dev -> Delivery]
      BY <1>2, <1>4
    <3>2. QED
      BY ONLY <3>1, WithStateType
  <2>3. QED
    BY <2>1, <2>2
<1>6. QED
  BY <1>1, <1>4, <1>5

LEMMA HoldDepositStep ==
    ASSUME SendInv, NEW h \in holds, NEW S \in SUBSET h.devs, NEW i \in Item, HoldDeposit(h, S, i)
    PROVE  SendInv' /\ Respected
<1>1. h \in Hold /\ HoldOK(h) /\ h.pc = "queue" /\ h.devs \subseteq Dev
  BY DEF SendInv, TypeOK, HoldsInv, HoldDeposit, Hold
<1>2. PICK g : g = [h EXCEPT !.devs = S, !.pc = "upload", !.item = i]
  OBVIOUS
<1>3. g \in Hold /\ g.devs = S /\ g.later = h.later /\ g.pc = "upload" /\ g.item = i
  BY <1>1, <1>2 DEF Hold
<1>4. UNCHANGED <<live, runs, copy, cancels, got, over, word, upsets>>
  BY DEF HoldDeposit, server, bounds
<1>5. HoldStep(h, g) /\ S # {}
  BY <1>2 DEF HoldDeposit
<1>6. Running' = Running
  BY <1>4 DEF Running
<1>7. /\ leg' \in [Dev -> {"none", "start", "direct", "offline"}]
      /\ \A d \in Dev : leg'[d] = IF d \in h.devs \ S THEN "none" ELSE leg[d]
  BY WithLegsType DEF HoldDeposit
<1>8. PICK s : s = [state |-> "uploading", to |-> S]
  OBVIOUS
<1>9. s \in Sent /\ s # None /\ s.to = S /\ s.state = "uploading"
  BY <1>1, <1>8, NoneAssumption DEF Sent
<1>10. /\ sent' \in [Item -> Sent \cup {None}]
       /\ \A j \in Item : sent'[j] = IF j = i THEN s ELSE sent[j]
  <2>1. sent' = [sent EXCEPT ![i] = s]
    BY <1>8 DEF HoldDeposit
  <2>2. QED
    BY <1>9, <2>1 DEF SendInv, TypeOK
<1>11. sent[i] = None \/ sent[i].to = S
  BY DEF HoldDeposit, Resumable, Unused
<1>12. SentKept
  BY <1>9, <1>10, <1>11 DEF SentKept
<1>13. HoldOK(g)' /\ Parts(g) \subseteq Parts(h)
  <2>1. Parts(g) \subseteq Parts(h)
    BY <1>3 DEF Parts
  <2>2. \A d \in S \cup h.later : d \in Dev /\ leg'[d] = "offline"
    BY <1>1, <1>7 DEF HoldOK, Hold
  <2>3. sent'[i] # None /\ sent'[i].to = S
    BY <1>9, <1>10
  <2>4. QED
    BY <1>1, <1>3, <1>5, <1>6, <2>1, <2>2, <2>3 DEF HoldOK
<1>14. cancels' \subseteq Item /\ upsets' \in 0..MaxUpsets
  BY <1>4 DEF SendInv, TypeOK
<1>15. /\ dev' \in [Dev -> Delivery]
       /\ \A d \in Dev \ h.devs : dev'[d] = dev[d]
       /\ \A d \in h.devs : /\ dev'[d].state \notin {"held", "delivered"}
                            /\ dev'[d].attempts = dev[d].attempts
  BY Queued DEF HoldDeposit
<1>16. QED
  BY <1>1, <1>3, <1>4, <1>5, <1>7, <1>10, <1>12, <1>13, <1>14, <1>15, HoldGoesOn

LEMMA HoldSplitStep ==
    ASSUME SendInv, NEW h \in holds, NEW S \in SUBSET h.devs, HoldSplit(h, S)
    PROVE  SendInv' /\ Respected
<1>1. h \in Hold /\ HoldOK(h) /\ h.pc = "queue" /\ h.devs \subseteq Dev
  BY DEF SendInv, TypeOK, HoldsInv, HoldSplit, Hold
<1>2. PICK e \in S : HoldStep(h, [h EXCEPT !.devs = {e}, !.later = h.later \cup (S \ {e}), !.pc = "check"])
  BY DEF HoldSplit
<1>3. PICK g : g = [h EXCEPT !.devs = {e}, !.later = h.later \cup (S \ {e}), !.pc = "check"]
  OBVIOUS
<1>4. g \in Hold /\ g.devs = {e} /\ g.later = h.later \cup (S \ {e}) /\ g.pc = "check"
  BY <1>1, <1>3 DEF Hold
<1>5. UNCHANGED <<sent, live, runs, copy, cancels, got, over, word, upsets>>
  BY DEF HoldSplit, server, bounds
<1>6. HoldStep(h, g) /\ Running' = Running
  BY <1>2, <1>3, <1>5 DEF Running
<1>7. /\ leg' \in [Dev -> {"none", "start", "direct", "offline"}]
      /\ \A d \in Dev : leg'[d] = IF d \in h.devs \ S THEN "none" ELSE leg[d]
  BY WithLegsType DEF HoldSplit
<1>8. HoldOK(g)' /\ Parts(g) \subseteq Parts(h)
  <2>1. Parts(g) \subseteq Parts(h)
    BY <1>4 DEF Parts
  <2>2. \A d \in S \cup h.later : d \in Dev /\ leg'[d] = "offline"
    BY <1>1, <1>7 DEF HoldOK, Hold
  <2>3. e \notin g.later
    BY <1>1, <1>4 DEF HoldOK
  <2>4. QED
    BY <1>1, <1>4, <1>6, <2>1, <2>2, <2>3 DEF HoldOK
<1>9. /\ sent' \in [Item -> Sent \cup {None}] /\ cancels' \subseteq Item /\ upsets' \in 0..MaxUpsets
  BY <1>5 DEF SendInv, TypeOK
<1>10. SentKept
  BY <1>5, SentSame
<1>11. /\ dev' \in [Dev -> Delivery]
       /\ \A d \in Dev \ h.devs : dev'[d] = dev[d]
       /\ \A d \in h.devs : /\ dev'[d].state \notin {"held", "delivered"}
                            /\ dev'[d].attempts = dev[d].attempts
  BY Queued DEF HoldSplit
<1>12. QED
  BY <1>1, <1>4, <1>5, <1>6, <1>7, <1>8, <1>9, <1>10, <1>11, HoldGoesOn

\* A device was found at the door: the copy is dropped, and legs begin.
LEMMA UploadGoDirectStep ==
    ASSUME SendInv, NEW h \in holds, UploadGoDirect(h)
    PROVE  SendInv' /\ Respected
<1>1. h \in Hold /\ HoldOK(h) /\ h.pc = "upload" /\ h.devs \subseteq Dev
  BY DEF SendInv, TypeOK, HoldsInv, UploadGoDirect, Hold
<1>2. PICK g : g = [h EXCEPT !.pc = "again", !.item = None]
  OBVIOUS
<1>3. g \in Hold /\ g.devs = h.devs /\ g.later = h.later /\ g.pc = "again"
  BY <1>1, <1>2 DEF Hold
<1>4. UNCHANGED <<dev, live, runs, copy, got, over, word>>
  BY DEF UploadGoDirect
<1>5. HoldStep(h, g) /\ Running' = Running
  BY <1>2, <1>4 DEF UploadGoDirect, Running
<1>6. /\ leg' \in [Dev -> {"none", "start", "direct", "offline"}]
      /\ \A d \in Dev : leg'[d] = IF d \in h.devs THEN "start" ELSE leg[d]
  BY WithLegsType DEF UploadGoDirect
<1>7. SentKept /\ sent' \in [Item -> Sent \cup {None}] /\ h.item \in Item
  BY <1>1, Uploading, SentMarked DEF UploadGoDirect
<1>8. HoldOK(g)' /\ Parts(g) \subseteq Parts(h)
  <2>1. \A d \in h.later : d \in Dev /\ leg'[d] = "offline"
    BY <1>1, <1>6 DEF HoldOK, Hold
  <2>2. QED
    BY <1>1, <1>3, <1>5, <2>1 DEF HoldOK, Parts
<1>9. TasksInv' /\ HoldsInv' /\ holds' \subseteq Hold
  BY <1>3, <1>4, <1>5, <1>6, <1>7, <1>8, HoldStepKeeps DEF SentKept
<1>10. ASSUME NEW d \in Dev, Worked(d)' PROVE Worked(d)
  <2>1. CASE d \in h.devs
    BY <1>1, <2>1 DEF Worked
  <2>2. CASE d \notin h.devs
    <3>1. leg'[d] = leg[d]
      BY <1>6, <2>2
    <3>2. \A f \in holds' : d \in f.later \/ (d \in f.devs /\ f.pc # "again") => Worked(d)
      BY <1>3, <1>5, <2>2 DEF HoldStep, Worked
    <3>3. QED
      BY <1>10, <3>1, <3>2 DEF Worked
  <2>3. QED
    BY <2>1, <2>2
<1>11. Quiet
  BY <1>4 DEF Quiet
<1>12. /\ dev' \in [Dev -> Delivery] /\ live' \in Live \cup {None} /\ runs' \subseteq SUBSET Dev
       /\ cancels' \subseteq Item /\ word' \in StopStates \cup {"send"}
  BY <1>4, <1>7 DEF SendInv, TypeOK, UploadGoDirect
<1>13. upsets' \in 0..MaxUpsets
  BY FanOutAssumption DEF UploadGoDirect, Upset, SendInv, TypeOK
<1>14. QED
  BY <1>4, <1>6, <1>7, <1>9, <1>10, <1>11, <1>12, <1>13, QuietStep

LEMMA HoldAgainStep ==
    ASSUME SendInv, NEW h \in holds, HoldAgain(h)
    PROVE  SendInv' /\ Respected
<1> DEFINE still == {d \in h.devs : leg[d] = "offline"}
<1>1. h \in Hold /\ HoldOK(h) /\ h.pc = "again" /\ h.devs \subseteq Dev
  BY DEF SendInv, TypeOK, HoldsInv, HoldAgain, Hold
<1>2. UNCHANGED <<dev, sent, live, runs, copy, cancels, got, over, word, upsets>>
  BY DEF HoldAgain, record, server, bounds
<1>3. /\ dev' \in [Dev -> Delivery] /\ live' \in Live \cup {None} /\ runs' \subseteq SUBSET Dev
      /\ sent' \in [Item -> Sent \cup {None}] /\ cancels' \subseteq Item
      /\ word' \in StopStates \cup {"send"} /\ upsets' \in 0..MaxUpsets
  BY <1>2 DEF SendInv, TypeOK
<1>4. SentKept /\ Quiet
  BY <1>2, SentSame DEF Quiet
<1>5. CASE still = {}
  <2>1. HoldDone(h)
    BY <1>5 DEF HoldAgain
  <2>2. /\ TasksInv' /\ HoldsInv' /\ holds' \subseteq Hold
        /\ leg' \in [Dev -> {"none", "start", "direct", "offline"}] /\ NoMoreWork
    BY <1>2, <2>1, HoldDoneKeeps
  <2>3. QED
    BY <1>2, <1>3, <1>4, <2>2, QuietStep DEF NoMoreWork
<1>6. CASE still # {}
  <2>1. PICK g : g = [h EXCEPT !.devs = still, !.pc = "check"]
    OBVIOUS
  <2>2. HoldStep(h, g) /\ UNCHANGED leg
    BY <1>6, <2>1 DEF HoldAgain
  <2>3. g \in Hold /\ g.devs = still /\ g.later = h.later /\ g.pc = "check"
    BY <1>1, <2>1 DEF Hold
  <2>4. Running' = Running
    BY <1>2 DEF Running
  <2>5. HoldOK(g)' /\ Parts(g) \subseteq Parts(h)
    BY <1>1, <1>6, <2>2, <2>3, <2>4 DEF HoldOK, Parts
  <2>6. leg' \in [Dev -> {"none", "start", "direct", "offline"}]
    BY <2>2 DEF SendInv, TypeOK
  <2>7. TasksInv' /\ HoldsInv' /\ holds' \subseteq Hold
    BY <1>2, <2>2, <2>3, <2>5, <2>6, HoldStepKeeps
  <2>8. NoMoreWork
    BY <2>2, <2>3, <2>5, HoldStepWork
  <2>9. QED
    BY <1>2, <1>3, <1>4, <2>6, <2>7, <2>8, QuietStep DEF NoMoreWork
<1>7. QED
  BY <1>5, <1>6

\* abandon: the copies of S are taken back.
LEMMA AbandonKept ==
    ASSUME SendInv, NEW S \in SUBSET Item, \A i \in S : sent[i] # None,
           sent' = AbandonSent(S)
    PROVE  /\ SentKept /\ sent' \in [Item -> Sent \cup {None}]
           /\ \A i \in S : sent'[i].state = "canceled"
<1>1. \A i \in S : /\ [sent[i] EXCEPT !.state = "canceled"] \in Sent
                   /\ [sent[i] EXCEPT !.state = "canceled"].to = sent[i].to
                   /\ [sent[i] EXCEPT !.state = "canceled"].state = "canceled"
  BY DEF SendInv, TypeOK, Sent
<1>2. \A i \in Item : sent'[i] = IF i \in S THEN [sent[i] EXCEPT !.state = "canceled"] ELSE sent[i]
  BY DEF AbandonSent
<1>3. \A i \in Item : sent'[i] \in Sent \cup {None}
  BY <1>1, <1>2 DEF SendInv, TypeOK
<1>4. sent' \in [Item -> Sent \cup {None}]
  BY <1>3 DEF AbandonSent
<1>5. QED
  BY <1>1, <1>2, <1>4, NoneAssumption DEF SentKept

\* The copy of a task's devices is held, which no device says yet.
LEMMA SentHeld ==
    ASSUME SendInv, NEW h \in holds, h.pc = "stored",
           sent' = [sent EXCEPT ![h.item].state = "held"]
    PROVE  SentKept /\ sent' \in [Item -> Sent \cup {None}]
<1>1. /\ h.item \in Item /\ sent[h.item] \in Sent /\ sent[h.item] # None
      /\ copy[h.item] # None
      /\ \A d \in Dev : ~ (dev[d].state = "held" /\ dev[d].item = h.item)
  BY Uploading
<1>2. PICK s : s = [sent[h.item] EXCEPT !.state = "held"]
  OBVIOUS
<1>3. s \in Sent /\ s.to = sent[h.item].to
  BY <1>1, <1>2 DEF Sent
<1>4. sent' = [sent EXCEPT ![h.item] = s] /\ sent \in [Item -> Sent \cup {None}]
  BY <1>2 DEF SendInv, TypeOK
<1>5. /\ sent' \in [Item -> Sent \cup {None}]
      /\ \A i \in Item : sent'[i] = IF i = h.item THEN s ELSE sent[i]
  BY <1>3, <1>4
<1>6. QED
  BY <1>1, <1>3, <1>5, NoneAssumption DEF SentKept

LEMMA HoldResultStep ==
    ASSUME SendInv, NEW h \in holds, HoldResult(h)
    PROVE  SendInv' /\ Respected
<1>1. h \in Hold /\ HoldOK(h) /\ h.pc = "stored" /\ h.devs \subseteq Dev
  BY DEF SendInv, TypeOK, HoldsInv, HoldResult, Hold
<1>2. UNCHANGED <<live, runs, copy, got, over, word, upsets>>
  BY DEF HoldResult, bounds
<1>3. upsets' \in 0..MaxUpsets
  BY <1>2 DEF SendInv, TypeOK
<1>4. /\ h.item \in Item /\ sent[h.item] \in Sent /\ sent[h.item] # None
      /\ sent[h.item].to = h.devs /\ copy[h.item] # None
  BY <1>1, Uploading
<1>5. CASE ~ Canceled
  <2>1. PICK g : g = [h EXCEPT !.pc = "mark"]
    OBVIOUS
  <2>2. g \in Hold /\ g.devs = h.devs /\ g.later = h.later /\ g.pc = "mark" /\ g.item = h.item
    BY <1>1, <2>1 DEF Hold
  <2>3. HoldStep(h, g) /\ UNCHANGED <<dev, leg, cancels>>
    BY <1>5, <2>1 DEF HoldResult
  <2>4. SentKept /\ sent' \in [Item -> Sent \cup {None}]
    BY <1>1, <1>5, SentHeld DEF HoldResult
  <2>5. Running' = Running
    BY <1>2 DEF Running
  <2>6. HoldOK(g)' /\ Parts(g) \subseteq Parts(h)
    <3>1. sent'[h.item] # None /\ sent'[h.item].to = h.devs
      BY <1>4, <2>4 DEF SentKept
    <3>2. QED
      BY <1>1, <1>2, <1>4, <2>2, <2>3, <2>5, <3>1 DEF HoldOK, Parts
  <2>7. /\ leg' \in [Dev -> {"none", "start", "direct", "offline"}] /\ dev' \in [Dev -> Delivery]
        /\ cancels' \subseteq Item
    BY <2>3 DEF SendInv, TypeOK
  <2>8. QED
    BY <1>1, <1>2, <1>3, <2>2, <2>3, <2>4, <2>6, <2>7, HoldGoesOn
<1>6. CASE Canceled
  <2>1. PICK back : /\ back = IF StopState = "canceled" THEN Abandoned \cup {h.item} ELSE {}
                    /\ sent' = IF back = {} THEN [sent EXCEPT ![h.item].state = "held"]
                               ELSE AbandonSent(back)
                    /\ cancels' = cancels \cup back
    BY <1>6 DEF HoldResult
  <2>2. HoldDone(h) /\ dev' = WithState(dev, h.devs, StopState)
    BY <1>6 DEF HoldResult
  <2>3. back \in SUBSET Item /\ \A i \in back : sent[i] # None
    BY <1>4, <2>1 DEF Abandoned
  <2>4. SentKept /\ sent' \in [Item -> Sent \cup {None}]
    BY <1>1, <2>1, <2>3, SentHeld, AbandonKept
  <2>5. cancels' \subseteq Item
    BY <2>1, <2>3 DEF SendInv, TypeOK
  <2>6. StopState \in State \ {"held", "delivered"}
    BY StopStateType DEF StopStates
  <2>7. QED
    BY <1>1, <1>2, <1>3, <2>2, <2>4, <2>5, <2>6, HoldQuiet
<1>7. QED
  BY <1>5, <1>6

\* A server has the copy, or has it already from an earlier try.
LEMMA UploadStoredStep ==
    ASSUME SendInv, NEW h \in holds, NEW lists \in BOOLEAN, UploadStored(h, lists)
    PROVE  SendInv' /\ Respected
<1>1. h \in Hold /\ HoldOK(h) /\ h.pc = "upload" /\ h.devs \subseteq Dev
  BY DEF SendInv, TypeOK, HoldsInv, UploadStored, Hold
<1>2. UNCHANGED <<sent, live, runs, cancels, got, over, word>>
  BY DEF UploadStored
<1>3. h.item \in Item /\ sent[h.item] # None /\ sent[h.item].to = h.devs
  BY <1>1, Uploading
<1>4. PICK c : c = [to |-> h.devs, taken |-> {}, st |-> "held", lists |-> lists]
  OBVIOUS
<1>5. /\ c \in Copy /\ c # None /\ c.to = h.devs /\ c.taken = {} /\ c.st = "held"
  BY <1>1, <1>4, NoneAssumption DEF Copy
<1>6. /\ copy' \in [Item -> Copy \cup {None}]
      /\ \A i \in Item : copy'[i] = IF i = h.item /\ copy[i] = None THEN c ELSE copy[i]
  <2>1. copy' = IF copy[h.item] # None THEN copy ELSE [copy EXCEPT ![h.item] = c]
    BY <1>4 DEF UploadStored
  <2>2. copy \in [Item -> Copy \cup {None}]
    BY DEF SendInv, TypeOK
  <2>3. QED
    BY <1>3, <1>5, <2>1, <2>2
<1>7. copy'[h.item] # None /\ \A i \in Item : copy[i] # None => copy'[i] = copy[i]
  BY <1>3, <1>5, <1>6
<1>8. \A i \in Item : CopyInv(i)'
  <2> SUFFICES ASSUME NEW i \in Item PROVE CopyInv(i)'
    OBVIOUS
  <2>1. CopyInv(i)
    BY DEF SendInv
  <2>2. CASE copy'[i] = copy[i]
    BY <1>2, <2>1, <2>2 DEF CopyInv
  <2>3. CASE i = h.item /\ copy'[i] = c
    BY <1>2, <1>3, <1>5, <2>3 DEF CopyInv
  <2>4. QED
    BY <1>6, <2>2, <2>3
<1>9. /\ TasksInv' /\ HoldsInv' /\ holds' \subseteq Hold
      /\ leg' \in [Dev -> {"none", "start", "direct", "offline"}] /\ NoMoreWork
      /\ Quiet /\ dev' \in [Dev -> Delivery] /\ upsets' \in 0..MaxUpsets
  <2>1. CASE HoldStep(h, [h EXCEPT !.pc = "stored"]) /\ UNCHANGED <<dev, leg, upsets>>
    <3>1. PICK g : g = [h EXCEPT !.pc = "stored"]
      OBVIOUS
    <3>2. /\ g \in Hold /\ g.devs = h.devs /\ g.later = h.later /\ g.pc = "stored"
          /\ g.item = h.item /\ HoldStep(h, g)
      BY <1>1, <2>1, <3>1 DEF Hold
    <3>3. Running' = Running
      BY <1>2 DEF Running
    <3>4. HoldOK(g)' /\ Parts(g) \subseteq Parts(h)
      BY <1>1, <1>2, <1>3, <1>7, <2>1, <3>2, <3>3 DEF HoldOK, Parts
    <3>5. leg' \in [Dev -> {"none", "start", "direct", "offline"}] /\ dev' \in [Dev -> Delivery]
          /\ upsets' \in 0..MaxUpsets
      BY <2>1 DEF SendInv, TypeOK
    <3>6. TasksInv' /\ HoldsInv' /\ holds' \subseteq Hold
      BY <1>2, <1>7, <2>1, <3>2, <3>4, <3>5, HoldStepKeeps
    <3>7. NoMoreWork
      BY <1>1, <2>1, <3>2, <3>4, HoldStepWork
    <3>8. Quiet
      BY <2>1 DEF Quiet
    <3>9. QED
      BY <3>5, <3>6, <3>7, <3>8
  <2>2. CASE Upset("reply") /\ dev' = WithState(dev, h.devs, "waiting") /\ HoldDone(h)
    <3>1. /\ TasksInv' /\ HoldsInv' /\ holds' \subseteq Hold
          /\ leg' \in [Dev -> {"none", "start", "direct", "offline"}] /\ NoMoreWork
      BY <1>2, <1>7, <2>2, HoldDoneKeeps
    <3>2. "waiting" \in State \ {"held", "delivered"}
      BY DEF State
    <3>3. Quiet /\ dev' \in [Dev -> Delivery]
      BY <1>1, <2>2, <3>2, HeldOut, StateQuiet
    <3>4. upsets' \in 0..MaxUpsets
      BY <2>2, FanOutAssumption DEF Upset, SendInv, TypeOK
    <3>5. QED
      BY <3>1, <3>3, <3>4
  <2>3. QED
    BY <2>1, <2>2 DEF UploadStored
<1>10. SentKept
  BY <1>2, SentSame
<1>11. DeliveredIsTrue' /\ \A d \in Dev : HeldInv(d)'
  BY <1>2, <1>7, <1>9, <1>10, DevKept
<1>12. \A d \in Dev : RestInv(d)'
  BY <1>9, RestKept DEF NoMoreWork
<1>13. TypeOK'
  BY <1>2, <1>6, <1>9 DEF SendInv, TypeOK
<1>14. QED
  BY <1>8, <1>9, <1>11, <1>12, <1>13, QuietRespects DEF SendInv

\* The devices of the copy learn that it is held.
LEMMA HoldMarkStep ==
    ASSUME SendInv, NEW h \in holds, HoldMark(h)
    PROVE  SendInv' /\ Respected
<1>1. h \in Hold /\ HoldOK(h) /\ h.pc = "mark" /\ h.devs \subseteq Dev
  BY DEF SendInv, TypeOK, HoldsInv, HoldMark, Hold
<1>2. UNCHANGED <<sent, live, runs, copy, cancels, got, over, word, upsets>>
  BY DEF HoldMark, server, bounds
<1>3. /\ h.item \in Item /\ sent[h.item] # None /\ sent[h.item].to = h.devs
  BY <1>1, Uploading
<1>4. /\ dev' \in [Dev -> Delivery]
      /\ \A d \in Dev : d \notin h.devs => dev'[d] = dev[d]
      /\ \A d \in h.devs : /\ dev'[d].state = "held" /\ dev'[d].item = h.item
                           /\ dev'[d].attempts = dev[d].attempts
  <2>1. dev \in [Dev -> Delivery]
    BY DEF SendInv, TypeOK
  <2>2. \A d \in Dev : [dev[d] EXCEPT !.state = "held", !.item = h.item] \in Delivery
    BY <1>3, <2>1 DEF Delivery, State
  <2>3. QED
    BY <1>1, <2>1, <2>2 DEF HoldMark, Delivery
<1>5. \A d \in h.devs : dev[d].state # "held" /\ dev[d].attempts # MaxAttempts
  BY <1>1, HeldOut
<1>6. /\ TasksInv' /\ HoldsInv' /\ holds' \subseteq Hold
      /\ leg' \in [Dev -> {"none", "start", "direct", "offline"}]
      /\ NoMoreWork /\ \A d \in h.devs : ~ Worked(d)'
  BY <1>2, HoldDoneKeeps DEF HoldMark
<1>7. TypeOK'
  BY <1>2, <1>4, <1>6 DEF SendInv, TypeOK
<1>8. DeliveredIsTrue'
  BY <1>2, <1>4 DEF SendInv, DeliveredIsTrue
<1>9. ASSUME NEW d \in Dev PROVE RestInv(d)'
  <2>1. CASE d \in h.devs
    BY <1>4, <1>5, <1>6, <2>1 DEF RestInv
  <2>2. CASE d \notin h.devs
    BY <1>4, <1>6, <2>2 DEF RestInv, NoMoreWork, SendInv
  <2>3. QED
    BY <2>1, <2>2
<1>10. ASSUME NEW d \in Dev PROVE HeldInv(d)'
  <2>1. CASE d \in h.devs
    BY <1>2, <1>3, <1>4, <2>1 DEF HeldInv
  <2>2. CASE d \notin h.devs
    <3> SUFFICES ASSUME dev'[d].state = "held" PROVE HeldInv(d)'
      BY DEF HeldInv
    <3>1. dev'[d] = dev[d] /\ HeldInv(d)
      BY <1>4, <2>2 DEF SendInv
    <3>2. PICK i : i = dev[d].item
      OBVIOUS
    <3>3. /\ i \in Item /\ sent[i] # None /\ d \in sent[i].to
          /\ sent[i].state = "held" /\ ~ copy[i].lists
             => \A e \in sent[i].to : dev[e].state = "held" /\ dev[e].item = i
      BY <3>1, <3>2 DEF HeldInv
    <3>4. \A e \in Dev : dev[e].state = "held" => dev'[e] = dev[e]
      BY <1>4, <1>5
    <3>5. sent[i].to \subseteq Dev
      BY <3>3 DEF SendInv, TypeOK, Sent
    <3>6. QED
      BY <1>2, <3>1, <3>2, <3>3, <3>4, <3>5 DEF HeldInv
  <2>3. QED
    BY <2>1, <2>2
<1>11. \A i \in Item : CopyInv(i)'
  BY <1>2, SentSame, CopiesKept
<1>12. Respected
  BY <1>4, <1>5 DEF Respected
<1>13. QED
  BY <1>6, <1>7, <1>8, <1>9, <1>10, <1>11, <1>12 DEF SendInv

\* Legs that change belong to no hold.
LEMMA LegsApart ==
    ASSUME SendInv, NEW h \in holds, NEW d \in Parts(h), h.pc # "again" \/ d \in h.later
    PROVE  leg[d] = "offline"
BY DEF SendInv, HoldsInv, HoldOK, Parts

\* A leg moves on; a hold that waits for it does not mind.
LEMMA LegMoves ==
    ASSUME SendInv, NEW d \in Dev, NEW l \in {"none", "start", "direct", "offline"},
           leg[d] \in {"start", "direct"}, leg' = WithLegs({d}, l),
           UNCHANGED <<sent, live, runs, holds, copy>>
    PROVE  /\ TasksInv' /\ HoldsInv' /\ holds' \subseteq Hold
           /\ leg' \in [Dev -> {"none", "start", "direct", "offline"}]
           /\ NoMoreWork /\ Worked(d)
           /\ l = "none" => ~ Worked(d)'
<1>1. /\ leg' \in [Dev -> {"none", "start", "direct", "offline"}]
      /\ \A e \in Dev : leg'[e] = IF e = d THEN l ELSE leg[e]
  BY WithLegsType
<1>2. Running' = Running
  BY DEF Running
<1>3. \A h \in holds : h \in Hold /\ HoldOK(h)
  BY DEF SendInv, TypeOK, HoldsInv
<1>4. \A h \in holds : d \notin h.later /\ (h.pc # "again" => d \notin h.devs)
  BY LegsApart DEF Parts
<1>5. \A h \in holds : HoldOK(h)'
  <2> SUFFICES ASSUME NEW h \in holds PROVE HoldOK(h)'
    OBVIOUS
  <2>1. \A e \in h.later : leg'[e] = "offline"
    BY <1>1, <1>3, <1>4 DEF HoldOK, Hold
  <2>2. h.pc # "again" => \A e \in h.devs : leg'[e] = "offline"
    BY <1>1, <1>3, <1>4 DEF HoldOK, Hold
  <2>3. QED
    BY <1>2, <1>3, <2>1, <2>2 DEF HoldOK
<1>6. HoldsInv' /\ holds' \subseteq Hold
  BY <1>5 DEF SendInv, HoldsInv, TypeOK, Parts
<1>7. Worked(d) /\ NoMoreWork
  BY <1>1 DEF Worked, NoMoreWork
<1>8. TasksInv'
  <2>1. d \in Running
    BY DEF SendInv, TasksInv
  <2>2. \A e \in Dev : leg'[e] # "none" => e \in Running
    BY <1>1, <2>1 DEF SendInv, TasksInv
  <2>3. QED
    BY <1>2, <2>2 DEF SendInv, TasksInv
<1>9. l = "none" => ~ Worked(d)'
  BY <1>1, <1>4 DEF Worked
<1>10. QED
  BY <1>1, <1>6, <1>7, <1>8, <1>9

LEMMA LegStartStep ==
    ASSUME SendInv, NEW d \in Dev, LegStart(d)
    PROVE  SendInv' /\ Respected
<1>1. leg[d] = "start" /\ UNCHANGED <<sent, live, runs, holds, copy, cancels, got, over, word, upsets>>
  BY DEF LegStart, server, bounds
<1>2. PICK l \in {"none", "direct"} : leg' = WithLegs({d}, l)
  BY DEF LegStart
<1>3. /\ TasksInv' /\ HoldsInv' /\ holds' \subseteq Hold
      /\ leg' \in [Dev -> {"none", "start", "direct", "offline"}] /\ NoMoreWork /\ Worked(d)
  BY <1>1, <1>2, LegMoves
<1>4. dev[d].state # "held" /\ dev[d].attempts # MaxAttempts
  BY <1>3 DEF SendInv, RestInv
<1>5. dev \in [Dev -> Delivery]
  BY DEF SendInv, TypeOK
<1>6. Quiet /\ dev' \in [Dev -> Delivery]
  <2>1. CASE dev' = WithState(dev, {d}, StopState)
    <3>1. StopState \in State \ {"held", "delivered"}
      BY StopStateType DEF StopStates
    <3>2. QED
      BY <1>4, <2>1, <3>1, StateQuiet
  <2>2. CASE dev' = [dev EXCEPT ![d].state = "sending", ![d].item = None]
    <3>1. PICK r : r = [dev[d] EXCEPT !.state = "sending", !.item = None]
      OBVIOUS
    <3>2. r \in Delivery /\ r.state = "sending" /\ r.attempts = dev[d].attempts
      BY <1>5, <3>1 DEF Delivery, State
    <3>3. dev' = [dev EXCEPT ![d] = r]
      BY <1>5, <2>2, <3>1
    <3>4. QED
      BY <1>4, <1>5, <3>2, <3>3 DEF Quiet
  <2>3. CASE UNCHANGED dev
    BY <1>5, <2>3 DEF Quiet
  <2>4. QED
    BY <2>1, <2>2, <2>3 DEF LegStart
<1>7. /\ sent' \in [Item -> Sent \cup {None}] /\ live' \in Live \cup {None} /\ runs' \subseteq SUBSET Dev
      /\ cancels' \subseteq Item /\ word' \in StopStates \cup {"send"} /\ upsets' \in 0..MaxUpsets
  BY <1>1 DEF SendInv, TypeOK
<1>8. QED
  BY <1>1, <1>3, <1>6, <1>7, SentSame, QuietStep DEF NoMoreWork

\* A failure that was not the last one.
LEMMA FailedType ==
    ASSUME NEW r \in Delivery, r.attempts # MaxAttempts
    PROVE  /\ Failed(r) \in Delivery /\ Failed(r).state \in {"waiting", "failed"}
           /\ Failed(r).attempts = MaxAttempts => Failed(r).state = "failed"
           /\ Failed(r).item = r.item
<1>1. r.attempts \in 0..MaxAttempts /\ MaxAttempts \in Nat
  BY FanOutAssumption DEF Delivery
<1>2. r.attempts + 1 \in 0..MaxAttempts
  BY <1>1
<1>3. /\ Failed(r).attempts = r.attempts + 1 /\ Failed(r).item = r.item
      /\ Failed(r).state = IF r.attempts + 1 >= MaxAttempts THEN "failed" ELSE "waiting"
      /\ Failed(r) \in Delivery
  BY <1>2 DEF Failed, Delivery, State
<1>4. QED
  BY <1>1, <1>2, <1>3

\* A leg ends; what was got is recorded as delivered only when it was.
LEMMA DirectEndsStep ==
    ASSUME SendInv, NEW d \in Dev, NEW out \in Outcome, DirectEnds(d, out)
    PROVE  SendInv' /\ Respected
<1>1. leg[d] = "direct" /\ UNCHANGED <<sent, live, runs, holds, copy, cancels, over, word, upsets>>
  BY DEF DirectEnds, bounds
<1>2. PICK l : l = IF out = "offline" /\ ~Canceled THEN "offline" ELSE "none"
  OBVIOUS
<1>3. leg' = WithLegs({d}, l) /\ l \in {"none", "start", "direct", "offline"}
  BY <1>2 DEF DirectEnds
<1>4. /\ TasksInv' /\ HoldsInv' /\ holds' \subseteq Hold
      /\ leg' \in [Dev -> {"none", "start", "direct", "offline"}] /\ NoMoreWork /\ Worked(d)
      /\ l = "none" => ~ Worked(d)'
  BY <1>1, <1>3, LegMoves
<1>5. dev \in [Dev -> Delivery] /\ got \subseteq Dev
  BY DEF SendInv, TypeOK
<1>6. dev[d].state # "held" /\ dev[d].attempts # MaxAttempts
  BY <1>4 DEF SendInv, RestInv
<1>7. PICK r : r = AfterLeg(dev[d], out)
  OBVIOUS
<1>8. /\ r \in Delivery /\ r.state # "held"
      /\ r.state = "delivered" => d \in got'
      /\ r.attempts = MaxAttempts => r.state = "failed" /\ l = "none"
  <2>1. CASE out = "delivered"
    <3>1. r = [dev[d] EXCEPT !.state = "delivered"] /\ d \in got'
      BY <1>7, <2>1 DEF AfterLeg, DirectEnds
    <3>2. QED
      BY <1>5, <1>6, <3>1 DEF Delivery, State
  <2>2. CASE out # "delivered" /\ Canceled
    <3>1. PICK s : s = StopState
      OBVIOUS
    <3>2. r = [dev[d] EXCEPT !.state = s] /\ s \in State /\ s \in {"paused", "canceled"}
      BY <1>7, <2>2, <3>1, StopStateType DEF AfterLeg, StopStates
    <3>3. QED
      BY <1>5, <1>6, <3>2 DEF Delivery
  <2>3. CASE out = "failed" /\ ~ Canceled
    BY <1>2, <1>5, <1>6, <1>7, <2>3, FailedType DEF AfterLeg
  <2>4. CASE out \in {"offline", "declined", "canceled", "paused"} /\ ~ Canceled
    BY <1>5, <1>6, <1>7, <2>4 DEF AfterLeg, Delivery, State, StopStates
  <2>5. QED
    BY <2>1, <2>2, <2>3, <2>4 DEF Outcome
<1>9. dev' = [dev EXCEPT ![d] = r]
  BY <1>7 DEF DirectEnds
<1>10. /\ dev' \in [Dev -> Delivery]
       /\ \A e \in Dev : dev'[e] = IF e = d THEN r ELSE dev[e]
  BY <1>5, <1>8, <1>9
<1>11. got \subseteq got' /\ got' \subseteq Dev
  BY <1>5 DEF DirectEnds
<1>12. TypeOK'
  BY <1>1, <1>4, <1>10, <1>11 DEF SendInv, TypeOK
<1>13. DeliveredIsTrue'
  BY <1>8, <1>10, <1>11 DEF SendInv, DeliveredIsTrue
<1>14. ASSUME NEW e \in Dev PROVE RestInv(e)'
  <2>1. CASE e = d
    BY <1>4, <1>8, <1>10, <2>1 DEF RestInv
  <2>2. CASE e # d
    BY <1>4, <1>10, <2>2 DEF RestInv, NoMoreWork, SendInv
  <2>3. QED
    BY <2>1, <2>2
<1>15. ASSUME NEW e \in Dev PROVE HeldInv(e)'
  <2> SUFFICES ASSUME dev'[e].state = "held" PROVE HeldInv(e)'
    BY DEF HeldInv
  <2>1. dev'[e] = dev[e] /\ HeldInv(e)
    BY <1>8, <1>10 DEF SendInv
  <2>2. PICK i : i = dev[e].item
    OBVIOUS
  <2>3. /\ i \in Item /\ sent[i] # None /\ e \in sent[i].to
        /\ sent[i].state = "held" /\ ~ copy[i].lists
           => \A f \in sent[i].to : dev[f].state = "held" /\ dev[f].item = i
    BY <2>1, <2>2 DEF HeldInv
  <2>4. sent[i].to \subseteq Dev
    BY <2>3 DEF SendInv, TypeOK, Sent
  <2>5. QED
    BY <1>1, <1>6, <1>10, <2>1, <2>2, <2>3, <2>4 DEF HeldInv
<1>16. \A i \in Item : CopyInv(i)'
  BY <1>1, <1>11, SentSame, CopiesKept
<1>17. Respected
  BY <1>6, <1>10 DEF Respected
<1>18. QED
  BY <1>4, <1>12, <1>13, <1>14, <1>15, <1>16, <1>17 DEF SendInv

\* start: legs begin for the devices no task works on yet.
LEMMA StartKeeps ==
    ASSUME SendInv, NEW S \in SUBSET Dev, S # {}, Start(S),
           UNCHANGED <<sent, copy>>
    PROVE  /\ TasksInv' /\ HoldsInv' /\ holds' \subseteq Hold
           /\ leg' \in [Dev -> {"none", "start", "direct", "offline"}]
           /\ live' \in Live \cup {None} /\ runs' \subseteq SUBSET Dev
           /\ \A d \in Dev \ S : Worked(d)' => Worked(d)
<1> DEFINE fresh == S \ Running
<1>1. /\ leg' \in [Dev -> {"none", "start", "direct", "offline"}]
      /\ \A d \in Dev : leg'[d] = IF d \in fresh THEN "start" ELSE leg[d]
  BY WithLegsType DEF Start
<1>2. UNCHANGED holds
  BY DEF Start
<1>3. /\ runs' = IF fresh = {} THEN runs ELSE runs \cup {fresh}
      /\ live' = IF live = None THEN [cancel |-> FALSE, reason |-> None, running |-> S]
                 ELSE [live EXCEPT !.running = live.running \cup S]
  BY DEF Start
<1>4. live' \in Live /\ live'.running = Running \cup S
  <2>1. CASE live = None
    BY <1>3, <2>1 DEF Running, Live
  <2>2. CASE live \in Live
    <3>1. live # None
      BY <2>2, NoneAssumption
    <3>2. QED
      BY <1>3, <2>2, <3>1 DEF Running, Live
  <2>3. QED
    BY <2>1, <2>2 DEF SendInv, TypeOK
<1>5. Running' = Running \cup S
  BY <1>4, NoneAssumption DEF Running
<1>6. runs' \subseteq SUBSET Dev
  BY <1>3 DEF SendInv, TypeOK
<1>7. TasksInv'
  <2>1. UNION (runs') = (UNION runs) \cup fresh
    <3>1. CASE fresh = {}
      BY <1>3, <3>1
    <3>2. CASE fresh # {}
      BY <1>3, <3>2
    <3>3. QED
      BY <3>1, <3>2
  <2>2. \A r \in runs : r \cap fresh = {}
    BY DEF SendInv, TasksInv
  <2>3. Running = UNION runs /\ \A d \in Dev : leg[d] # "none" => d \in Running
    BY DEF SendInv, TasksInv
  <2>4. Running' = UNION (runs')
    <3>1. Running \cup S = (UNION runs) \cup fresh
      BY <2>3
    <3>2. QED
      BY <1>5, <2>1, <3>1
  <2>5. \A d \in Dev : leg'[d] # "none" => d \in Running'
    BY <1>1, <1>5, <2>3
  <2>6. (\A r \in runs : r # {})' /\ (\A r, q \in runs : r # q => r \cap q = {})'
    BY <1>3, <2>2 DEF SendInv, TasksInv
  <2>7. QED
    BY <2>4, <2>5, <2>6 DEF TasksInv
<1>8. \A h \in holds : /\ Parts(h) \subseteq Running'
                       /\ \A d \in Parts(h) : leg'[d] = leg[d]
  <2>1. \A h \in holds : Parts(h) \subseteq Running /\ Parts(h) \subseteq Dev
    BY DEF SendInv, HoldsInv, HoldOK, TypeOK, Hold, Parts
  <2>2. QED
    BY <1>1, <1>5, <2>1
<1>9. HoldsInv' /\ holds' \subseteq Hold
  <2>1. HoldsInv'
    BY <1>2, <1>8, HoldsUntouched
  <2>2. QED
    BY <1>2, <2>1 DEF SendInv, TypeOK
<1>10. \A d \in Dev \ S : Worked(d)' => Worked(d)
  BY <1>1, <1>2 DEF Worked
<1>11. QED
  BY <1>1, <1>4, <1>6, <1>7, <1>9, <1>10

LEMMA RetryDueStep ==
    ASSUME SendInv, NEW S \in SUBSET Dev, RetryDue(S)
    PROVE  SendInv' /\ Respected
<1>1. S # {} /\ S \subseteq Waiting /\ Start(S)
      /\ UNCHANGED <<dev, sent, copy, cancels, got, over, word, upsets>>
  BY DEF RetryDue, record, server, bounds
<1>2. /\ TasksInv' /\ HoldsInv' /\ holds' \subseteq Hold
      /\ leg' \in [Dev -> {"none", "start", "direct", "offline"}]
      /\ live' \in Live \cup {None} /\ runs' \subseteq SUBSET Dev
      /\ \A d \in Dev \ S : Worked(d)' => Worked(d)
  BY <1>1, StartKeeps
<1>3. TypeOK'
  BY <1>1, <1>2 DEF SendInv, TypeOK
<1>4. Quiet /\ SentKept
  BY <1>1, SentSame DEF Quiet
<1>5. DeliveredIsTrue' /\ (\A d \in Dev : HeldInv(d)') /\ \A i \in Item : CopyInv(i)'
  BY <1>1, <1>4, DevKept, CopiesKept
<1>6. ASSUME NEW d \in Dev PROVE RestInv(d)'
  <2>1. CASE d \in S
    BY <1>1, <2>1 DEF Waiting, RestInv, SendInv
  <2>2. CASE d \notin S
    BY <1>1, <1>2, <2>2 DEF RestInv, SendInv
  <2>3. QED
    BY <2>1, <2>2
<1>7. QED
  BY <1>2, <1>3, <1>4, <1>5, <1>6, QuietRespects DEF SendInv

\* The user sends again: what is owed starts afresh, what is held stays held.
LEMMA ResumeStep ==
    ASSUME SendInv, Resume
    PROVE  SendInv' /\ Respected
<1>1. /\ Start(Owed) /\ Owed \in SUBSET Dev /\ Owed # {}
      /\ UNCHANGED <<sent, copy, cancels, got, over>>
      /\ word' = "send"
  BY DEF Resume, server, Owed
<1>2. /\ TasksInv' /\ HoldsInv' /\ holds' \subseteq Hold
      /\ leg' \in [Dev -> {"none", "start", "direct", "offline"}]
      /\ live' \in Live \cup {None} /\ runs' \subseteq SUBSET Dev
      /\ \A d \in Dev \ Owed : Worked(d)' => Worked(d)
  BY <1>1, StartKeeps
<1>3. /\ dev' \in [Dev -> Delivery]
      /\ \A d \in Dev \ Owed : dev'[d] = dev[d]
      /\ \A d \in Owed : dev'[d].state = "waiting" /\ dev'[d].attempts = 0
  <2>1. \A d \in Dev : /\ [dev[d] EXCEPT !.state = "waiting", !.attempts = 0] \in Delivery
                       /\ [dev[d] EXCEPT !.state = "waiting", !.attempts = 0].state = "waiting"
                       /\ [dev[d] EXCEPT !.state = "waiting", !.attempts = 0].attempts = 0
    <3>1. 0 \in 0..MaxAttempts
      BY FanOutAssumption
    <3>2. dev \in [Dev -> Delivery] /\ "waiting" \in State
      BY DEF SendInv, TypeOK, State
    <3>3. ASSUME NEW x \in Delivery
          PROVE  /\ [x EXCEPT !.state = "waiting", !.attempts = 0] \in Delivery
                 /\ [x EXCEPT !.state = "waiting", !.attempts = 0].state = "waiting"
                 /\ [x EXCEPT !.state = "waiting", !.attempts = 0].attempts = 0
      BY <3>1, <3>2 DEF Delivery
    <3>4. QED
      BY <3>2, <3>3
  <2>2. dev' = [d \in Dev |-> IF d \in Owed
                             THEN [dev[d] EXCEPT !.state = "waiting", !.attempts = 0]
                             ELSE dev[d]]
    BY DEF Resume
  <2>3. QED
    BY <1>1, <2>1, <2>2 DEF SendInv, TypeOK
<1>4. upsets' \in 0..MaxUpsets
  <2>1. upsets \in 0..MaxUpsets /\ upsets < MaxUpsets /\ upsets' = upsets + 1
    BY DEF Resume, Upset, SendInv, TypeOK
  <2>2. QED
    BY <2>1, FanOutAssumption
<1>5. TypeOK'
  BY <1>1, <1>2, <1>3, <1>4 DEF SendInv, TypeOK
<1>6. Quiet /\ SentKept
  <2>1. 0 # MaxAttempts
    BY FanOutAssumption
  <2>2. QED
    BY <1>1, <1>3, <2>1, SentSame DEF Quiet, Owed
<1>7. DeliveredIsTrue' /\ (\A d \in Dev : HeldInv(d)') /\ \A i \in Item : CopyInv(i)'
  BY <1>1, <1>6, DevKept, CopiesKept
<1>8. ASSUME NEW d \in Dev PROVE RestInv(d)'
  <2>1. CASE d \in Owed
    BY <1>3, <2>1, FanOutAssumption DEF RestInv
  <2>2. CASE d \notin Owed
    BY <1>2, <1>3, <2>2 DEF RestInv, SendInv
  <2>3. QED
    BY <2>1, <2>2
<1>9. QED
  BY <1>2, <1>5, <1>6, <1>7, <1>8, QuietRespects DEF SendInv

\* A step of the record alone, in which nobody who rests is disturbed.
LEMMA RecordStep ==
    ASSUME SendInv, NEW S \in SUBSET Dev, NEW s \in State \ {"held", "delivered"},
           dev' = WithState(dev, S, s),
           \A d \in S : dev[d].state \notin {"held", "failed"},
           UNCHANGED <<sent, tasks, copy, cancels, got, over, word>>, upsets' \in 0..MaxUpsets
    PROVE  SendInv' /\ Respected
<1>1. \A d \in S : dev[d].state # "held" /\ dev[d].attempts # MaxAttempts
  BY DEF SendInv, RestInv
<1>2. Quiet /\ dev' \in [Dev -> Delivery]
  BY <1>1, StateQuiet
<1>3. UNCHANGED <<live, runs, leg, holds>>
  BY DEF tasks
<1>4. TasksInv' /\ HoldsInv'
  BY <1>3 DEF SendInv, TasksInv, HoldsInv, HoldOK, Running
<1>5. /\ holds' \subseteq Hold /\ leg' \in [Dev -> {"none", "start", "direct", "offline"}]
      /\ sent' \in [Item -> Sent \cup {None}] /\ live' \in Live \cup {None}
      /\ runs' \subseteq SUBSET Dev /\ cancels' \subseteq Item
      /\ word' \in StopStates \cup {"send"}
  BY <1>3 DEF SendInv, TypeOK
<1>6. \A d \in Dev : Worked(d)' => Worked(d)
  BY <1>3 DEF Worked
<1>7. QED
  BY <1>2, <1>4, <1>5, <1>6, SentSame, QuietStep

LEMMA GiveUpStep ==
    ASSUME SendInv, GiveUp
    PROVE  SendInv' /\ Respected
<1>1. /\ dev' = WithState(dev, {d \in Dev : dev[d].state = "waiting"}, "failed")
      /\ UNCHANGED <<sent, tasks, copy, cancels, got, over, word, upsets>>
  BY DEF GiveUp, server, bounds
<1>2. "failed" \in State \ {"held", "delivered"} /\ upsets' \in 0..MaxUpsets
  BY <1>1 DEF State, SendInv, TypeOK
<1>3. QED
  BY <1>1, <1>2, RecordStep

\* The devices that did not answer get a hold of their own.
LEMMA HoldStartStep ==
    ASSUME SendInv, NEW r \in runs, HoldStart(r)
    PROVE  SendInv' /\ Respected
<1>1. PICK off : off = {d \in r : leg[d] = "offline"} \ Held
  OBVIOUS
<1>2. PICK g : g = [devs |-> off, later |-> {}, pc |-> "check", item |-> None]
  OBVIOUS
<1>3. off # {} /\ holds' = holds \cup {g}
  BY <1>1, <1>2 DEF HoldStart
<1>4. UNCHANGED <<dev, sent, live, runs, leg, copy, cancels, got, over, word, upsets>>
  BY DEF HoldStart, record, server, bounds
<1>5. off \subseteq Dev /\ off \subseteq Running /\ \A d \in off : leg[d] = "offline"
  BY <1>1 DEF SendInv, TypeOK, TasksInv
<1>6. g \in Hold /\ g.devs = off /\ g.later = {} /\ g.pc = "check" /\ Parts(g) = off
  BY <1>2, <1>5 DEF Hold, Parts
<1>7. Running' = Running
  BY <1>4 DEF Running
<1>8. \A h \in holds : HoldOK(h)'
  BY <1>4, <1>7 DEF SendInv, HoldsInv, HoldOK
<1>9. HoldOK(g)'
  BY <1>3, <1>4, <1>5, <1>6, <1>7 DEF HoldOK
<1>10. \A h \in holds : Parts(h) \cap off = {}
  BY <1>1 DEF Held, Parts
<1>11. HoldsInv' /\ holds' \subseteq Hold
  <2>1. \A h, f \in holds' : h # f => Parts(h) \cap Parts(f) = {}
    BY <1>3, <1>6, <1>10 DEF SendInv, HoldsInv
  <2>2. QED
    BY <1>3, <1>6, <1>8, <1>9, <2>1 DEF SendInv, HoldsInv, TypeOK
<1>12. TasksInv'
  BY <1>4, <1>7 DEF SendInv, TasksInv
<1>13. ASSUME NEW d \in Dev, Worked(d)' PROVE Worked(d)
  <2>1. CASE d \in off
    BY <1>5, <2>1 DEF Worked
  <2>2. CASE d \notin off
    BY <1>3, <1>4, <1>6, <1>13, <2>2 DEF Worked
  <2>3. QED
    BY <2>1, <2>2
<1>14. /\ leg' \in [Dev -> {"none", "start", "direct", "offline"}] /\ dev' \in [Dev -> Delivery]
       /\ sent' \in [Item -> Sent \cup {None}] /\ live' \in Live \cup {None}
       /\ runs' \subseteq SUBSET Dev /\ cancels' \subseteq Item
       /\ word' \in StopStates \cup {"send"} /\ upsets' \in 0..MaxUpsets
  BY <1>4 DEF SendInv, TypeOK
<1>15. Quiet /\ SentKept
  BY <1>4, SentSame DEF Quiet
<1>16. QED
  BY <1>4, <1>11, <1>12, <1>13, <1>14, <1>15, QuietStep

\* A task whose devices rest is over; they run no more.
LEMMA RunEndStep ==
    ASSUME SendInv, NEW r \in runs, RunEnd(r)
    PROVE  SendInv' /\ Respected
<1>1. /\ \A d \in r : leg[d] = "none" /\ d \notin Held
      /\ runs' = runs \ {r}
      /\ live' = IF live.running \subseteq r THEN None ELSE [live EXCEPT !.running = live.running \ r]
      /\ UNCHANGED <<dev, sent, leg, holds, copy, cancels, got, over, word, upsets>>
  BY DEF RunEnd, record, server, bounds
<1>2. /\ r # {} /\ Running = UNION runs /\ \A q \in runs : q # r => q \cap r = {}
      /\ r \subseteq Dev
  BY DEF SendInv, TasksInv, TypeOK
<1>3. live \in Live /\ live # None /\ Running = live.running
  BY <1>2 DEF Running, SendInv, TypeOK
<1>4. Running' = Running \ r /\ live' \in Live \cup {None}
  <2>1. CASE live.running \subseteq r
    BY <1>1, <1>3, <2>1 DEF Running
  <2>2. CASE ~ (live.running \subseteq r)
    <3>1. PICK l : l = [live EXCEPT !.running = live.running \ r]
      OBVIOUS
    <3>2. l \in Live /\ l.running = live.running \ r /\ l # None
      BY <1>3, <3>1, NoneAssumption DEF Live
    <3>3. live' = l
      BY <1>1, <2>2, <3>1
    <3>4. QED
      BY <1>3, <3>2, <3>3 DEF Running
  <2>3. QED
    BY <2>1, <2>2
<1>5. TasksInv'
  <2>1. UNION (runs \ {r}) = (UNION runs) \ r
    BY <1>2
  <2>2. \A d \in Dev : leg[d] # "none" => d \in Running \ r
    BY <1>1 DEF SendInv, TasksInv
  <2>3. QED
    BY <1>1, <1>2, <1>4, <2>1, <2>2 DEF SendInv, TasksInv
<1>6. \A h \in holds : Parts(h) \subseteq Running' /\ \A d \in Parts(h) : leg'[d] = leg[d]
  <2>1. \A h \in holds : Parts(h) \subseteq Running /\ Parts(h) \cap r = {}
    BY <1>1 DEF SendInv, HoldsInv, HoldOK, Held, Parts
  <2>2. QED
    BY <1>1, <1>4, <2>1
<1>7. HoldsInv'
  BY <1>1, <1>6, HoldsUntouched
<1>8. /\ holds' \subseteq Hold
      /\ leg' \in [Dev -> {"none", "start", "direct", "offline"}] /\ dev' \in [Dev -> Delivery]
      /\ sent' \in [Item -> Sent \cup {None}] /\ runs' \subseteq SUBSET Dev
      /\ cancels' \subseteq Item /\ word' \in StopStates \cup {"send"} /\ upsets' \in 0..MaxUpsets
  BY <1>1 DEF SendInv, TypeOK
<1>9. Quiet /\ SentKept /\ \A d \in Dev : Worked(d)' => Worked(d)
  BY <1>1, SentSame DEF Quiet, Worked
<1>10. QED
  BY <1>1, <1>4, <1>5, <1>7, <1>8, <1>9, QuietStep

\* The user pauses or cancels: a cancel takes back what any device is held.
LEMMA StopStep ==
    ASSUME SendInv, NEW reason \in StopStates, Stop(reason)
    PROVE  SendInv' /\ Respected
<1> DEFINE S == {d \in Dev : Stoppable(d, reason)}
<1>1. PICK back : /\ back = IF (\E d \in Dev : dev[d].state \in {"held", "uploading"}) /\ reason = "canceled"
                            THEN Abandoned ELSE {}
                  /\ sent' = AbandonSent(back) /\ cancels' = cancels \cup back
  BY DEF Stop
<1>2. /\ word' = reason /\ dev' = WithState(dev, S, reason)
      /\ live' = IF live = None THEN None ELSE [live EXCEPT !.cancel = TRUE, !.reason = reason]
      /\ UNCHANGED <<runs, leg, holds, copy, got, over>>
  BY DEF Stop
<1>3. back \in SUBSET Item /\ \A i \in back : sent[i] # None
  BY <1>1 DEF Abandoned
<1>4. /\ SentKept /\ sent' \in [Item -> Sent \cup {None}] /\ cancels' \subseteq Item
      /\ \A i \in back : sent'[i].state = "canceled"
  BY <1>1, <1>3, AbandonKept DEF SendInv, TypeOK
<1>5. reason \in State \ {"held", "delivered"}
  BY DEF State, StopStates
<1>6. /\ dev' \in [Dev -> Delivery]
      /\ \A d \in Dev : /\ dev'[d].attempts = dev[d].attempts /\ dev'[d].item = dev[d].item
                        /\ d \in S => dev'[d].state = reason
                        /\ d \notin S => dev'[d] = dev[d]
  BY <1>2, <1>5, WithStateType DEF SendInv, TypeOK
<1>7. \A d \in S : /\ dev[d].state # "failed"
                   /\ dev[d].state = "held" => reason = "canceled"
  BY DEF Stoppable, Busy
<1>8. live' \in Live \cup {None} /\ Running' = Running
  <2>1. CASE live = None
    BY <1>2, <2>1 DEF Running
  <2>2. CASE live \in Live
    <3>1. PICK l : l = [live EXCEPT !.cancel = TRUE, !.reason = reason]
      OBVIOUS
    <3>2. l \in Live /\ l.running = live.running /\ l # None /\ live # None
      BY <2>2, <3>1, NoneAssumption DEF Live
    <3>3. live' = l
      BY <1>2, <3>1, <3>2
    <3>4. QED
      BY <3>2, <3>3 DEF Running
  <2>3. QED
    BY <2>1, <2>2 DEF SendInv, TypeOK
<1>9. upsets' \in 0..MaxUpsets
  <2>1. upsets \in 0..MaxUpsets /\ upsets < MaxUpsets /\ upsets' = upsets + 1
    BY DEF Stop, Upset, SendInv, TypeOK
  <2>2. QED
    BY <2>1, FanOutAssumption
<1>10. TypeOK'
  BY <1>2, <1>4, <1>6, <1>8, <1>9 DEF SendInv, TypeOK
<1>11. TasksInv'
  BY <1>2, <1>8 DEF SendInv, TasksInv
<1>12. HoldsInv'
  <2>1. \A h \in holds : Parts(h) \subseteq Running'
    BY <1>8 DEF SendInv, HoldsInv, HoldOK
  <2>2. QED
    BY <1>2, <1>4, <2>1, HoldsUntouched DEF SentKept
<1>13. DeliveredIsTrue'
  BY <1>2, <1>5, <1>6 DEF SendInv, DeliveredIsTrue
<1>14. ASSUME NEW d \in Dev PROVE RestInv(d)'
  <2>1. Worked(d)' => Worked(d)
    BY <1>2 DEF Worked
  <2>2. QED
    BY <1>5, <1>6, <1>7, <2>1 DEF SendInv, RestInv
<1>15. ASSUME NEW d \in Dev PROVE HeldInv(d)'
  <2> SUFFICES ASSUME dev'[d].state = "held" PROVE HeldInv(d)'
    BY DEF HeldInv
  <2>1. dev'[d] = dev[d] /\ HeldInv(d)
    BY <1>5, <1>6 DEF SendInv
  <2>2. PICK i : i = dev[d].item
    OBVIOUS
  <2>3. /\ i \in Item /\ sent[i] # None /\ d \in sent[i].to
        /\ sent[i].state = "held" /\ ~ copy[i].lists
           => \A e \in sent[i].to : dev[e].state = "held" /\ dev[e].item = i
    BY <2>1, <2>2 DEF HeldInv
  <2>4. sent'[i] # None /\ sent'[i].to = sent[i].to /\ sent[i].to \subseteq Dev
    BY <1>4, <2>3 DEF SentKept, SendInv, TypeOK, Sent
  <2>5. ASSUME sent'[i].state = "held", ~ copy'[i].lists, NEW e \in sent'[i].to
        PROVE  dev'[e].state = "held" /\ dev'[e].item = i
    <3>1. i \notin back
      BY <1>4, <2>5
    <3>2. sent'[i] = sent[i]
      BY <1>1, <2>3, <3>1 DEF AbandonSent
    <3>3. i \in Abandoned
      BY <2>3, <2>5, <3>2 DEF Abandoned
    <3>4. reason # "canceled"
      BY <1>1, <2>1, <3>1, <3>3
    <3>5. dev[e].state = "held" /\ dev[e].item = i /\ e \in Dev
      BY <1>2, <2>3, <2>4, <2>5, <3>2
    <3>6. e \notin S
      BY <1>7, <3>4, <3>5
    <3>7. QED
      BY <1>6, <3>5, <3>6
  <2>6. QED
    BY <2>1, <2>2, <2>3, <2>4, <2>5 DEF HeldInv
<1>16. \A i \in Item : CopyInv(i)'
  BY <1>2, <1>4, CopiesKept
<1>17. Respected
  BY <1>6 DEF Respected
<1>18. QED
  BY <1>10, <1>11, <1>12, <1>13, <1>14, <1>15, <1>16, <1>17 DEF SendInv

\* The server's copies change, the record does not.
LEMMA ServerSide ==
    ASSUME SendInv, UNCHANGED <<record, tasks, bounds>>, got \subseteq got',
           copy' \in [Item -> Copy \cup {None}], cancels' \subseteq Item, got' \subseteq Dev,
           \A i \in Item : CopyInv(i)',
           \A i \in Item : copy[i] # None => copy'[i] # None /\ copy'[i].lists = copy[i].lists
    PROVE  SendInv' /\ Respected
<1>1. UNCHANGED <<dev, sent, live, runs, leg, holds, over, word, upsets>>
  BY DEF record, tasks, bounds
<1>2. TypeOK'
  BY <1>1 DEF SendInv, TypeOK
<1>3. Quiet /\ SentKept
  BY <1>1, SentSame DEF Quiet
<1>4. DeliveredIsTrue' /\ \A d \in Dev : HeldInv(d)'
  BY <1>3, DevKept
<1>5. \A d \in Dev : RestInv(d)'
  BY <1>1 DEF SendInv, RestInv, Worked
<1>6. TasksInv' /\ HoldsInv'
  <2>1. Running' = Running
    BY <1>1 DEF Running
  <2>2. \A h \in holds : Parts(h) \subseteq Running'
    BY <2>1 DEF SendInv, HoldsInv, HoldOK
  <2>3. HoldsInv'
    BY <1>1, <2>2, HoldsUntouched
  <2>4. QED
    BY <1>1, <2>1, <2>3 DEF SendInv, TasksInv
<1>7. QED
  BY <1>2, <1>3, <1>4, <1>5, <1>6, QuietRespects DEF SendInv

\* A copy ends in some way, with the devices it was taken by.
LEMMA CopyEnds ==
    ASSUME SendInv, NEW i \in Item, copy[i] # None,
           NEW st \in {"held", "delivered", "rejected", "canceled", "expired"},
           NEW taken \in SUBSET Dev, taken \subseteq copy[i].to \cap got', got \subseteq got',
           st = "delivered" => taken # {}, st = "rejected" => taken = {},
           UNCHANGED sent, copy' = [copy EXCEPT ![i].st = st, ![i].taken = taken]
    PROVE  /\ copy' \in [Item -> Copy \cup {None}] /\ \A j \in Item : CopyInv(j)'
           /\ \A j \in Item : copy[j] # None => copy'[j] # None /\ copy'[j].lists = copy[j].lists
<1>1. copy[i] \in Copy /\ copy \in [Item -> Copy \cup {None}]
  BY DEF SendInv, TypeOK
<1>2. PICK c : c = [copy[i] EXCEPT !.st = st, !.taken = taken]
  OBVIOUS
<1>3. /\ c \in Copy /\ c # None /\ c.st = st /\ c.taken = taken
      /\ c.to = copy[i].to /\ c.lists = copy[i].lists
  BY <1>1, <1>2, NoneAssumption DEF Copy
<1>4. copy' = [copy EXCEPT ![i] = c]
  BY <1>1, <1>2
<1>5. /\ copy' \in [Item -> Copy \cup {None}]
      /\ \A j \in Item : copy'[j] = IF j = i THEN c ELSE copy[j]
  BY <1>1, <1>3, <1>4
<1>6. ASSUME NEW j \in Item PROVE CopyInv(j)'
  <2>1. CopyInv(j)
    BY DEF SendInv
  <2>2. CASE j = i
    BY <1>3, <1>5, <2>1, <2>2 DEF CopyInv
  <2>3. CASE j # i
    BY <1>5, <2>1, <2>3 DEF CopyInv
  <2>4. QED
    BY <2>2, <2>3
<1>7. QED
  BY <1>3, <1>5, <1>6

LEMMA ServerTakeStep ==
    ASSUME SendInv, NEW i \in Item, NEW d \in Dev, ServerTake(i, d)
    PROVE  SendInv' /\ Respected
<1>1. copy[i] # None /\ copy[i].st = "held" /\ d \in copy[i].to \ copy[i].taken /\ got' = got \cup {d}
  BY DEF ServerTake
<1>2. UNCHANGED <<record, tasks, cancels, bounds>> /\ UNCHANGED sent
  BY DEF ServerTake, record
<1>3. copy[i] \in Copy /\ copy \in [Item -> Copy \cup {None}] /\ got \subseteq Dev /\ cancels \subseteq Item
  BY <1>1 DEF SendInv, TypeOK
<1>4. PICK taken : taken = copy[i].taken \cup {d}
  OBVIOUS
<1>5. PICK st \in {"held", "delivered"} :
         copy' = [copy EXCEPT ![i].st = st, ![i].taken = taken]
  BY <1>3, <1>4 DEF ServerTake
<1>6. taken \in SUBSET Dev /\ taken \subseteq copy[i].to \cap got' /\ taken # {}
  BY <1>1, <1>3, <1>4 DEF Copy, SendInv, CopyInv
<1>7. /\ copy' \in [Item -> Copy \cup {None}] /\ \A j \in Item : CopyInv(j)'
      /\ \A j \in Item : copy[j] # None => copy'[j] # None /\ copy'[j].lists = copy[j].lists
  BY <1>1, <1>2, <1>5, <1>6, CopyEnds
<1>8. QED
  BY <1>1, <1>2, <1>3, <1>7, ServerSide

LEMMA ServerEndStep ==
    ASSUME SendInv, NEW i \in Item, NEW st \in {"delivered", "rejected", "expired"}, ServerEnd(i, st)
    PROVE  SendInv' /\ Respected
<1>1. /\ st = "delivered" => copy[i].taken # {}
      /\ st = "rejected" => copy[i].taken = {}
      /\ UNCHANGED <<record, tasks, cancels, got, bounds>> /\ UNCHANGED sent
  BY DEF ServerEnd, record
<1>2. copy[i] # None
  BY DEF ServerEnd
<1>3. copy[i] \in Copy /\ copy \in [Item -> Copy \cup {None}] /\ got \subseteq Dev /\ cancels \subseteq Item
  BY <1>2 DEF SendInv, TypeOK
<1>4. PICK taken : taken = copy[i].taken
  OBVIOUS
<1>5. copy' = [copy EXCEPT ![i].st = st, ![i].taken = taken]
  BY <1>3, <1>4 DEF ServerEnd, Copy
<1>6. taken \in SUBSET Dev /\ taken \subseteq copy[i].to \cap got'
  BY <1>1, <1>2, <1>3, <1>4 DEF Copy, SendInv, CopyInv
<1>7. /\ copy' \in [Item -> Copy \cup {None}] /\ \A j \in Item : CopyInv(j)'
      /\ \A j \in Item : copy[j] # None => copy'[j] # None /\ copy'[j].lists = copy[j].lists
  BY <1>1, <1>2, <1>4, <1>5, <1>6, CopyEnds
<1>8. QED
  BY <1>1, <1>3, <1>7, ServerSide

LEMMA ServerCancelStep ==
    ASSUME SendInv, NEW i \in Item, ServerCancel(i)
    PROVE  SendInv' /\ Respected
<1>1. /\ cancels' \subseteq Item /\ got' \subseteq Dev
      /\ UNCHANGED <<record, tasks, got, bounds>> /\ UNCHANGED sent
  BY DEF ServerCancel, record, SendInv, TypeOK
<1>2. CASE copy[i] # None /\ copy[i].st = "held"
  <2>1. copy[i] \in Copy /\ copy \in [Item -> Copy \cup {None}]
    BY <1>2 DEF SendInv, TypeOK
  <2>2. PICK taken : taken = copy[i].taken
    OBVIOUS
  <2>3. copy' = [copy EXCEPT ![i].st = "canceled", ![i].taken = taken]
    BY <1>2, <2>1, <2>2 DEF ServerCancel, Copy
  <2>4. taken \in SUBSET Dev /\ taken \subseteq copy[i].to \cap got'
    BY <1>1, <1>2, <2>1, <2>2 DEF Copy, SendInv, CopyInv
  <2>5. /\ copy' \in [Item -> Copy \cup {None}] /\ \A j \in Item : CopyInv(j)'
        /\ \A j \in Item : copy[j] # None => copy'[j] # None /\ copy'[j].lists = copy[j].lists
    BY <1>1, <1>2, <2>3, <2>4, CopyEnds
  <2>6. QED
    BY <1>1, <2>5, ServerSide
<1>3. CASE UNCHANGED copy
  <2>1. \A j \in Item : CopyInv(j)'
    BY <1>1, <1>3, SentSame, CopiesKept
  <2>2. copy' \in [Item -> Copy \cup {None}]
    BY <1>3 DEF SendInv, TypeOK
  <2>3. QED
    BY <1>1, <1>3, <2>1, <2>2, ServerSide
<1>4. QED
  BY <1>2, <1>3 DEF ServerCancel

\* News of a copy: delivered is believed when the device is named, or when the
\* copy was for it alone; a refusal and a copy that came to nothing end as failed.
LEMMA PollStep ==
    ASSUME SendInv, NEW i \in Item, Poll(i)
    PROVE  SendInv' /\ Respected
<1> DEFINE r == [st |-> copy[i].st, to |-> Listed(copy[i])]
           of == {d \in Dev : dev[d].item = i}
<1>1. /\ sent[i] # None /\ sent[i].state = "held"
      /\ copy[i].st # "held" \/ Listed(copy[i]) # {}
      /\ UNCHANGED <<live, runs, leg, holds, copy, cancels, got, over, word, upsets>>
  BY DEF Poll, News, tasks, server, bounds
<1>2. /\ copy[i] # None /\ copy[i] \in Copy /\ sent[i] \in Sent /\ copy[i].to = sent[i].to
      /\ copy[i].taken \subseteq copy[i].to \cap got
      /\ copy[i].st = "delivered" => copy[i].taken # {}
      /\ copy[i].st = "rejected" => copy[i].taken = {}
  BY <1>1 DEF SendInv, TypeOK, CopyInv
<1>3. dev \in [Dev -> Delivery] /\ sent \in [Item -> Sent \cup {None}]
  BY DEF SendInv, TypeOK
<1>4. \A d \in Dev : dev'[d] = IF dev[d].item = i /\ dev[d].state = "held"
                               THEN AfterReceipt(dev[d], r, d, Cardinality(of)) ELSE dev[d]
  BY DEF Poll
<1>5. PICK s : s = [sent[i] EXCEPT !.state = copy[i].st]
  OBVIOUS
<1>6. s \in Sent /\ s # None /\ s.state = copy[i].st /\ s.to = sent[i].to
  BY <1>2, <1>5, NoneAssumption DEF Sent, Copy
<1>7. sent' = [sent EXCEPT ![i] = s]
  BY <1>3, <1>5 DEF Poll
<1>8. /\ sent' \in [Item -> Sent \cup {None}]
      /\ \A j \in Item : sent'[j] = IF j = i THEN s ELSE sent[j]
  BY <1>3, <1>6, <1>7
<1>9. SentKept
  BY <1>1, <1>6, <1>8 DEF SentKept
<1>10. ASSUME NEW d \in Dev, dev[d].item = i, dev[d].state = "held", Proves(r, d, Cardinality(of))
       PROVE  d \in got
  <2>1. CASE d \in Listed(copy[i])
    BY <1>2, <2>1 DEF Listed
  <2>2. CASE copy[i].st = "delivered" /\ Listed(copy[i]) = {} /\ Cardinality(of) = 1
    <3>1. copy[i].taken # {} /\ ~ copy[i].lists
      BY <1>2, <2>2 DEF Listed
    <3>2. \A e \in sent[i].to : dev[e].item = i
      BY <1>1, <1>10, <3>1 DEF SendInv, HeldInv
    <3>3. sent[i].to \subseteq of
      BY <1>2, <3>2 DEF Sent
    <3>4. IsFiniteSet(of)
      BY FanOutAssumption, FS_Subset
    <3>5. PICK e : of = {e}
      BY <2>2, <3>4, FS_Singleton
    <3>6. d \in of
      BY <1>10
    <3>7. QED
      BY <1>2, <3>1, <3>3, <3>5, <3>6
  <2>3. QED
    BY <1>10, <2>1, <2>2 DEF Proves
<1>11. ASSUME NEW d \in Dev, dev[d].item = i, dev[d].state = "held"
       PROVE  /\ dev'[d] \in Delivery
              /\ dev'[d].state = "delivered" => d \in got
              /\ dev'[d].attempts = MaxAttempts => dev'[d].state = "failed"
              /\ dev'[d].state = "held" => copy[i].st = "held" /\ dev'[d] = dev[d]
              /\ copy[i].st = "rejected" => dev'[d].state = "failed"
  <2>1. dev[d] \in Delivery /\ dev[d].attempts # MaxAttempts
    BY <1>3, <1>11 DEF SendInv, RestInv
  <2>2. dev'[d] = AfterReceipt(dev[d], r, d, Cardinality(of))
    BY <1>4, <1>11
  <2>3. CASE Proves(r, d, Cardinality(of))
    <3>1. dev'[d] = [dev[d] EXCEPT !.state = "delivered"]
      BY <2>2, <2>3 DEF AfterReceipt
    <3>2. d \in got /\ copy[i].st # "rejected"
      <4>1. d \in got
        BY <1>10, <1>11, <2>3
      <4>2. copy[i].st # "rejected"
        BY <1>2, <2>3 DEF Proves, Listed
      <4>3. QED
        BY <4>1, <4>2
    <3>3. QED
      BY <2>1, <3>1, <3>2 DEF Delivery, State
  <2>4. CASE ~ Proves(r, d, Cardinality(of)) /\ copy[i].st \in {"delivered", "rejected"}
    <3>1. dev'[d] = [dev[d] EXCEPT !.state = "failed"]
      BY <2>2, <2>4 DEF AfterReceipt
    <3>2. QED
      BY <2>1, <3>1 DEF Delivery, State
  <2>5. CASE ~ Proves(r, d, Cardinality(of)) /\ copy[i].st = "canceled"
    <3>1. dev'[d] = [dev[d] EXCEPT !.state = "canceled"]
      BY <2>2, <2>5 DEF AfterReceipt
    <3>2. QED
      BY <2>1, <2>5, <3>1 DEF Delivery, State, StopStates
  <2>6. CASE ~ Proves(r, d, Cardinality(of)) /\ copy[i].st = "expired"
    <3>1. PICK q : q = [dev[d] EXCEPT !.item = None]
      OBVIOUS
    <3>2. q \in Delivery /\ q.attempts # MaxAttempts
      BY <2>1, <3>1 DEF Delivery
    <3>3. dev'[d] = Failed(q)
      BY <2>2, <2>6, <3>1 DEF AfterReceipt
    <3>4. QED
      BY <2>6, <3>2, <3>3, FailedType
  <2>7. CASE ~ Proves(r, d, Cardinality(of)) /\ copy[i].st = "held"
    <3>1. dev'[d] = dev[d]
      BY <2>2, <2>7 DEF AfterReceipt
    <3>2. QED
      BY <1>11, <2>1, <2>7, <3>1
  <2>8. QED
    BY <1>2, <2>3, <2>4, <2>5, <2>6, <2>7 DEF Copy
<1>12. dev' \in [Dev -> Delivery]
  <2>1. \A d \in Dev : dev'[d] \in Delivery
    BY <1>3, <1>4, <1>11
  <2>2. dev' = [d \in Dev |-> dev'[d]]
    BY DEF Poll
  <2>3. QED
    BY <2>1, <2>2
<1>13. TypeOK'
  BY <1>1, <1>8, <1>12 DEF SendInv, TypeOK
<1>14. DeliveredIsTrue'
  BY <1>1, <1>4, <1>11 DEF SendInv, DeliveredIsTrue
<1>15. ASSUME NEW d \in Dev PROVE RestInv(d)'
  <2>1. Worked(d)' => Worked(d)
    BY <1>1 DEF Worked
  <2>2. CASE dev[d].item = i /\ dev[d].state = "held"
    BY <1>11, <2>1, <2>2 DEF SendInv, RestInv
  <2>3. CASE ~ (dev[d].item = i /\ dev[d].state = "held")
    BY <1>4, <2>1, <2>3 DEF SendInv, RestInv
  <2>4. QED
    BY <2>2, <2>3
<1>16. ASSUME NEW d \in Dev PROVE HeldInv(d)'
  <2> SUFFICES ASSUME dev'[d].state = "held" PROVE HeldInv(d)'
    BY DEF HeldInv
  <2>1. dev'[d] = dev[d] /\ HeldInv(d)
    BY <1>4, <1>11 DEF SendInv
  <2>2. PICK j : j = dev[d].item
    OBVIOUS
  <2>3. /\ j \in Item /\ sent[j] # None /\ d \in sent[j].to
        /\ sent[j].state = "held" /\ ~ copy[j].lists
           => \A e \in sent[j].to : dev[e].state = "held" /\ dev[e].item = j
    BY <2>1, <2>2 DEF HeldInv
  <2>4. sent'[j] # None /\ sent'[j].to = sent[j].to /\ sent[j].to \subseteq Dev
    BY <1>9, <2>3 DEF SentKept, SendInv, TypeOK, Sent
  <2>5. CASE j = i
    <3>1. copy[i].st = "held"
      BY <1>11, <2>1, <2>2, <2>5
    <3>2. copy[i].lists
      BY <1>1, <3>1 DEF Listed
    <3>3. QED
      BY <1>1, <2>1, <2>2, <2>3, <2>4, <2>5, <3>2 DEF HeldInv
  <2>6. CASE j # i
    <3>1. sent'[j] = sent[j]
      BY <1>8, <2>3, <2>6
    <3>2. \A e \in Dev : dev[e].item = j => dev'[e] = dev[e]
      BY <1>4, <2>6
    <3>3. QED
      BY <1>1, <2>1, <2>2, <2>3, <2>4, <3>1, <3>2 DEF HeldInv
  <2>7. QED
    BY <2>5, <2>6
<1>17. \A j \in Item : CopyInv(j)'
  BY <1>1, <1>9, CopiesKept
<1>18. TasksInv' /\ HoldsInv'
  <2>1. Running' = Running
    BY <1>1 DEF Running
  <2>2. \A h \in holds : Parts(h) \subseteq Running'
    BY <2>1 DEF SendInv, HoldsInv, HoldOK
  <2>3. HoldsInv'
    BY <1>1, <1>9, <2>2, HoldsUntouched DEF SentKept
  <2>4. QED
    BY <1>1, <2>1, <2>3 DEF SendInv, TasksInv
<1>19. Respected
  BY <1>4, <1>11 DEF Respected
<1>20. QED
  BY <1>13, <1>14, <1>15, <1>16, <1>17, <1>18, <1>19 DEF SendInv

LEMMA TimeOverStep ==
    ASSUME SendInv, TimeOver
    PROVE  SendInv' /\ Respected
<1>1. UNCHANGED <<dev, sent, live, runs, leg, holds, copy, cancels, got, word, upsets>> /\ over' = TRUE
  BY DEF TimeOver, record, tasks, server
<1>2. TypeOK'
  BY <1>1 DEF SendInv, TypeOK
<1>3. QED
  BY <1>1, <1>2 DEF SendInv, TasksInv, HoldsInv, HoldOK, Running, DeliveredIsTrue, RestInv, Worked,
                    HeldInv, CopyInv, Respected

\* recover: what was under way waits again, and nobody works on it.
LEMMA RestartStep ==
    ASSUME SendInv, Restart
    PROVE  SendInv' /\ Respected
<1> DEFINE S == {d \in Dev : Busy(dev[d].state) \/ dev[d].state = "waiting"}
<1>1. /\ live' = None /\ runs' = {} /\ holds' = {} /\ leg' = [d \in Dev |-> "none"]
      /\ UNCHANGED <<copy, got, over, word>> /\ dev' = WithState(dev, S, "waiting")
  BY DEF Restart
<1>2. "waiting" \in State \ {"held", "delivered"}
  BY DEF State
<1>3. \A d \in S : dev[d].state # "held" /\ dev[d].attempts # MaxAttempts
  BY DEF Busy, SendInv, RestInv
<1>4. Quiet /\ dev' \in [Dev -> Delivery]
  BY <1>1, <1>2, <1>3, StateQuiet
<1>5. PICK lost \in SUBSET {i \in Item : News(i)} :
         sent' = [i \in Item |-> IF i \in lost THEN [sent[i] EXCEPT !.state = copy[i].st] ELSE sent[i]]
  BY DEF Restart
<1>6. \A i \in lost : /\ sent[i] \in Sent /\ sent[i] # None /\ sent[i].state = "held"
                      /\ copy[i] \in Copy
  BY DEF News, SendInv, TypeOK, CopyInv
<1>7. \A i \in lost : /\ [sent[i] EXCEPT !.state = copy[i].st] \in Sent
                      /\ [sent[i] EXCEPT !.state = copy[i].st].to = sent[i].to
  BY <1>6 DEF Sent, Copy
<1>8. sent' \in [Item -> Sent \cup {None}]
  BY <1>5, <1>7 DEF SendInv, TypeOK
<1>9. SentKept
  BY <1>5, <1>6, <1>7, NoneAssumption DEF SentKept
<1>10. cancels' \subseteq Item
  BY DEF Restart, SendInv, TypeOK
<1>11. upsets' \in 0..MaxUpsets
  <2>1. upsets \in 0..MaxUpsets /\ upsets < MaxUpsets /\ upsets' = upsets + 1
    BY DEF Restart, Upset, SendInv, TypeOK
  <2>2. QED
    BY <2>1, FanOutAssumption
<1>12. TasksInv' /\ HoldsInv'
  BY <1>1 DEF TasksInv, HoldsInv, Running
<1>13. /\ holds' \subseteq Hold /\ leg' \in [Dev -> {"none", "start", "direct", "offline"}]
       /\ live' \in Live \cup {None} /\ runs' \subseteq SUBSET Dev
       /\ word' \in StopStates \cup {"send"}
  BY <1>1 DEF SendInv, TypeOK
<1>14. \A d \in Dev : ~ Worked(d)'
  BY <1>1 DEF Worked
<1>15. QED
  BY <1>1, <1>4, <1>8, <1>9, <1>10, <1>11, <1>12, <1>13, <1>14, QuietStep

(***************************************************************************)
(* The theorems.                                                           *)
(***************************************************************************)
LEMMA SendInvInit == Init => SendInv
<1> SUFFICES ASSUME Init PROVE SendInv
  OBVIOUS
<1>1. [state |-> "sending", attempts |-> 0, item |-> None] \in Delivery
  <2>1. 0 \in 0..MaxAttempts
    BY FanOutAssumption
  <2>2. QED
    BY <2>1 DEF Delivery, State
<1>2. [cancel |-> FALSE, reason |-> None, running |-> Dev] \in Live
  BY DEF Live
<1>3. 0 \in 0..MaxUpsets
  BY FanOutAssumption
<1>4. TypeOK
  BY <1>1, <1>2, <1>3 DEF Init, TypeOK
<1>5. Running = Dev
  BY <1>2, NoneAssumption DEF Init, Running
<1>6. TasksInv /\ HoldsInv
  BY <1>5, FanOutAssumption DEF Init, TasksInv, HoldsInv
<1>7. DeliveredIsTrue /\ (\A d \in Dev : HeldInv(d)) /\ \A i \in Item : CopyInv(i)
  BY DEF Init, DeliveredIsTrue, HeldInv, CopyInv
<1>8. \A d \in Dev : RestInv(d)
  <2>1. 0 # MaxAttempts
    BY FanOutAssumption
  <2>2. QED
    BY <2>1 DEF Init, RestInv
<1>9. QED
  BY <1>4, <1>6, <1>7, <1>8 DEF SendInv

LEMMA HoldProgressStep ==
    ASSUME SendInv, NEW h \in holds, HoldProgress(h)
    PROVE  SendInv' /\ Respected
<1>1. CASE HoldStopped(h) \/ HoldChecked(h) \/ HoldQueue(h)
  BY <1>1, HoldStoppedStep, HoldCheckedStep, HoldQueueStep
<1>2. ASSUME NEW S \in SUBSET h.devs, HoldSplit(h, S) \/ \E i \in Item : HoldDeposit(h, S, i)
      PROVE  SendInv' /\ Respected
  BY <1>2, HoldSplitStep, HoldDepositStep
<1>3. CASE \E lists \in BOOLEAN : UploadStored(h, lists)
  BY <1>3, UploadStoredStep
<1>4. CASE UploadFails(h, "uploading", {})
  <2>1. {} \in SUBSET {h.item} /\ "uploading" \in {"uploading", "rejected"}
    OBVIOUS
  <2>2. QED
    BY <1>4, <2>1, UploadFailsStep
<1>5. ASSUME NEW back \in {{}, {h.item}}, UploadFails(h, "rejected", back)
      PROVE  SendInv' /\ Respected
  <2>1. back \in SUBSET {h.item} /\ "rejected" \in {"uploading", "rejected"}
    OBVIOUS
  <2>2. QED
    BY <1>5, <2>1, UploadFailsStep
<1>6. CASE UploadCanceled(h) \/ UploadGoDirect(h) \/ HoldAgain(h) \/ HoldResult(h) \/ HoldMark(h)
  BY <1>6, UploadCanceledStep, UploadGoDirectStep, HoldAgainStep, HoldResultStep, HoldMarkStep
<1>7. QED
  BY <1>1, <1>2, <1>3, <1>4, <1>5, <1>6 DEF HoldProgress

LEMMA SendInvNext ==
    ASSUME SendInv, Next
    PROVE  SendInv' /\ Respected
<1>1. CASE \E d \in Dev : LegStep(d)
  BY <1>1, LegStartStep, DirectEndsStep DEF LegStep
<1>2. CASE \E h \in holds : HoldProgress(h)
  BY <1>2, HoldProgressStep
<1>3. CASE RunProgress
  BY <1>3, HoldStartStep, RunEndStep DEF RunProgress
<1>4. CASE \E S \in SUBSET Dev : RetryDue(S)
  BY <1>4, RetryDueStep
<1>5. CASE GiveUp \/ Resume \/ TimeOver \/ Restart
  BY <1>5, GiveUpStep, ResumeStep, TimeOverStep, RestartStep
<1>6. CASE \E reason \in StopStates : Stop(reason)
  BY <1>6, StopStep
<1>7. CASE \E i \in Item : Poll(i) \/ ServerCancel(i)
  BY <1>7, PollStep, ServerCancelStep
<1>8. CASE \E i \in Item, d \in Dev : ServerTake(i, d)
  BY <1>8, ServerTakeStep
<1>9. CASE \E i \in Item, st \in {"delivered", "rejected", "expired"} : ServerEnd(i, st)
  BY <1>9, ServerEndStep
<1>10. QED
  BY <1>1, <1>2, <1>3, <1>4, <1>5, <1>6, <1>7, <1>8, <1>9 DEF Next

LEMMA SendInvStutter ==
    ASSUME SendInv, UNCHANGED vars
    PROVE  SendInv' /\ Respected
<1>1. UNCHANGED <<dev, sent, live, runs, leg, holds, copy, cancels, got, over, word, upsets>>
  BY DEF vars, record, tasks, server, bounds
<1>2. TypeOK'
  BY <1>1 DEF SendInv, TypeOK
<1>3. QED
  BY <1>1, <1>2 DEF SendInv, TasksInv, HoldsInv, HoldOK, Running, DeliveredIsTrue, RestInv, Worked,
                    HeldInv, CopyInv, Respected

\* The invariant holds in every state.
THEOREM SendInvAlways == Spec => []SendInv
<1>1. SendInv /\ [Next]_vars => SendInv'
  BY SendInvNext, SendInvStutter
<1>2. QED
  BY <1>1, SendInvInit, PTL DEF Spec

\* Every variable keeps its type; in particular, a device's failures are never
\* counted past the bound at which the send to it is given up (fanout.rs:
\* MAX_ATTEMPTS).
THEOREM TypeCorrect == Spec => []TypeOK
<1>1. SendInv => TypeOK
  BY DEF SendInv
<1>2. QED
  BY <1>1, SendInvAlways, PTL

\* "Delivered" under a device is always true: the device has the files, from its
\* own leg or from a server, and also when the server does not name who took a
\* copy that several devices share (fanout.rs: receipt).
THEOREM DeliveredIsTrueAlways == Spec => []DeliveredIsTrue
<1>1. SendInv => DeliveredIsTrue
  BY DEF SendInv
<1>2. QED
  BY <1>1, SendInvAlways, PTL

\* A device that turned the server's copy down is not tried directly instead: the
\* send to it ends, whatever legs, holds, stops and restarts are under way
\* (fanout.rs: receipt).
THEOREM RefusalIsRespectedAlways == Spec => RefusalIsRespected
<1>1. SendInv /\ [Next]_vars => [Respected]_vars
  BY SendInvNext
<1>2. Spec => [][Respected]_vars
  BY <1>1, SendInvAlways, PTL DEF Spec
<1>3. QED
  BY <1>2 DEF RefusalIsRespected, Respected
=============================================================================
