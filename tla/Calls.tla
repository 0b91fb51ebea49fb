------------------------------- MODULE Calls -------------------------------
(***************************************************************************)
(* Voice and video calls between two people who may have several devices.  *)
(* A device is in at most one call.  A call is rung on every device of the *)
(* called person over one stream per device; the first answer wins and the *)
(* other devices are told.  Two people who call each other at the same     *)
(* moment ("glare") keep the call of the device with the smaller id.       *)
(*                                                                         *)
(* A call is named after the device that placed it: a device places one    *)
(* call at most.  The call screen, the media bridge and the clock are the  *)
(* environment: taps come at any time and a timer may expire whenever it   *)
(* runs.  One action is one critical section of the lock on `live`.        *)
(***************************************************************************)
EXTENDS Naturals, Sequences

CONSTANTS
    Dev,        \* devices
    Owner,      \* the person a device belongs to
    Callee,     \* the person a device's own call goes to
    Rank,       \* the order of the endpoint ids
    Callers,    \* devices that place a call
    MaxBreaks,  \* connections that fail while a stream is open
    None

ASSUME CallsAssumption ==
    /\ Callers \subseteq Dev
    /\ \A d \in Dev : Rank[d] \in Nat
    /\ \A d, e \in Dev : Rank[d] = Rank[e] => d = e
    /\ \A c \in Callers : Owner[c] # Callee[c]
    /\ MaxBreaks \in Nat
    /\ None \notin Dev

VARIABLES
    live,       \* the one call each device is in
    line,       \* the stream of call c to device d, with the tasks at its ends
    tapped,     \* the call whose answer was queued and is not yet accepted
    outcome,    \* how a call ended on a device
    unlogged,   \* calls a device ended without a line of history
    placed,     \* calls that were placed
    chosen,     \* the device whose answer the caller took
    given,      \* <<c, d>>: call c was given up for the call of device d
    breaks      \* streams that failed so far

vars == <<live, line, tapped, outcome, unlogged, placed, chosen, given, breaks>>

----------------------------------------------------------------------------
(* What a device knows of its call. *)

LegState == {"none", "dialing", "ringing", "answered", "busy", "declined", "missed",
             "unavailable", "failed", "gone"}

Undone == {"dialing", "ringing", "answered"}

Frame == {"ring", "busy", "decline", "missed", "unavailable", "glare", "hangup", "cancel",
          "taken", "answer", "fin"}

End == {"hangup", "remotehangup", "declined", "busy", "noanswer", "missed", "canceled",
        "elsewhere", "unavailable", "failed"}

\* No ending is the mark for a call that has not ended.
ASSUME NoneAssumption == None \notin End

NoCall == [id |-> None]

\* The devices a call rings.
LegsOf(c) == {d \in Dev : Owner[d] = Callee[c]}

Live == [id : Callers, phase : {"ringing", "connecting", "active"}, leg : [Dev -> LegState],
         active : Dev \cup {None}, io : SUBSET Dev, silent : BOOLEAN, glareWait : Dev \cup {None}]

\* `dial` is the caller's task for one device, `serve` the device's own;
\* `to` and `fro` carry the frames queued and on their way.
Line == [dial : {"no", "dial", "opened", "on", "over"},
         serve : {"none", "asked", "drop", "hang", "bridge", "on", "over"},
         to : Seq(Frame), fro : Seq(Frame)]

Outgoing(c) == [id |-> c, phase |-> "ringing",
                leg |-> [d \in Dev |-> IF d \in LegsOf(c) THEN "dialing" ELSE "none"],
                active |-> None, io |-> {}, silent |-> FALSE, glareWait |-> None]

Incoming(c) == [id |-> c, phase |-> "ringing",
                leg |-> [d \in Dev |-> IF d = c THEN "ringing" ELSE "none"],
                active |-> None, io |-> {c}, silent |-> FALSE, glareWait |-> None]

In(d, c) == live[d].id = c
Connected(d, c) == In(d, c) /\ live[d].phase # "ringing"

Queued(word, q) == \E i \in DOMAIN q : q[i] = word

Open(l) == {e \in Dev : l.leg[e] \in Undone}

----------------------------------------------------------------------------
(* The transition of a call on one event: the call after it, what is said  *)
(* to each device, and how the call ended, if it did.                      *)

Silence == [e \in Dev |-> <<>>]
Tell(S, word) == [e \in Dev |-> IF e \in S THEN <<word>> ELSE <<>>]

Stays(l) == [call |-> l, say |-> Silence, end |-> None]

\* The call is over: every stream gets its last words and is finished.
Finish(l, end, words) ==
    [call |-> NoCall,
     say |-> [e \in Dev |-> IF e \in l.io THEN words[e] \o <<"fin">> ELSE <<>>],
     end |-> end]

\* These devices are out of the call; they are told so where a stream is up.
Release(l, S, st, words) ==
    [call |-> [l EXCEPT !.leg = [e \in Dev |-> IF e \in S THEN st ELSE l.leg[e]],
                        !.io = l.io \ S],
     say |-> [e \in Dev |-> IF e \in S \cap l.io THEN words \o <<"fin">> ELSE <<>>],
     end |-> None]

\* The caller's call is over once no device can answer any more.
Settle(r) ==
    LET l == r.call
        has(st) == \E e \in Dev : l.leg[e] = st
        end == IF has("busy") THEN "busy" ELSE IF has("missed") THEN "noanswer" ELSE "unavailable"
        f == Finish(l, end, Silence)
    IN  IF l.phase # "ringing" \/ Open(l) # {}
        THEN r
        ELSE [f EXCEPT !.say = [e \in Dev |-> r.say[e] \o f.say[e]]]

\* One device of the called person drops out.
LegOut(l, e, st) ==
    Settle(IF e \in Open(l) THEN Release(l, {e}, st, <<>>) ELSE Stays(l))

\* A device answered: the first one carries the call, a later one is told.
Answered(l, e) ==
    IF l.phase = "ringing" /\ e \in Open(l)
    THEN LET r == Release(l, Open(l) \ {e}, "gone", <<"taken">>)
         IN  [r EXCEPT !.call.leg[e] = "answered", !.call.active = e, !.call.phase = "connecting"]
    ELSE IF l.active = e THEN Stays(l)
    ELSE Release(l, {e}, "gone", <<"taken">>)

\* Mistake: the other devices are told that the call was taken.
DeclinedTaken(l, e) ==
    IF l.phase = "ringing"
    THEN Finish(l, "declined", Tell(Open(l) \ {e}, "taken"))
    ELSE LegOut(l, e, "declined")

\* A decline on any device is the person saying no.
Declined(l, e) ==
    IF l.phase = "ringing"
    THEN Finish(l, "declined", Tell(Open(l) \ {e}, "cancel"))
    ELSE LegOut(l, e, "declined")

\* Mistake: the device is put in the state its frame names.
RingingNamed(l, e) == Stays([l EXCEPT !.leg[e] = "ring"])

Ringing(l, e) == Stays(IF l.leg[e] = "dialing" THEN [l EXCEPT !.leg[e] = "ringing"] ELSE l)

\* Mistake: only a call that still rings is ended by it.
LostAtRinging(d, l, e) ==
    IF l.phase # "ringing" THEN Stays(l)
    ELSE IF l.id = d THEN LegOut(l, e, "failed")
    ELSE Finish(l, "missed", Silence)

\* The stream to a device ended without a reason.
LostAt(d, l, e) ==
    IF l.active = e THEN Finish(l, "failed", Silence)
    ELSE IF l.id = d THEN LegOut(l, e, "failed")
    ELSE Finish(l, IF l.phase = "ringing" THEN "missed" ELSE "failed", Silence)

HungUp(d, l, e) ==
    IF l.active = e THEN Finish(l, "remotehangup", Silence)
    ELSE IF l.id = d THEN LegOut(l, e, "failed")
    ELSE Stays(l)

\* The person of this device ends the call.
HangUp(d, l) ==
    IF l.phase # "ringing" THEN Finish(l, "hangup", Tell({l.active}, "hangup"))
    ELSE IF l.id = d THEN Finish(l, "canceled", Tell(Open(l), "cancel"))
    ELSE Finish(l, "declined", Tell({l.id}, "decline"))

\* The timer of the phase the call is in has run out.
TimedOut(d, l) ==
    CASE l.phase = "connecting" -> Finish(l, "failed", Tell({l.active}, "hangup"))
      [] l.phase = "ringing" /\ l.id = d -> Finish(l, "noanswer", Tell(Open(l), "cancel"))
      [] l.phase = "ringing" /\ l.id # d -> Finish(l, "missed", Tell({l.id}, "missed"))

\* Mistake: each side prefers its own call.
GlareWinnerMine(mine, theirs) == mine

\* Of two calls at once, the one of the smaller endpoint id survives.
GlareWinner(mine, theirs) == IF Rank[mine] < Rank[theirs] THEN mine ELSE theirs

\* "My call wins": believed on our own ringing call to that device, and only
\* when the rule agrees.
Glare(d, l, e) ==
    IF l.id # d \/ l.phase # "ringing" \/ e \notin Open(l) THEN Stays(l)
    ELSE IF GlareWinner(d, e) = e THEN Stays([l EXCEPT !.glareWait = e])
    ELSE LegOut(l, e, "unavailable")

\* A frame from device `e` in the call of device `d`.
OnFrame(d, l, e, f) ==
    CASE f = "hangup" -> HungUp(d, l, e)
      [] f = "glare"  -> Glare(d, l, e)
      [] f = "ring"   /\ l.id = d -> Ringing(l, e)
      [] f = "answer" /\ l.id = d -> Answered(l, e)
      [] f = "decline" /\ l.id = d -> Declined(l, e)
      [] f \in {"busy", "missed", "unavailable"} /\ l.id = d -> LegOut(l, e, f)
      [] f = "cancel" /\ l.id # d ->
             Finish(l, IF l.phase = "ringing" THEN "missed" ELSE "failed", Silence)
      [] f = "taken"  /\ l.id # d -> Finish(l, "elsewhere", Silence)
      [] OTHER -> Stays(l)

----------------------------------------------------------------------------
(* Carrying out what a transition says. *)

\* Frames put on a stream whose reader is gone are dropped with it.
Tidy(x) == [x EXCEPT !.to = IF x.serve = "over" THEN <<>> ELSE @,
                     !.fro = IF x.dial = "over" THEN <<>> ELSE @]

\* The streams `ln` with what device d says in call c queued on them.
Said(ln, d, c, say) ==
    [ln EXCEPT ![c] = [e \in Dev |->
        Tidy(IF d = c THEN [ln[c][e] EXCEPT !.to = @ \o say[e]]
             ELSE IF e = d THEN [ln[c][e] EXCEPT !.fro = @ \o say[c]]
             ELSE ln[c][e])]]

\* A call that ended goes to the history, unless it was dropped for a glare or
\* taken on another device.
Carry(d, c, ln, r) ==
    /\ live' = [live EXCEPT ![d] = r.call]
    /\ line' = Said(ln, d, c, r.say)
    /\ outcome' = [outcome EXCEPT ![d][c] = IF r.end = None THEN @ ELSE r.end]
    /\ unlogged' = IF r.end # None /\ (live[d].silent \/ r.end = "elsewhere")
                   THEN unlogged \cup {<<d, c>>} ELSE unlogged

\* An event for call c, ignored when the device is not in that call.
Apply(d, c, ln, r) ==
    IF In(d, c) THEN Carry(d, c, ln, r)
    ELSE /\ line' = [ln EXCEPT ![c] = [e \in Dev |-> Tidy(ln[c][e])]]
         /\ UNCHANGED <<live, outcome, unlogged>>

----------------------------------------------------------------------------
(* The caller. *)

Start(c) ==
    /\ live[c] = NoCall
    /\ c \notin placed
    /\ live' = [live EXCEPT ![c] = Outgoing(c)]
    /\ placed' = placed \cup {c}
    /\ UNCHANGED <<line, tapped, outcome, unlogged, chosen, given, breaks>>

\* The call screen's offer is ready: every device is dialed.
SendOffer(c) ==
    /\ In(c, c)
    /\ \A d \in Dev : line[c][d].dial = "no"
    /\ line' = [line EXCEPT ![c] = [d \in Dev |-> IF d \in LegsOf(c)
                    THEN [line[c][d] EXCEPT !.dial = "dial"] ELSE line[c][d]]]
    /\ UNCHANGED <<live, tapped, outcome, unlogged, placed, chosen, given, breaks>>

\* The connection is up and the offer is written; the leg has not joined yet.
DialOpens(c, d) ==
    /\ line[c][d].dial = "dial"
    /\ line' = [line EXCEPT ![c][d].dial = "opened", ![c][d].serve = "asked"]
    /\ UNCHANGED <<live, tapped, outcome, unlogged, placed, chosen, given, breaks>>

\* Unreachable, and no push woke it while the call rang.
DialFails(c, d) ==
    /\ line[c][d].dial = "dial"
    /\ Apply(c, c, [line EXCEPT ![c][d].dial = "over"], LostAt(c, live[c], d))
    /\ UNCHANGED <<tapped, placed, chosen, given, breaks>>

\* The leg joins a call that is still on; a call that is over cancels it.
JoinLeg(c, d) ==
    /\ line[c][d].dial = "opened"
    /\ IF In(c, c)
       THEN /\ live' = [live EXCEPT ![c].io = @ \cup {d}]
            /\ line' = [line EXCEPT ![c][d].dial = "on"]
       ELSE /\ line' = [line EXCEPT ![c][d] =
                            Tidy([line[c][d] EXCEPT !.dial = "over", !.to = @ \o <<"cancel", "fin">>])]
            /\ UNCHANGED live
    /\ UNCHANGED <<tapped, outcome, unlogged, placed, chosen, given, breaks>>

\* A frame from one of the called devices.
CallerReads(c, d) ==
    /\ line[c][d].dial = "on"
    /\ line[c][d].fro # <<>>
    /\ Head(line[c][d].fro) # "fin"
    /\ LET f == Head(line[c][d].fro)
       IN  /\ Apply(c, c, [line EXCEPT ![c][d].fro = Tail(@)], OnFrame(c, live[c], d, f))
           /\ chosen' = IF f = "answer" /\ In(c, c) /\ live[c].phase = "ringing"
                           /\ d \in Open(live[c])
                        THEN [chosen EXCEPT ![c] = d] ELSE chosen
    /\ UNCHANGED <<tapped, placed, given, breaks>>

\* The pump of a leg stops: the other end finished the stream, or this end did
\* and its last frames had time to go.  A leg that waits for the other side's
\* call after a glare is not lost with its stream.
CallerPumpEnds(c, d) ==
    /\ line[c][d].dial = "on"
    /\ \/ line[c][d].fro # <<>> /\ Head(line[c][d].fro) = "fin"
       \/ ~ (In(c, c) /\ d \in live[c].io)
    /\ LET r == IF live[c].glareWait = d THEN Stays(live[c]) ELSE LostAt(c, live[c], d)
           up == In(c, c) /\ d \in live[c].io
           ln == [line EXCEPT ![c][d].dial = "over"]
       IN  Apply(c, c, IF up THEN [ln EXCEPT ![c][d].to = @ \o <<"fin">>] ELSE ln, r)
    /\ UNCHANGED <<tapped, placed, chosen, given, breaks>>

----------------------------------------------------------------------------
(* The device that is called. *)

\* What is found under the lock when an offer arrives: nothing in the way, our
\* own call to that device (which loses or wins), or another call.
Ours(d, c) == In(d, d) /\ Callee[d] = Owner[c] /\ live[d].phase = "ringing" /\ c \in Open(live[d])

Refuse(c, d, word) ==
    line' = [line EXCEPT ![c][d] = Tidy([line[c][d] EXCEPT !.serve = "over", !.fro = @ \o <<word, "fin">>])]

\* A stranger, a device that cannot take calls, or too many rings.
OfferRefused(c, d) ==
    /\ line[c][d].serve = "asked"
    /\ Refuse(c, d, "unavailable")
    /\ UNCHANGED <<live, tapped, outcome, unlogged, placed, chosen, given, breaks>>

OfferSeen(c, d) ==
    /\ line[c][d].serve = "asked"
    /\ \/ /\ live[d] = NoCall
          /\ line' = [line EXCEPT ![c][d].serve = "bridge"]
          /\ UNCHANGED <<outcome, given>>
       \/ /\ Ours(d, c) /\ GlareWinner(d, c) = c
          /\ line' = [line EXCEPT ![c][d].serve = "drop"]
          /\ UNCHANGED <<outcome, given>>
       \/ /\ Ours(d, c) /\ GlareWinner(d, c) # c
          /\ Refuse(c, d, "glare")
          /\ given' = given \cup {<<c, d>>}
          /\ UNCHANGED outcome
       \/ /\ live[d] # NoCall /\ ~ Ours(d, c)
          /\ Refuse(c, d, "busy")
          /\ outcome' = [outcome EXCEPT ![d][c] = "missed"]
          /\ UNCHANGED given
    /\ UNCHANGED <<live, tapped, unlogged, placed, chosen, breaks>>

\* Our own call loses to the one that just arrived: it is marked to leave no
\* line of history, and then hung up.
MarkSilent(c, d) ==
    /\ line[c][d].serve = "drop"
    /\ live' = IF In(d, d) THEN [live EXCEPT ![d].silent = TRUE] ELSE live
    /\ given' = IF In(d, d) THEN given \cup {<<d, c>>} ELSE given
    /\ line' = [line EXCEPT ![c][d].serve = "hang"]
    /\ UNCHANGED <<tapped, outcome, unlogged, placed, chosen, breaks>>

DropMine(c, d) ==
    /\ line[c][d].serve = "hang"
    /\ Apply(d, d, [line EXCEPT ![c][d].serve = "bridge"], HangUp(d, live[d]))
    /\ UNCHANGED <<tapped, placed, chosen, given, breaks>>

\* The bridge is up: the device rings, unless another call got in meanwhile.
RingHere(c, d) ==
    /\ line[c][d].serve = "bridge"
    /\ IF live[d] = NoCall
       THEN /\ live' = [live EXCEPT ![d] = Incoming(c)]
            /\ line' = [line EXCEPT ![c][d] =
                            Tidy([line[c][d] EXCEPT !.serve = "on", !.fro = @ \o <<"ring">>])]
       ELSE Refuse(c, d, "busy") /\ UNCHANGED live
    /\ UNCHANGED <<tapped, outcome, unlogged, placed, chosen, given, breaks>>

\* The bridge could not be started: the stream is dropped.
BridgeFails(c, d) ==
    /\ line[c][d].serve = "bridge"
    /\ line' = [line EXCEPT ![c][d] =
                    Tidy([line[c][d] EXCEPT !.serve = "over", !.fro = @ \o <<"fin">>])]
    /\ UNCHANGED <<live, tapped, outcome, unlogged, placed, chosen, given, breaks>>

\* A frame from the caller.
CalleeReads(c, d) ==
    /\ line[c][d].serve = "on"
    /\ line[c][d].to # <<>>
    /\ Head(line[c][d].to) # "fin"
    /\ Apply(d, c, [line EXCEPT ![c][d].to = Tail(@)],
             OnFrame(d, live[d], c, Head(line[c][d].to)))
    /\ UNCHANGED <<tapped, placed, chosen, given, breaks>>

CalleePumpEnds(c, d) ==
    /\ line[c][d].serve = "on"
    /\ \/ line[c][d].to # <<>> /\ Head(line[c][d].to) = "fin"
       \/ ~ In(d, c)
    /\ Apply(d, c, [line EXCEPT ![c][d].serve = "over"], LostAt(d, live[d], c))
    /\ UNCHANGED <<tapped, placed, chosen, given, breaks>>

\* The answer is queued while the call rings; the call is accepted after that,
\* under another hold of the lock.
Answer(d) ==
    /\ \E c \in Callers \ {d} :
          /\ In(d, c) /\ live[d].phase = "ringing" /\ c \in live[d].io
          /\ line' = Said(line, d, c, Tell({c}, "answer"))
          /\ tapped' = [tapped EXCEPT ![d] = c]
    /\ tapped[d] = None
    /\ UNCHANGED <<live, outcome, unlogged, placed, chosen, given, breaks>>

Accept(d) ==
    /\ tapped[d] # None
    /\ LET c == tapped[d]
       IN  live' = IF In(d, c) /\ live[d].phase = "ringing"
                   THEN [live EXCEPT ![d].leg[c] = "answered", ![d].active = c,
                                     ![d].phase = "connecting"]
                   ELSE live
    /\ tapped' = [tapped EXCEPT ![d] = None]
    /\ UNCHANGED <<line, outcome, unlogged, placed, chosen, given, breaks>>

----------------------------------------------------------------------------
(* Either side. *)

\* Hang up, cancel, or decline: the same event, by phase and direction.
Hangup(d) ==
    /\ live[d] # NoCall
    /\ Carry(d, live[d].id, line, HangUp(d, live[d]))
    /\ UNCHANGED <<tapped, placed, chosen, given, breaks>>

MediaUp(d) ==
    /\ live[d] # NoCall /\ live[d].phase = "connecting"
    /\ live' = [live EXCEPT ![d].phase = "active"]
    /\ UNCHANGED <<line, tapped, outcome, unlogged, placed, chosen, given, breaks>>

\* The ticker of the call finds that the time of its phase is up.
Tick(d) ==
    /\ live[d] # NoCall /\ live[d].phase # "active"
    /\ Carry(d, live[d].id, line, TimedOut(d, live[d]))
    /\ UNCHANGED <<tapped, placed, chosen, given, breaks>>

\* The other side's call did not come after its "glare".
GlareOver(d) ==
    /\ In(d, d) /\ live[d].glareWait # None
    /\ LET l == live[d]
       IN  Carry(d, d, line, LegOut([l EXCEPT !.glareWait = None], l.glareWait, "unavailable"))
    /\ UNCHANGED <<tapped, placed, chosen, given, breaks>>

\* The connection under a stream fails: neither end hears more than its end.
Break(c, d) ==
    /\ breaks < MaxBreaks
    /\ line[c][d].dial \in {"opened", "on"}
    /\ line[c][d].serve = "on"
    /\ line' = [line EXCEPT ![c][d].to = <<"fin">>, ![c][d].fro = <<"fin">>]
    /\ breaks' = breaks + 1
    /\ UNCHANGED <<live, tapped, outcome, unlogged, placed, chosen, given>>

----------------------------------------------------------------------------

Init ==
    /\ live = [d \in Dev |-> NoCall]
    /\ line = [c \in Callers |-> [d \in Dev |-> [dial |-> "no", serve |-> "none",
                                                 to |-> <<>>, fro |-> <<>>]]]
    /\ tapped = [d \in Dev |-> None]
    /\ outcome = [d \in Dev |-> [c \in Callers |-> None]]
    /\ unlogged = {}
    /\ placed = {}
    /\ chosen = [c \in Callers |-> None]
    /\ given = {}
    /\ breaks = 0

\* The tasks of the calls, which the runtime keeps running.
Work(c, d) ==
    \/ DialOpens(c, d) \/ DialFails(c, d) \/ JoinLeg(c, d)
    \/ CallerReads(c, d) \/ CallerPumpEnds(c, d)
    \/ OfferSeen(c, d) \/ MarkSilent(c, d) \/ DropMine(c, d) \/ RingHere(c, d)
    \/ CalleeReads(c, d) \/ CalleePumpEnds(c, d)

Next ==
    \/ \E c \in Callers : Start(c) \/ SendOffer(c)
    \/ \E c \in Callers, d \in Dev :
          Work(c, d) \/ OfferRefused(c, d) \/ BridgeFails(c, d) \/ Break(c, d)
    \/ \E d \in Dev :
          Answer(d) \/ Accept(d) \/ Hangup(d) \/ MediaUp(d) \/ Tick(d) \/ GlareOver(d)

Spec == Init /\ [][Next]_vars

\* The tasks run; no timer and nothing people do is counted on.
Fairness ==
    \A c \in Callers : \A d \in LegsOf(c) : WF_vars(Work(c, d)) /\ WF_vars(Accept(d))

FairSpec == Spec /\ Fairness

----------------------------------------------------------------------------
(* Properties. *)

\* Types of the variables.
TypeOK ==
    /\ live \in [Dev -> Live \cup {NoCall}]
    /\ line \in [Callers -> [Dev -> Line]]
    /\ tapped \in [Dev -> Callers \cup {None}]
    /\ outcome \in [Dev -> [Callers -> End \cup {None}]]
    /\ unlogged \subseteq Dev \X Callers
    /\ placed \subseteq Callers
    /\ chosen \in [Callers -> Dev \cup {None}]
    /\ given \subseteq Dev \X Dev
    /\ breaks \in 0..MaxBreaks

\* The other end of a connected call is in it too, or word of how this end
\* leaves it is on its way: a device is never left talking to nobody.
TwoSided ==
    \A c \in Callers, d \in Dev : Connected(d, c) =>
       IF d # c
       THEN \/ Connected(c, c) /\ live[c].active = d
            \/ Queued("answer", line[c][d].fro) /\ (In(c, c) \/ line[c][d].dial # "over")
            \/ Queued("fin", line[c][d].to) /\ line[c][d].serve = "on"
            \/ line[c][d].dial = "opened"
       ELSE LET e == live[c].active
            IN  \/ Connected(e, c)
                \/ tapped[e] = c
                \/ Queued("fin", line[c][e].fro) /\ line[c][e].dial = "on"

\* A device says "answered on another device" only of a call whose caller took
\* another device's answer.
ElsewhereIsTrue ==
    \A d \in Dev, c \in Callers :
        outcome[d][c] = "elsewhere" => chosen[c] \notin {None, d}

\* Of two calls placed to each other at the same moment at most one is given
\* up for the other.
GlareKeepsOne == \A c, d \in Callers : ~ ({<<c, d>>, <<d, c>>} \subseteq given)

\* A connected call whose other end has left it ends here too.
HalfCallEnds ==
    \A c \in Callers, d \in Dev :
        (Connected(d, c) /\ outcome[live[d].active][c] # None) ~> ~ In(d, c)

=============================================================================
