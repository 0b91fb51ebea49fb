----------------------------- MODULE CallsProofs -----------------------------
(***************************************************************************)
(* Theorems about Calls, for every value of its constants.                 *)
(***************************************************************************)
EXTENDS Calls, TLAPS

\* What a transition returns.
Say == [Dev -> Seq(Frame)]
Result == [call : Live \cup {NoCall}, say : Say, end : End \cup {None}]

(***************************************************************************)
(* Types of what the transitions return.                                   *)
(***************************************************************************)
\* The frames a transition sends.
LEMMA SayType ==
    /\ Silence \in Say
    /\ \A S : \A w \in Frame : Tell(S, w) \in Say
BY DEF Silence, Tell, Say

\* What is said is joined device by device.
LEMMA JoinType ==
    ASSUME NEW s \in Say, NEW t \in Say
    PROVE  [e \in Dev |-> s[e] \o t[e]] \in Say
<1>1. ASSUME NEW e \in Dev PROVE s[e] \o t[e] \in Seq(Frame)
  <2>1. s[e] \in Seq(Frame) /\ t[e] \in Seq(Frame)
    BY DEF Say
  <2>2. QED
    BY <2>1
<1>2. QED
  BY <1>1 DEF Say

\* Finishing a call leaves no call.
LEMMA FinishType ==
    ASSUME NEW l \in Live, NEW end \in End, NEW words \in Say
    PROVE  Finish(l, end, words) \in Result
<1>1. <<"fin">> \in Seq(Frame) /\ <<>> \in Seq(Frame)
  BY DEF Frame
<1>2. \A e \in Dev : words[e] \o <<"fin">> \in Seq(Frame)
  BY <1>1 DEF Say
<1>3. QED
  BY <1>1, <1>2 DEF Finish, Result, Say

\* Releasing devices leaves the call and a well-formed leg for each.
LEMMA ReleaseType ==
    ASSUME NEW l \in Live, NEW S \in SUBSET Dev, NEW st \in LegState, NEW words \in Seq(Frame)
    PROVE  /\ Release(l, S, st, words) \in Result
           /\ Release(l, S, st, words).call \in Live
<1>1. words \o <<"fin">> \in Seq(Frame) /\ <<>> \in Seq(Frame)
  BY DEF Frame
<1>2. [l EXCEPT !.leg = [e \in Dev |-> IF e \in S THEN st ELSE l.leg[e]],
                !.io = l.io \ S] \in Live
  BY DEF Live
<1>3. QED
  BY <1>1, <1>2 DEF Release, Result, Say

\* A transition that changes only the call.
LEMMA StaysType ==
    ASSUME NEW l \in Live
    PROVE  Stays(l) \in Result /\ Stays(l).call \in Live
BY SayType DEF Stays, Result

\* Settling a call, and so a device that drops out, ends it or not.
LEMMA SettleType ==
    ASSUME NEW r \in Result, r.call \in Live
    PROVE  Settle(r) \in Result
<1> DEFINE l == r.call
           end == IF \E e \in Dev : l.leg[e] = "busy" THEN "busy"
                  ELSE IF \E e \in Dev : l.leg[e] = "missed" THEN "noanswer" ELSE "unavailable"
           f == Finish(l, end, Silence)
<1>1. end \in End
  BY DEF End
<1>2. f \in Result
  BY <1>1, FinishType, SayType
<1>3. [e \in Dev |-> r.say[e] \o f.say[e]] \in Say
  <2>1. r.say \in Say /\ f.say \in Say
    BY <1>2 DEF Result
  <2> HIDE DEF f, l
  <2>2. QED
    BY <2>1, JoinType
<1>4. [f EXCEPT !.say = [e \in Dev |-> r.say[e] \o f.say[e]]] \in Result
  <2> HIDE DEF f, l
  <2>1. QED
    BY <1>2, <1>3 DEF Result
<1>5. QED
  BY <1>4 DEF Settle

LEMMA LegOutType ==
    ASSUME NEW l \in Live, NEW e \in Dev, NEW st \in LegState
    PROVE  LegOut(l, e, st) \in Result
<1>1. <<>> \in Seq(Frame) /\ {e} \in SUBSET Dev
  OBVIOUS
<1>2. QED
  BY <1>1, SettleType, ReleaseType, StaysType DEF LegOut

LEMMA AnsweredType ==
    ASSUME NEW l \in Live, NEW e \in Dev
    PROVE  Answered(l, e) \in Result
<1> DEFINE r == Release(l, Open(l) \ {e}, "gone", <<"taken">>)
<1>1. <<"taken">> \in Seq(Frame) /\ "gone" \in LegState /\ Open(l) \ {e} \in SUBSET Dev
  BY DEF Frame, LegState, Open
<1>2. r \in Result /\ r.call \in Live
  BY <1>1, ReleaseType
<1>3. [r EXCEPT !.call.leg[e] = "answered", !.call.active = e, !.call.phase = "connecting"] \in Result
  <2> HIDE DEF r
  <2>1. [r.call EXCEPT !.leg[e] = "answered", !.active = e, !.phase = "connecting"] \in Live
    BY <1>2 DEF Live, LegState
  <2>2. QED
    BY <1>2, <2>1 DEF Result
<1>4. Release(l, {e}, "gone", <<"taken">>) \in Result
  BY <1>1, ReleaseType
<1>5. QED
  BY <1>3, <1>4, StaysType DEF Answered

\* Every frame a device can receive in a call.
LEMMA OnFrameType ==
    ASSUME NEW d \in Dev, NEW l \in Live, NEW e \in Dev, NEW f \in Frame
    PROVE  OnFrame(d, l, e, f) \in Result
<1>1. {"failed", "unavailable", "declined", "busy", "missed"} \subseteq LegState
  BY DEF LegState
<1>2. {"remotehangup", "failed", "missed", "elsewhere", "declined"} \subseteq End
  BY DEF End
<1>3. HungUp(d, l, e) \in Result
  BY <1>1, <1>2, FinishType, LegOutType, StaysType, SayType DEF HungUp
<1>4. Glare(d, l, e) \in Result
  <2>1. [l EXCEPT !.glareWait = e] \in Live
    BY DEF Live
  <2>2. QED
    BY <1>1, <2>1, LegOutType, StaysType DEF Glare
<1>5. Ringing(l, e) \in Result
  <2>1. [l EXCEPT !.leg[e] = "ringing"] \in Live
    BY DEF Live, LegState
  <2>2. QED
    BY <2>1, StaysType DEF Ringing
<1>6. Declined(l, e) \in Result
  <2>1. Open(l) \ {e} \in SUBSET Dev /\ "cancel" \in Frame
    BY DEF Open, Frame
  <2>2. QED
    BY <1>1, <1>2, <2>1, LegOutType, FinishType, SayType DEF Declined
<1>7. \A end \in {"missed", "failed", "elsewhere"} : Finish(l, end, Silence) \in Result
  BY <1>2, FinishType, SayType
<1>8. \A st \in {"busy", "missed", "unavailable"} : LegOut(l, e, st) \in Result
  BY <1>1, LegOutType
<1>9. OnFrame(d, l, e, f) \in {HungUp(d, l, e), Glare(d, l, e), Ringing(l, e), Answered(l, e),
                               Declined(l, e), LegOut(l, e, "busy"), LegOut(l, e, "missed"),
                               LegOut(l, e, "unavailable"), Finish(l, "missed", Silence),
                               Finish(l, "failed", Silence), Finish(l, "elsewhere", Silence), Stays(l)}
  BY DEF OnFrame
<1>10. QED
  BY <1>3, <1>4, <1>5, <1>6, <1>7, <1>8, <1>9, AnsweredType, StaysType

\* A lost stream, the person's own hang-up, a timer.
LEMMA EventType ==
    ASSUME NEW d \in Dev, NEW l \in Live
    PROVE  /\ \A e \in Dev : LostAt(d, l, e) \in Result
           /\ HangUp(d, l) \in Result
           /\ l.phase # "active" => TimedOut(d, l) \in Result
<1>1. End = End \cup {"failed", "missed", "hangup", "canceled", "declined", "noanswer"}
  BY DEF End
<1>2. "failed" \in LegState
  BY DEF LegState
<1>3. \A w \in {"hangup", "cancel", "decline", "missed"} : \A S : Tell(S, w) \in Say
  BY SayType DEF Frame
<1>4. \A end \in End : \A w \in {"hangup", "cancel", "decline", "missed"} : \A S :
         Finish(l, end, Tell(S, w)) \in Result
  BY <1>3, FinishType
<1>5. \A end \in End : Finish(l, end, Silence) \in Result
  BY FinishType, SayType
<1>6. \A e \in Dev : LostAt(d, l, e) \in Result
  BY <1>1, <1>2, <1>5, LegOutType DEF LostAt
<1>7. HangUp(d, l) \in Result
  BY <1>1, <1>4 DEF HangUp
<1>8. l.phase # "active" => TimedOut(d, l) \in Result
  <2>1. l.phase \in {"ringing", "connecting", "active"}
    BY DEF Live
  <2>2. QED
    BY <1>1, <1>4, <2>1 DEF TimedOut
<1>9. QED
  BY <1>6, <1>7, <1>8

(***************************************************************************)
(* Type correctness.                                                       *)
(***************************************************************************)
\* The variables that the calls' transitions write.
LineType == line \in [Callers -> [Dev -> Line]]
LiveType == live \in [Dev -> Live \cup {NoCall}]
LogType == outcome \in [Dev -> [Callers -> End \cup {None}]] /\ unlogged \subseteq Dev \X Callers

\* A device in call c has a well-formed one.
LEMMA InLive ==
    ASSUME LiveType, NEW d \in Dev, NEW c \in Dev, In(d, c)
    PROVE  live[d] \in Live /\ c \in Callers
<1>1. live[d] # NoCall
  BY CallsAssumption DEF In, NoCall
<1>2. QED
  BY <1>1 DEF LiveType, In, Live

LEMMA TidyType == \A x \in Line : Tidy(x) \in Line
<1>1. ASSUME NEW x \in Line PROVE Tidy(x) \in Line
  <2>1. <<>> \in Seq(Frame)
    OBVIOUS
  <2>2. \A s, t \in Seq(Frame) : [x EXCEPT !.to = s, !.fro = t] \in Line
    BY DEF Line
  <2>3. x.to \in Seq(Frame) /\ x.fro \in Seq(Frame)
    BY DEF Line
  <2> DEFINE to == IF x.serve = "over" THEN <<>> ELSE x.to
             fro == IF x.dial = "over" THEN <<>> ELSE x.fro
  <2>4. to \in Seq(Frame) /\ fro \in Seq(Frame)
    BY <2>1, <2>3
  <2>5. Tidy(x) = [x EXCEPT !.to = to, !.fro = fro]
    BY DEF Tidy, Line
  <2> HIDE DEF to, fro
  <2>6. QED
    BY <2>2, <2>4, <2>5
<1>2. QED
  BY <1>1

LEMMA SaidType ==
    ASSUME NEW ln \in [Callers -> [Dev -> Line]], NEW d \in Dev, NEW c \in Callers, NEW say \in Say
    PROVE  Said(ln, d, c, say) \in [Callers -> [Dev -> Line]]
<1>1. ASSUME NEW e \in Dev
      PROVE  /\ [ln[c][e] EXCEPT !.to = @ \o say[e]] \in Line
             /\ [ln[c][e] EXCEPT !.fro = @ \o say[c]] \in Line
  <2>1. say[e] \in Seq(Frame) /\ say[c] \in Seq(Frame)
    BY CallsAssumption DEF Say
  <2>2. ln[c][e] \in Line
    OBVIOUS
  <2>3. ln[c][e].to \in Seq(Frame) /\ ln[c][e].fro \in Seq(Frame)
    BY <2>2 DEF Line
  <2>4. ln[c][e].to \o say[e] \in Seq(Frame) /\ ln[c][e].fro \o say[c] \in Seq(Frame)
    BY <2>1, <2>3
  <2>5. QED
    BY <2>2, <2>4 DEF Line
<1>2. \A e \in Dev : Tidy(IF d = c THEN [ln[c][e] EXCEPT !.to = @ \o say[e]]
                        ELSE IF e = d THEN [ln[c][e] EXCEPT !.fro = @ \o say[c]]
                        ELSE ln[c][e]) \in Line
  BY <1>1, TidyType
<1>3. QED
  BY <1>2 DEF Said

\* Carrying out a transition.
LEMMA CarryType ==
    ASSUME LiveType, LogType, NEW d \in Dev, NEW c \in Callers,
           NEW ln \in [Callers -> [Dev -> Line]], NEW r \in Result, Carry(d, c, ln, r)
    PROVE  LiveType' /\ LineType' /\ LogType'
<1>1. LineType'
  BY SaidType DEF Carry, LineType, Result
<1>2. LiveType'
  BY DEF Carry, LiveType, Result
<1>3. LogType'
  BY DEF Carry, LogType, Result
<1>4. QED
  BY <1>1, <1>2, <1>3

LEMMA ApplyType ==
    ASSUME LiveType, LogType, NEW d \in Dev, NEW c \in Dev,
           NEW ln \in [Callers -> [Dev -> Line]], NEW r,
           live[d] \in Live => r \in Result, Apply(d, c, ln, r)
    PROVE  LiveType' /\ LineType' /\ LogType'
<1>1. CASE In(d, c)
  BY <1>1, InLive, CarryType DEF Apply
<1>2. CASE ~ In(d, c)
  <2>1. c \in Callers => \A e \in Dev : Tidy(ln[c][e]) \in Line
    BY TidyType
  <2>2. line' \in [Callers -> [Dev -> Line]]
    BY <1>2, <2>1 DEF Apply
  <2>3. QED
    BY <1>2, <2>2 DEF Apply, LiveType, LineType, LogType
<1>3. QED
  BY <1>1, <1>2

\* The rest of TypeOK.
RestType ==
    /\ tapped \in [Dev -> Callers \cup {None}]
    /\ placed \subseteq Callers
    /\ chosen \in [Callers -> Dev \cup {None}]
    /\ given \subseteq Dev \X Dev
    /\ breaks \in 0..MaxBreaks

LEMMA TypeSplit == TypeOK <=> LiveType /\ LineType /\ LogType /\ RestType
BY DEF TypeOK, LiveType, LineType, LogType, RestType

\* A frame of a stream, and what is left of it.
LEMMA HeadType ==
    \A q \in Seq(Frame) : q # <<>> => Head(q) \in Frame /\ Tail(q) \in Seq(Frame)
OBVIOUS

\* The streams stay well formed when one of them is changed.
LEMMA LineChange ==
    ASSUME LineType, NEW c \in Callers, NEW d \in Dev
    PROVE  /\ line[c][d] \in Line
           /\ \A x \in Line : [line EXCEPT ![c][d] = x] \in [Callers -> [Dev -> Line]]
BY DEF LineType

LEMMA StreamChange ==
    ASSUME NEW x \in Line
    PROVE  /\ \A v \in {"no", "dial", "opened", "on", "over"} : [x EXCEPT !.dial = v] \in Line
           /\ \A v \in {"none", "asked", "drop", "hang", "bridge", "on", "over"} :
                 [x EXCEPT !.serve = v] \in Line
           /\ \A q \in Seq(Frame) : [x EXCEPT !.to = q] \in Line /\ [x EXCEPT !.fro = q] \in Line
           /\ \A w \in Seq(Frame) : x.to \o w \in Seq(Frame) /\ x.fro \o w \in Seq(Frame)
           /\ x.to \in Seq(Frame) /\ x.fro \in Seq(Frame)
<1>1. x.to \in Seq(Frame) /\ x.fro \in Seq(Frame)
  BY DEF Line
<1>2. \A w \in Seq(Frame) : x.to \o w \in Seq(Frame) /\ x.fro \o w \in Seq(Frame)
  BY <1>1
<1>3. \A q \in Seq(Frame) : [x EXCEPT !.to = q] \in Line /\ [x EXCEPT !.fro = q] \in Line
  BY DEF Line
<1>4. QED
  BY <1>1, <1>2, <1>3 DEF Line

\* The steps of the caller's end of a stream.
LEMMA CallerType ==
    ASSUME LiveType, LineType, LogType, RestType, NEW c \in Callers, NEW d \in Dev,
           \/ DialOpens(c, d) \/ DialFails(c, d) \/ JoinLeg(c, d)
           \/ CallerReads(c, d) \/ CallerPumpEnds(c, d)
    PROVE  LiveType' /\ LineType' /\ LogType' /\ RestType'
<1>0. c \in Dev /\ line[c][d] \in Line
  BY CallsAssumption, LineChange
<1>1. CASE DialOpens(c, d)
  <2>1. [line[c][d] EXCEPT !.dial = "opened", !.serve = "asked"] \in Line
    BY <1>0 DEF Line
  <2>2. line' = [line EXCEPT ![c][d] = [line[c][d] EXCEPT !.dial = "opened", !.serve = "asked"]]
    BY <1>0, <1>1 DEF DialOpens, LineType
  <2>3. LineType'
    BY <2>1, <2>2, LineChange DEF LineType
  <2>4. QED
    BY <1>1, <2>3 DEF DialOpens, LiveType, LogType, RestType
<1>2. CASE DialFails(c, d)
  <2>1. [line EXCEPT ![c][d].dial = "over"] \in [Callers -> [Dev -> Line]]
    BY <1>0, LineChange, StreamChange
  <2>2. live[c] \in Live => LostAt(c, live[c], d) \in Result
    BY <1>0, EventType
  <2>3. LiveType' /\ LineType' /\ LogType'
    BY <1>0, <1>2, <2>1, <2>2, ApplyType DEF DialFails
  <2>4. QED
    BY <1>2, <2>3 DEF DialFails, RestType
<1>3. CASE JoinLeg(c, d)
  <2>1. CASE In(c, c)
    <3>1. [live[c] EXCEPT !.io = @ \cup {d}] \in Live
      BY <1>0, <2>1, InLive DEF Live
    <3>2. [line EXCEPT ![c][d].dial = "on"] \in [Callers -> [Dev -> Line]]
      BY <1>0, LineChange, StreamChange
    <3>3. LineType' /\ LiveType'
      BY <1>0, <1>3, <2>1, <3>1, <3>2 DEF JoinLeg, LiveType, LineType
    <3>4. QED
      BY <1>3, <2>1, <3>3 DEF JoinLeg, LogType, RestType
  <2>2. CASE ~ In(c, c)
    <3>1. <<"cancel", "fin">> \in Seq(Frame)
      BY DEF Frame
    <3>2. line[c][d].to \o <<"cancel", "fin">> \in Seq(Frame)
      BY <1>0, <3>1, StreamChange
    <3>3. Tidy([line[c][d] EXCEPT !.dial = "over", !.to = @ \o <<"cancel", "fin">>]) \in Line
      <4>1. [line[c][d] EXCEPT !.dial = "over", !.to = @ \o <<"cancel", "fin">>] \in Line
        BY <1>0, <3>2 DEF Line
      <4>2. QED
        BY <4>1, TidyType
    <3>4. LineType'
      <4> DEFINE y == Tidy([line[c][d] EXCEPT !.dial = "over", !.to = @ \o <<"cancel", "fin">>])
      <4>1. line' = [line EXCEPT ![c][d] = y]
        BY <1>3, <2>2 DEF JoinLeg
      <4> HIDE DEF y
      <4>2. y \in Line => line' \in [Callers -> [Dev -> Line]]
        BY <4>1, LineChange
      <4>3. y \in Line
        BY <3>3 DEF y
      <4>4. QED
        BY <4>2, <4>3 DEF LineType
    <3>5. QED
      BY <1>3, <2>2, <3>4 DEF JoinLeg, LiveType, LogType, RestType
  <2>3. QED
    BY <2>1, <2>2
<1>4. CASE CallerReads(c, d)
  <2>1. /\ Head(line[c][d].fro) \in Frame
        /\ Tail(line[c][d].fro) \in Seq(Frame)
    BY <1>0, <1>4, HeadType DEF CallerReads, Line
  <2>2. [line EXCEPT ![c][d].fro = Tail(@)] \in [Callers -> [Dev -> Line]]
    BY <1>0, <2>1, LineChange, StreamChange
  <2>3. live[c] \in Live => OnFrame(c, live[c], d, Head(line[c][d].fro)) \in Result
    BY <1>0, <2>1, OnFrameType
  <2>4. LiveType' /\ LineType' /\ LogType'
    BY <1>0, <1>4, <2>2, <2>3, ApplyType DEF CallerReads
  <2>5. QED
    BY <1>4, <2>4 DEF CallerReads, RestType
<1>5. CASE CallerPumpEnds(c, d)
  <2> DEFINE ln == [line EXCEPT ![c][d].dial = "over"]
             lx == [ln EXCEPT ![c][d].to = @ \o <<"fin">>]
             r == IF live[c].glareWait = d THEN Stays(live[c]) ELSE LostAt(c, live[c], d)
  <2>1. ln \in [Callers -> [Dev -> Line]]
    BY <1>0, LineChange, StreamChange
  <2>2. lx \in [Callers -> [Dev -> Line]]
    <3>1. ln[c][d] \in Line /\ <<"fin">> \in Seq(Frame)
      BY <2>1 DEF Frame
    <3>2. [ln[c][d] EXCEPT !.to = @ \o <<"fin">>] \in Line
      BY <3>1, StreamChange
    <3> HIDE DEF ln
    <3>3. QED
      BY <2>1, <3>2
  <2>3. live[c] \in Live => r \in Result
    BY <1>0, EventType, StaysType
  <2>4. Apply(c, c, lx, r) \/ Apply(c, c, ln, r)
    BY <1>5 DEF CallerPumpEnds
  <2>5. LiveType' /\ LineType' /\ LogType'
    <3> HIDE DEF ln, lx, r
    <3>1. QED
      BY <1>0, <2>1, <2>2, <2>3, <2>4, ApplyType
  <2>6. QED
    BY <1>5, <2>5 DEF CallerPumpEnds, RestType
<1>6. QED
  BY <1>1, <1>2, <1>3, <1>4, <1>5

\* What the called device writes on a stream before it is in the call.
LEMMA WriteType ==
    ASSUME LineType, NEW c \in Callers, NEW d \in Dev, NEW words \in Seq(Frame),
           NEW v \in {"on", "over"},
           line' = [line EXCEPT ![c][d] =
                       Tidy([line[c][d] EXCEPT !.serve = v, !.fro = @ \o words])]
    PROVE  LineType'
<1> DEFINE x == [line[c][d] EXCEPT !.serve = v, !.fro = @ \o words]
<1>1. line[c][d] \in Line
  BY LineChange
<1>2. line[c][d].fro \o words \in Seq(Frame)
  BY <1>1, StreamChange
<1>3. Tidy(x) \in Line
  <2>1. x \in Line
    BY <1>1, <1>2 DEF Line
  <2>2. QED
    BY <2>1, TidyType
<1> HIDE DEF x
<1>4. line' = [line EXCEPT ![c][d] = Tidy(x)]
  BY DEF x
<1>5. QED
  BY <1>3, <1>4, LineChange DEF LineType

\* The steps of the called device.
LEMMA CalleeType ==
    ASSUME LiveType, LineType, LogType, RestType, NEW c \in Callers, NEW d \in Dev,
           \/ OfferSeen(c, d) \/ MarkSilent(c, d) \/ DropMine(c, d) \/ RingHere(c, d)
           \/ CalleeReads(c, d) \/ CalleePumpEnds(c, d)
           \/ OfferRefused(c, d) \/ BridgeFails(c, d) \/ Break(c, d)
    PROVE  LiveType' /\ LineType' /\ LogType' /\ RestType'
<1>0. c \in Dev /\ line[c][d] \in Line
  BY CallsAssumption, LineChange
<1>1. \A v \in {"none", "asked", "drop", "hang", "bridge", "on", "over"} :
         [line EXCEPT ![c][d].serve = v] \in [Callers -> [Dev -> Line]]
  BY <1>0, LineChange, StreamChange
<1>2. \A word \in {"unavailable", "busy", "glare", "ring"} : Refuse(c, d, word) => LineType'
  <2>1. \A word \in {"unavailable", "busy", "glare", "ring"} : <<word, "fin">> \in Seq(Frame)
    BY DEF Frame
  <2>2. QED
    BY <2>1, WriteType DEF Refuse
<1>3. CASE OfferSeen(c, d)
  <2>1. LineType'
    <3>1. CASE line' = [line EXCEPT ![c][d].serve = "bridge"]
      BY <1>1, <3>1 DEF LineType
    <3>2. CASE line' = [line EXCEPT ![c][d].serve = "drop"]
      BY <1>1, <3>2 DEF LineType
    <3>3. CASE Refuse(c, d, "glare") \/ Refuse(c, d, "busy")
      BY <1>2, <3>3
    <3>4. QED
      BY <1>3, <3>1, <3>2, <3>3 DEF OfferSeen
  <2>2. outcome' \in [Dev -> [Callers -> End \cup {None}]]
    BY <1>3 DEF OfferSeen, LogType, End
  <2>3. given' \subseteq Dev \X Dev
    BY <1>0, <1>3 DEF OfferSeen, RestType
  <2>4. QED
    BY <1>3, <2>1, <2>2, <2>3 DEF OfferSeen, LiveType, LogType, RestType
<1>4. CASE MarkSilent(c, d)
  <2>1. In(d, d) => [live[d] EXCEPT !.silent = TRUE] \in Live
    <3>1. \A l \in Live : [l EXCEPT !.silent = TRUE] \in Live
      BY DEF Live
    <3>2. QED
      BY <3>1, InLive
  <2>2. LiveType'
    BY <1>4, <2>1 DEF MarkSilent, LiveType
  <2>3. LineType'
    BY <1>1, <1>4 DEF MarkSilent, LineType
  <2>4. given' \subseteq Dev \X Dev
    BY <1>0, <1>4 DEF MarkSilent, RestType
  <2>5. QED
    BY <1>4, <2>2, <2>3, <2>4 DEF MarkSilent, LogType, RestType
<1>5. CASE DropMine(c, d)
  <2> DEFINE ln == [line EXCEPT ![c][d].serve = "bridge"]
  <2>1. ln \in [Callers -> [Dev -> Line]]
    BY <1>1
  <2>2. live[d] \in Live => HangUp(d, live[d]) \in Result
    BY EventType
  <2>3. Apply(d, d, ln, HangUp(d, live[d]))
    BY <1>5 DEF DropMine
  <2>4. QED
    BY <1>5, <2>1, <2>2, <2>3, ApplyType DEF DropMine, RestType
<1>6. CASE RingHere(c, d)
  <2>1. CASE live[d] = NoCall
    <3>1. Incoming(c) \in Live
      <4>1. [e \in Dev |-> IF e = c THEN "ringing" ELSE "none"] \in [Dev -> LegState]
        BY DEF LegState
      <4>2. QED
        BY <1>0, <4>1 DEF Incoming, Live
    <3>2. <<"ring">> \in Seq(Frame)
      BY DEF Frame
    <3>3. LineType'
      <4>1. line' = [line EXCEPT ![c][d] =
                        Tidy([line[c][d] EXCEPT !.serve = "on", !.fro = @ \o <<"ring">>])]
        BY <1>6, <2>1 DEF RingHere
      <4>2. QED
        BY <3>2, <4>1, WriteType
    <3>4. QED
      BY <1>6, <2>1, <3>1, <3>3 DEF RingHere, LiveType, LogType, RestType
  <2>2. CASE live[d] # NoCall
    BY <1>2, <1>6, <2>2 DEF RingHere, LiveType, LogType, RestType
  <2>3. QED
    BY <2>1, <2>2
<1>7. CASE CalleeReads(c, d)
  <2>1. /\ Head(line[c][d].to) \in Frame
        /\ Tail(line[c][d].to) \in Seq(Frame)
    BY <1>0, <1>7, HeadType, StreamChange DEF CalleeReads
  <2>2. [line EXCEPT ![c][d].to = Tail(@)] \in [Callers -> [Dev -> Line]]
    BY <1>0, <2>1, LineChange, StreamChange
  <2>3. live[d] \in Live => OnFrame(d, live[d], c, Head(line[c][d].to)) \in Result
    BY <1>0, <2>1, OnFrameType
  <2>4. LiveType' /\ LineType' /\ LogType'
    BY <1>0, <1>7, <2>2, <2>3, ApplyType DEF CalleeReads
  <2>5. QED
    BY <1>7, <2>4 DEF CalleeReads, RestType
<1>8. CASE CalleePumpEnds(c, d)
  <2>1. live[d] \in Live => LostAt(d, live[d], c) \in Result
    BY <1>0, EventType
  <2>2. LiveType' /\ LineType' /\ LogType'
    BY <1>0, <1>1, <1>8, <2>1, ApplyType DEF CalleePumpEnds
  <2>3. QED
    BY <1>8, <2>2 DEF CalleePumpEnds, RestType
<1>9. CASE OfferRefused(c, d)
  BY <1>2, <1>9 DEF OfferRefused, LiveType, LogType, RestType
<1>10. CASE BridgeFails(c, d)
  <2>1. <<"fin">> \in Seq(Frame)
    BY DEF Frame
  <2>2. LineType'
    BY <1>10, <2>1, WriteType DEF BridgeFails
  <2>3. QED
    BY <1>10, <2>2 DEF BridgeFails, LiveType, LogType, RestType
<1>11. CASE Break(c, d)
  <2> DEFINE x == [line[c][d] EXCEPT !.to = <<"fin">>, !.fro = <<"fin">>]
  <2>1. x \in Line
    <3>1. <<"fin">> \in Seq(Frame)
      BY DEF Frame
    <3>2. QED
      BY <1>0, <3>1 DEF Line
  <2>2. line' = [line EXCEPT ![c][d] = x]
    BY <1>0, <1>11 DEF Break, LineType
  <2>3. LineType'
    <3> HIDE DEF x
    <3>1. QED
      BY <2>1, <2>2, LineChange DEF LineType
  <2>4. breaks' \in 0..MaxBreaks
    BY <1>11, CallsAssumption DEF Break, RestType
  <2>5. QED
    BY <1>11, <2>3, <2>4 DEF Break, LiveType, LogType, RestType
<1>12. QED
  BY <1>3, <1>4, <1>5, <1>6, <1>7, <1>8, <1>9, <1>10, <1>11

\* What people and clocks do.
LEMMA PeopleType ==
    ASSUME LiveType, LineType, LogType, RestType, NEW d \in Dev,
           \/ Answer(d) \/ Accept(d) \/ Hangup(d) \/ MediaUp(d) \/ Tick(d) \/ GlareOver(d)
           \/ d \in Callers /\ (Start(d) \/ SendOffer(d))
    PROVE  LiveType' /\ LineType' /\ LogType' /\ RestType'
<1>0. live[d] # NoCall => live[d] \in Live /\ live[d].id \in Callers
  BY DEF LiveType, Live
<1>1. CASE Start(d) /\ d \in Callers
  <2>1. Outgoing(d) \in Live
    <3>1. [e \in Dev |-> IF e \in LegsOf(d) THEN "dialing" ELSE "none"] \in [Dev -> LegState]
      BY DEF LegState
    <3>2. QED
      BY <1>1, <3>1 DEF Outgoing, Live
  <2>2. QED
    BY <1>1, <2>1 DEF Start, LiveType, LineType, LogType, RestType
<1>2. CASE SendOffer(d) /\ d \in Callers
  <2>1. \A e \in Dev : [line[d][e] EXCEPT !.dial = "dial"] \in Line /\ line[d][e] \in Line
    BY <1>2, LineChange, StreamChange
  <2>2. LineType'
    BY <1>2, <2>1 DEF SendOffer, LineType
  <2>3. QED
    BY <1>2, <2>2 DEF SendOffer, LiveType, LogType, RestType
<1>3. CASE Answer(d)
  <2>1. PICK c \in Callers \ {d} :
           /\ line' = Said(line, d, c, Tell({c}, "answer"))
           /\ tapped' = [tapped EXCEPT ![d] = c]
    BY <1>3 DEF Answer
  <2>2. Tell({c}, "answer") \in Say
    BY SayType DEF Frame
  <2>3. LineType'
    BY <2>1, <2>2, SaidType DEF LineType
  <2>4. QED
    BY <1>3, <2>1, <2>3 DEF Answer, LiveType, LogType, RestType
<1>4. CASE Accept(d)
  <2>1. tapped[d] \in Callers /\ tapped[d] \in Dev
    BY <1>4, CallsAssumption DEF Accept, RestType
  <2>2. \A l \in Live, c \in Dev :
           [l EXCEPT !.leg[c] = "answered", !.active = c, !.phase = "connecting"] \in Live
    BY DEF Live, LegState
  <2>3. LiveType'
    BY <1>4, <2>1, <2>2, InLive DEF Accept, LiveType
  <2>4. QED
    BY <1>4, <2>3 DEF Accept, LineType, LogType, RestType
<1>5. CASE Hangup(d)
  <2>1. HangUp(d, live[d]) \in Result
    BY <1>0, <1>5, EventType DEF Hangup
  <2>2. LiveType' /\ LineType' /\ LogType'
    BY <1>0, <1>5, <2>1, CarryType DEF Hangup, LineType
  <2>3. QED
    BY <1>5, <2>2 DEF Hangup, RestType
<1>6. CASE MediaUp(d)
  <2>1. \A l \in Live : [l EXCEPT !.phase = "active"] \in Live
    BY DEF Live
  <2>2. QED
    BY <1>0, <1>6, <2>1 DEF MediaUp, LiveType, LineType, LogType, RestType
<1>7. CASE Tick(d)
  <2>1. TimedOut(d, live[d]) \in Result
    BY <1>0, <1>7, EventType DEF Tick
  <2>2. LiveType' /\ LineType' /\ LogType'
    BY <1>0, <1>7, <2>1, CarryType DEF Tick, LineType
  <2>3. QED
    BY <1>7, <2>2 DEF Tick, RestType
<1>8. CASE GlareOver(d)
  <2> DEFINE l == [live[d] EXCEPT !.glareWait = None]
             e == live[d].glareWait
  <2>1. live[d] \in Live /\ d \in Callers
    BY <1>8, InLive DEF GlareOver
  <2>2. l \in Live /\ e \in Dev
    BY <1>8, <2>1 DEF GlareOver, Live
  <2>3. LegOut(l, e, "unavailable") \in Result
    <3> HIDE DEF l, e
    <3>1. QED
      BY <2>2, LegOutType DEF LegState
  <2>4. Carry(d, d, line, LegOut(l, e, "unavailable"))
    BY <1>8 DEF GlareOver
  <2>5. LiveType' /\ LineType' /\ LogType'
    <3> HIDE DEF l, e
    <3>1. QED
      BY <2>1, <2>3, <2>4, CarryType DEF LineType
  <2>6. QED
    BY <1>8, <2>5 DEF GlareOver, RestType
<1>9. QED
  BY <1>1, <1>2, <1>3, <1>4, <1>5, <1>6, <1>7, <1>8

LEMMA TypeStep ==
    ASSUME TypeOK, [Next]_vars
    PROVE  TypeOK'
<1>1. LiveType /\ LineType /\ LogType /\ RestType
  BY TypeSplit
<1>2. CASE UNCHANGED vars
  BY <1>2 DEF vars, TypeOK
<1>3. ASSUME NEW c \in Callers, NEW d \in Dev,
             Work(c, d) \/ OfferRefused(c, d) \/ BridgeFails(c, d) \/ Break(c, d)
      PROVE  LiveType' /\ LineType' /\ LogType' /\ RestType'
  BY <1>1, <1>3, CallerType, CalleeType DEF Work
<1>4. ASSUME NEW d \in Dev,
             \/ Answer(d) \/ Accept(d) \/ Hangup(d) \/ MediaUp(d) \/ Tick(d) \/ GlareOver(d)
             \/ d \in Callers /\ (Start(d) \/ SendOffer(d))
      PROVE  LiveType' /\ LineType' /\ LogType' /\ RestType'
  BY <1>1, <1>4, PeopleType
<1>5. CASE Next
  <2>1. LiveType' /\ LineType' /\ LogType' /\ RestType'
    BY <1>3, <1>4, <1>5, CallsAssumption DEF Next
  <2>2. QED
    BY <2>1 DEF TypeOK, LiveType, LineType, LogType, RestType
<1>6. QED
  BY <1>2, <1>5

\* The variables of the calls always have their types: no frame, timer or
\* broken stream puts a device into a call it cannot describe.
THEOREM TypeCorrect == Spec => []TypeOK
<1>1. Init => TypeOK
  <2>1. <<>> \in Seq(Frame)
    OBVIOUS
  <2>2. QED
    BY <2>1, CallsAssumption DEF Init, TypeOK, Line
<1>2. TypeOK /\ [Next]_vars => TypeOK'
  BY TypeStep
<1>3. QED
  BY <1>1, <1>2, PTL DEF Spec

(***************************************************************************)
(* Calls that cross.                                                       *)
(***************************************************************************)
\* Carrying out an event puts frames on the streams and moves neither end.
LEMMA TidyKeeps ==
    \A x \in Line : Tidy(x).dial = x.dial /\ Tidy(x).serve = x.serve
BY DEF Tidy, Line

LEMMA ApplyKeeps ==
    ASSUME LiveType, NEW d \in Dev, NEW c \in Dev, NEW ln \in [Callers -> [Dev -> Line]],
           NEW r, live[d] \in Live => r \in Result, Apply(d, c, ln, r)
    PROVE  \A b \in Callers, e \in Dev :
              line'[b][e].dial = ln[b][e].dial /\ line'[b][e].serve = ln[b][e].serve
<1>1. CASE In(d, c)
  <2>1. c \in Callers /\ r.say \in Say
    BY <1>1, InLive DEF Result
  <2>2. ASSUME NEW e \in Dev
        PROVE  /\ [ln[c][e] EXCEPT !.to = @ \o r.say[e]] \in Line
               /\ [ln[c][e] EXCEPT !.fro = @ \o r.say[c]] \in Line
    <3>1. r.say[e] \in Seq(Frame) /\ r.say[c] \in Seq(Frame)
      BY <2>1 DEF Say
    <3>2. ln[c][e] \in Line
      BY <2>1
    <3>3. QED
      BY <3>1, <3>2, StreamChange
  <2>3. line' = Said(ln, d, c, r.say)
    BY <1>1 DEF Apply, Carry
  <2>4. \A e \in Dev : line'[c][e] \in {Tidy([ln[c][e] EXCEPT !.to = @ \o r.say[e]]),
                                       Tidy([ln[c][e] EXCEPT !.fro = @ \o r.say[c]]),
                                       Tidy(ln[c][e])}
    BY <2>1, <2>3 DEF Said
  <2>5. \A b \in Callers \ {c} : line'[b] = ln[b]
    BY <2>3 DEF Said
  <2>6. \A e \in Dev : line'[c][e].dial = ln[c][e].dial /\ line'[c][e].serve = ln[c][e].serve
    <3>1. TAKE e \in Dev
    <3>2. ln[c][e] \in Line
      BY <2>1
    <3> DEFINE xt == [ln[c][e] EXCEPT !.to = @ \o r.say[e]]
               xf == [ln[c][e] EXCEPT !.fro = @ \o r.say[c]]
    <3>3. xt.dial = ln[c][e].dial /\ xt.serve = ln[c][e].serve
          /\ xf.dial = ln[c][e].dial /\ xf.serve = ln[c][e].serve
      BY <3>2 DEF Line
    <3>4. line'[c][e] \in {Tidy(xt), Tidy(xf), Tidy(ln[c][e])} /\ xt \in Line /\ xf \in Line
      BY <2>2, <2>4
    <3> HIDE DEF xt, xf
    <3>5. QED
      BY <3>2, <3>3, <3>4, TidyKeeps
  <2>7. QED
    BY <2>5, <2>6
<1>2. CASE ~ In(d, c)
  <2>1. line' = [ln EXCEPT ![c] = [e \in Dev |-> Tidy(ln[c][e])]]
    BY <1>2 DEF Apply
  <2>2. ASSUME NEW b \in Callers, NEW e \in Dev
        PROVE  line'[b][e] \in {ln[b][e], Tidy(ln[b][e])}
    BY <2>1
  <2>3. \A b \in Callers, e \in Dev : ln[b][e] \in Line
    OBVIOUS
  <2>4. QED
    BY <2>2, <2>3, TidyKeeps
<1>3. QED
  BY <1>1, <1>2

\* A stream exists only to a device the call rings, and an offer that gives up
\* our own call came from the smaller id.
CrossInv(c, d) ==
    LET x == line[c][d]
    IN  /\ x.dial # "no" \/ x.serve # "none" => d \in LegsOf(c)
        /\ x.serve = "drop" => Rank[c] < Rank[d]

GivenInv == \A p \in given : Rank[p[2]] < Rank[p[1]]

GlareInv == GivenInv /\ \A c \in Callers, d \in Dev : CrossInv(c, d)

\* What a change of a stream leaves alone.
LEMMA StreamEnds ==
    ASSUME NEW x \in Line
    PROVE  /\ \A v : [x EXCEPT !.dial = v].serve = x.serve
           /\ \A v : [x EXCEPT !.serve = v].serve = v /\ [x EXCEPT !.serve = v].dial = x.dial
           /\ \A q : [x EXCEPT !.to = q].serve = x.serve /\ [x EXCEPT !.to = q].dial = x.dial
           /\ \A q : [x EXCEPT !.fro = q].serve = x.serve /\ [x EXCEPT !.fro = q].dial = x.dial
           /\ \A v, q : [x EXCEPT !.serve = v, !.fro = q].serve = v
           /\ \A v, q : [x EXCEPT !.dial = v, !.to = q].serve = x.serve
BY DEF Line

\* An end of a stream moves and says something.
LEMMA StreamWrites ==
    ASSUME NEW x \in Line, NEW w \in Seq(Frame)
    PROVE  /\ \A v \in {"no", "dial", "opened", "on", "over"} : 
                 [x EXCEPT !.dial = v, !.to = @ \o w] \in Line
           /\ \A v \in {"none", "asked", "drop", "hang", "bridge", "on", "over"} :
                 [x EXCEPT !.serve = v, !.fro = @ \o w] \in Line
<1>1. x.to \o w \in Seq(Frame) /\ x.fro \o w \in Seq(Frame)
  BY StreamChange
<1>2. QED
  BY <1>1 DEF Line

\* It holds of a stream whose ends stay, or go where the call is rung and no
\* own call is in the way.
LEMMA CrossKeeps ==
    ASSUME NEW c \in Callers, NEW d \in Dev, CrossInv(c, d),
           \/ line'[c][d].dial = line[c][d].dial /\ line'[c][d].serve = line[c][d].serve
           \/ d \in LegsOf(c) /\ (line'[c][d].serve = "drop" => Rank[c] < Rank[d])
    PROVE  CrossInv(c, d)'
BY DEF CrossInv, LegsOf

\* One stream moves, the others keep their ends.
LEMMA CrossStep ==
    ASSUME GlareInv, NEW c \in Callers, NEW d \in Dev,
           \A b \in Callers, e \in Dev : <<b, e>> # <<c, d>> =>
              line'[b][e].dial = line[b][e].dial /\ line'[b][e].serve = line[b][e].serve,
           CrossInv(c, d)'
    PROVE  \A b \in Callers, e \in Dev : CrossInv(b, e)'
BY CrossKeeps DEF GlareInv

\* The rule that picks the surviving call.
LEMMA Survivor ==
    ASSUME NEW c \in Callers, NEW d \in Dev, d \in LegsOf(c)
    PROVE  /\ c # d
           /\ GlareWinner(d, c) = c => Rank[c] < Rank[d]
           /\ GlareWinner(d, c) # c => Rank[d] < Rank[c]
<1>1. c # d
  BY CallsAssumption DEF LegsOf
<1>2. Rank[c] \in Nat /\ Rank[d] \in Nat /\ Rank[c] # Rank[d]
  BY <1>1, CallsAssumption
<1>3. QED
  BY <1>1, <1>2 DEF GlareWinner

\* The tasks of call c for device d.
LEMMA GlareTask ==
    ASSUME TypeOK, GlareInv, NEW c \in Callers, NEW d \in Dev,
           Work(c, d) \/ OfferRefused(c, d) \/ BridgeFails(c, d) \/ Break(c, d)
    PROVE  GlareInv'
<1> USE DEF GlareInv
<1>0. c \in Dev /\ line[c][d] \in Line /\ LiveType /\ LineType
  BY CallsAssumption, TypeSplit, LineChange
<1>1. ASSUME UNCHANGED given PROVE GivenInv'
  BY <1>1 DEF GivenInv
<1>2. ASSUME NEW x \in Line, line' = [line EXCEPT ![c][d] = x],
             line[c][d].dial # "no" \/ line[c][d].serve # "none",
             x.serve = "drop" => Rank[c] < Rank[d]
      PROVE  \A b \in Callers, e \in Dev : CrossInv(b, e)'
  <2>1. line'[c][d] = x /\ d \in LegsOf(c)
    BY <1>0, <1>2 DEF LineType, CrossInv
  <2>2. CrossInv(c, d)'
    BY <1>2, <2>1 DEF CrossInv, LegsOf
  <2>3. \A b \in Callers, e \in Dev : <<b, e>> # <<c, d>> => line'[b][e] = line[b][e]
    BY <1>2 DEF LineType
  <2>4. QED
    BY <2>2, <2>3, CrossStep
<1>3. ASSUME NEW a \in Dev, NEW b \in Dev, NEW x \in Line, NEW r,
             live[a] \in Live => r \in Result, Apply(a, b, [line EXCEPT ![c][d] = x], r),
             line[c][d].dial # "no" \/ line[c][d].serve # "none",
             x.serve \in {"bridge", "over", line[c][d].serve}
      PROVE  \A b1 \in Callers, e \in Dev : CrossInv(b1, e)'
  <2> DEFINE ln == [line EXCEPT ![c][d] = x]
  <2>1. ln \in [Callers -> [Dev -> Line]]
    BY <1>0, LineChange
  <2>2. \A b1 \in Callers, e \in Dev :
           line'[b1][e].dial = ln[b1][e].dial /\ line'[b1][e].serve = ln[b1][e].serve
    <3> HIDE DEF ln
    <3>1. Apply(a, b, ln, r)
      BY <1>3 DEF ln
    <3>2. QED
      BY <1>0, <1>3, <2>1, <3>1, ApplyKeeps
  <2>3. ln[c][d] = x /\ \A b1 \in Callers, e \in Dev : <<b1, e>> # <<c, d>> => ln[b1][e] = line[b1][e]
    BY <1>0 DEF LineType
  <2> HIDE DEF ln
  <2>4. CrossInv(c, d)'
    BY <1>3, <2>2, <2>3 DEF CrossInv, LegsOf
  <2>5. QED
    BY <2>2, <2>3, <2>4, CrossStep
<1>4. ASSUME NEW word \in {"unavailable", "busy", "glare"}, Refuse(c, d, word), line[c][d].serve # "none"
      PROVE  \A b \in Callers, e \in Dev : CrossInv(b, e)'
  <2> DEFINE x == [line[c][d] EXCEPT !.serve = "over", !.fro = @ \o <<word, "fin">>]
  <2>1. <<word, "fin">> \in Seq(Frame)
    BY DEF Frame
  <2>2. x \in Line /\ x.serve = "over"
    <3>1. x \in Line
      BY <1>0, <2>1, StreamWrites
    <3>2. x.serve = "over"
      BY <1>0 DEF Line
    <3>3. QED
      BY <3>1, <3>2
  <2>3. line' = [line EXCEPT ![c][d] = Tidy(x)]
    BY <1>4 DEF Refuse
  <2> HIDE DEF x
  <2>4. QED
    BY <1>2, <1>4, <2>2, <2>3, TidyKeeps, TidyType
<1>5. CASE DialOpens(c, d)
  <2>1. [line[c][d] EXCEPT !.dial = "opened", !.serve = "asked"] \in Line
    BY <1>0 DEF Line
  <2>2. line' = [line EXCEPT ![c][d] = [line[c][d] EXCEPT !.dial = "opened", !.serve = "asked"]]
    BY <1>0, <1>5 DEF DialOpens, LineType
  <2>3. [line[c][d] EXCEPT !.dial = "opened", !.serve = "asked"].serve = "asked"
    BY <1>0 DEF Line
  <2>4. QED
    BY <1>1, <1>2, <1>5, <2>1, <2>2, <2>3 DEF DialOpens
<1>6. CASE DialFails(c, d)
  <2> DEFINE x == [line[c][d] EXCEPT !.dial = "over"]
  <2>1. x \in Line /\ x.serve = line[c][d].serve
    BY <1>0, StreamChange, StreamEnds, StreamWrites
  <2>2. Apply(c, c, [line EXCEPT ![c][d] = x], LostAt(c, live[c], d))
    BY <1>6 DEF DialFails
  <2>3. live[c] \in Live => LostAt(c, live[c], d) \in Result
    BY <1>0, EventType
  <2> HIDE DEF x
  <2>4. QED
    BY <1>0, <1>1, <1>3, <1>6, <2>1, <2>2, <2>3 DEF DialFails
<1>7. CASE JoinLeg(c, d)
  <2>1. CASE In(c, c)
    <3>1. [line[c][d] EXCEPT !.dial = "on"] \in Line
          /\ [line[c][d] EXCEPT !.dial = "on"].serve = line[c][d].serve
      BY <1>0, StreamChange, StreamEnds, StreamWrites
    <3>2. line' = [line EXCEPT ![c][d] = [line[c][d] EXCEPT !.dial = "on"]]
      BY <1>7, <2>1 DEF JoinLeg
    <3>3. QED
      BY <1>1, <1>2, <1>7, <3>1, <3>2 DEF JoinLeg, CrossInv
  <2>2. CASE ~ In(c, c)
    <3> DEFINE x == [line[c][d] EXCEPT !.dial = "over", !.to = @ \o <<"cancel", "fin">>]
    <3>1. <<"cancel", "fin">> \in Seq(Frame)
      BY DEF Frame
    <3>2. x \in Line /\ x.serve = line[c][d].serve
      <4>1. x \in Line
        BY <1>0, <3>1, StreamWrites
      <4>2. x.serve = line[c][d].serve
        BY <1>0 DEF Line
      <4>3. QED
        BY <4>1, <4>2
    <3>3. line' = [line EXCEPT ![c][d] = Tidy(x)]
      BY <1>7, <2>2 DEF JoinLeg
    <3> HIDE DEF x
    <3>4. QED
      BY <1>1, <1>2, <1>7, <3>2, <3>3, TidyKeeps, TidyType DEF JoinLeg, CrossInv
  <2>3. QED
    BY <2>1, <2>2
<1>8. CASE CallerReads(c, d)
  <2> DEFINE x == [line[c][d] EXCEPT !.fro = Tail(@)]
  <2>1. Head(line[c][d].fro) \in Frame /\ Tail(line[c][d].fro) \in Seq(Frame)
    BY <1>0, <1>8, HeadType, StreamChange DEF CallerReads
  <2>2. x \in Line /\ x.serve = line[c][d].serve
    BY <1>0, <2>1, StreamChange, StreamEnds, StreamWrites
  <2>3. live[c] \in Live => OnFrame(c, live[c], d, Head(line[c][d].fro)) \in Result
    BY <1>0, <2>1, OnFrameType
  <2>4. Apply(c, c, [line EXCEPT ![c][d] = x], OnFrame(c, live[c], d, Head(line[c][d].fro)))
    BY <1>8 DEF CallerReads
  <2> HIDE DEF x
  <2>5. QED
    BY <1>0, <1>1, <1>3, <1>8, <2>2, <2>3, <2>4 DEF CallerReads
<1>9. CASE CallerPumpEnds(c, d)
  <2> DEFINE y == [line[c][d] EXCEPT !.dial = "over"]
             z == [y EXCEPT !.to = @ \o <<"fin">>]
             r == IF live[c].glareWait = d THEN Stays(live[c]) ELSE LostAt(c, live[c], d)
             ln == [line EXCEPT ![c][d] = y]
  <2>1. y \in Line /\ y.serve = line[c][d].serve
    BY <1>0, StreamChange, StreamEnds, StreamWrites
  <2>2. z \in Line /\ z.serve = line[c][d].serve
    <3>1. <<"fin">> \in Seq(Frame)
      BY DEF Frame
    <3> HIDE DEF y
    <3>2. QED
      BY <2>1, <3>1, StreamChange, StreamEnds, StreamWrites
  <2>3. live[c] \in Live => r \in Result
    BY <1>0, EventType, StaysType
  <2>4. Apply(c, c, [ln EXCEPT ![c][d].to = @ \o <<"fin">>], r) \/ Apply(c, c, ln, r)
    BY <1>9 DEF CallerPumpEnds
  <2>5. [ln EXCEPT ![c][d].to = @ \o <<"fin">>] = [line EXCEPT ![c][d] = z]
    <3>1. ln[c][d] = y /\ ln \in [Callers -> [Dev -> Line]]
      BY <1>0, <2>1, LineChange DEF LineType
    <3>2. [ln EXCEPT ![c][d].to = @ \o <<"fin">>] = [ln EXCEPT ![c][d] = z]
      <4> HIDE DEF ln, y
      <4>1. QED
        BY <3>1
    <3>3. \A v : [ln EXCEPT ![c][d] = v] = [line EXCEPT ![c][d] = v]
      BY <1>0 DEF LineType
    <3>4. QED
      BY <3>2, <3>3
  <2> HIDE DEF y, z, r
  <2>6. Apply(c, c, [line EXCEPT ![c][d] = z], r) \/ Apply(c, c, [line EXCEPT ![c][d] = y], r)
    BY <2>4, <2>5
  <2>7. QED
    BY <1>0, <1>1, <1>3, <1>9, <2>1, <2>2, <2>3, <2>6 DEF CallerPumpEnds
<1>10. ASSUME NEW v \in {"bridge", "hang", "drop"}, line' = [line EXCEPT ![c][d].serve = v],
              line[c][d].serve # "none", v = "drop" => Rank[c] < Rank[d]
       PROVE  \A b \in Callers, e \in Dev : CrossInv(b, e)'
  <2>1. [line[c][d] EXCEPT !.serve = v] \in Line /\ [line[c][d] EXCEPT !.serve = v].serve = v
    BY ZenonT(60), <1>0, StreamChange, StreamEnds, StreamWrites
  <2>2. QED
    BY <1>2, <1>10, <2>1
<1>11. CASE OfferSeen(c, d)
  <2>1. d \in LegsOf(c) /\ line[c][d].serve # "none"
    BY <1>11 DEF OfferSeen, CrossInv
  <2>2. \A b \in Callers, e \in Dev : CrossInv(b, e)'
    <3>1. \/ line' = [line EXCEPT ![c][d].serve = "bridge"]
          \/ line' = [line EXCEPT ![c][d].serve = "drop"] /\ GlareWinner(d, c) = c
          \/ Refuse(c, d, "glare") \/ Refuse(c, d, "busy")
      BY <1>11 DEF OfferSeen
    <3>2. QED
      BY <1>4, <1>10, <2>1, <3>1, Survivor
  <2>3. GivenInv'
    <3>1. \/ UNCHANGED given
          \/ GlareWinner(d, c) # c /\ given' = given \cup {<<c, d>>}
      BY <1>11 DEF OfferSeen
    <3>2. GlareWinner(d, c) # c => Rank[d] < Rank[c]
      BY <2>1, Survivor
    <3>3. QED
      BY <3>1, <3>2 DEF GivenInv
  <2>4. QED
    BY <2>2, <2>3
<1>12. CASE MarkSilent(c, d)
  <2>1. Rank[c] < Rank[d]
    BY <1>12 DEF MarkSilent, CrossInv
  <2>2. GivenInv'
    BY <1>12, <2>1 DEF MarkSilent, GivenInv
  <2>3. QED
    BY <1>10, <1>12, <2>2 DEF MarkSilent
<1>13. CASE DropMine(c, d)
  <2> DEFINE x == [line[c][d] EXCEPT !.serve = "bridge"]
  <2>1. x \in Line /\ x.serve = "bridge"
    BY ZenonT(60), <1>0, StreamChange, StreamEnds, StreamWrites
  <2>2. Apply(d, d, [line EXCEPT ![c][d] = x], HangUp(d, live[d]))
    BY <1>13 DEF DropMine
  <2>3. live[d] \in Live => HangUp(d, live[d]) \in Result
    BY EventType
  <2> HIDE DEF x
  <2>4. QED
    BY <1>0, <1>1, <1>3, <1>13, <2>1, <2>2, <2>3 DEF DropMine
<1>14. CASE RingHere(c, d)
  <2>1. CASE live[d] = NoCall
    <3> DEFINE x == [line[c][d] EXCEPT !.serve = "on", !.fro = @ \o <<"ring">>]
    <3>1. <<"ring">> \in Seq(Frame)
      BY DEF Frame
    <3>2. x \in Line /\ x.serve = "on"
      <4>1. x \in Line
        BY <1>0, <3>1, StreamWrites
      <4>2. x.serve = "on"
        BY <1>0 DEF Line
      <4>3. QED
        BY <4>1, <4>2
    <3>3. line' = [line EXCEPT ![c][d] = Tidy(x)]
      BY <1>14, <2>1 DEF RingHere
    <3> HIDE DEF x
    <3>4. QED
      BY <1>1, <1>2, <1>14, <3>2, <3>3, TidyKeeps, TidyType DEF RingHere
  <2>2. CASE live[d] # NoCall
    BY <1>1, <1>4, <1>14, <2>2 DEF RingHere
  <2>3. QED
    BY <2>1, <2>2
<1>15. CASE CalleeReads(c, d)
  <2> DEFINE x == [line[c][d] EXCEPT !.to = Tail(@)]
  <2>1. Head(line[c][d].to) \in Frame /\ Tail(line[c][d].to) \in Seq(Frame)
    BY <1>0, <1>15, HeadType, StreamChange DEF CalleeReads
  <2>2. x \in Line /\ x.serve = line[c][d].serve
    BY <1>0, <2>1, StreamChange, StreamEnds, StreamWrites
  <2>3. live[d] \in Live => OnFrame(d, live[d], c, Head(line[c][d].to)) \in Result
    BY <1>0, <2>1, OnFrameType
  <2>4. Apply(d, c, [line EXCEPT ![c][d] = x], OnFrame(d, live[d], c, Head(line[c][d].to)))
    BY <1>15 DEF CalleeReads
  <2> HIDE DEF x
  <2>5. QED
    BY <1>0, <1>1, <1>3, <1>15, <2>2, <2>3, <2>4 DEF CalleeReads
<1>16. CASE CalleePumpEnds(c, d)
  <2> DEFINE x == [line[c][d] EXCEPT !.serve = "over"]
  <2>1. x \in Line /\ x.serve = "over"
    BY ZenonT(60), <1>0, StreamChange, StreamEnds, StreamWrites
  <2>2. Apply(d, c, [line EXCEPT ![c][d] = x], LostAt(d, live[d], c))
    BY <1>16 DEF CalleePumpEnds
  <2>3. live[d] \in Live => LostAt(d, live[d], c) \in Result
    BY <1>0, EventType
  <2> HIDE DEF x
  <2>4. QED
    BY <1>0, <1>1, <1>3, <1>16, <2>1, <2>2, <2>3 DEF CalleePumpEnds
<1>17. CASE OfferRefused(c, d)
  BY <1>1, <1>4, <1>17 DEF OfferRefused
<1>18. CASE BridgeFails(c, d)
  <2> DEFINE x == [line[c][d] EXCEPT !.serve = "over", !.fro = @ \o <<"fin">>]
  <2>1. <<"fin">> \in Seq(Frame)
    BY DEF Frame
  <2>2. x \in Line /\ x.serve = "over"
    <3>1. x \in Line
      BY <1>0, <2>1, StreamWrites
    <3>2. x.serve = "over"
      BY <1>0 DEF Line
    <3>3. QED
      BY <3>1, <3>2
  <2>3. line' = [line EXCEPT ![c][d] = Tidy(x)]
    BY <1>18 DEF BridgeFails
  <2> HIDE DEF x
  <2>4. QED
    BY <1>1, <1>2, <1>18, <2>2, <2>3, TidyKeeps, TidyType DEF BridgeFails
<1>19. CASE Break(c, d)
  <2> DEFINE x == [line[c][d] EXCEPT !.to = <<"fin">>, !.fro = <<"fin">>]
  <2>1. <<"fin">> \in Seq(Frame)
    BY DEF Frame
  <2>2. x \in Line /\ x.serve = "on"
    BY <1>0, <1>19, <2>1 DEF Break, Line
  <2>3. line' = [line EXCEPT ![c][d] = x]
    BY <1>0, <1>19 DEF Break, LineType
  <2> HIDE DEF x
  <2>4. QED
    BY <1>1, <1>2, <1>19, <2>2, <2>3 DEF Break
<1>20. QED
  BY <1>5, <1>6, <1>7, <1>8, <1>9, <1>11, <1>12, <1>13, <1>14, <1>15, <1>16, <1>17, <1>18, <1>19
     DEF Work

\* What people and clocks do.
LEMMA GlarePeople ==
    ASSUME TypeOK, GlareInv, NEW d \in Dev,
           \/ Answer(d) \/ Accept(d) \/ Hangup(d) \/ MediaUp(d) \/ Tick(d) \/ GlareOver(d)
           \/ d \in Callers /\ (Start(d) \/ SendOffer(d))
    PROVE  GlareInv'
<1> USE DEF GlareInv
<1>0. LiveType /\ LineType /\ (live[d] # NoCall => live[d] \in Live /\ live[d].id \in Callers)
  BY TypeSplit DEF LiveType, Live
<1>1. GivenInv'
  <2>1. UNCHANGED given
    BY DEF Answer, Accept, Hangup, MediaUp, Tick, GlareOver, Start, SendOffer
  <2>2. QED
    BY <2>1 DEF GivenInv
<1>2. ASSUME \A b \in Callers, e \in Dev :
                line'[b][e].dial = line[b][e].dial /\ line'[b][e].serve = line[b][e].serve
      PROVE  \A b \in Callers, e \in Dev : CrossInv(b, e)'
  BY <1>2, CrossKeeps
<1>3. CASE UNCHANGED line
  BY <1>1, <1>2, <1>3
<1>4. CASE SendOffer(d) /\ d \in Callers
  <2>1. ASSUME NEW b \in Callers, NEW e \in Dev
        PROVE  \/ line'[b][e] = line[b][e]
               \/ b = d /\ e \in LegsOf(d) /\ line'[b][e] = [line[d][e] EXCEPT !.dial = "dial"]
    BY <1>0, <1>4 DEF SendOffer, LineType
  <2>2. \A e \in Dev : [line[d][e] EXCEPT !.dial = "dial"].serve = line[d][e].serve
    BY <1>0, <1>4, LineChange DEF Line
  <2>3. ASSUME NEW b \in Callers, NEW e \in Dev PROVE CrossInv(b, e)'
    <3>1. CASE line'[b][e] = line[b][e]
      BY <1>2, <3>1 DEF CrossInv, LegsOf
    <3>2. CASE b = d /\ e \in LegsOf(d) /\ line'[b][e] = [line[d][e] EXCEPT !.dial = "dial"]
      BY <2>2, <3>2 DEF CrossInv, LegsOf
    <3>3. QED
      BY <2>1, <3>1, <3>2
  <2>4. QED
    BY <1>1, <2>3
<1>5. ASSUME NEW c \in Dev, NEW r \in Result, Apply(d, c, line, r)
      PROVE  \A b \in Callers, e \in Dev : CrossInv(b, e)'
  BY <1>0, <1>2, <1>5, ApplyKeeps DEF LineType
<1>6. CASE Answer(d)
  <2>1. PICK c \in Callers \ {d} : In(d, c) /\ line' = Said(line, d, c, Tell({c}, "answer"))
    BY <1>6 DEF Answer
  <2>2. Tell({c}, "answer") \in Say
    BY SayType DEF Frame
  <2>3. \A b \in Callers, e \in Dev :
           line'[b][e] \in {line[b][e], Tidy(line[b][e]),
                            Tidy([line[c][d] EXCEPT !.fro = @ \o Tell({c}, "answer")[c]])}
        /\ (<<b, e>> # <<c, d>> => line'[b][e] \in {line[b][e], Tidy(line[b][e])})
    BY <1>0, <2>1 DEF Said, LineType
  <2>4. [line[c][d] EXCEPT !.fro = @ \o Tell({c}, "answer")[c]] \in Line
    <3>1. Tell({c}, "answer")[c] \in Seq(Frame)
      BY <2>2, CallsAssumption DEF Say
    <3>2. QED
      BY <1>0, <3>1, LineChange, StreamChange, StreamEnds, StreamWrites
  <2>5. [line[c][d] EXCEPT !.fro = @ \o Tell({c}, "answer")[c]].dial = line[c][d].dial
        /\ [line[c][d] EXCEPT !.fro = @ \o Tell({c}, "answer")[c]].serve = line[c][d].serve
    BY <1>0, LineChange DEF Line
  <2>6. \A b \in Callers, e \in Dev : line[b][e] \in Line
    BY <1>0 DEF LineType
  <2>7. QED
    BY <1>1, <1>2, <2>3, <2>4, <2>5, <2>6, TidyKeeps
<1>7. CASE Hangup(d)
  <2>1. HangUp(d, live[d]) \in Result
    BY <1>0, <1>7, EventType DEF Hangup
  <2>2. Apply(d, live[d].id, line, HangUp(d, live[d]))
    BY <1>7 DEF Hangup, Apply, In
  <2>3. QED
    BY <1>0, <1>1, <1>5, <1>7, <2>1, <2>2, CallsAssumption DEF Hangup
<1>8. CASE Tick(d)
  <2>1. TimedOut(d, live[d]) \in Result
    BY <1>0, <1>8, EventType DEF Tick
  <2>2. Apply(d, live[d].id, line, TimedOut(d, live[d]))
    BY <1>8 DEF Tick, Apply, In
  <2>3. QED
    BY <1>0, <1>1, <1>5, <1>8, <2>1, <2>2, CallsAssumption DEF Tick
<1>9. CASE GlareOver(d)
  <2> DEFINE l == [live[d] EXCEPT !.glareWait = None]
             e == live[d].glareWait
  <2>1. live[d] \in Live /\ d \in Callers
    BY <1>0, <1>9, InLive DEF GlareOver
  <2>2. l \in Live /\ e \in Dev
    BY <1>9, <2>1 DEF GlareOver, Live
  <2>3. Apply(d, d, line, LegOut(l, e, "unavailable"))
    BY <1>9 DEF GlareOver, Apply
  <2> HIDE DEF l, e
  <2>4. LegOut(l, e, "unavailable") \in Result
    BY <2>2, LegOutType DEF LegState
  <2>5. QED
    BY <1>1, <1>5, <2>3, <2>4
<1>10. QED
  BY <1>3, <1>4, <1>6, <1>7, <1>8, <1>9 DEF Accept, MediaUp, Start

\* When two people call each other at the same moment the code drops one call
\* for the other on each side separately (mod.rs, on an offer and on a "glare"
\* frame); whichever way the two offers cross, the two calls are never both
\* given up for each other.
THEOREM GlareKeepsOneAlways == Spec => []GlareKeepsOne
<1>1. Init => GlareInv
  BY CallsAssumption DEF Init, GlareInv, GivenInv, CrossInv
<1>2. TypeOK /\ GlareInv /\ [Next]_vars => GlareInv'
  <2>1. SUFFICES ASSUME TypeOK, GlareInv, [Next]_vars PROVE GlareInv'
    OBVIOUS
  <2>2. CASE UNCHANGED vars
    BY <2>1, <2>2 DEF vars, GlareInv, GivenInv, CrossInv
  <2>3. CASE Next
    BY <2>1, <2>3, GlareTask, GlarePeople, CallsAssumption DEF Next
  <2>4. QED
    BY <2>1, <2>2, <2>3
<1>3. TypeOK /\ GlareInv => GlareKeepsOne
  <2>1. SUFFICES ASSUME TypeOK, GlareInv, NEW c \in Callers, NEW d \in Callers,
                        <<c, d>> \in given, <<d, c>> \in given
                 PROVE  FALSE
    BY DEF GlareKeepsOne
  <2>2. Rank[d] < Rank[c] /\ Rank[c] < Rank[d]
    BY <2>1 DEF GlareInv, GivenInv
  <2>3. Rank[c] \in Nat /\ Rank[d] \in Nat
    BY <2>1, CallsAssumption
  <2>4. QED
    BY <2>2, <2>3
<1>4. QED
  BY <1>1, <1>2, <1>3, TypeCorrect, PTL DEF Spec

(***************************************************************************)
(* What is queued on a stream, as a set of words.                          *)
(***************************************************************************)
Words(q) == {q[i] : i \in DOMAIN q}

LEMMA QueuedIsWord == \A w, q : Queued(w, q) <=> w \in Words(q)
BY DEF Queued, Words

LEMMA FewWords ==
    /\ Words(<<>>) = {}
    /\ \A v : Words(<<v>>) = {v}
    /\ \A v, w : Words(<<v, w>>) = {v, w}
<1>1. Words(<<>>) = {}
  BY DEF Words
<1>2. ASSUME NEW v PROVE Words(<<v>>) = {v}
  <2>1. DOMAIN <<v>> = {1} /\ <<v>>[1] = v
    OBVIOUS
  <2>2. QED
    BY <2>1, Zenon DEF Words
<1>3. ASSUME NEW v, NEW w PROVE Words(<<v, w>>) = {v, w}
  <2>1. DOMAIN <<v, w>> = {1, 2} /\ <<v, w>>[1] = v /\ <<v, w>>[2] = w
    OBVIOUS
  <2>2. QED
    BY <2>1, Zenon DEF Words
<1>4. QED
  BY <1>1, <1>2, <1>3

LEMMA JoinedWords ==
    \A q, r \in Seq(Frame) : Words(q \o r) = Words(q) \cup Words(r)
<1>1. ASSUME NEW q \in Seq(Frame), NEW r \in Seq(Frame), NEW w \in Words(q \o r)
      PROVE  w \in Words(q) \cup Words(r)
  <2>1. PICK i \in 1 .. Len(q \o r) : w = (q \o r)[i]
    BY DEF Words
  <2>2. CASE i <= Len(q)
    <3>1. i \in DOMAIN q /\ w = q[i]
      BY <2>1, <2>2
    <3>2. QED
      BY <3>1 DEF Words
  <2>3. CASE i > Len(q)
    <3>1. i - Len(q) \in DOMAIN r /\ w = r[i - Len(q)]
      BY <2>1, <2>3
    <3>2. QED
      BY <3>1 DEF Words
  <2>4. QED
    BY <2>2, <2>3
<1>2. ASSUME NEW q \in Seq(Frame), NEW r \in Seq(Frame), NEW w \in Words(q)
      PROVE  w \in Words(q \o r)
  <2>1. PICK i \in DOMAIN q : w = q[i]
    BY DEF Words
  <2>2. i \in DOMAIN (q \o r) /\ w = (q \o r)[i]
    BY <2>1
  <2>3. QED
    BY <2>2 DEF Words
<1>3. ASSUME NEW q \in Seq(Frame), NEW r \in Seq(Frame), NEW w \in Words(r)
      PROVE  w \in Words(q \o r)
  <2>1. PICK i \in DOMAIN r : w = r[i]
    BY DEF Words
  <2>2. Len(q) + i \in DOMAIN (q \o r) /\ w = (q \o r)[Len(q) + i]
    BY <2>1
  <2>3. QED
    BY <2>2 DEF Words
<1>4. QED
  BY <1>1, <1>2, <1>3

LEMMA HeadWord ==
    \A q \in Seq(Frame) : q # <<>> =>
        Head(q) \in Words(q) /\ Words(Tail(q)) \subseteq Words(q)
        /\ Words(q) \subseteq Words(Tail(q)) \cup {Head(q)}
<1>1. SUFFICES ASSUME NEW q \in Seq(Frame), q # <<>>
               PROVE  Words(q) = {Head(q)} \cup Words(Tail(q))
  OBVIOUS
<1>2. Head(q) = q[1] /\ 1 \in DOMAIN q
  BY <1>1
<1>3. ASSUME NEW w \in Words(Tail(q)) PROVE w \in Words(q)
  <2>1. PICK i \in DOMAIN Tail(q) : w = Tail(q)[i]
    BY DEF Words
  <2>2. i + 1 \in DOMAIN q /\ w = q[i + 1]
    BY <1>1, <2>1
  <2>3. QED
    BY <2>2 DEF Words
<1>4. ASSUME NEW w \in Words(q) PROVE w \in {Head(q)} \cup Words(Tail(q))
  <2>1. PICK i \in DOMAIN q : w = q[i]
    BY DEF Words
  <2>2. CASE i = 1
    BY <1>2, <2>1, <2>2
  <2>3. CASE i # 1
    <3>1. i - 1 \in DOMAIN Tail(q) /\ w = Tail(q)[i - 1]
      BY <1>1, <2>1, <2>3
    <3>2. QED
      BY <3>1 DEF Words
  <2>4. QED
    BY <2>2, <2>3
<1>5. QED
  BY <1>2, <1>3, <1>4 DEF Words

(***************************************************************************)
(* What an event makes of a call on the device that placed it.             *)
(***************************************************************************)
\* A call that rings has no answer yet, and carries the devices that may answer.
RingsOpen(l) == l.phase = "ringing" => l.active = None /\ l.io \subseteq Open(l)

\* The devices that are told the call was taken on another one.
Takes(r) == {e \in Dev : "taken" \in Words(r.say[e])}

\* A device that is out of the call is told so, where a stream is up.
Told(l, r) ==
    \A e \in l.io : "fin" \in Words(r.say[e]) \/ (r.call # NoCall /\ e \in r.call.io)

\* Call l goes on as k, with device e or without it.
GoesOn(l, e, k) ==
    /\ k \in Live /\ k.id = l.id /\ k.phase = l.phase /\ k.active = l.active
    /\ k.io \subseteq l.io /\ k.glareWait \in {None, l.glareWait}
    /\ k.phase = "ringing" => Open(l) \ {e} \subseteq Open(k)
    /\ RingsOpen(k)

\* The call ends or goes on; nobody took it.
EndsOrGoesOn(l, e, r) ==
    /\ r \in Result /\ Told(l, r) /\ Takes(r) = {} /\ r.end # "elsewhere"
    /\ r.call = NoCall \/ GoesOn(l, e, r.call)

LEMMA LiveIsCall == \A l \in Live : l # NoCall
<1>1. SUFFICES ASSUME NEW l \in Live, l = NoCall PROVE FALSE
  OBVIOUS
<1>2. l.id \in Callers /\ l.id = None
  BY <1>1 DEF Live, NoCall
<1>3. QED
  BY <1>2, CallsAssumption

LEMMA SaidWords ==
    /\ \A e \in Dev : Words(Silence[e]) = {}
    /\ \A S, w : \A e \in Dev : Words(Tell(S, w)[e]) = IF e \in S THEN {w} ELSE {}
BY FewWords DEF Silence, Tell

\* Finishing the call.
LEMMA FinishEnds ==
    ASSUME NEW l \in Live, NEW e \in Dev, NEW end \in End \ {"elsewhere"}, NEW words \in Say,
           \A d \in Dev : "taken" \notin Words(words[d])
    PROVE  EndsOrGoesOn(l, e, Finish(l, end, words)) /\ Finish(l, end, words).call = NoCall
<1> DEFINE r == Finish(l, end, words)
<1>1. r \in Result /\ r.call = NoCall /\ r.end = end
  BY FinishType DEF Finish
<1>2. ASSUME NEW d \in Dev
      PROVE  /\ d \in l.io => "fin" \in Words(r.say[d])
             /\ "taken" \notin Words(r.say[d])
  <2>1. r.say[d] = IF d \in l.io THEN words[d] \o <<"fin">> ELSE <<>>
    BY DEF Finish
  <2>2. words[d] \in Seq(Frame) /\ <<"fin">> \in Seq(Frame)
    BY DEF Say, Frame
  <2>3. Words(words[d] \o <<"fin">>) = Words(words[d]) \cup {"fin"}
    <3>1. Words(<<"fin">>) = {"fin"}
      BY FewWords
    <3>2. Words(words[d] \o <<"fin">>) = Words(words[d]) \cup Words(<<"fin">>)
      BY <2>2, JoinedWords
    <3>3. QED
      BY <3>1, <3>2
  <2> HIDE DEF r
  <2>4. QED
    BY <2>1, <2>3, FewWords
<1>3. l.io \subseteq Dev
  BY DEF Live
<1> HIDE DEF r
<1>4. Told(l, r)
  BY <1>2, <1>3 DEF Told
<1>5. Takes(r) = {}
  BY <1>2 DEF Takes
<1>6. QED
  BY <1>1, <1>4, <1>5 DEF EndsOrGoesOn, r

\* Words that finish calls.
LEMMA WordsThatEnd ==
    /\ Silence \in Say /\ \A d \in Dev : "taken" \notin Words(Silence[d])
    /\ \A S : \A w \in {"hangup", "cancel", "decline", "missed"} :
          Tell(S, w) \in Say /\ \A d \in Dev : "taken" \notin Words(Tell(S, w)[d])
<1>1. ASSUME NEW S, NEW w \in {"hangup", "cancel", "decline", "missed"}
      PROVE  Tell(S, w) \in Say /\ \A d \in Dev : "taken" \notin Words(Tell(S, w)[d])
  <2>1. Tell(S, w) \in Say
    BY SayType DEF Frame
  <2>2. \A d \in Dev : Words(Tell(S, w)[d]) = IF d \in S THEN {w} ELSE {}
    BY SaidWords
  <2>3. QED
    BY <2>1, <2>2
<1>2. QED
  BY <1>1, SayType, SaidWords

LEMMA StaysGoesOn ==
    ASSUME NEW l \in Live, NEW e \in Dev, NEW k \in Live, GoesOn(l, e, k), l.io \subseteq k.io
    PROVE  EndsOrGoesOn(l, e, Stays(k))
<1>1. Stays(k) \in Result /\ Stays(k).call = k /\ Stays(k).end = None /\ Stays(k).say = Silence
  BY StaysType DEF Stays
<1>2. k # NoCall /\ None # "elsewhere"
  BY LiveIsCall, NoneAssumption DEF End
<1>3. Told(l, Stays(k)) /\ Takes(Stays(k)) = {}
  BY <1>1, <1>2, SaidWords DEF Told, Takes
<1>4. QED
  BY <1>1, <1>2, <1>3 DEF EndsOrGoesOn

\* One device leaves the call.
LEMMA ReleaseGoesOn ==
    ASSUME NEW l \in Live, NEW e \in Dev, NEW st \in LegState \ Undone, RingsOpen(l)
    PROVE  /\ EndsOrGoesOn(l, e, Release(l, {e}, st, <<>>))
           /\ Release(l, {e}, st, <<>>).call \in Live
<1> DEFINE k == [l EXCEPT !.leg = [x \in Dev |-> IF x \in {e} THEN st ELSE l.leg[x]],
                          !.io = l.io \ {e}]
           r == Release(l, {e}, st, <<>>)
<1>1. r \in Result /\ r.call \in Live
  <2>1. <<>> \in Seq(Frame) /\ {e} \in SUBSET Dev
    OBVIOUS
  <2>2. QED
    BY <2>1, ReleaseType
<1>2. r.call = k /\ r.end = None
  BY DEF Release
<1>3. ASSUME NEW d \in Dev
      PROVE  /\ d = e /\ d \in l.io => "fin" \in Words(r.say[d])
             /\ "taken" \notin Words(r.say[d])
  <2>1. r.say[d] = IF d \in {e} \cap l.io THEN <<>> \o <<"fin">> ELSE <<>>
    BY DEF Release
  <2>2. <<>> \o <<"fin">> = <<"fin">>
    OBVIOUS
  <2> HIDE DEF r
  <2>3. QED
    BY <2>1, <2>2, FewWords
<1>4. k \in Live /\ k.io = l.io \ {e} /\ k.id = l.id /\ k.phase = l.phase /\ k.active = l.active
      /\ k.glareWait = l.glareWait /\ k.leg = [x \in Dev |-> IF x \in {e} THEN st ELSE l.leg[x]]
  BY <1>1, <1>2 DEF Live
<1>5. Open(k) = Open(l) \ {e}
  BY <1>4 DEF Open
<1> HIDE DEF k, r
<1>6. GoesOn(l, e, k)
  BY <1>4, <1>5 DEF GoesOn, RingsOpen
<1>7. Told(l, r)
  <2>1. l.io \subseteq Dev /\ k # NoCall
    BY <1>4, LiveIsCall DEF Live
  <2>2. QED
    BY <1>2, <1>3, <1>4, <2>1 DEF Told
<1>8. Takes(r) = {}
  BY <1>3 DEF Takes
<1>9. None # "elsewhere"
  BY NoneAssumption DEF End
<1>10. EndsOrGoesOn(l, e, r)
  BY <1>1, <1>2, <1>6, <1>7, <1>8, <1>9 DEF EndsOrGoesOn
<1>11. QED
  BY <1>1, <1>10 DEF r

\* Settling ends the call or leaves it as it is.
LEMMA SettleGoesOn ==
    ASSUME NEW l \in Live, NEW e \in Dev, NEW r, EndsOrGoesOn(l, e, r), r.call \in Live
    PROVE  /\ EndsOrGoesOn(l, e, Settle(r))
           /\ Settle(r).call \in {r.call, NoCall}
<1> DEFINE k == r.call
           end == IF \E x \in Dev : k.leg[x] = "busy" THEN "busy"
                  ELSE IF \E x \in Dev : k.leg[x] = "missed" THEN "noanswer" ELSE "unavailable"
           f == Finish(k, end, Silence)
           say == [x \in Dev |-> r.say[x] \o f.say[x]]
           s == [f EXCEPT !.say = say]
<1>1. Settle(r) = IF k.phase # "ringing" \/ Open(k) # {} THEN r ELSE s
  BY DEF Settle
<1>2. end \in End \ {"elsewhere"} /\ k \in Live /\ k # NoCall /\ r \in Result
  BY LiveIsCall DEF End, EndsOrGoesOn
<1>3. EndsOrGoesOn(k, e, f) /\ f.call = NoCall /\ f \in Result
  <2> HIDE DEF k, end
  <2>1. EndsOrGoesOn(k, e, Finish(k, end, Silence)) /\ Finish(k, end, Silence).call = NoCall
    BY <1>2, FinishEnds, WordsThatEnd
  <2>2. QED
    BY <2>1 DEF EndsOrGoesOn
<1>4. s \in Result /\ s.call = NoCall /\ s.end = f.end /\ s.say = say
  <2>1. r.say \in Say /\ f.say \in Say
    BY <1>2, <1>3 DEF Result
  <2>2. say \in Say
    <3> HIDE DEF f, k
    <3>1. QED
      BY <2>1, JoinType
  <2> HIDE DEF f, k, say
  <2>3. QED
    BY <1>3, <2>2 DEF Result
<1>5. ASSUME NEW x \in Dev PROVE Words(say[x]) = Words(r.say[x]) \cup Words(f.say[x])
  <2>1. r.say[x] \in Seq(Frame) /\ f.say[x] \in Seq(Frame)
    <3> HIDE DEF f, k
    <3>1. QED
      BY <1>2, <1>3 DEF Result, Say
  <2>2. say[x] = r.say[x] \o f.say[x]
    OBVIOUS
  <2> HIDE DEF f, k, say
  <2>3. QED
    BY <2>1, <2>2, JoinedWords
<1> HIDE DEF k, end, f, say, s
<1>6. Told(l, s)
  <2>1. l.io \subseteq Dev
    BY DEF Live
  <2>2. ASSUME NEW x \in l.io PROVE "fin" \in Words(say[x])
    <3>1. "fin" \in Words(r.say[x]) \/ x \in k.io
      BY <2>2 DEF EndsOrGoesOn, Told, k
    <3>2. x \in k.io => "fin" \in Words(f.say[x])
      BY <1>3 DEF EndsOrGoesOn, Told
    <3>3. QED
      BY <2>1, <3>1, <3>2, <1>5
  <2>3. QED
    BY <1>4, <2>2 DEF Told
<1>7. Takes(s) = {}
  <2>1. ASSUME NEW x \in Dev PROVE "taken" \notin Words(say[x])
    BY <1>3, <1>5 DEF EndsOrGoesOn, Takes
  <2>2. QED
    BY <1>4, <2>1 DEF Takes
<1>8. EndsOrGoesOn(l, e, s)
  BY <1>3, <1>4, <1>6, <1>7 DEF EndsOrGoesOn
<1>9. QED
  BY <1>1, <1>4, <1>8 DEF k

LEMMA SameGoesOn ==
    ASSUME NEW l \in Live, NEW e \in Dev, RingsOpen(l)
    PROVE  GoesOn(l, e, l) /\ EndsOrGoesOn(l, e, Stays(l)) /\ Stays(l).call = l
<1>1. GoesOn(l, e, l)
  BY DEF GoesOn
<1>2. QED
  BY <1>1, StaysGoesOn DEF Stays

LEMMA LegOutGoesOn ==
    ASSUME NEW l \in Live, NEW e \in Dev, NEW st \in LegState \ Undone, RingsOpen(l)
    PROVE  EndsOrGoesOn(l, e, LegOut(l, e, st))
<1>1. CASE e \in Open(l)
  BY <1>1, ReleaseGoesOn, SettleGoesOn DEF LegOut
<1>2. CASE e \notin Open(l)
  BY <1>2, SameGoesOn, SettleGoesOn DEF LegOut
<1>3. QED
  BY <1>1, <1>2

\* The events of a call on the device that placed it.
LEMMA LostGoesOn ==
    ASSUME NEW l \in Live, NEW e \in Dev, RingsOpen(l)
    PROVE  /\ EndsOrGoesOn(l, e, LostAt(l.id, l, e))
           /\ l.active = e => LostAt(l.id, l, e).call = NoCall
<1>1. "failed" \in LegState \ Undone /\ "failed" \in End \ {"elsewhere"}
  BY DEF LegState, Undone, End
<1>2. QED
  BY <1>1, FinishEnds, WordsThatEnd, LegOutGoesOn DEF LostAt

LEMMA HangUpEnds ==
    ASSUME NEW l \in Live, NEW e \in Dev, NEW d \in Dev
    PROVE  EndsOrGoesOn(l, e, HangUp(d, l)) /\ HangUp(d, l).call = NoCall
<1>1. {"hangup", "canceled", "declined"} \subseteq End \ {"elsewhere"}
  BY DEF End
<1>2. QED
  BY <1>1, FinishEnds, WordsThatEnd DEF HangUp

LEMMA TimeEnds ==
    ASSUME NEW l \in Live, NEW e \in Dev, NEW d \in Dev, l.phase # "active"
    PROVE  EndsOrGoesOn(l, e, TimedOut(d, l)) /\ TimedOut(d, l).call = NoCall
<1>1. {"failed", "noanswer", "missed"} \subseteq End \ {"elsewhere"}
  BY DEF End
<1>2. l.phase \in {"connecting", "ringing"}
  BY DEF Live
<1>3. TimedOut(d, l) \in {Finish(l, "failed", Tell({l.active}, "hangup")),
                          Finish(l, "noanswer", Tell(Open(l), "cancel")),
                          Finish(l, "missed", Tell({l.id}, "missed"))}
  BY <1>2 DEF TimedOut
<1>4. QED
  BY <1>1, <1>3, FinishEnds, WordsThatEnd

(***************************************************************************)
(* What the two ends of a stream know of a call, put together.             *)
(***************************************************************************)
\* What device d has of call c.
Mine(d, c) == IF In(d, c) THEN live[d] ELSE NoCall

View(c, d) ==
    [dial |-> line[c][d].dial, serve |-> line[c][d].serve,
     to |-> Words(line[c][d].to), fro |-> Words(line[c][d].fro),
     mine |-> Mine(c, c), theirs |-> Mine(d, c),
     tap |-> tapped[d], took |-> chosen[c], end |-> outcome[d][c], placed |-> placed]

\* A call on the device that placed it, and the answer it took.
CallOK(c, l, took) ==
    l # NoCall =>
      /\ l.phase = "ringing" => RingsOpen(l) /\ took = None
      /\ l.phase # "ringing" => l.active \in Dev \ {c} /\ took = l.active

CarriedBy(l, d) == l # NoCall /\ l.phase # "ringing" /\ l.active = d

\* A stream goes to a device the call rings; its task there starts with the
\* offer and says nothing before the device rings or refuses.
StreamOK(c, d, v) ==
    /\ v.dial # "no" => d \in LegsOf(c) /\ c \in v.placed
    /\ v.dial \in {"no", "dial"} => v.serve = "none"
    /\ v.serve \in {"none", "asked", "drop", "hang", "bridge"} => v.fro = {}
    /\ "glare" \in v.fro => v.serve = "over" /\ "answer" \notin v.fro

\* What the caller thinks of the device fits the stream.
CallerOK(c, d, v) ==
    LET l == v.mine
    IN  /\ CarriedBy(l, d) => v.dial = "on"
        /\ l # NoCall /\ l.phase = "ringing" /\ d \in LegsOf(c)
           /\ v.dial \in {"no", "dial", "opened"} => d \in Open(l)
        /\ l # NoCall /\ l.glareWait = d =>
              /\ v.dial \in {"on", "over"} /\ v.serve = "over"
              /\ l.active # d /\ "answer" \notin v.fro

\* A device whose caller left the stream has the end of it on the way.
ToldOK(d, v) ==
    v.serve \notin {"none", "over"}
    /\ (v.dial = "over" \/ (v.dial = "on" /\ (v.mine = NoCall \/ d \notin v.mine.io)))
    => "fin" \in v.to

\* The called device is in the call only while its stream is up.
CalleeOK(c, v) ==
    LET k == v.theirs
    IN  /\ k # NoCall => /\ v.serve = "on" /\ k.io = {c} /\ k.active \in {None, c}
                         /\ k.phase = "ringing" <=> k.active = None
        /\ v.tap = c => v.serve \in {"on", "over"}

\* The device answered and is still in the call.
Answering(c, v) == v.theirs # NoCall /\ (v.theirs.phase # "ringing" \/ v.tap = c)

\* An answer reaches the caller or meets the end of the stream; a caller that
\* took it has the device in the call, or the end of the stream on the way.
AnswerOK(c, d, v) ==
    /\ Answering(c, v) /\ v.dial \in {"opened", "on"}
       => CarriedBy(v.mine, d) \/ "answer" \in v.fro \/ "fin" \in v.to
    /\ "answer" \in v.fro \/ CarriedBy(v.mine, d)
       => Answering(c, v) \/ "fin" \in v.fro

\* "Taken" is said when another device was chosen.
TakenOK(d, v) == "taken" \in v.to \/ v.end = "elsewhere" => v.took \notin {None, d}

PairOK(c, d, v) ==
    /\ StreamOK(c, d, v) /\ CallerOK(c, d, v) /\ ToldOK(d, v)
    /\ CalleeOK(c, v) /\ AnswerOK(c, d, v) /\ TakenOK(d, v)

\* An event on the caller, at the stream to device d: the event is about device
\* e, and f is the frame it took from the stream to d.
LEMMA CallerMoves ==
    ASSUME NEW c \in Callers, NEW d \in Dev, NEW e \in Dev, NEW f, NEW W, NEW v, NEW w,
           PairOK(c, d, v), CallOK(c, v.mine, v.took), v.mine # NoCall,
           w.serve = v.serve, w.theirs = v.theirs, w.tap = v.tap, w.end = v.end,
           w.placed = v.placed, w.took = v.took,
           w.mine = NoCall \/ GoesOn(v.mine, e, w.mine),
           d \in v.mine.io => "fin" \in W \/ (w.mine # NoCall /\ d \in w.mine.io),
           "taken" \in W => v.took \notin {None, d},
           w.to = v.to \cup W \/ (v.serve = "over" /\ w.to = {}),
           w.dial = v.dial \/ (v.dial \in {"dial", "on"} /\ w.dial = "over"),
           w.dial = "over" => w.fro \in {v.fro, {}},
           w.dial # "over" => w.fro \subseteq v.fro /\ v.fro \subseteq w.fro \cup {f},
           f # "fin",
           d = e => w.dial \notin {"no", "dial", "opened"},
           w.dial # v.dial => (w.mine # NoCall => w.mine.active # d)
                              /\ (v.serve \notin {"none", "over"} => "fin" \in w.to),
           f = "answer" /\ w.dial # "over" /\ Answering(c, v) =>
              CarriedBy(w.mine, d) \/ "fin" \in w.to
    PROVE  PairOK(c, d, w)
<1>1. StreamOK(c, d, v) /\ CallerOK(c, d, v) /\ ToldOK(d, v)
      /\ CalleeOK(c, v) /\ AnswerOK(c, d, v) /\ TakenOK(d, v)
  BY DEF PairOK
<1>2. StreamOK(c, d, w)
  BY <1>1 DEF StreamOK
<1>3. w.mine # NoCall => /\ w.mine.phase = v.mine.phase /\ w.mine.active = v.mine.active
                         /\ w.mine.glareWait \in {None, v.mine.glareWait}
                         /\ w.mine.phase = "ringing" => Open(v.mine) \ {e} \subseteq Open(w.mine)
                         /\ w.mine.io \subseteq v.mine.io
  BY DEF GoesOn
<1>4. CarriedBy(w.mine, d) => CarriedBy(v.mine, d) /\ w.dial = "on"
  BY <1>1, <1>3 DEF CarriedBy, CallerOK
<1>5. CallerOK(c, d, w)
  <2>1. ASSUME w.mine # NoCall, w.mine.phase = "ringing", d \in LegsOf(c),
               w.dial \in {"no", "dial", "opened"}
        PROVE  d \in Open(w.mine)
    BY <1>1, <1>3, <2>1 DEF CallerOK
  <2>2. ASSUME w.mine # NoCall, w.mine.glareWait = d
        PROVE  /\ w.dial \in {"on", "over"} /\ w.serve = "over"
               /\ w.mine.active # d /\ "answer" \notin w.fro
    <3>1. v.mine.glareWait = d
      BY <1>3, <2>2, CallsAssumption
    <3>2. QED
      BY <1>1, <1>3, <2>2, <3>1 DEF CallerOK
  <2>3. QED
    BY <1>4, <2>1, <2>2 DEF CallerOK
<1>6. ToldOK(d, w)
  BY <1>1, <1>3 DEF ToldOK
<1>7. CalleeOK(c, w)
  BY <1>1 DEF CalleeOK
<1>8. Answering(c, w) <=> Answering(c, v)
  BY DEF Answering
<1>9. ASSUME Answering(c, v), w.dial \in {"opened", "on"}
      PROVE  CarriedBy(w.mine, d) \/ "answer" \in w.fro \/ "fin" \in w.to
  <2>1. w.dial = v.dial /\ v.serve = "on" /\ w.to = v.to \cup W
    BY <1>1, <1>9 DEF CalleeOK, Answering
  <2>2. CASE CarriedBy(v.mine, d)
    <3>1. v.dial = "on"
      BY <1>1, <2>2 DEF CallerOK
    <3>2. w.mine = NoCall => "fin" \in w.to
      BY <1>1, <2>1, <3>1 DEF ToldOK
    <3>3. QED
      BY <1>3, <2>2, <3>2 DEF CarriedBy
  <2>3. CASE "answer" \in v.fro \/ "fin" \in v.to
    BY <1>9, <2>1, <2>3
  <2>4. QED
    BY <1>1, <1>9, <2>1, <2>2, <2>3 DEF AnswerOK
<1>10. ASSUME "answer" \in w.fro \/ CarriedBy(w.mine, d)
       PROVE  Answering(c, v) \/ "fin" \in w.fro
  <2>1. "answer" \in v.fro \/ CarriedBy(v.mine, d)
    BY <1>4, <1>10
  <2>2. Answering(c, v) \/ "fin" \in v.fro
    BY <1>1, <2>1 DEF AnswerOK
  <2>3. "fin" \in v.fro => "fin" \in w.fro
    BY <1>4, <1>10
  <2>4. QED
    BY <2>2, <2>3
<1>11. AnswerOK(c, d, w)
  BY <1>8, <1>9, <1>10 DEF AnswerOK
<1>12. TakenOK(d, w)
  BY <1>1 DEF TakenOK
<1>13. QED
  BY <1>2, <1>5, <1>6, <1>7, <1>11, <1>12 DEF PairOK

\* An event on the called device.
LEMMA CalleeMoves ==
    ASSUME NEW c \in Callers, NEW d \in Dev, NEW W, NEW v, NEW w,
           PairOK(c, d, v), v.serve = "on", w.serve \in {"on", "over"},
           w.mine = v.mine, w.took = v.took, w.placed = v.placed, w.dial = v.dial,
           w.tap = v.tap, w.theirs = NoCall \/ (w.theirs = v.theirs /\ w.serve = "on"),
           v.theirs # NoCall /\ w.theirs = NoCall => "fin" \in W,
           "answer" \notin W, "glare" \notin W,
           w.fro = v.fro \cup W \/ (v.dial = "over" /\ w.fro = {}),
           w.to \subseteq v.to, w.serve = "on" /\ "fin" \in v.to => "fin" \in w.to,
           w.end \in {v.end} \/ w.end # "elsewhere" \/ "taken" \in v.to
    PROVE  PairOK(c, d, w)
<1>1. StreamOK(c, d, v) /\ CallerOK(c, d, v) /\ ToldOK(d, v)
      /\ CalleeOK(c, v) /\ AnswerOK(c, d, v) /\ TakenOK(d, v)
  BY DEF PairOK
<1>2. StreamOK(c, d, w)
  BY <1>1 DEF StreamOK
<1>3. CallerOK(c, d, w)
  BY <1>1 DEF CallerOK
<1>4. ToldOK(d, w)
  BY <1>1 DEF ToldOK
<1>5. CalleeOK(c, w)
  BY <1>1 DEF CalleeOK
<1>6. ASSUME Answering(c, w), w.dial \in {"opened", "on"}
      PROVE  CarriedBy(w.mine, d) \/ "answer" \in w.fro \/ "fin" \in w.to
  <2>1. Answering(c, v) /\ w.serve = "on" /\ v.fro \subseteq w.fro
    BY <1>6 DEF Answering
  <2>2. QED
    BY <1>1, <1>6, <2>1 DEF AnswerOK
<1>7. ASSUME "answer" \in w.fro \/ CarriedBy(w.mine, d)
      PROVE  Answering(c, w) \/ "fin" \in w.fro
  <2>1. w.fro = v.fro \cup W
    BY <1>1, <1>7 DEF CallerOK
  <2>2. Answering(c, v) \/ "fin" \in v.fro
    BY <1>1, <1>7, <2>1 DEF AnswerOK
  <2>3. QED
    BY <2>1, <2>2 DEF Answering
<1>8. AnswerOK(c, d, w)
  BY <1>6, <1>7 DEF AnswerOK
<1>9. TakenOK(d, w)
  BY <1>1 DEF TakenOK
<1>10. QED
  BY <1>2, <1>3, <1>4, <1>5, <1>8, <1>9 DEF PairOK

\* The first answer is taken: it came from device e.
LEMMA AnswerTaken ==
    ASSUME NEW c \in Callers, NEW d \in Dev, NEW e \in Dev, NEW W, NEW v, NEW w,
           PairOK(c, d, v), CallOK(c, v.mine, v.took),
           v.mine # NoCall, v.mine.phase = "ringing",
           w.mine # NoCall, w.mine.phase # "ringing", w.mine.active = e, w.took = e,
           w.mine.glareWait = v.mine.glareWait,
           w.serve = v.serve, w.theirs = v.theirs, w.tap = v.tap, w.end = v.end,
           w.placed = v.placed, w.dial = v.dial,
           d \in v.mine.io => "fin" \in W \/ d \in w.mine.io,
           "taken" \in W => d # e,
           w.to = v.to \cup W \/ (v.serve = "over" /\ w.to = {}),
           d # e => w.fro = v.fro \/ (v.dial = "over" /\ w.fro = {}),
           d = e => v.dial = "on" /\ "answer" \in v.fro /\ w.fro \subseteq v.fro
                    /\ v.fro \subseteq w.fro \cup {"answer"}
    PROVE  PairOK(c, d, w)
<1>1. StreamOK(c, d, v) /\ CallerOK(c, d, v) /\ ToldOK(d, v)
      /\ CalleeOK(c, v) /\ AnswerOK(c, d, v) /\ TakenOK(d, v)
  BY DEF PairOK
<1>2. v.took = None /\ None \notin Dev /\ w.took # None
  BY CallsAssumption DEF CallOK
<1>3. StreamOK(c, d, w)
  BY <1>1 DEF StreamOK
<1>4. CallerOK(c, d, w)
  BY <1>1, <1>2 DEF CallerOK, CarriedBy
<1>5. ToldOK(d, w)
  BY <1>1 DEF ToldOK
<1>6. CalleeOK(c, w)
  BY <1>1 DEF CalleeOK
<1>7. ~ CarriedBy(v.mine, d) /\ (CarriedBy(w.mine, d) <=> d = e)
  BY DEF CarriedBy
<1>8. AnswerOK(c, d, w)
  <2>1. CASE d = e
    BY <1>1, <1>7, <2>1 DEF AnswerOK, Answering
  <2>2. CASE d # e
    <3>1. Answering(c, v) => v.serve = "on"
      BY <1>1 DEF Answering, CalleeOK
    <3>2. Answering(c, w) <=> Answering(c, v)
      BY DEF Answering
    <3>3. QED
      BY <1>1, <1>7, <2>2, <3>1, <3>2 DEF AnswerOK
  <2>3. QED
    BY <2>1, <2>2
<1>9. TakenOK(d, w)
  BY <1>1, <1>2 DEF TakenOK
<1>10. QED
  BY <1>3, <1>4, <1>5, <1>6, <1>8, <1>9 DEF PairOK

\* The call goes on with no device out of it: a leg joins, the media come up,
\* it is marked silent, or it waits for the call of device e after a "glare".
LEMMA CallChanges ==
    ASSUME NEW c \in Callers, NEW d \in Dev, NEW v, NEW w,
           PairOK(c, d, v), v.mine # NoCall, w.mine # NoCall,
           v.mine.phase = "ringing" <=> w.mine.phase = "ringing",
           w.mine.active = v.mine.active, Open(w.mine) = Open(v.mine),
           d \in v.mine.io => d \in w.mine.io,
           w.mine.glareWait = v.mine.glareWait
              \/ (w.mine.glareWait = d =>
                     v.dial = "on" /\ "glare" \in v.fro /\ ~ CarriedBy(v.mine, d)
                     /\ v.mine.active = None),
           w.serve = v.serve \/ (v.serve = "drop" /\ w.serve = "hang"),
           w.theirs = v.theirs, w.tap = v.tap, w.end = v.end,
           w.placed = v.placed, w.took = v.took,
           w.to = v.to \/ (v.serve = "over" /\ w.to = {}),
           w.fro = v.fro \/ (v.dial = "on" /\ w.fro \subseteq v.fro /\ v.fro \subseteq w.fro \cup {"glare"})
              \/ (v.dial = "over" /\ w.fro = {}),
           w.dial = v.dial \/ (v.dial = "opened" /\ w.dial = "on" /\ d \in w.mine.io)
    PROVE  PairOK(c, d, w)
<1>1. StreamOK(c, d, v) /\ CallerOK(c, d, v) /\ ToldOK(d, v)
      /\ CalleeOK(c, v) /\ AnswerOK(c, d, v) /\ TakenOK(d, v)
  BY DEF PairOK
<1>2. CarriedBy(w.mine, d) <=> CarriedBy(v.mine, d)
  BY DEF CarriedBy
<1>3. StreamOK(c, d, w)
  BY <1>1 DEF StreamOK
<1>4. CallerOK(c, d, w)
  <2>1. ASSUME w.mine.glareWait = d
        PROVE  /\ w.dial \in {"on", "over"} /\ w.serve = "over"
               /\ w.mine.active # d /\ "answer" \notin w.fro
    BY <1>1, <2>1, CallsAssumption DEF CallerOK, StreamOK
  <2>2. QED
    BY <1>1, <1>2, <2>1 DEF CallerOK
<1>5. ToldOK(d, w)
  BY <1>1 DEF ToldOK
<1>6. CalleeOK(c, w)
  BY <1>1 DEF CalleeOK
<1>7. Answering(c, w) <=> Answering(c, v)
  BY DEF Answering
<1>8. Answering(c, v) => v.serve = "on"
  BY <1>1 DEF Answering, CalleeOK
<1>9. CarriedBy(v.mine, d) => v.dial = "on"
  BY <1>1 DEF CallerOK
<1>10. AnswerOK(c, d, w)
  BY <1>1, <1>2, <1>7, <1>8, <1>9 DEF AnswerOK
<1>11. TakenOK(d, w)
  BY <1>1 DEF TakenOK
<1>12. QED
  BY <1>3, <1>4, <1>5, <1>6, <1>10, <1>11 DEF PairOK

\* The caller's end of a stream goes on after its call is over.
LEMMA NoCallerMoves ==
    ASSUME NEW c \in Callers, NEW d \in Dev, NEW f, NEW W, NEW v, NEW w,
           PairOK(c, d, v), v.mine = NoCall, w.mine = NoCall,
           w.serve = v.serve \/ (v.serve = "none" /\ w.serve = "asked" /\ w.dial = "opened"),
           w.theirs = v.theirs, w.tap = v.tap, w.end = v.end,
           w.placed = v.placed, w.took = v.took, "taken" \notin W,
           w.to = v.to \cup W \/ (v.serve = "over" /\ w.to = {}),
           w.dial = v.dial \/ (v.dial = "dial" /\ w.dial = "opened")
              \/ (v.dial # "no" /\ w.dial = "over" /\ (w.serve \notin {"none", "over"} => "fin" \in w.to)),
           w.dial = "over" => w.fro \in {v.fro, {}},
           w.dial # "over" => w.fro \subseteq v.fro /\ v.fro \subseteq w.fro \cup {f},
           w.fro # v.fro => v.dial \in {"on", "over"} \/ w.dial = "over",
           f # "fin"
    PROVE  PairOK(c, d, w)
<1>1. StreamOK(c, d, v) /\ CallerOK(c, d, v) /\ ToldOK(d, v)
      /\ CalleeOK(c, v) /\ AnswerOK(c, d, v) /\ TakenOK(d, v)
  BY DEF PairOK
<1>2. ~ CarriedBy(w.mine, d) /\ ~ CarriedBy(v.mine, d)
  BY DEF CarriedBy
<1>3. StreamOK(c, d, w)
  BY <1>1 DEF StreamOK
<1>4. CallerOK(c, d, w)
  BY <1>2 DEF CallerOK
<1>5. ToldOK(d, w)
  BY <1>1 DEF ToldOK
<1>6. CalleeOK(c, w)
  BY <1>1 DEF CalleeOK
<1>7. Answering(c, w) <=> Answering(c, v)
  BY DEF Answering
<1>8. ASSUME Answering(c, v), w.dial \in {"opened", "on"}
      PROVE  "answer" \in w.fro \/ "fin" \in w.to
  <2>1. v.serve = "on" /\ v.dial \notin {"no", "dial"} /\ w.dial = v.dial
    BY <1>1, <1>8 DEF Answering, CalleeOK, StreamOK
  <2>2. CASE v.dial = "on"
    BY <1>1, <2>1, <2>2 DEF ToldOK
  <2>3. CASE v.dial = "opened"
    <3>1. w.fro = v.fro /\ w.to = v.to \cup W
      BY <2>1, <2>3
    <3>2. "answer" \in v.fro \/ "fin" \in v.to
      BY <1>1, <1>2, <1>8, <2>3 DEF AnswerOK
    <3>3. QED
      BY <3>1, <3>2
  <2>4. QED
    BY <1>8, <2>1, <2>2, <2>3
<1>9. "answer" \in w.fro => Answering(c, v) \/ "fin" \in w.fro
  BY <1>1, <1>2 DEF AnswerOK
<1>10. AnswerOK(c, d, w)
  BY <1>2, <1>7, <1>8, <1>9 DEF AnswerOK
<1>11. TakenOK(d, w)
  BY <1>1 DEF TakenOK
<1>12. QED
  BY <1>3, <1>4, <1>5, <1>6, <1>10, <1>11 DEF PairOK

\* The task for an offer moves on, or refuses the call.
LEMMA ServeMoves ==
    ASSUME NEW c \in Callers, NEW d \in Dev, NEW v, NEW w,
           PairOK(c, d, v), v.serve \in {"asked", "drop", "hang", "bridge"},
           w.mine = v.mine, w.theirs = v.theirs, w.tap = v.tap, w.placed = v.placed,
           w.took = v.took, w.dial = v.dial,
           w.end = v.end \/ w.end # "elsewhere",
           \/ w.serve \in {"asked", "drop", "hang", "bridge"} /\ w.to = v.to /\ w.fro = v.fro
           \/ w.serve = "over" /\ w.to = {} /\ "answer" \notin w.fro
    PROVE  PairOK(c, d, w)
<1>1. StreamOK(c, d, v) /\ CallerOK(c, d, v) /\ ToldOK(d, v)
      /\ CalleeOK(c, v) /\ AnswerOK(c, d, v) /\ TakenOK(d, v)
  BY DEF PairOK
<1>2. ~ Answering(c, v) /\ ~ Answering(c, w) /\ v.theirs = NoCall
  BY <1>1 DEF CalleeOK, Answering
<1>3. v.fro = {} /\ ~ CarriedBy(v.mine, d)
  BY <1>1, <1>2 DEF StreamOK, AnswerOK
<1>4. StreamOK(c, d, w)
  BY <1>1 DEF StreamOK
<1>5. CallerOK(c, d, w)
  BY <1>1, <1>3 DEF CallerOK
<1>6. ToldOK(d, w)
  BY <1>1 DEF ToldOK
<1>7. CalleeOK(c, w)
  BY <1>1, <1>2 DEF CalleeOK
<1>8. AnswerOK(c, d, w)
  BY <1>2, <1>3 DEF AnswerOK
<1>9. TakenOK(d, w)
  BY <1>1 DEF TakenOK
<1>10. QED
  BY <1>4, <1>5, <1>6, <1>7, <1>8, <1>9 DEF PairOK

\* The device starts to ring.
LEMMA RingsUp ==
    ASSUME NEW c \in Callers, NEW d \in Dev, NEW v, NEW w,
           PairOK(c, d, v), v.serve = "bridge", w.serve = "on",
           w.mine = v.mine, w.tap = v.tap, w.placed = v.placed, w.took = v.took,
           w.dial = v.dial, w.end = v.end, w.to = v.to,
           w.theirs.io = {c}, w.theirs.active = None, w.theirs.phase = "ringing",
           "answer" \notin w.fro, "glare" \notin w.fro
    PROVE  PairOK(c, d, w)
<1>1. StreamOK(c, d, v) /\ CallerOK(c, d, v) /\ ToldOK(d, v)
      /\ CalleeOK(c, v) /\ AnswerOK(c, d, v) /\ TakenOK(d, v)
  BY DEF PairOK
<1>2. ~ Answering(c, v) /\ v.theirs = NoCall /\ v.fro = {} /\ v.tap # c
  BY <1>1 DEF CalleeOK, Answering, StreamOK
<1>3. ~ CarriedBy(v.mine, d) /\ ~ Answering(c, w)
  BY <1>1, <1>2 DEF AnswerOK, Answering
<1>4. StreamOK(c, d, w)
  BY <1>1 DEF StreamOK
<1>5. CallerOK(c, d, w)
  BY <1>1, <1>3 DEF CallerOK
<1>6. ToldOK(d, w)
  BY <1>1 DEF ToldOK
<1>7. CalleeOK(c, w)
  BY <1>1, <1>2 DEF CalleeOK
<1>8. AnswerOK(c, d, w)
  BY <1>3 DEF AnswerOK
<1>9. TakenOK(d, w)
  BY <1>1 DEF TakenOK
<1>10. QED
  BY <1>4, <1>5, <1>6, <1>7, <1>8, <1>9 DEF PairOK

\* The person answers: the answer is queued, and later the call accepted.
LEMMA PersonAnswers ==
    ASSUME NEW c \in Callers, NEW d \in Dev, NEW v, NEW w,
           PairOK(c, d, v), v.theirs # NoCall, w.theirs # NoCall,
           w.mine = v.mine, w.placed = v.placed, w.took = v.took, w.dial = v.dial,
           w.end = v.end, w.to = v.to, w.serve = v.serve, w.theirs.io = v.theirs.io,
           \/ /\ w.theirs = v.theirs /\ w.tap = c
              /\ w.fro = v.fro \cup {"answer"} \/ (v.dial = "over" /\ w.fro = {})
           \/ /\ w.theirs.active = c /\ w.theirs.phase # "ringing" /\ Answering(c, v)
              /\ w.fro = v.fro /\ w.tap # c
    PROVE  PairOK(c, d, w)
<1>1. StreamOK(c, d, v) /\ CallerOK(c, d, v) /\ ToldOK(d, v)
      /\ CalleeOK(c, v) /\ AnswerOK(c, d, v) /\ TakenOK(d, v)
  BY DEF PairOK
<1>2. v.serve = "on" /\ Answering(c, w)
  BY <1>1 DEF CalleeOK, Answering
<1>3. StreamOK(c, d, w)
  BY <1>1, <1>2 DEF StreamOK
<1>4. CallerOK(c, d, w)
  BY <1>1, <1>2 DEF CallerOK
<1>5. ToldOK(d, w)
  BY <1>1 DEF ToldOK
<1>6. CalleeOK(c, w)
  BY <1>1, CallsAssumption DEF CalleeOK
<1>7. AnswerOK(c, d, w)
  BY <1>1, <1>2 DEF AnswerOK
<1>8. TakenOK(d, w)
  BY <1>1 DEF TakenOK
<1>9. QED
  BY <1>3, <1>4, <1>5, <1>6, <1>7, <1>8 DEF PairOK

\* The connection fails.
LEMMA StreamBreaks ==
    ASSUME NEW c \in Callers, NEW d \in Dev, NEW v, NEW w,
           PairOK(c, d, v), v.serve = "on", w.mine = v.mine, w.theirs = v.theirs,
           w.tap = v.tap, w.placed = v.placed, w.took = v.took, w.dial = v.dial,
           w.end = v.end, w.serve = v.serve, w.to = {"fin"}, w.fro = {"fin"}
    PROVE  PairOK(c, d, w)
BY DEF PairOK, StreamOK, CallerOK, ToldOK, CalleeOK, AnswerOK, Answering, TakenOK

\* The call is placed.
LEMMA CallStarts ==
    ASSUME NEW c \in Callers, NEW d \in Dev, NEW v, NEW w,
           PairOK(c, d, v), c \notin v.placed, v.mine = NoCall, v.placed \subseteq w.placed,
           w.mine.phase = "ringing", w.mine.active = None, w.mine.glareWait = None,
           d \in LegsOf(c) => d \in Open(w.mine),
           w.theirs = v.theirs, w.tap = v.tap, w.took = v.took, w.dial = v.dial,
           w.end = v.end, w.serve = v.serve, w.to = v.to, w.fro = v.fro
    PROVE  PairOK(c, d, w)
<1>1. v.dial = "no" /\ v.serve = "none" /\ v.fro = {} /\ None # d
  BY CallsAssumption DEF PairOK, StreamOK
<1>2. ~ CarriedBy(v.mine, d) /\ ~ CarriedBy(w.mine, d)
  BY DEF CarriedBy
<1>3. QED
  BY <1>1, <1>2 DEF PairOK, StreamOK, CallerOK, ToldOK, CalleeOK, AnswerOK, Answering, TakenOK

\* Its devices are dialed, and reached.
LEMMA DeviceDialed ==
    ASSUME NEW c \in Callers, NEW d \in Dev, NEW v, NEW w,
           PairOK(c, d, v), w.mine = v.mine, w.theirs = v.theirs,
           w.tap = v.tap, w.placed = v.placed, w.took = v.took, w.end = v.end,
           w.to = v.to, w.fro = v.fro,
           \/ v.dial = "no" /\ w.dial = "dial" /\ w.serve = v.serve
              /\ d \in LegsOf(c) /\ c \in v.placed
           \/ v.dial = "dial" /\ w.dial = "opened" /\ w.serve = "asked"
    PROVE  PairOK(c, d, w)
<1>1. StreamOK(c, d, v) /\ CallerOK(c, d, v) /\ ToldOK(d, v)
      /\ CalleeOK(c, v) /\ AnswerOK(c, d, v) /\ TakenOK(d, v)
  BY DEF PairOK
<1>2. v.serve = "none" /\ v.fro = {} /\ v.theirs = NoCall /\ v.tap # c
  BY <1>1 DEF StreamOK, CalleeOK
<1>3. ~ CarriedBy(v.mine, d) /\ ~ Answering(c, w)
  BY <1>1, <1>2 DEF CallerOK, Answering
<1>4. StreamOK(c, d, w) /\ CallerOK(c, d, w)
  BY <1>1, <1>2, <1>3 DEF StreamOK, CallerOK
<1>5. ToldOK(d, w) /\ CalleeOK(c, w) /\ AnswerOK(c, d, w) /\ TakenOK(d, w)
  BY <1>1, <1>2, <1>3 DEF ToldOK, CalleeOK, AnswerOK, TakenOK
<1>6. QED
  BY <1>4, <1>5 DEF PairOK

(***************************************************************************)
(* The invariant of a call, and how a step changes what its ends know.     *)
(***************************************************************************)
\* What a device knows of the call it places.
OwnInv(c) ==
    /\ In(c, c) => c \in placed
    /\ c \notin placed => chosen[c] = None
    /\ CallOK(c, Mine(c, c), chosen[c])
    /\ line[c][c].dial = "no" /\ line[c][c].serve = "none"
    /\ outcome[c][c] # "elsewhere" /\ tapped[c] # c

OwnsInv == \A c \in Callers : OwnInv(c)
PairsInv == \A c \in Callers : \A d \in Dev \ {c} : PairOK(c, d, View(c, d))

\* What a device has of a call.
LEMMA MineIs ==
    ASSUME TypeOK, NEW d \in Dev, NEW c \in Callers
    PROVE  /\ Mine(d, c) \in Live \cup {NoCall}
           /\ Mine(d, c) # NoCall <=> In(d, c)
           /\ In(d, c) => Mine(d, c) = live[d] /\ live[d] \in Live /\ live[d].id = c
           /\ live[d] # NoCall => live[d] \in Live /\ live[d].id \in Callers
           /\ Connected(d, c) <=> Mine(d, c) # NoCall /\ Mine(d, c).phase # "ringing"
<1>1. live[d] \in Live \cup {NoCall} /\ c # None
  BY CallsAssumption DEF TypeOK
<1>2. In(d, c) => live[d] # NoCall
  BY <1>1 DEF In, NoCall
<1>3. live[d] # NoCall => live[d] \in Live /\ live[d].id \in Callers
  BY <1>1 DEF Live
<1>4. QED
  BY <1>1, <1>2, <1>3 DEF Mine, In, Connected

\* One device's call changes.
LEMMA MineAfter ==
    ASSUME TypeOK, NEW d \in Dev, NEW c \in Callers, NEW k \in Live \cup {NoCall},
           live' = [live EXCEPT ![d] = k],
           live[d] = NoCall \/ In(d, c), k = NoCall \/ k.id = c
    PROVE  /\ Mine(d, c)' = k
           /\ \A d2 \in Dev, c2 \in Callers : d2 # d \/ c2 # c => Mine(d2, c2)' = Mine(d2, c2)
<1>1. live \in [Dev -> Live \cup {NoCall}] /\ NoCall.id = None /\ None \notin Callers
  BY CallsAssumption DEF TypeOK, NoCall
<1>2. live'[d] = k /\ \A d2 \in Dev : d2 # d => live'[d2] = live[d2]
  BY <1>1
<1>3. Mine(d, c)' = k
  BY <1>1, <1>2 DEF Mine, In
<1>4. ASSUME NEW d2 \in Dev, NEW c2 \in Callers, d2 # d \/ c2 # c
      PROVE  Mine(d2, c2)' = Mine(d2, c2)
  <2>1. CASE d2 # d
    BY <1>2, <2>1 DEF Mine, In
  <2>2. CASE d2 = d
    <3>1. c2 # c /\ live[d].id # c2 /\ k.id # c2
      BY <1>1, <1>4, <2>2 DEF In
    <3>2. QED
      BY <1>2, <2>2, <3>1 DEF Mine, In
  <2>3. QED
    BY <2>1, <2>2
<1>5. QED
  BY <1>3, <1>4

LEMMA MineKept ==
    ASSUME live' = live
    PROVE  \A d2 \in Dev, c2 \in Callers : Mine(d2, c2)' = Mine(d2, c2)
BY DEF Mine, In

\* The frames on a stream whose reader is gone are dropped.
Keeps(q, p, end) == Words(q) = Words(p) \/ (end = "over" /\ Words(q) = {})
Gains(q, p, say, end) ==
    Words(q) = Words(p) \cup Words(say) \/ (end = "over" /\ Words(q) = {})

LEMMA TidyCarries ==
    ASSUME NEW x \in Line
    PROVE  LET y == Tidy(x)
           IN  /\ y.dial = x.dial /\ y.serve = x.serve
               /\ Keeps(y.to, x.to, x.serve) /\ Keeps(y.fro, x.fro, x.dial)
               /\ x.serve = "over" => Words(y.to) = {}
               /\ x.dial = "over" => Words(y.fro) = {}
<1> DEFINE y == Tidy(x)
<1>1. y = [x EXCEPT !.to = IF x.serve = "over" THEN <<>> ELSE x.to,
                    !.fro = IF x.dial = "over" THEN <<>> ELSE x.fro]
  BY DEF Tidy
<1> HIDE DEF y
<1>2. /\ y.dial = x.dial /\ y.serve = x.serve
      /\ y.to = IF x.serve = "over" THEN <<>> ELSE x.to
      /\ y.fro = IF x.dial = "over" THEN <<>> ELSE x.fro
  BY <1>1 DEF Line
<1>3. Words(<<>>) = {}
  BY FewWords
<1>4. QED
  BY <1>2, <1>3 DEF Keeps, y

\* What device d says in call c, as it is found on the streams.
LEMMA SaidCarries ==
    ASSUME NEW ln \in [Callers -> [Dev -> Line]], NEW d \in Dev, NEW c \in Callers, NEW say \in Say,
           NEW e \in Dev
    PROVE  LET x == ln[c][e]
               y == Said(ln, d, c, say)[c][e]
           IN  /\ y.dial = x.dial /\ y.serve = x.serve
               /\ d = c => /\ Gains(y.to, x.to, say[e], x.serve)
                           /\ Keeps(y.fro, x.fro, x.dial)
               /\ d # c => Keeps(y.to, x.to, x.serve)
               /\ d # c /\ e = d => Gains(y.fro, x.fro, say[c], x.dial)
               /\ d # c /\ e # d => Keeps(y.fro, x.fro, x.dial)
               /\ x.serve = "over" => Words(y.to) = {}
               /\ x.dial = "over" => Words(y.fro) = {}
<1> DEFINE x == ln[c][e]
           z == IF d = c THEN [x EXCEPT !.to = x.to \o say[e]]
                ELSE IF e = d THEN [x EXCEPT !.fro = x.fro \o say[c]] ELSE x
<1>1. x \in Line /\ say[e] \in Seq(Frame) /\ say[c] \in Seq(Frame)
  BY CallsAssumption DEF Say
<1>2. x.to \in Seq(Frame) /\ x.fro \in Seq(Frame)
  <2> HIDE DEF x
  <2>1. QED
    BY <1>1 DEF Line
<1>3. Said(ln, d, c, say)[c][e] = Tidy(z)
  BY DEF Said
<1> HIDE DEF x
<1>4. x.to \o say[e] \in Seq(Frame) /\ x.fro \o say[c] \in Seq(Frame)
  BY <1>1, <1>2
<1>5. Words(x.to \o say[e]) = Words(x.to) \cup Words(say[e])
      /\ Words(x.fro \o say[c]) = Words(x.fro) \cup Words(say[c])
  BY <1>1, <1>2, JoinedWords
<1>6. z \in Line /\ z.dial = x.dial /\ z.serve = x.serve
      /\ z.to = (IF d = c THEN x.to \o say[e] ELSE x.to)
      /\ z.fro = (IF d # c /\ e = d THEN x.fro \o say[c] ELSE x.fro)
  BY <1>1, <1>4 DEF Line
<1> HIDE DEF z
<1>7. /\ d = c => /\ Words(z.to) = Words(x.to) \cup Words(say[e])
                  /\ Words(z.fro) = Words(x.fro)
      /\ d # c => Words(z.to) = Words(x.to)
      /\ d # c /\ e = d => Words(z.fro) = Words(x.fro) \cup Words(say[c])
      /\ d # c /\ e # d => Words(z.fro) = Words(x.fro)
  BY <1>5, <1>6
<1> DEFINE y == Tidy(z)
<1>8. /\ y.dial = z.dial /\ y.serve = z.serve
      /\ Keeps(y.to, z.to, z.serve) /\ Keeps(y.fro, z.fro, z.dial)
      /\ z.serve = "over" => Words(y.to) = {}
      /\ z.dial = "over" => Words(y.fro) = {}
  BY <1>6, TidyCarries
<1>9. Said(ln, d, c, say)[c][e] = y
  BY <1>3
<1> HIDE DEF y
<1>10. QED
  BY <1>6, <1>7, <1>8, <1>9 DEF x, Keeps, Gains

LEMMA SaidElsewhere ==
    \A ln, d, say : \A c, c2 \in Callers : ln \in [Callers -> [Dev -> Line]] /\ c2 # c
        => Said(ln, d, c, say)[c2] = ln[c2]
BY DEF Said

\* What a caller says, and how its call changes, as the called device sees it.
LEMMA CallerSays ==
    ASSUME TypeOK, NEW c \in Callers, NEW d \in Dev \ {c}, NEW ln \in [Callers -> [Dev -> Line]],
           NEW r \in Result, In(c, c), r.call = NoCall \/ r.call.id = c, Carry(c, c, ln, r),
           UNCHANGED <<tapped, placed>>
    PROVE  LET v == View(c, d)
               w == View(c, d)'
               x == ln[c][d]
           IN  /\ w.dial = x.dial /\ w.serve = x.serve
               /\ w.mine = r.call /\ w.theirs = v.theirs /\ w.tap = v.tap
               /\ w.end = v.end /\ w.placed = v.placed /\ w.took = chosen'[c]
               /\ w.to = Words(x.to) \cup Words(r.say[d]) \/ (x.serve = "over" /\ w.to = {})
               /\ w.fro = Words(x.fro) \/ (x.dial = "over" /\ w.fro = {})
               /\ x.dial = "over" => w.fro = {}
<1>0. c \in Dev /\ d \in Dev /\ d # c
  BY CallsAssumption
<1>1. r.call \in Live \cup {NoCall} /\ r.say \in Say
  BY DEF Result
<1>2. live' = [live EXCEPT ![c] = r.call] /\ line' = Said(ln, c, c, r.say)
  BY DEF Carry
<1>3. Mine(c, c)' = r.call /\ Mine(d, c)' = Mine(d, c)
  <2>1. PICK k \in Live \cup {NoCall} : k = r.call
    BY <1>1
  <2>2. live' = [live EXCEPT ![c] = k] /\ (k = NoCall \/ k.id = c)
    BY <1>2, <2>1
  <2>3. /\ Mine(c, c)' = k
        /\ \A d2 \in Dev, c2 \in Callers : d2 # c \/ c2 # c => Mine(d2, c2)' = Mine(d2, c2)
    BY ZenonT(60), <1>0, <2>2, MineAfter
  <2>4. QED
    BY <1>0, <2>1, <2>3
<1>4. outcome'[d][c] = outcome[d][c]
  BY <1>0 DEF Carry, TypeOK
<1> DEFINE x == ln[c][d]
           y == Said(ln, c, c, r.say)[c][d]
<1>5. /\ y.dial = x.dial /\ y.serve = x.serve
      /\ Gains(y.to, x.to, r.say[d], x.serve)
      /\ Keeps(y.fro, x.fro, x.dial)
      /\ x.dial = "over" => Words(y.fro) = {}
  <2>1. y.dial = x.dial /\ y.serve = x.serve
    BY <1>0, <1>1, SaidCarries
  <2>2. Gains(y.to, x.to, r.say[d], x.serve)
    BY <1>0, <1>1, SaidCarries
  <2>3. Keeps(y.fro, x.fro, x.dial)
    BY <1>0, <1>1, SaidCarries
  <2>4. x.dial = "over" => Words(y.fro) = {}
    BY <1>0, <1>1, SaidCarries
  <2>5. QED
    BY <2>1, <2>2, <2>3, <2>4
<1>6. line'[c][d] = y
  BY <1>2
<1> HIDE DEF x, y
<1>7. QED
  BY <1>3, <1>4, <1>5, <1>6 DEF View, Keeps, Gains, x

\* The calls of others are not touched by it.
LEMMA CallerSaysNot ==
    ASSUME TypeOK, NEW c \in Callers, NEW c2 \in Callers \ {c}, NEW d \in Dev \ {c2},
           NEW ln \in [Callers -> [Dev -> Line]],
           NEW r \in Result, In(c, c), r.call = NoCall \/ r.call.id = c, Carry(c, c, ln, r),
           UNCHANGED <<tapped, placed>>, chosen'[c2] = chosen[c2]
    PROVE  LET v == View(c2, d)
               w == View(c2, d)'
               x == ln[c2][d]
           IN  /\ w.dial = x.dial /\ w.serve = x.serve
               /\ w.mine = v.mine /\ w.theirs = v.theirs /\ w.tap = v.tap
               /\ w.end = v.end /\ w.placed = v.placed /\ w.took = v.took
               /\ w.to = Words(x.to) /\ w.fro = Words(x.fro)
<1>0. c \in Dev /\ c2 \in Dev /\ d \in Dev /\ c2 # c
  BY CallsAssumption
<1>1. r.call \in Live \cup {NoCall} /\ r.say \in Say
  BY DEF Result
<1>2. live' = [live EXCEPT ![c] = r.call] /\ line' = Said(ln, c, c, r.say)
  BY DEF Carry
<1>3. Mine(c2, c2)' = Mine(c2, c2) /\ Mine(d, c2)' = Mine(d, c2)
  <2>1. \A d2 \in Dev, c3 \in Callers : d2 # c \/ c3 # c => Mine(d2, c3)' = Mine(d2, c3)
    BY <1>0, <1>1, <1>2, MineAfter
  <2>2. QED
    BY <1>0, <2>1
<1>4. outcome'[d][c2] = outcome[d][c2]
  BY <1>0 DEF Carry, TypeOK
<1>5. line'[c2] = ln[c2]
  BY <1>0, <1>2, SaidElsewhere
<1>6. QED
  BY <1>3, <1>4, <1>5 DEF View

LEMMA OwnsAfter ==
    ASSUME TypeOK, OwnsInv, NEW c \in Callers, NEW ln \in [Callers -> [Dev -> Line]],
           NEW r \in Result, In(c, c), r.call = NoCall \/ r.call.id = c, Carry(c, c, ln, r),
           UNCHANGED <<tapped, placed>>,
           \A c2 \in Callers \ {c} : chosen'[c2] = chosen[c2],
           r.end # "elsewhere", CallOK(c, r.call, chosen'[c]),
           \A c2 \in Callers : ln[c2][c2].dial = "no" /\ ln[c2][c2].serve = "none"
    PROVE  OwnsInv'
<1>1. r.call \in Live \cup {NoCall} /\ r.say \in Say /\ c \in Dev
  BY CallsAssumption DEF Result
<1>2. live' = [live EXCEPT ![c] = r.call] /\ line' = Said(ln, c, c, r.say)
      /\ outcome' = [outcome EXCEPT ![c][c] = IF r.end = None THEN outcome[c][c] ELSE r.end]
  BY DEF Carry
<1>3. ASSUME NEW c2 \in Callers PROVE OwnInv(c2)'
  <2>0. c2 \in Dev
    BY CallsAssumption
  <2>1. /\ Mine(c, c)' = r.call
        /\ c2 # c => Mine(c2, c2)' = Mine(c2, c2)
    BY <1>1, <1>2, <2>0, MineAfter
  <2>2. CallOK(c2, Mine(c2, c2), chosen[c2])'
    <3>1. CASE c2 = c
      BY <2>1, <3>1 DEF CallOK, RingsOpen, Open
    <3>2. CASE c2 # c
      BY <2>1, <3>2 DEF OwnsInv, OwnInv, CallOK, RingsOpen, Open
    <3>3. QED
      BY <3>1, <3>2
  <2>3. In(c2, c2)' => In(c2, c2)
    BY <1>1, <1>2, <2>0 DEF In, TypeOK
  <2>4. outcome'[c2][c2] # "elsewhere"
    BY <1>1, <1>2, <2>0 DEF OwnsInv, OwnInv, TypeOK
  <2>5. line'[c2][c2].dial = "no" /\ line'[c2][c2].serve = "none"
    <3>1. CASE c2 = c
      <4> DEFINE y == Said(ln, c, c, r.say)[c][c]
      <4>1. y.dial = ln[c][c].dial /\ y.serve = ln[c][c].serve
        BY <1>1, SaidCarries
      <4>2. line'[c2][c2] = y
        BY <1>2, <3>1
      <4> HIDE DEF y
      <4>3. QED
        BY <4>1, <4>2
    <3>2. CASE c2 # c
      BY <1>1, <1>2, <3>2, SaidElsewhere
    <3>3. QED
      BY <3>1, <3>2
  <2>6. (c2 \in placed' <=> c2 \in placed) /\ tapped'[c2] # c2
        /\ (In(c2, c2) => c2 \in placed) /\ (c2 \notin placed => chosen[c2] = None)
    BY DEF OwnsInv, OwnInv
  <2>7. c2 \notin placed => chosen'[c2] = None
    BY <2>6
  <2>8. QED
    BY <2>2, <2>3, <2>4, <2>5, <2>6, <2>7 DEF OwnInv
<1>4. QED
  BY <1>3 DEF OwnsInv

\* What the called device says.
LEMMA CalleeSays ==
    ASSUME TypeOK, NEW c \in Callers, NEW d \in Dev \ {c}, NEW ln \in [Callers -> [Dev -> Line]],
           NEW r \in Result, In(d, c), r.call = NoCall \/ r.call.id = c, Carry(d, c, ln, r),
           UNCHANGED <<tapped, placed, chosen>>
    PROVE  LET v == View(c, d)
               w == View(c, d)'
               x == ln[c][d]
           IN  /\ w.dial = x.dial /\ w.serve = x.serve
               /\ w.mine = v.mine /\ w.theirs = r.call /\ w.tap = v.tap
               /\ w.placed = v.placed /\ w.took = v.took
               /\ w.end = (IF r.end = None THEN v.end ELSE r.end)
               /\ w.to = Words(x.to) \/ (x.serve = "over" /\ w.to = {})
               /\ x.serve = "over" => w.to = {}
               /\ w.fro = Words(x.fro) \cup Words(r.say[c]) \/ (x.dial = "over" /\ w.fro = {})
<1>0. c \in Dev /\ d \in Dev /\ d # c
  BY CallsAssumption
<1>1. r.call \in Live \cup {NoCall} /\ r.say \in Say
  BY DEF Result
<1>2. live' = [live EXCEPT ![d] = r.call] /\ line' = Said(ln, d, c, r.say)
      /\ outcome' = [outcome EXCEPT ![d][c] = IF r.end = None THEN outcome[d][c] ELSE r.end]
  BY DEF Carry
<1>3. Mine(d, c)' = r.call /\ Mine(c, c)' = Mine(c, c)
  <2>1. PICK k \in Live \cup {NoCall} : k = r.call
    BY <1>1
  <2>2. live' = [live EXCEPT ![d] = k] /\ (k = NoCall \/ k.id = c)
    BY <1>2, <2>1
  <2>3. /\ Mine(d, c)' = k
        /\ \A d2 \in Dev, c2 \in Callers : d2 # d \/ c2 # c => Mine(d2, c2)' = Mine(d2, c2)
    BY ZenonT(60), <1>0, <2>2, MineAfter
  <2>4. QED
    BY <1>0, <2>1, <2>3
<1>4. outcome'[d][c] = IF r.end = None THEN outcome[d][c] ELSE r.end
  BY <1>0, <1>2 DEF TypeOK
<1> DEFINE x == ln[c][d]
           y == Said(ln, d, c, r.say)[c][d]
<1>5. /\ y.dial = x.dial /\ y.serve = x.serve
      /\ Keeps(y.to, x.to, x.serve)
      /\ Gains(y.fro, x.fro, r.say[c], x.dial)
      /\ x.serve = "over" => Words(y.to) = {}
  <2>1. y.dial = x.dial /\ y.serve = x.serve
    BY <1>0, <1>1, SaidCarries
  <2>2. Keeps(y.to, x.to, x.serve)
    BY <1>0, <1>1, SaidCarries
  <2>3. Gains(y.fro, x.fro, r.say[c], x.dial)
    BY <1>0, <1>1, SaidCarries
  <2>4. x.serve = "over" => Words(y.to) = {}
    BY <1>0, <1>1, SaidCarries
  <2>5. QED
    BY <2>1, <2>2, <2>3, <2>4
<1>6. line'[c][d] = y
  BY <1>2
<1> HIDE DEF x, y
<1>7. QED
  BY <1>3, <1>4, <1>5, <1>6 DEF View, Keeps, Gains, x

\* The other devices, of this call and of others, do not hear it.
LEMMA CalleeSaysNot ==
    ASSUME TypeOK, NEW c \in Callers, NEW d \in Dev \ {c}, NEW ln \in [Callers -> [Dev -> Line]],
           NEW r \in Result, In(d, c), r.call = NoCall \/ r.call.id = c, Carry(d, c, ln, r),
           UNCHANGED <<tapped, placed, chosen>>,
           NEW c2 \in Callers, NEW d2 \in Dev \ {c2}, c2 # c \/ d2 # d, ln[c2][d2] = line[c2][d2]
    PROVE  LET v == View(c2, d2)
               w == View(c2, d2)'
           IN  /\ w.dial = v.dial /\ w.serve = v.serve
               /\ w.mine = v.mine /\ w.theirs = v.theirs /\ w.tap = v.tap
               /\ w.placed = v.placed /\ w.took = v.took /\ w.end = v.end
               /\ w.to = v.to \/ (v.serve = "over" /\ w.to = {})
               /\ w.fro = v.fro \/ (v.dial = "over" /\ w.fro = {})
<1>0. c \in Dev /\ d \in Dev /\ d # c /\ c2 \in Dev /\ d2 \in Dev /\ d2 # c2
  BY CallsAssumption
<1>1. r.call \in Live \cup {NoCall} /\ r.say \in Say
  BY DEF Result
<1>2. live' = [live EXCEPT ![d] = r.call] /\ line' = Said(ln, d, c, r.say)
      /\ outcome' = [outcome EXCEPT ![d][c] = IF r.end = None THEN outcome[d][c] ELSE r.end]
  BY DEF Carry
<1>3. Mine(d2, c2)' = Mine(d2, c2) /\ Mine(c2, c2)' = Mine(c2, c2)
  <2>1. \A e \in Dev, c3 \in Callers : e # d \/ c3 # c => Mine(e, c3)' = Mine(e, c3)
    BY ZenonT(60), <1>0, <1>1, <1>2, MineAfter
  <2>2. QED
    BY <1>0, <2>1
<1>4. outcome'[d2][c2] = outcome[d2][c2]
  BY <1>0, <1>2 DEF TypeOK
<1>5. CASE c2 # c
  <2>1. line'[c2][d2] = line[c2][d2]
    BY <1>2, <1>5, SaidElsewhere
  <2>2. QED
    BY <1>3, <1>4, <2>1 DEF View
<1>6. CASE c2 = c
  <2> DEFINE x == line[c][d2]
             y == Said(ln, d, c, r.say)[c][d2]
  <2>1. /\ y.dial = x.dial /\ y.serve = x.serve
        /\ Keeps(y.to, x.to, x.serve)
        /\ Keeps(y.fro, x.fro, x.dial)
    <3>1. x = ln[c][d2]
      BY <1>6
    <3>2. d2 # d /\ d # c /\ d \in Dev /\ d2 \in Dev /\ r.say \in Say
      BY <1>0, <1>1, <1>6
    <3>3. /\ y.dial = ln[c][d2].dial /\ y.serve = ln[c][d2].serve
          /\ Keeps(y.to, ln[c][d2].to, ln[c][d2].serve)
          /\ Keeps(y.fro, ln[c][d2].fro, ln[c][d2].dial)
      BY <3>2, SaidCarries
    <3>4. QED
      BY <3>1, <3>3
  <2>2. line'[c2][d2] = y
    BY <1>2, <1>6
  <2>3. x = line[c2][d2]
    BY <1>6
  <2> HIDE DEF x, y
  <2>4. QED
    BY <1>3, <1>4, <2>1, <2>2, <2>3 DEF View, Keeps
<1>7. QED
  BY <1>5, <1>6

\* Nothing the ends of a stream know has changed, but for frames dropped with
\* their reader.
LEMMA SameEnds ==
    ASSUME NEW c \in Callers, NEW d \in Dev, NEW v, NEW w, PairOK(c, d, v),
           w.dial = v.dial, w.serve = v.serve, w.mine = v.mine, w.theirs = v.theirs,
           w.tap = v.tap \/ (w.tap # c /\ v.tap # c),
           w.end = v.end, w.placed = v.placed \/ (v.placed \subseteq w.placed), w.took = v.took,
           w.to = v.to \/ (v.serve = "over" /\ w.to = {}),
           w.fro = v.fro \/ (v.dial = "over" /\ w.fro = {})
    PROVE  PairOK(c, d, w)
<1>1. StreamOK(c, d, v) /\ CallerOK(c, d, v) /\ ToldOK(d, v)
      /\ CalleeOK(c, v) /\ AnswerOK(c, d, v) /\ TakenOK(d, v)
  BY DEF PairOK
<1>2. StreamOK(c, d, w)
  BY <1>1 DEF StreamOK
<1>3. CallerOK(c, d, w)
  BY <1>1 DEF CallerOK
<1>4. ToldOK(d, w)
  BY <1>1 DEF ToldOK
<1>5. CalleeOK(c, w)
  BY <1>1 DEF CalleeOK
<1>6. Answering(c, w) <=> Answering(c, v)
  BY DEF Answering
<1>7. Answering(c, v) => v.serve = "on"
  BY <1>1 DEF Answering, CalleeOK
<1>8. CarriedBy(v.mine, d) => v.dial = "on"
  BY <1>1 DEF CallerOK
<1>9. AnswerOK(c, d, w)
  <2>1. ASSUME Answering(c, w), w.dial \in {"opened", "on"}
        PROVE  CarriedBy(w.mine, d) \/ "answer" \in w.fro \/ "fin" \in w.to
    <3>1. w.to = v.to /\ w.fro = v.fro
      BY <1>6, <1>7, <2>1
    <3>2. QED
      BY <1>1, <1>6, <2>1, <3>1 DEF AnswerOK
  <2>2. ASSUME "answer" \in w.fro \/ CarriedBy(w.mine, d)
        PROVE  Answering(c, w) \/ "fin" \in w.fro
    <3>1. w.fro = v.fro
      BY <1>8, <2>2
    <3>2. QED
      BY <1>1, <1>6, <2>2, <3>1 DEF AnswerOK
  <2>3. QED
    BY <2>1, <2>2 DEF AnswerOK
<1>10. TakenOK(d, w)
  BY <1>1 DEF TakenOK
<1>11. QED
  BY <1>2, <1>3, <1>4, <1>5, <1>9, <1>10 DEF PairOK

\* The streams of other calls: at most one of their tasks moves on.
OthersKept(c, ln) ==
    \A c2 \in Callers \ {c}, d \in Dev :
        \/ ln[c2][d] = line[c2][d]
        \/ d # c2 /\ line[c2][d].serve = "hang" /\ ln[c2][d] = [line[c2][d] EXCEPT !.serve = "bridge"]

LEMMA OtherPairs ==
    ASSUME TypeOK, PairsInv, NEW c \in Callers, NEW c2 \in Callers \ {c}, NEW d \in Dev \ {c2},
           NEW ln \in [Callers -> [Dev -> Line]],
           NEW r \in Result, In(c, c), r.call = NoCall \/ r.call.id = c, Carry(c, c, ln, r),
           UNCHANGED <<tapped, placed>>, chosen'[c2] = chosen[c2], OthersKept(c, ln)
    PROVE  PairOK(c2, d, View(c2, d)')
<1> DEFINE v == View(c2, d)
           w == View(c2, d)'
           x == ln[c2][d]
<1>1. /\ w.dial = x.dial /\ w.serve = x.serve
      /\ w.mine = v.mine /\ w.theirs = v.theirs /\ w.tap = v.tap
      /\ w.end = v.end /\ w.placed = v.placed /\ w.took = v.took
      /\ w.to = Words(x.to) /\ w.fro = Words(x.fro)
  BY CallerSaysNot
<1>2. /\ v.dial = line[c2][d].dial /\ v.serve = line[c2][d].serve
      /\ v.to = Words(line[c2][d].to) /\ v.fro = Words(line[c2][d].fro)
  BY DEF View
<1>3. PairOK(c2, d, v) /\ d \in Dev /\ c2 \in Callers
  BY DEF PairsInv
<1>4. line[c2][d] \in Line
  BY DEF TypeOK
<1>5. CASE x = line[c2][d]
  <2> HIDE DEF v, w, x
  <2>1. QED
    BY <1>1, <1>2, <1>3, <1>5, SameEnds DEF w
<1>6. CASE line[c2][d].serve = "hang" /\ x = [line[c2][d] EXCEPT !.serve = "bridge"]
  <2> HIDE DEF v, w, x
  <2>1. x.dial = line[c2][d].dial /\ x.serve = "bridge" /\ x.to = line[c2][d].to
        /\ x.fro = line[c2][d].fro
    BY <1>4, <1>6 DEF Line
  <2>2. w.dial = v.dial /\ w.serve = "bridge" /\ v.serve = "hang" /\ w.to = v.to /\ w.fro = v.fro
    BY <1>1, <1>2, <1>6, <2>1
  <2>3. QED
    BY <1>1, <1>3, <2>2, ServeMoves DEF w
<1>7. QED
  BY <1>5, <1>6 DEF OthersKept

\* The stream to device e as the caller leaves it, before it says anything.
StreamLeft(c, e, ln, f, more, r) ==
    LET x == line[c][e]
        y == ln[c][e]
    IN  /\ y.serve = x.serve
        /\ y.dial = x.dial \/ (x.dial \in {"dial", "on"} /\ y.dial = "over")
        /\ y.dial \notin {"no", "dial", "opened"}
        /\ Words(y.to) = Words(x.to) \cup more /\ "taken" \notin more
        /\ Words(y.fro) \subseteq Words(x.fro) /\ Words(x.fro) \subseteq Words(y.fro) \cup {f}
        /\ f # "fin"
        /\ y.dial # x.dial => (r.call # NoCall => r.call.active # e)
                              /\ (x.serve \notin {"none", "over"} =>
                                     "fin" \in Words(y.to) \/ "fin" \in Words(r.say[e]))
        /\ f = "answer" /\ y.dial # "over" /\ Answering(c, View(c, e)) =>
              CarriedBy(r.call, e) \/ "fin" \in Words(y.to) \/ "fin" \in Words(r.say[e])

\* An event about device e, with no new answer, in the call of c.
LEMMA CallerEvent ==
    ASSUME TypeOK, OwnsInv, PairsInv, NEW c \in Callers, NEW e \in Dev, NEW f, NEW more,
           NEW ln \in [Callers -> [Dev -> Line]], NEW r \in Result,
           In(c, c), Carry(c, c, ln, r), UNCHANGED <<tapped, placed, chosen>>,
           r.call = NoCall \/ GoesOn(live[c], e, r.call), Told(live[c], r), r.end # "elsewhere",
           \A d \in Takes(r) : chosen[c] \notin {None, d},
           OthersKept(c, ln), \A d \in Dev \ {e} : ln[c][d] = line[c][d],
           e = c => ln[c][c] = line[c][c],
           e # c => StreamLeft(c, e, ln, f, more, r)
    PROVE  OwnsInv' /\ PairsInv'
<1>1. /\ Mine(c, c) = live[c] /\ live[c] # NoCall /\ live[c] \in Live /\ live[c].id = c
      /\ c \in Dev
  BY MineIs, LiveIsCall, CallsAssumption
<1>2. r.call = NoCall \/ r.call.id = c
  BY <1>1 DEF GoesOn
<1>3. CallOK(c, live[c], chosen[c])
  BY <1>1 DEF OwnsInv, OwnInv
<1>4. CallOK(c, r.call, chosen[c])
  BY <1>1, <1>3 DEF CallOK, GoesOn
<1>5. \A c2 \in Callers : ln[c2][c2] = line[c2][c2]
  BY <1>1, CallsAssumption DEF OthersKept
<1>6. OwnsInv'
  <2>1. \A c2 \in Callers : ln[c2][c2].dial = "no" /\ ln[c2][c2].serve = "none"
    BY <1>5 DEF OwnsInv, OwnInv
  <2>2. \A c2 \in Callers \ {c} : chosen'[c2] = chosen[c2]
    OBVIOUS
  <2>3. CallOK(c, r.call, chosen'[c])
    BY <1>4
  <2>4. QED
    BY <1>2, <2>1, <2>2, <2>3, OwnsAfter
<1>7. ASSUME NEW d \in Dev \ {c} PROVE PairOK(c, d, View(c, d)')
  <2> DEFINE v == View(c, d)
             w == View(c, d)'
             x == ln[c][d]
             W == Words(r.say[d])
  <2>1. /\ w.dial = x.dial /\ w.serve = x.serve
        /\ w.mine = r.call /\ w.theirs = v.theirs /\ w.tap = v.tap
        /\ w.end = v.end /\ w.placed = v.placed /\ w.took = chosen'[c]
        /\ w.to = Words(x.to) \cup W \/ (x.serve = "over" /\ w.to = {})
        /\ w.fro = Words(x.fro) \/ (x.dial = "over" /\ w.fro = {})
        /\ x.dial = "over" => w.fro = {}
    BY <1>2, CallerSays
  <2>2. /\ v.dial = line[c][d].dial /\ v.serve = line[c][d].serve
        /\ v.to = Words(line[c][d].to) /\ v.fro = Words(line[c][d].fro)
        /\ v.mine = live[c] /\ v.took = chosen[c]
    BY <1>1 DEF View
  <2>3. PairOK(c, d, v) /\ d \in Dev /\ w.took = v.took
    BY <2>1, <2>2 DEF PairsInv
  <2>4. d \in live[c].io => "fin" \in W \/ (r.call # NoCall /\ d \in r.call.io)
    BY DEF Told
  <2>5. "taken" \in W => chosen[c] \notin {None, d}
    BY DEF Takes
  <2>6. CASE d # e
    <3>1. x = line[c][d]
      BY <2>6
    <3> HIDE DEF v, w, x, W
    <3>2. w.dial = v.dial /\ w.serve = v.serve
          /\ (w.to = v.to \cup W \/ (v.serve = "over" /\ w.to = {}))
          /\ (w.fro = v.fro \/ (w.dial = "over" /\ w.fro = {}))
      BY <2>1, <2>2, <3>1
    <3>3. PICK g : g = "ring"
      OBVIOUS
    <3>4. g # "fin" /\ g # "answer"
      BY <3>3
    <3>5. /\ w.dial = "over" => w.fro \in {v.fro, {}}
          /\ w.dial # "over" => w.fro \subseteq v.fro /\ v.fro \subseteq w.fro \cup {g}
      BY <3>2
    <3>6. /\ w.theirs = v.theirs /\ w.tap = v.tap /\ w.end = v.end /\ w.placed = v.placed
          /\ w.mine = NoCall \/ GoesOn(v.mine, e, w.mine)
          /\ v.mine # NoCall /\ CallOK(c, v.mine, v.took)
      BY <1>1, <1>3, <2>1, <2>2
    <3>7. /\ d \in v.mine.io => "fin" \in W \/ (w.mine # NoCall /\ d \in w.mine.io)
          /\ "taken" \in W => v.took \notin {None, d}
      BY <2>1, <2>2, <2>4, <2>5
    <3>8. /\ w.dial = v.dial \/ (v.dial \in {"dial", "on"} /\ w.dial = "over")
          /\ d = e => w.dial \notin {"no", "dial", "opened"}
          /\ w.dial # v.dial => (w.mine # NoCall => w.mine.active # d)
                                /\ (v.serve \notin {"none", "over"} => "fin" \in w.to)
          /\ g = "answer" /\ w.dial # "over" /\ Answering(c, v) =>
                CarriedBy(w.mine, d) \/ "fin" \in w.to
      BY <2>6, <3>2, <3>4
    <3>9. PairOK(c, d, w)
      BY ZenonT(60), <2>3, <3>2, <3>4, <3>5, <3>6, <3>7, <3>8, CallerMoves
    <3>10. QED
      BY <3>9 DEF w
  <2>7. CASE d = e
    <3> DEFINE V == W \cup more
    <3>1. StreamLeft(c, d, ln, f, more, r)
      BY <2>7
    <3>2. /\ x.serve = v.serve
          /\ x.dial = v.dial \/ (v.dial \in {"dial", "on"} /\ x.dial = "over")
          /\ x.dial \notin {"no", "dial", "opened"}
          /\ Words(x.to) = v.to \cup more /\ "taken" \notin more
          /\ Words(x.fro) \subseteq v.fro /\ v.fro \subseteq Words(x.fro) \cup {f}
          /\ f # "fin"
          /\ x.dial # v.dial => (r.call # NoCall => r.call.active # d)
                /\ (v.serve \notin {"none", "over"} => "fin" \in Words(x.to) \/ "fin" \in W)
          /\ f = "answer" /\ x.dial # "over" /\ Answering(c, v) =>
                CarriedBy(r.call, d) \/ "fin" \in Words(x.to) \/ "fin" \in W
      BY <2>2, <3>1 DEF StreamLeft
    <3>3. Answering(c, v) => v.serve = "on"
      BY <2>3 DEF PairOK, CalleeOK, Answering
    <3> HIDE DEF v, w, x, W
    <3>4. w.to = v.to \cup V \/ (v.serve = "over" /\ w.to = {})
      BY <2>1, <3>2
    <3>5. "taken" \in V => v.took \notin {None, d}
      BY <2>2, <2>5, <3>2
    <3>6. d \in v.mine.io => "fin" \in V \/ (w.mine # NoCall /\ d \in w.mine.io)
      BY <2>1, <2>2, <2>4
    <3>7. w.dial = v.dial \/ (v.dial \in {"dial", "on"} /\ w.dial = "over")
      BY <2>1, <3>2
    <3>8. /\ w.dial = "over" => w.fro \in {v.fro, {}}
          /\ w.dial # "over" => w.fro \subseteq v.fro /\ v.fro \subseteq w.fro \cup {f}
      BY <2>1, <3>2
    <3>9. w.dial \notin {"no", "dial", "opened"} /\ f # "fin"
      BY <2>1, <3>2
    <3>10. w.dial # v.dial => (w.mine # NoCall => w.mine.active # d)
                              /\ (v.serve \notin {"none", "over"} => "fin" \in w.to)
      BY <2>1, <3>2
    <3>11. f = "answer" /\ w.dial # "over" /\ Answering(c, v) =>
              CarriedBy(w.mine, d) \/ "fin" \in w.to
      BY <2>1, <3>2, <3>3
    <3>12. /\ w.serve = v.serve /\ w.theirs = v.theirs /\ w.tap = v.tap /\ w.end = v.end
           /\ w.placed = v.placed /\ w.took = v.took
           /\ w.mine = NoCall \/ GoesOn(v.mine, d, w.mine)
           /\ v.mine # NoCall /\ CallOK(c, v.mine, v.took)
      BY <1>1, <1>3, <2>1, <2>2, <2>3, <2>7, <3>2
    <3> HIDE DEF V
    <3>13. PairOK(c, d, w)
      BY <2>3, <3>4, <3>5, <3>6, <3>7, <3>8, <3>9, <3>10, <3>11, <3>12, CallerMoves
    <3>14. QED
      BY <3>13 DEF w
  <2>8. QED
    BY <2>6, <2>7
<1>8. ASSUME NEW c2 \in Callers, NEW d \in Dev \ {c2} PROVE PairOK(c2, d, View(c2, d)')
  <2>1. CASE c2 = c
    BY <1>7, <2>1
  <2>2. CASE c2 # c
    BY <1>2, <2>2, OtherPairs
  <2>3. QED
    BY <2>1, <2>2
<1>9. QED
  BY <1>6, <1>8 DEF PairsInv

\* A step that leaves a stream as it is, but for frames dropped with their reader.
SameStream(c, d) ==
    /\ line'[c][d].dial = line[c][d].dial /\ line'[c][d].serve = line[c][d].serve
    /\ Keeps(line'[c][d].to, line[c][d].to, line[c][d].serve)
    /\ Keeps(line'[c][d].fro, line[c][d].fro, line[c][d].dial)

\* A step on device d, or on the stream to it, in call c.
LEMMA DeviceStep ==
    ASSUME TypeOK, TypeOK', OwnsInv, PairsInv, NEW c \in Callers, NEW d \in Dev \ {c},
           UNCHANGED <<placed, chosen>>,
           \A c2 \in Callers, d2 \in Dev : c2 # c \/ d2 # d =>
              /\ Mine(d2, c2)' = Mine(d2, c2) /\ outcome'[d2][c2] = outcome[d2][c2]
              /\ tapped'[d2] = tapped[d2] \/ (tapped'[d2] # c2 /\ tapped[d2] # c2)
              /\ SameStream(c2, d2),
           PairOK(c, d, View(c, d)')
    PROVE  OwnsInv' /\ PairsInv'
<1>1. ASSUME NEW c2 \in Callers PROVE OwnInv(c2)'
  <2>0. c2 \in Dev /\ (c2 # c \/ c2 # d)
    BY CallsAssumption
  <2>1. /\ Mine(c2, c2)' = Mine(c2, c2) /\ outcome'[c2][c2] = outcome[c2][c2]
        /\ tapped'[c2] = tapped[c2] \/ (tapped'[c2] # c2 /\ tapped[c2] # c2)
        /\ SameStream(c2, c2)
    BY <2>0
  <2>2. Mine(c2, c2) # NoCall <=> In(c2, c2)
    BY <2>0, MineIs
  <2>3. Mine(c2, c2)' # NoCall <=> In(c2, c2)'
    BY <2>0, CallsAssumption DEF Mine, In, NoCall
  <2>4. CallOK(c2, Mine(c2, c2), chosen[c2])'
    BY <2>1 DEF OwnsInv, OwnInv, CallOK, RingsOpen, Open
  <2>5. OwnInv(c2)
    BY DEF OwnsInv
  <2>6. QED
    BY <2>1, <2>2, <2>3, <2>4, <2>5 DEF OwnInv, SameStream
<1>2. ASSUME NEW c2 \in Callers, NEW d2 \in Dev \ {c2} PROVE PairOK(c2, d2, View(c2, d2)')
  <2>1. CASE c2 = c /\ d2 = d
    BY <2>1
  <2>2. CASE c2 # c \/ d2 # d
    <3> DEFINE v == View(c2, d2)
               w == View(c2, d2)'
    <3>0. c2 \in Dev /\ (c2 # c \/ c2 # d)
      BY CallsAssumption
    <3>1. /\ Mine(c2, c2)' = Mine(c2, c2) /\ Mine(d2, c2)' = Mine(d2, c2)
          /\ outcome'[d2][c2] = outcome[d2][c2] /\ SameStream(c2, d2)
          /\ tapped'[d2] = tapped[d2] \/ (tapped'[d2] # c2 /\ tapped[d2] # c2)
      BY <2>2, <3>0
    <3>2. /\ w.dial = v.dial /\ w.serve = v.serve /\ w.mine = v.mine /\ w.theirs = v.theirs
          /\ w.tap = v.tap \/ (w.tap # c2 /\ v.tap # c2)
          /\ w.end = v.end /\ w.placed = v.placed /\ w.took = v.took
          /\ w.to = v.to \/ (v.serve = "over" /\ w.to = {})
          /\ w.fro = v.fro \/ (v.dial = "over" /\ w.fro = {})
      BY <3>1 DEF View, SameStream, Keeps
    <3>3. PairOK(c2, d2, v)
      BY DEF PairsInv
    <3> HIDE DEF v, w
    <3>4. QED
      BY <3>2, <3>3, SameEnds DEF w
  <2>3. QED
    BY <2>1, <2>2
<1>3. QED
  BY <1>1, <1>2 DEF OwnsInv, PairsInv

\* A step that changes only the stream to one device, and an entry of the history.
LEMMA StreamStep ==
    ASSUME TypeOK, TypeOK', OwnsInv, PairsInv, NEW c \in Callers, NEW d \in Dev \ {c},
           UNCHANGED <<placed, chosen, live, tapped>>,
           \A c2 \in Callers, d2 \in Dev : c2 # c \/ d2 # d =>
              outcome'[d2][c2] = outcome[d2][c2] /\ SameStream(c2, d2),
           PairOK(c, d, View(c, d)')
    PROVE  OwnsInv' /\ PairsInv'
<1>1. \A c2 \in Callers, d2 \in Dev : Mine(d2, c2)' = Mine(d2, c2)
  BY MineKept
<1>2. \A c2 \in Callers, d2 \in Dev : c2 # c \/ d2 # d =>
         /\ Mine(d2, c2)' = Mine(d2, c2) /\ outcome'[d2][c2] = outcome[d2][c2]
         /\ tapped'[d2] = tapped[d2] \/ (tapped'[d2] # c2 /\ tapped[d2] # c2)
         /\ SameStream(c2, d2)
  BY <1>1
<1>3. QED
  BY <1>2, DeviceStep

\* What the ends of a stream know after such a step.
LEMMA StreamView ==
    ASSUME NEW c \in Callers, NEW d \in Dev \ {c}, UNCHANGED <<placed, chosen, live, tapped>>
    PROVE  LET v == View(c, d)
               w == View(c, d)'
           IN  /\ v.dial = line[c][d].dial /\ v.serve = line[c][d].serve
               /\ v.to = Words(line[c][d].to) /\ v.fro = Words(line[c][d].fro)
               /\ w.dial = line'[c][d].dial /\ w.serve = line'[c][d].serve
               /\ w.to = Words(line'[c][d].to) /\ w.fro = Words(line'[c][d].fro)
               /\ w.mine = v.mine /\ w.theirs = v.theirs /\ w.tap = v.tap
               /\ w.placed = v.placed /\ w.took = v.took
               /\ v.end = outcome[d][c] /\ w.end = outcome'[d][c]
<1>1. c \in Dev /\ d \in Dev
  BY CallsAssumption
<1>2. Mine(c, c)' = Mine(c, c) /\ Mine(d, c)' = Mine(d, c)
  BY <1>1, MineKept
<1>3. QED
  BY <1>2 DEF View

\* One stream is written.
LEMMA OneStream ==
    ASSUME TypeOK, NEW c \in Callers, NEW d \in Dev, NEW x, line' = [line EXCEPT ![c][d] = x]
    PROVE  /\ line'[c][d] = x
           /\ \A c2 \in Callers, d2 \in Dev : c2 # c \/ d2 # d => SameStream(c2, d2)
<1>1. \A c2 \in Callers, d2 \in Dev : c2 # c \/ d2 # d => line'[c2][d2] = line[c2][d2]
  BY DEF TypeOK
<1>2. QED
  BY <1>1 DEF TypeOK, SameStream, Keeps

\* An event for a device that is not in the call: the streams are tidied.
LEMMA NotInCall ==
    ASSUME TypeOK, NEW c \in Callers, NEW d \in Dev, NEW a \in Dev,
           NEW ln \in [Callers -> [Dev -> Line]], NEW r, Apply(a, c, ln, r), ~ In(a, c),
           \A c2 \in Callers, d2 \in Dev : c2 # c \/ d2 # d => ln[c2][d2] = line[c2][d2]
    PROVE  /\ \A c2 \in Callers, d2 \in Dev : c2 # c \/ d2 # d => SameStream(c2, d2)
           /\ line'[c][d] = Tidy(ln[c][d])
           /\ UNCHANGED <<live, outcome>>
<1>1. line' = [ln EXCEPT ![c] = [e \in Dev |-> Tidy(ln[c][e])]] /\ UNCHANGED <<live, outcome>>
  BY DEF Apply
<1>2. line'[c][d] = Tidy(ln[c][d])
  BY <1>1
<1>3. ASSUME NEW c2 \in Callers, NEW d2 \in Dev, c2 # c \/ d2 # d
      PROVE  SameStream(c2, d2)
  <2>1. line'[c2][d2] \in {line[c2][d2], Tidy(line[c2][d2])}
    BY <1>1, <1>3
  <2>2. line[c2][d2] \in Line
    BY DEF TypeOK
  <2>3. QED
    BY <2>1, <2>2, TidyCarries DEF SameStream, Keeps
<1>4. QED
  BY <1>1, <1>2, <1>3

(***************************************************************************)
(* The tasks of the caller.                                                *)
(***************************************************************************)
\* A stream that was ever dialed goes to another device.
LEMMA StreamToOther ==
    ASSUME TypeOK, OwnsInv, PairsInv, NEW c \in Callers, NEW d \in Dev,
           line[c][d].dial # "no" \/ line[c][d].serve # "none"
    PROVE  d \in Dev \ {c} /\ line[c][d] \in Line /\ c \in Dev /\ PairOK(c, d, View(c, d))
BY CallsAssumption DEF TypeOK, OwnsInv, OwnInv, PairsInv

LEMMA DialOpensKeeps ==
    ASSUME TypeOK, TypeOK', OwnsInv, PairsInv, NEW c \in Callers, NEW d \in Dev, DialOpens(c, d)
    PROVE  OwnsInv' /\ PairsInv'
<1>1. d \in Dev \ {c} /\ line[c][d] \in Line /\ PairOK(c, d, View(c, d))
  BY StreamToOther DEF DialOpens
<1>3. line[c][d].dial = "dial"
  BY DEF DialOpens
<1>4. /\ line'[c][d].dial = "opened" /\ line'[c][d].serve = "asked"
      /\ line'[c][d].to = line[c][d].to /\ line'[c][d].fro = line[c][d].fro
  BY <1>1 DEF DialOpens, TypeOK, Line
<1>5. \A c2 \in Callers, d2 \in Dev : c2 # c \/ d2 # d => SameStream(c2, d2)
  BY DEF DialOpens, TypeOK, SameStream, Keeps
<1>6. UNCHANGED <<placed, chosen, live, tapped, outcome>>
  BY DEF DialOpens
<1> DEFINE v == View(c, d)
           w == View(c, d)'
<1>7. /\ v.dial = "dial" /\ w.dial = "opened" /\ w.serve = "asked"
      /\ w.to = v.to /\ w.fro = v.fro /\ w.mine = v.mine /\ w.theirs = v.theirs
      /\ w.tap = v.tap /\ w.placed = v.placed /\ w.took = v.took /\ w.end = v.end
  <2>1. /\ v.dial = line[c][d].dial
        /\ v.to = Words(line[c][d].to) /\ v.fro = Words(line[c][d].fro)
        /\ w.dial = line'[c][d].dial /\ w.serve = line'[c][d].serve
        /\ w.to = Words(line'[c][d].to) /\ w.fro = Words(line'[c][d].fro)
        /\ w.mine = v.mine /\ w.theirs = v.theirs /\ w.tap = v.tap
        /\ w.placed = v.placed /\ w.took = v.took
        /\ v.end = outcome[d][c] /\ w.end = outcome'[d][c]
    BY <1>1, <1>6, StreamView
  <2> HIDE DEF v, w
  <2>2. QED
    BY <1>3, <1>4, <1>6, <2>1
<1> HIDE DEF v, w
<1>8. PairOK(c, d, w)
  BY <1>1, <1>7, DeviceDialed DEF v
<1>9. QED
  BY <1>1, <1>5, <1>6, <1>8, StreamStep DEF w

\* A stream that ends when the call of its caller is over.
LEMMA OverKeeps ==
    ASSUME TypeOK, TypeOK', OwnsInv, PairsInv, NEW c \in Callers, NEW d \in Dev,
           line[c][d].dial # "no", ~ In(c, c), NEW more, NEW x \in Line,
           line'[c][d] = x, UNCHANGED <<placed, chosen, live, tapped, outcome>>,
           \A c2 \in Callers, d2 \in Dev : c2 # c \/ d2 # d => SameStream(c2, d2),
           x.dial = "over", x.serve = line[c][d].serve,
           Words(x.to) = Words(line[c][d].to) \cup more \/ (x.serve = "over" /\ Words(x.to) = {}),
           "taken" \notin more, Words(x.fro) = {},
           line[c][d].dial = "opened" => "fin" \in more
    PROVE  OwnsInv' /\ PairsInv'
<1>1. d \in Dev \ {c} /\ line[c][d] \in Line /\ c \in Dev /\ PairOK(c, d, View(c, d))
  BY StreamToOther
<1> DEFINE v == View(c, d)
           w == View(c, d)'
<1>2. /\ v.dial = line[c][d].dial /\ v.serve = line[c][d].serve
      /\ v.to = Words(line[c][d].to)
      /\ w.dial = x.dial /\ w.serve = x.serve
      /\ w.to = Words(x.to) /\ w.fro = Words(x.fro)
      /\ w.mine = v.mine /\ w.theirs = v.theirs /\ w.tap = v.tap
      /\ w.placed = v.placed /\ w.took = v.took /\ w.end = v.end
  BY <1>1, StreamView
<1>3. v.mine = NoCall
  BY <1>1, MineIs DEF View
<1>4. v.dial \in {"dial", "opened", "on", "over"}
  BY <1>1, <1>2 DEF Line
<1> HIDE DEF v, w
<1>5. v.serve \notin {"none", "over"} => "fin" \in w.to
  <2>1. CASE v.dial = "opened"
    BY <1>2, <2>1
  <2>2. CASE v.dial \in {"on", "over"}
    BY <1>1, <1>2, <1>3, <2>2 DEF PairOK, ToldOK, v
  <2>3. CASE v.dial = "dial"
    BY <1>1, <2>3 DEF PairOK, StreamOK, v
  <2>4. QED
    BY <1>4, <2>1, <2>2, <2>3
<1>6. PICK g : g = "ring"
  OBVIOUS
<1>7. PairOK(c, d, w)
  <2>1. PairOK(c, d, v)
    BY <1>1 DEF v
  <2>2. /\ w.serve = v.serve \/ (v.serve = "none" /\ w.serve = "asked" /\ w.dial = "opened")
        /\ w.to = v.to \cup more \/ (v.serve = "over" /\ w.to = {})
        /\ w.dial = v.dial \/ (v.dial = "dial" /\ w.dial = "opened")
              \/ (v.dial # "no" /\ w.dial = "over" /\ (w.serve \notin {"none", "over"} => "fin" \in w.to))
        /\ w.dial = "over" => w.fro \in {v.fro, {}}
        /\ w.dial # "over" => w.fro \subseteq v.fro /\ v.fro \subseteq w.fro \cup {g}
        /\ w.fro # v.fro => v.dial \in {"on", "over"} \/ w.dial = "over"
        /\ g # "fin"
    BY <1>2, <1>4, <1>5, <1>6
  <2>3. QED
    BY <1>1, <1>2, <1>3, <2>1, <2>2, NoCallerMoves
<1>8. QED
  BY <1>1, <1>7, StreamStep DEF w

\* The stream to a device is over for a caller that is in the call.
LEMMA CallerLoses ==
    ASSUME TypeOK, OwnsInv, PairsInv, NEW c \in Callers, NEW d \in Dev, NEW more,
           NEW ln \in [Callers -> [Dev -> Line]], NEW r, In(c, c), Carry(c, c, ln, r),
           UNCHANGED <<tapped, placed, chosen>>,
           EndsOrGoesOn(live[c], d, r), live[c].active = d => r.call = NoCall,
           line[c][d].dial \in {"dial", "on"}, ln[c][d].dial = "over",
           ln[c][d].serve = line[c][d].serve, ln[c][d].fro = line[c][d].fro,
           Words(ln[c][d].to) = Words(line[c][d].to) \cup more, "taken" \notin more,
           line[c][d].dial = "on" /\ d \in live[c].io => "fin" \in more,
           \A c2 \in Callers, d2 \in Dev : c2 # c \/ d2 # d => ln[c2][d2] = line[c2][d2]
    PROVE  OwnsInv' /\ PairsInv'
<1>1. d \in Dev \ {c} /\ line[c][d] \in Line /\ c \in Dev /\ PairOK(c, d, View(c, d))
  BY StreamToOther
<1>2. /\ r \in Result /\ Told(live[c], r) /\ Takes(r) = {} /\ r.end # "elsewhere"
      /\ r.call = NoCall \/ GoesOn(live[c], d, r.call)
  BY DEF EndsOrGoesOn
<1>3. OthersKept(c, ln) /\ \A e \in Dev \ {d} : ln[c][e] = line[c][e]
  BY DEF OthersKept
<1>4. PICK g : g = "ring"
  OBVIOUS
<1>5. line[c][d].serve \notin {"none", "over"} => "fin" \in Words(ln[c][d].to)
  <2>1. Mine(c, c) = live[c]
    BY <1>1, MineIs
  <2>2. CASE line[c][d].dial = "dial"
    BY <1>1, <2>2 DEF PairOK, StreamOK, View
  <2>3. CASE line[c][d].dial = "on" /\ d \notin live[c].io
    <3>1. line[c][d].serve \notin {"none", "over"} => "fin" \in Words(line[c][d].to)
      BY <1>1, <2>1, <2>3 DEF PairOK, ToldOK, View
    <3>2. QED
      BY <3>1
  <2>4. QED
    BY <2>2, <2>3
<1>6. r.call # NoCall => r.call.active # d
  BY <1>2 DEF GoesOn
<1>7. StreamLeft(c, d, ln, g, more, r)
  BY <1>4, <1>5, <1>6 DEF StreamLeft
<1>8. QED
  BY <1>1, <1>2, <1>3, <1>7, CallerEvent

LEMMA DialFailsKeeps ==
    ASSUME TypeOK, TypeOK', OwnsInv, PairsInv, NEW c \in Callers, NEW d \in Dev, DialFails(c, d)
    PROVE  OwnsInv' /\ PairsInv'
<1>1. d \in Dev \ {c} /\ line[c][d] \in Line /\ c \in Dev /\ line[c][d].dial = "dial"
  BY StreamToOther DEF DialFails
<1> DEFINE ln == [line EXCEPT ![c][d].dial = "over"]
<1>2. /\ ln[c][d].dial = "over" /\ ln[c][d].serve = line[c][d].serve
      /\ ln[c][d].to = line[c][d].to /\ ln[c][d].fro = line[c][d].fro
      /\ \A c2 \in Callers, d2 \in Dev : c2 # c \/ d2 # d => ln[c2][d2] = line[c2][d2]
  BY <1>1 DEF TypeOK, Line
<1>3. ln \in [Callers -> [Dev -> Line]]
  BY <1>1 DEF TypeOK, Line
<1>4. Apply(c, c, ln, LostAt(c, live[c], d)) /\ UNCHANGED <<tapped, placed, chosen>>
  BY DEF DialFails
<1> HIDE DEF ln
<1>5. CASE In(c, c)
  <2>1. live[c] \in Live /\ live[c].id = c /\ RingsOpen(live[c])
    <3>1. live[c] \in Live /\ live[c].id = c /\ Mine(c, c) = live[c] /\ live[c] # NoCall
      BY <1>1, <1>5, MineIs, LiveIsCall
    <3>2. QED
      BY <3>1 DEF OwnsInv, OwnInv, CallOK, RingsOpen
  <2>2. PICK r : r = LostAt(c, live[c], d)
    OBVIOUS
  <2>3. EndsOrGoesOn(live[c], d, r) /\ (live[c].active = d => r.call = NoCall)
    BY <2>1, <2>2, LostGoesOn
  <2>4. Carry(c, c, ln, r)
    BY <1>4, <1>5, <2>2 DEF Apply
  <2>5. Words(ln[c][d].to) = Words(line[c][d].to) \cup {}
    BY <1>2
  <2>6. line[c][d].dial # "on"
    BY <1>1
  <2>7. QED
    BY ZenonT(60), <1>1, <1>2, <1>3, <1>4, <1>5, <2>3, <2>4, <2>5, <2>6, CallerLoses
<1>6. CASE ~ In(c, c)
  <2>1. /\ \A c2 \in Callers, d2 \in Dev : c2 # c \/ d2 # d => SameStream(c2, d2)
        /\ line'[c][d] = Tidy(ln[c][d]) /\ UNCHANGED <<live, outcome>>
    BY <1>1, <1>2, <1>3, <1>4, <1>6, NotInCall
  <2>2. PICK x \in Line : x = Tidy(ln[c][d])
    BY <1>3, TidyType
  <2>3. /\ x.dial = "over" /\ x.serve = line[c][d].serve /\ Words(x.fro) = {}
        /\ Keeps(x.to, line[c][d].to, x.serve)
    BY <1>1, <1>2, <1>3, <2>2, TidyCarries
  <2>4. Words(x.to) = Words(line[c][d].to) \cup {} \/ (x.serve = "over" /\ Words(x.to) = {})
    BY <2>3 DEF Keeps
  <2>5. line[c][d].dial # "no" /\ line[c][d].dial # "opened" /\ line'[c][d] = x
        /\ UNCHANGED <<placed, chosen, live, tapped, outcome>>
    BY <1>1, <1>4, <2>1, <2>2
  <2>6. QED
    BY <1>6, <2>1, <2>3, <2>4, <2>5, OverKeeps
<1>7. QED
  BY <1>5, <1>6

LEMMA CallerPumpEndsKeeps ==
    ASSUME TypeOK, TypeOK', OwnsInv, PairsInv, NEW c \in Callers, NEW d \in Dev,
           CallerPumpEnds(c, d)
    PROVE  OwnsInv' /\ PairsInv'
<1>1. d \in Dev \ {c} /\ line[c][d] \in Line /\ c \in Dev /\ line[c][d].dial = "on"
      /\ PairOK(c, d, View(c, d))
  BY StreamToOther DEF CallerPumpEnds
<1> DEFINE ln1 == [line EXCEPT ![c][d].dial = "over"]
           ln2 == [ln1 EXCEPT ![c][d].to = @ \o <<"fin">>]
           up == In(c, c) /\ d \in live[c].io
           s == IF live[c].glareWait = d THEN Stays(live[c]) ELSE LostAt(c, live[c], d)
<1>2. Apply(c, c, IF up THEN ln2 ELSE ln1, s) /\ UNCHANGED <<tapped, placed, chosen>>
  BY DEF CallerPumpEnds
<1>5. line[c][d].to \in Seq(Frame) /\ line[c][d].to \o <<"fin">> \in Seq(Frame)
  <2>1. line[c][d].to \in Seq(Frame) /\ <<"fin">> \in Seq(Frame)
    BY <1>1 DEF Line, Frame
  <2>2. QED
    BY <2>1
<1>6. /\ ln1[c][d].dial = "over" /\ ln1[c][d].serve = line[c][d].serve
      /\ ln1[c][d].to = line[c][d].to /\ ln1[c][d].fro = line[c][d].fro
      /\ \A c2 \in Callers, d2 \in Dev : c2 # c \/ d2 # d => ln1[c2][d2] = line[c2][d2]
      /\ ln1 \in [Callers -> [Dev -> Line]]
  BY <1>1 DEF TypeOK, Line
<1>7. /\ ln2[c][d].dial = "over" /\ ln2[c][d].serve = line[c][d].serve
      /\ ln2[c][d].to = line[c][d].to \o <<"fin">> /\ ln2[c][d].fro = line[c][d].fro
      /\ \A c2 \in Callers, d2 \in Dev : c2 # c \/ d2 # d => ln2[c2][d2] = line[c2][d2]
      /\ ln2 \in [Callers -> [Dev -> Line]]
  <2> DEFINE z == [ln1[c][d] EXCEPT !.to = @ \o <<"fin">>]
  <2> HIDE DEF ln1
  <2>1. ln1[c][d] \in Line
    BY <1>1, <1>6
  <2>2. z \in Line /\ z.dial = "over" /\ z.serve = line[c][d].serve
        /\ z.to = line[c][d].to \o <<"fin">> /\ z.fro = line[c][d].fro
    BY <1>5, <1>6, <2>1 DEF Line
  <2>3. ln2 = [ln1 EXCEPT ![c] = [ln1[c] EXCEPT ![d] = z]]
    BY <1>1, <1>6, <2>1
  <2> HIDE DEF ln2, z
  <2>4. QED
    BY <1>1, <1>6, <2>2, <2>3
<1> HIDE DEF ln1, ln2, up, s
<1>3. PICK ln, r : /\ up => ln = ln2
                   /\ ~ up => ln = ln1
                   /\ r = s
                   /\ Apply(c, c, ln, r)
  BY <1>2
<1>4. Apply(c, c, ln, r) /\ UNCHANGED <<tapped, placed, chosen>>
  BY <1>2, <1>3
<1>8. PICK more : /\ Words(ln[c][d].to) = Words(line[c][d].to) \cup more
                  /\ "taken" \notin more /\ (up => "fin" \in more)
  <2>1. CASE up
    <3>1. Words(line[c][d].to \o <<"fin">>) = Words(line[c][d].to) \cup {"fin"}
      <4>1. <<"fin">> \in Seq(Frame) /\ Words(<<"fin">>) = {"fin"}
        BY FewWords DEF Frame
      <4>2. QED
        BY <1>5, <4>1, JoinedWords
    <3>2. Words(ln[c][d].to) = Words(line[c][d].to) \cup {"fin"}
      BY <1>3, <1>7, <2>1, <3>1
    <3>3. "taken" \notin {"fin"} /\ "fin" \in {"fin"}
      OBVIOUS
    <3>4. QED
      BY <3>2, <3>3
  <2>2. CASE ~ up
    <3>1. Words(ln[c][d].to) = Words(line[c][d].to) \cup {}
      BY <1>3, <1>6, <2>2
    <3>2. QED
      BY <2>2, <3>1
  <2>3. QED
    BY <2>1, <2>2
<1>9. /\ ln[c][d].dial = "over" /\ ln[c][d].serve = line[c][d].serve
      /\ ln[c][d].fro = line[c][d].fro
      /\ \A c2 \in Callers, d2 \in Dev : c2 # c \/ d2 # d => ln[c2][d2] = line[c2][d2]
      /\ ln \in [Callers -> [Dev -> Line]]
  BY <1>3, <1>6, <1>7
<1>10. CASE In(c, c)
  <2>1. live[c] \in Live /\ live[c].id = c /\ RingsOpen(live[c]) /\ Mine(c, c) = live[c]
    <3>1. live[c] \in Live /\ live[c].id = c /\ Mine(c, c) = live[c] /\ live[c] # NoCall
      BY <1>1, <1>10, MineIs, LiveIsCall
    <3>2. QED
      BY <3>1 DEF OwnsInv, OwnInv, CallOK, RingsOpen
  <2>2. live[c].glareWait = d => live[c].active # d
    BY <1>1, <2>1, LiveIsCall DEF PairOK, CallerOK, View
  <2>3. EndsOrGoesOn(live[c], d, r) /\ (live[c].active = d => r.call = NoCall)
    BY <1>3, <2>1, <2>2, LostGoesOn, SameGoesOn DEF s
  <2>4. Carry(c, c, ln, r)
    BY <1>4, <1>10 DEF Apply
  <2>5. d \in live[c].io => "fin" \in more
    BY <1>8, <1>10 DEF up
  <2>6. QED
    BY <1>1, <1>4, <1>8, <1>9, <1>10, <2>3, <2>4, <2>5, CallerLoses
<1>11. CASE ~ In(c, c)
  <2>0. ln = ln1 /\ ln[c][d].to = line[c][d].to
    BY <1>3, <1>6, <1>11 DEF up
  <2>1. /\ \A c2 \in Callers, d2 \in Dev : c2 # c \/ d2 # d => SameStream(c2, d2)
        /\ line'[c][d] = Tidy(ln[c][d]) /\ UNCHANGED <<live, outcome>>
    BY <1>1, <1>4, <1>9, <1>11, NotInCall
  <2>2. PICK x \in Line : x = Tidy(ln[c][d])
    BY <1>9, TidyType
  <2>3. /\ x.dial = "over" /\ x.serve = line[c][d].serve /\ Words(x.fro) = {}
        /\ Keeps(x.to, line[c][d].to, x.serve)
    BY <1>1, <1>9, <2>0, <2>2, TidyCarries
  <2>4. Words(x.to) = Words(line[c][d].to) \cup {} \/ (x.serve = "over" /\ Words(x.to) = {})
    BY <2>3 DEF Keeps
  <2>5. line[c][d].dial # "no" /\ line[c][d].dial # "opened" /\ line'[c][d] = x
        /\ UNCHANGED <<placed, chosen, live, tapped, outcome>>
    BY <1>1, <1>4, <2>1, <2>2
  <2>6. QED
    BY <1>11, <2>1, <2>3, <2>4, <2>5, OverKeeps
<1>12. QED
  BY <1>10, <1>11

\* A call changes on the device that placed it, with no device out of it, ...
GoesOnWhole(l, k) ==
    /\ k.id = l.id /\ k.active = l.active /\ k.glareWait = l.glareWait
    /\ k.phase = "ringing" <=> l.phase = "ringing"
    /\ Open(k) = Open(l) /\ l.io \subseteq k.io
    /\ k.phase = "ringing" => k.io \subseteq Open(k)

\* ... while a leg of it joins, or the task for another's offer moves on.
OwnStreams(c, k) ==
    /\ \A c2 \in Callers : line'[c2][c2] = line[c2][c2]
    /\ \A c2 \in Callers : \A d \in Dev \ {c2} :
          /\ line'[c2][d].to = line[c2][d].to /\ line'[c2][d].fro = line[c2][d].fro
          /\ line'[c2][d].serve = line[c2][d].serve
             \/ (line[c2][d].serve = "drop" /\ line'[c2][d].serve = "hang")
          /\ line'[c2][d].dial = line[c2][d].dial
             \/ (c2 = c /\ line[c2][d].dial = "opened" /\ line'[c2][d].dial = "on" /\ d \in k.io)

LEMMA OwnStep ==
    ASSUME TypeOK, TypeOK', OwnsInv, PairsInv, NEW c \in Callers, NEW k \in Live,
           In(c, c), live' = [live EXCEPT ![c] = k],
           UNCHANGED <<placed, chosen, outcome, tapped>>,
           GoesOnWhole(live[c], k), OwnStreams(c, k)
    PROVE  OwnsInv' /\ PairsInv'
<1> USE DEF GoesOnWhole, OwnStreams
<1>10. k.id = c
  BY DEF In
<1>0. c \in Dev /\ live[c] \in Live /\ live[c] # NoCall /\ k # NoCall /\ Mine(c, c) = live[c]
  BY MineIs, LiveIsCall, CallsAssumption
<1>1. /\ Mine(c, c)' = k
      /\ \A d2 \in Dev, c2 \in Callers : d2 # c \/ c2 # c => Mine(d2, c2)' = Mine(d2, c2)
  BY ZenonT(60), <1>0, <1>10, MineAfter
<1>2. ASSUME NEW c2 \in Callers PROVE OwnInv(c2)'
  <2>0. c2 \in Dev
    BY CallsAssumption
  <2>1. OwnInv(c2)
    BY DEF OwnsInv
  <2>2. Mine(c2, c2) # NoCall <=> In(c2, c2)
    BY <2>0, MineIs
  <2>3. Mine(c2, c2)' # NoCall <=> In(c2, c2)'
    BY <2>0, CallsAssumption DEF Mine, In, NoCall
  <2>4. CASE c2 = c
    <3>1. CallOK(c, k, chosen[c])
      BY <1>0, <2>1, <2>4 DEF OwnInv, CallOK, RingsOpen
    <3>2. CallOK(c2, Mine(c2, c2), chosen[c2])'
      BY <1>1, <2>4, <3>1 DEF CallOK, RingsOpen, Open
    <3>3. QED
      BY <1>0, <1>1, <2>1, <2>2, <2>3, <2>4, <3>2 DEF OwnInv
  <2>5. CASE c2 # c
    <3>1. Mine(c2, c2)' = Mine(c2, c2)
      BY <1>1, <2>0, <2>5
    <3>2. CallOK(c2, Mine(c2, c2), chosen[c2])'
      BY <2>1, <3>1 DEF OwnInv, CallOK, RingsOpen, Open
    <3>3. QED
      BY <2>1, <2>2, <2>3, <3>1, <3>2 DEF OwnInv
  <2>6. QED
    BY <2>4, <2>5
<1>3. ASSUME NEW c2 \in Callers, NEW d \in Dev \ {c2} PROVE PairOK(c2, d, View(c2, d)')
  <2> DEFINE v == View(c2, d)
             w == View(c2, d)'
  <2>0. c2 \in Dev /\ d \in Dev /\ d # c2 /\ PairOK(c2, d, v)
    BY CallsAssumption DEF PairsInv
  <2>1. Mine(d, c2)' = Mine(d, c2)
    BY <1>1, <2>0
  <2>2. /\ w.to = v.to /\ w.fro = v.fro /\ w.theirs = v.theirs /\ w.tap = v.tap
        /\ w.end = v.end /\ w.placed = v.placed /\ w.took = v.took
        /\ w.serve = v.serve \/ (v.serve = "drop" /\ w.serve = "hang")
        /\ w.dial = v.dial
           \/ (c2 = c /\ v.dial = "opened" /\ w.dial = "on" /\ d \in k.io)
    BY <2>1 DEF View
  <2>3. CASE c2 = c
    <3>1. v.mine = live[c] /\ w.mine = k
      BY <1>0, <1>1, <2>3 DEF View
    <3> HIDE DEF v, w
    <3>2. PairOK(c2, d, w)
      BY <1>0, <2>0, <2>2, <2>3, <3>1, CallChanges
    <3>3. QED
      BY <3>2 DEF w
  <2>4. CASE c2 # c
    <3>1. w.mine = v.mine
      BY <1>1, <2>0, <2>4 DEF View
    <3> HIDE DEF v, w
    <3>2. CASE w.serve = v.serve
      <4>1. PairOK(c2, d, w)
        BY <2>0, <2>2, <2>4, <3>1, <3>2, SameEnds
      <4>2. QED
        BY <4>1 DEF w
    <3>3. CASE v.serve = "drop" /\ w.serve = "hang"
      <4>1. PairOK(c2, d, w)
        BY <2>0, <2>2, <2>4, <3>1, <3>3, ServeMoves
      <4>2. QED
        BY <4>1 DEF w
    <3>4. QED
      BY <2>2, <3>2, <3>3
  <2>5. QED
    BY <2>3, <2>4
<1>4. QED
  BY <1>2, <1>3 DEF OwnsInv, PairsInv

LEMMA JoinLegKeeps ==
    ASSUME TypeOK, TypeOK', OwnsInv, PairsInv, NEW c \in Callers, NEW d \in Dev, JoinLeg(c, d)
    PROVE  OwnsInv' /\ PairsInv'
<1>1. d \in Dev \ {c} /\ line[c][d] \in Line /\ c \in Dev /\ line[c][d].dial = "opened"
      /\ PairOK(c, d, View(c, d))
  BY StreamToOther DEF JoinLeg
<1>2. UNCHANGED <<placed, chosen, outcome, tapped>>
  BY DEF JoinLeg
<1>3. CASE In(c, c)
  <2>1. live[c] \in Live /\ live[c].id = c /\ Mine(c, c) = live[c] /\ live[c] # NoCall
    BY <1>1, <1>3, MineIs, LiveIsCall
  <2>2. PICK k : k = [live[c] EXCEPT !.io = @ \cup {d}]
    OBVIOUS
  <2>3. /\ k \in Live /\ k.id = c /\ k.phase = live[c].phase /\ k.active = live[c].active
        /\ k.glareWait = live[c].glareWait /\ k.io = live[c].io \cup {d} /\ k.leg = live[c].leg
    BY <1>1, <2>1, <2>2 DEF Live
  <2>4. live' = [live EXCEPT ![c] = k]
    BY <1>1, <1>3, <2>1, <2>2 DEF JoinLeg, TypeOK
  <2>5. Open(k) = Open(live[c])
    BY <2>3 DEF Open
  <2>6. k.phase = "ringing" => k.io \subseteq Open(k)
    <3>1. live[c].phase = "ringing" => d \in Open(live[c])
      BY <1>1, <2>1 DEF PairOK, StreamOK, CallerOK, View
    <3>2. live[c].phase = "ringing" => live[c].io \subseteq Open(live[c])
      BY <2>1 DEF OwnsInv, OwnInv, CallOK, RingsOpen
    <3>3. QED
      BY <2>3, <2>5, <3>1, <3>2
  <2>7. line' = [line EXCEPT ![c][d].dial = "on"]
    BY <1>3 DEF JoinLeg
  <2>8. \A c2 \in Callers : line'[c2][c2] = line[c2][c2]
    BY <1>1, <2>7, CallsAssumption DEF TypeOK
  <2>9. \A c2 \in Callers : \A e \in Dev \ {c2} :
           /\ line'[c2][e].to = line[c2][e].to /\ line'[c2][e].fro = line[c2][e].fro
           /\ line'[c2][e].serve = line[c2][e].serve
              \/ (line[c2][e].serve = "drop" /\ line'[c2][e].serve = "hang")
           /\ line'[c2][e].dial = line[c2][e].dial
              \/ (c2 = c /\ line[c2][e].dial = "opened" /\ line'[c2][e].dial = "on" /\ e \in k.io)
    <3>1. /\ line'[c][d].to = line[c][d].to /\ line'[c][d].fro = line[c][d].fro
          /\ line'[c][d].serve = line[c][d].serve /\ line'[c][d].dial = "on"
      BY <1>1, <2>7 DEF TypeOK, Line
    <3>2. \A c2 \in Callers, e \in Dev : c2 # c \/ e # d => line'[c2][e] = line[c2][e]
      BY <2>7 DEF TypeOK
    <3>3. d \in k.io
      BY <2>3
    <3>4. ASSUME NEW c2 \in Callers, NEW e \in Dev \ {c2}
          PROVE  /\ line'[c2][e].to = line[c2][e].to /\ line'[c2][e].fro = line[c2][e].fro
                 /\ line'[c2][e].serve = line[c2][e].serve
                    \/ (line[c2][e].serve = "drop" /\ line'[c2][e].serve = "hang")
                 /\ line'[c2][e].dial = line[c2][e].dial
                    \/ (c2 = c /\ line[c2][e].dial = "opened" /\ line'[c2][e].dial = "on"
                        /\ e \in k.io)
      <4>1. CASE c2 = c /\ e = d
        BY <1>1, <3>1, <3>3, <4>1
      <4>2. CASE c2 # c \/ e # d
        BY <3>2, <4>2
      <4>3. QED
        BY <4>1, <4>2
    <3>5. QED
      BY <3>4
  <2>10. /\ k.phase = "ringing" <=> live[c].phase = "ringing"
         /\ k.active = live[c].active /\ k.glareWait = live[c].glareWait
         /\ live[c].io \subseteq k.io
    BY <2>3
  <2>11. GoesOnWhole(live[c], k)
    BY <2>1, <2>3, <2>5, <2>6, <2>10 DEF GoesOnWhole
  <2>12. OwnStreams(c, k)
    BY <2>8, <2>9 DEF OwnStreams
  <2>13. QED
    BY <1>2, <1>3, <2>3, <2>4, <2>11, <2>12, OwnStep
<1>4. CASE ~ In(c, c)
  <2>1. PICK y : y = [line[c][d] EXCEPT !.dial = "over", !.to = @ \o <<"cancel", "fin">>]
    OBVIOUS
  <2>2. line' = [line EXCEPT ![c][d] = Tidy(y)] /\ UNCHANGED live
    BY <1>4, <2>1 DEF JoinLeg
  <2>3. <<"cancel", "fin">> \in Seq(Frame) /\ line[c][d].to \in Seq(Frame)
    BY <1>1 DEF Frame, Line
  <2>4. line[c][d].to \o <<"cancel", "fin">> \in Seq(Frame)
    BY <2>3
  <2>5. /\ y \in Line /\ y.dial = "over" /\ y.serve = line[c][d].serve
        /\ y.to = line[c][d].to \o <<"cancel", "fin">>
    BY <1>1, <2>1, <2>4 DEF Line
  <2>6. PICK more : more = {"cancel", "fin"}
    OBVIOUS
  <2>7. Words(y.to) = Words(line[c][d].to) \cup more
    <3>1. Words(<<"cancel", "fin">>) = {"cancel", "fin"}
      BY FewWords
    <3>2. QED
      BY <2>3, <2>5, <2>6, <3>1, JoinedWords
  <2>8. PICK x \in Line : x = Tidy(y)
    BY <2>5, TidyType
  <2>9. /\ x.dial = "over" /\ x.serve = line[c][d].serve /\ Words(x.fro) = {}
        /\ Keeps(x.to, y.to, x.serve)
    BY <2>5, <2>8, TidyCarries
  <2>10. Words(x.to) = Words(line[c][d].to) \cup more \/ (x.serve = "over" /\ Words(x.to) = {})
    BY <2>7, <2>9 DEF Keeps
  <2>11. /\ line'[c][d] = x
         /\ \A c2 \in Callers, d2 \in Dev : c2 # c \/ d2 # d => SameStream(c2, d2)
    <3>1. line' = [line EXCEPT ![c][d] = x]
      BY <2>2, <2>8
    <3>2. QED
      BY <3>1, OneStream
  <2>12. "taken" \notin more /\ "fin" \in more /\ line[c][d].dial # "no"
    BY <1>1, <2>6
  <2>13. QED
    BY <1>2, <1>4, <2>2, <2>9, <2>10, <2>11, <2>12, OverKeeps
<1>5. QED
  BY <1>3, <1>4

\* The call is placed, and every device dialed.
LEMMA StartKeeps ==
    ASSUME TypeOK, TypeOK', OwnsInv, PairsInv, NEW c \in Callers, Start(c)
    PROVE  OwnsInv' /\ PairsInv'
<1>0. c \in Dev /\ live[c] = NoCall /\ c \notin placed /\ chosen[c] = None
  BY CallsAssumption DEF Start, OwnsInv, OwnInv
<1>1. PICK k : k = Outgoing(c)
  OBVIOUS
<1>2. /\ k \in Live /\ k.id = c /\ k.phase = "ringing" /\ k.active = None /\ k.io = {}
      /\ k.glareWait = None /\ k.leg = [d \in Dev |-> IF d \in LegsOf(c) THEN "dialing" ELSE "none"]
  BY <1>1 DEF Outgoing, Live, LegState
<1>3. LegsOf(c) \subseteq Open(k)
  BY <1>2 DEF Open, Undone, LegsOf
<1>4. live' = [live EXCEPT ![c] = k] /\ placed' = placed \cup {c}
      /\ UNCHANGED <<line, tapped, outcome, chosen>>
  BY <1>1 DEF Start
<1>5. /\ Mine(c, c)' = k
      /\ \A d2 \in Dev, c2 \in Callers : d2 # c \/ c2 # c => Mine(d2, c2)' = Mine(d2, c2)
  BY <1>0, <1>2, <1>4, MineAfter
<1>6. Mine(c, c) = NoCall
  BY <1>0 DEF Mine
<1>7. ASSUME NEW c2 \in Callers PROVE OwnInv(c2)'
  <2>0. c2 \in Dev
    BY CallsAssumption
  <2>1. OwnInv(c2)
    BY DEF OwnsInv
  <2>2. Mine(c2, c2) # NoCall <=> In(c2, c2)
    BY <2>0, MineIs
  <2>3. Mine(c2, c2)' # NoCall <=> In(c2, c2)'
    BY <2>0, CallsAssumption DEF Mine, In, NoCall
  <2>4. CASE c2 = c
    <3>1. CallOK(c, k, chosen[c])
      BY <1>0, <1>2 DEF CallOK, RingsOpen
    <3>2. CallOK(c2, Mine(c2, c2), chosen[c2])'
      BY <1>4, <1>5, <2>4, <3>1 DEF CallOK, RingsOpen, Open
    <3>3. QED
      BY <1>0, <1>4, <2>1, <2>4, <3>2 DEF OwnInv
  <2>5. CASE c2 # c
    <3>1. Mine(c2, c2)' = Mine(c2, c2)
      BY <1>5, <2>0, <2>5
    <3>2. CallOK(c2, Mine(c2, c2), chosen[c2])'
      BY <1>4, <2>1, <3>1 DEF OwnInv, CallOK, RingsOpen, Open
    <3>3. QED
      BY <1>4, <2>1, <2>2, <2>3, <3>1, <3>2 DEF OwnInv
  <2>6. QED
    BY <2>4, <2>5
<1>8. ASSUME NEW c2 \in Callers, NEW d \in Dev \ {c2} PROVE PairOK(c2, d, View(c2, d)')
  <2> DEFINE v == View(c2, d)
             w == View(c2, d)'
  <2>0. c2 \in Dev /\ d \in Dev /\ d # c2 /\ PairOK(c2, d, v)
    BY CallsAssumption DEF PairsInv
  <2>1. Mine(d, c2)' = Mine(d, c2)
    BY <1>5, <2>0
  <2>2. /\ w.to = v.to /\ w.fro = v.fro /\ w.theirs = v.theirs /\ w.tap = v.tap
        /\ w.end = v.end /\ v.placed \subseteq w.placed /\ w.took = v.took
        /\ w.serve = v.serve /\ w.dial = v.dial /\ v.placed = placed
    BY <1>4, <2>1 DEF View
  <2>3. CASE c2 = c
    <3>1. v.mine = NoCall /\ w.mine = k
      BY <1>5, <1>6, <2>3 DEF View
    <3> HIDE DEF v, w
    <3>2. PairOK(c2, d, w)
      BY <1>0, <1>2, <1>3, <2>0, <2>2, <2>3, <3>1, CallStarts
    <3>3. QED
      BY <3>2 DEF w
  <2>4. CASE c2 # c
    <3>1. w.mine = v.mine
      BY <1>5, <2>0, <2>4 DEF View
    <3> HIDE DEF v, w
    <3>2. PairOK(c2, d, w)
      BY <2>0, <2>2, <3>1, SameEnds
    <3>3. QED
      BY <3>2 DEF w
  <2>5. QED
    BY <2>3, <2>4
<1>9. QED
  BY <1>7, <1>8 DEF OwnsInv, PairsInv

LEMMA SendOfferKeeps ==
    ASSUME TypeOK, TypeOK', OwnsInv, PairsInv, NEW c \in Callers, SendOffer(c)
    PROVE  OwnsInv' /\ PairsInv'
<1>0. c \in Dev /\ c \notin LegsOf(c) /\ c \in placed
  BY CallsAssumption DEF SendOffer, LegsOf, OwnsInv, OwnInv
<1>1. UNCHANGED <<live, tapped, outcome, placed, chosen>>
  BY DEF SendOffer
<1>2. \A c2 \in Callers, d \in Dev :
         /\ line'[c2][d].serve = line[c2][d].serve
         /\ line'[c2][d].to = line[c2][d].to /\ line'[c2][d].fro = line[c2][d].fro
         /\ line'[c2][d].dial = line[c2][d].dial
            \/ (c2 = c /\ line[c2][d].dial = "no" /\ line'[c2][d].dial = "dial" /\ d \in LegsOf(c))
  BY DEF SendOffer, TypeOK, Line
<1>3. \A d \in Dev, c2 \in Callers : Mine(d, c2)' = Mine(d, c2)
  BY <1>1, MineKept
<1>4. ASSUME NEW c2 \in Callers PROVE OwnInv(c2)'
  <2>0. c2 \in Dev /\ OwnInv(c2)
    BY CallsAssumption DEF OwnsInv
  <2>1. CallOK(c2, Mine(c2, c2), chosen[c2])'
    BY <1>1, <1>3, <2>0 DEF OwnInv, CallOK, RingsOpen, Open
  <2>2. line'[c2][c2].dial = "no" /\ line'[c2][c2].serve = "none"
    BY <1>0, <1>2, <2>0 DEF OwnInv
  <2>3. QED
    BY <1>1, <2>0, <2>1, <2>2 DEF OwnInv, In
<1>5. ASSUME NEW c2 \in Callers, NEW d \in Dev \ {c2} PROVE PairOK(c2, d, View(c2, d)')
  <2> DEFINE v == View(c2, d)
             w == View(c2, d)'
  <2>0. c2 \in Dev /\ d \in Dev /\ d # c2 /\ PairOK(c2, d, v)
    BY CallsAssumption DEF PairsInv
  <2>1. /\ w.to = v.to /\ w.fro = v.fro /\ w.theirs = v.theirs /\ w.tap = v.tap
        /\ w.end = v.end /\ v.placed = w.placed /\ w.took = v.took /\ w.mine = v.mine
        /\ w.serve = v.serve /\ v.placed = placed
        /\ w.dial = v.dial
           \/ (c2 = c /\ v.dial = "no" /\ w.dial = "dial" /\ d \in LegsOf(c))
    BY <1>1, <1>2, <1>3, <2>0 DEF View
  <2> HIDE DEF v, w
  <2>2. PairOK(c2, d, w)
    <3>1. CASE w.dial = v.dial
      BY <2>0, <2>1, <3>1, SameEnds
    <3>2. CASE c2 = c /\ v.dial = "no" /\ w.dial = "dial" /\ d \in LegsOf(c)
      BY <1>0, <2>0, <2>1, <3>2, DeviceDialed
    <3>3. QED
      BY <2>1, <3>1, <3>2
  <2>3. QED
    BY <2>2 DEF w
<1>6. QED
  BY <1>4, <1>5 DEF OwnsInv, PairsInv

(***************************************************************************)
(* The frames a caller reads.                                              *)
(***************************************************************************)
\* A glare that leaves the call to wait for the other side's.
GlareHeld(c, l, d) ==
    l.phase = "ringing" /\ d \in Open(l) /\ GlareWinner(c, d) = d

\* Every frame but an answer and such a glare ends the call or leaves it going.
LEMMA FrameGoesOn ==
    ASSUME NEW c \in Callers, NEW l \in Live, l.id = c, NEW d \in Dev, NEW f \in Frame,
           RingsOpen(l), f # "answer", f = "glare" => ~ GlareHeld(c, l, d)
    PROVE  EndsOrGoesOn(l, d, OnFrame(c, l, d, f))
<1>1. {"failed", "unavailable", "declined", "busy", "missed"} \subseteq LegState \ Undone
  BY DEF LegState, Undone
<1>2. {"remotehangup", "declined"} \subseteq End \ {"elsewhere"}
  BY DEF End
<1>3. EndsOrGoesOn(l, d, Stays(l))
  BY SameGoesOn
<1>4. CASE f = "hangup"
  <2>1. EndsOrGoesOn(l, d, HungUp(c, l, d))
    BY <1>1, <1>2, FinishEnds, WordsThatEnd, LegOutGoesOn DEF HungUp
  <2>2. QED
    BY <1>4, <2>1 DEF OnFrame
<1>5. CASE f = "glare"
  <2>1. EndsOrGoesOn(l, d, Glare(c, l, d))
    BY <1>1, <1>3, <1>5, LegOutGoesOn DEF Glare, GlareHeld
  <2>2. QED
    BY <1>5, <2>1 DEF OnFrame
<1>6. CASE f = "ring"
  <2>1. CASE l.leg[d] = "dialing"
    <3>1. PICK k : k = [l EXCEPT !.leg[d] = "ringing"]
      OBVIOUS
    <3>2. /\ k \in Live /\ k.id = l.id /\ k.phase = l.phase /\ k.active = l.active
          /\ k.io = l.io /\ k.glareWait = l.glareWait
          /\ k.leg = [l.leg EXCEPT ![d] = "ringing"]
      BY <3>1 DEF Live, LegState
    <3>3. Open(k) = Open(l)
      BY <2>1, <3>2 DEF Open, Undone, Live
    <3>4. GoesOn(l, d, k) /\ l.io \subseteq k.io
      BY <3>2, <3>3 DEF GoesOn, RingsOpen
    <3>5. Ringing(l, d) = Stays(k)
      BY <2>1, <3>1 DEF Ringing
    <3>6. EndsOrGoesOn(l, d, Ringing(l, d))
      BY <3>2, <3>4, <3>5, StaysGoesOn
    <3>7. QED
      BY <1>6, <3>6 DEF OnFrame
  <2>2. CASE l.leg[d] # "dialing"
    BY <1>3, <1>6, <2>2 DEF OnFrame, Ringing
  <2>3. QED
    BY <2>1, <2>2
<1>7. CASE f = "decline"
  <2>1. EndsOrGoesOn(l, d, Declined(l, d))
    BY <1>1, <1>2, FinishEnds, WordsThatEnd, LegOutGoesOn DEF Declined
  <2>2. QED
    BY <1>7, <2>1 DEF OnFrame
<1>8. CASE f \in {"busy", "missed", "unavailable"}
  <2>1. EndsOrGoesOn(l, d, LegOut(l, d, f))
    BY <1>1, <1>8, LegOutGoesOn
  <2>2. OnFrame(c, l, d, f) = LegOut(l, d, f)
    BY <1>8 DEF OnFrame
  <2>3. QED
    BY <2>1, <2>2
<1>9. CASE f \in {"cancel", "taken", "fin"}
  <2>1. OnFrame(c, l, d, f) = Stays(l)
    BY <1>9 DEF OnFrame
  <2>2. QED
    BY <1>3, <2>1
<1>10. QED
  BY <1>4, <1>5, <1>6, <1>7, <1>8, <1>9 DEF Frame

\* An answer that came too late is told so.
LEMMA LateAnswer ==
    ASSUME NEW l \in Live, NEW e \in Dev, RingsOpen(l), ~ (l.phase = "ringing" /\ e \in Open(l)),
           l.active # e, NEW r, r = Answered(l, e)
    PROVE  /\ r \in Result /\ r.end = None /\ GoesOn(l, e, r.call) /\ Told(l, r)
           /\ Takes(r) \subseteq {e} \cap l.io
           /\ e \in l.io => "fin" \in Words(r.say[e])
<1>1. r = Release(l, {e}, "gone", <<"taken">>)
  BY DEF Answered
<1> DEFINE k == [l EXCEPT !.leg = [x \in Dev |-> IF x \in {e} THEN "gone" ELSE l.leg[x]],
                          !.io = l.io \ {e}]
<1>2. r.call = k /\ r.end = None
  BY <1>1 DEF Release
<1>3. r \in Result /\ k \in Live
  <2>1. <<"taken">> \in Seq(Frame) /\ {e} \in SUBSET Dev /\ "gone" \in LegState
    BY DEF Frame, LegState
  <2> HIDE DEF k
  <2>2. QED
    BY <1>1, <1>2, <2>1, ReleaseType
<1>4. /\ k.io = l.io \ {e} /\ k.id = l.id /\ k.phase = l.phase /\ k.active = l.active
      /\ k.glareWait = l.glareWait /\ k.leg = [x \in Dev |-> IF x \in {e} THEN "gone" ELSE l.leg[x]]
  BY DEF Live
<1>5. Open(k) = Open(l) \ {e}
  <2> HIDE DEF k
  <2>1. QED
    BY <1>4 DEF Open, Undone
<1> HIDE DEF k
<1>6. ASSUME NEW x \in Dev
      PROVE  /\ x = e /\ x \in l.io => "fin" \in Words(r.say[x])
             /\ "taken" \in Words(r.say[x]) => x = e /\ x \in l.io
  <2>1. /\ x \in {e} \cap l.io => r.say[x] = <<"taken">> \o <<"fin">>
        /\ x \notin {e} \cap l.io => r.say[x] = <<>>
    BY <1>1 DEF Release
  <2>2. Words(<<"taken">> \o <<"fin">>) = {"taken"} \cup {"fin"} /\ Words(<<>>) = {}
    <3>1. <<"taken">> \in Seq(Frame) /\ <<"fin">> \in Seq(Frame)
      BY DEF Frame
    <3>2. Words(<<"taken">>) = {"taken"} /\ Words(<<"fin">>) = {"fin"} /\ Words(<<>>) = {}
      BY FewWords
    <3>3. QED
      BY <3>1, <3>2, JoinedWords
  <2>3. QED
    BY <2>1, <2>2
<1>7. GoesOn(l, e, k) /\ k # NoCall
  BY <1>3, <1>4, <1>5, LiveIsCall DEF GoesOn, RingsOpen
<1>8. l.io \subseteq Dev
  BY DEF Live
<1>9. Told(l, r) /\ Takes(r) \subseteq {e} \cap l.io
  BY <1>2, <1>4, <1>6, <1>7, <1>8 DEF Told, Takes
<1>10. QED
  BY <1>2, <1>3, <1>6, <1>7, <1>9

\* The first answer carries the call; the other devices are told.
LEMMA FirstAnswer ==
    ASSUME NEW l \in Live, NEW e \in Dev, RingsOpen(l), l.phase = "ringing", e \in Open(l),
           NEW r, r = Answered(l, e)
    PROVE  /\ r \in Result /\ r.end = None /\ r.call \in Live /\ r.call.id = l.id
           /\ r.call.phase = "connecting" /\ r.call.active = e
           /\ r.call.glareWait = l.glareWait
           /\ \A d \in Dev : /\ d \in l.io => "fin" \in Words(r.say[d]) \/ d \in r.call.io
                             /\ "taken" \in Words(r.say[d]) => d # e
<1> DEFINE S == Open(l) \ {e}
           q == Release(l, S, "gone", <<"taken">>)
           k == [l EXCEPT !.leg = [x \in Dev |-> IF x \in S THEN "gone" ELSE l.leg[x]],
                          !.io = l.io \ S]
<1>1. r = [q EXCEPT !.call.leg[e] = "answered", !.call.active = e, !.call.phase = "connecting"]
  BY DEF Answered
<1>2. q.call = k /\ q.end = None
  BY DEF Release
<1>3. q \in Result /\ k \in Live
  <2>1. <<"taken">> \in Seq(Frame) /\ S \in SUBSET Dev /\ "gone" \in LegState
    BY DEF Frame, LegState, Open
  <2> HIDE DEF S, k
  <2>2. QED
    BY <1>2, <2>1, ReleaseType
<1>4. k.io = l.io \ S /\ k.id = l.id /\ k.glareWait = l.glareWait
  BY DEF Live
<1>5. ASSUME NEW d \in Dev
      PROVE  /\ d \in S \cap l.io => "fin" \in Words(q.say[d])
             /\ "taken" \in Words(q.say[d]) => d \in S
  <2>1. /\ d \in S \cap l.io => q.say[d] = <<"taken">> \o <<"fin">>
        /\ d \notin S \cap l.io => q.say[d] = <<>>
    BY DEF Release
  <2>2. Words(<<"taken">> \o <<"fin">>) = {"taken"} \cup {"fin"} /\ Words(<<>>) = {}
    <3>1. <<"taken">> \in Seq(Frame) /\ <<"fin">> \in Seq(Frame)
      BY DEF Frame
    <3>2. Words(<<"taken">>) = {"taken"} /\ Words(<<"fin">>) = {"fin"} /\ Words(<<>>) = {}
      BY FewWords
    <3>3. QED
      BY <3>1, <3>2, JoinedWords
  <2> HIDE DEF q, S
  <2>3. QED
    BY <2>1, <2>2
<1> HIDE DEF q, k
<1>6. PICK m : m = [k EXCEPT !.leg[e] = "answered", !.active = e, !.phase = "connecting"]
  OBVIOUS
<1>7. m \in Live /\ m.io = k.io /\ m.id = k.id /\ m.glareWait = k.glareWait
      /\ m.active = e /\ m.phase = "connecting"
  BY <1>3, <1>6 DEF Live, LegState
<1>8. r.call = m /\ r.say = q.say /\ r.end = q.end /\ r \in Result
  BY <1>1, <1>2, <1>3, <1>6, <1>7 DEF Result
<1>9. QED
  BY <1>2, <1>4, <1>5, <1>7, <1>8

\* The stream a caller reads a frame from.
Popped(c, d) == [line EXCEPT ![c][d].fro = Tail(@)]

LEMMA ReadFrom ==
    ASSUME TypeOK, NEW c \in Callers, NEW d \in Dev, line[c][d].fro # <<>>,
           Head(line[c][d].fro) # "fin"
    PROVE  LET ln == Popped(c, d)
               f == Head(line[c][d].fro)
           IN
           /\ ln \in [Callers -> [Dev -> Line]] /\ f \in Frame /\ f \in Words(line[c][d].fro)
           /\ ln[c][d].dial = line[c][d].dial /\ ln[c][d].serve = line[c][d].serve
           /\ ln[c][d].to = line[c][d].to
           /\ Words(ln[c][d].fro) \subseteq Words(line[c][d].fro)
           /\ Words(line[c][d].fro) \subseteq Words(ln[c][d].fro) \cup {f}
           /\ \A c2 \in Callers, d2 \in Dev : c2 # c \/ d2 # d => ln[c2][d2] = line[c2][d2]
<1> DEFINE ln == Popped(c, d)
           f == Head(line[c][d].fro)
<1>1. line[c][d] \in Line /\ line[c][d].fro \in Seq(Frame)
  BY DEF TypeOK, Line
<1>2. Tail(line[c][d].fro) \in Seq(Frame) /\ f \in Frame
  BY <1>1, HeadType
<1>3. ln[c][d] = [line[c][d] EXCEPT !.fro = Tail(line[c][d].fro)]
      /\ \A c2 \in Callers, d2 \in Dev : c2 # c \/ d2 # d => ln[c2][d2] = line[c2][d2]
  BY DEF TypeOK, Popped
<1>4. /\ ln[c][d].dial = line[c][d].dial /\ ln[c][d].serve = line[c][d].serve
      /\ ln[c][d].to = line[c][d].to /\ ln[c][d].fro = Tail(line[c][d].fro)
  BY <1>1, <1>3 DEF Line
<1>5. [line[c][d] EXCEPT !.fro = Tail(line[c][d].fro)] \in Line
  BY <1>1, <1>2 DEF Line
<1>6. ln \in [Callers -> [Dev -> Line]]
  BY <1>5 DEF TypeOK, Popped
<1>7. /\ f \in Words(line[c][d].fro)
      /\ Words(Tail(line[c][d].fro)) \subseteq Words(line[c][d].fro)
      /\ Words(line[c][d].fro) \subseteq Words(Tail(line[c][d].fro)) \cup {f}
  BY <1>1, HeadWord
<1> HIDE DEF ln, f
<1>8. QED
  BY <1>2, <1>3, <1>4, <1>6, <1>7 DEF ln, f

LEMMA CallerReadsLate ==
    ASSUME TypeOK, TypeOK', OwnsInv, PairsInv, NEW c \in Callers, NEW d \in Dev,
           CallerReads(c, d), ~ In(c, c)
    PROVE  OwnsInv' /\ PairsInv'
<1>1. d \in Dev \ {c} /\ line[c][d] \in Line /\ c \in Dev /\ line[c][d].dial = "on"
      /\ PairOK(c, d, View(c, d))
  BY StreamToOther DEF CallerReads
<1>2. PICK ln, f : ln = Popped(c, d) /\ f = Head(line[c][d].fro)
  OBVIOUS
<1>3. /\ Apply(c, c, ln, OnFrame(c, live[c], d, f))
      /\ line[c][d].fro # <<>> /\ Head(line[c][d].fro) # "fin" /\ f # "fin"
  BY <1>2 DEF CallerReads, Popped
<1>4. UNCHANGED <<placed, tapped, chosen>>
  BY <1>1 DEF CallerReads
<1>5. /\ ln \in [Callers -> [Dev -> Line]]
      /\ ln[c][d].dial = line[c][d].dial /\ ln[c][d].serve = line[c][d].serve
      /\ ln[c][d].to = line[c][d].to
      /\ Words(ln[c][d].fro) \subseteq Words(line[c][d].fro)
      /\ Words(line[c][d].fro) \subseteq Words(ln[c][d].fro) \cup {f}
      /\ \A c2 \in Callers, d2 \in Dev : c2 # c \/ d2 # d => ln[c2][d2] = line[c2][d2]
  <2>1. ln = Popped(c, d) /\ f = Head(line[c][d].fro)
    BY <1>2
  <2>2. line[c][d].fro # <<>> /\ Head(line[c][d].fro) # "fin"
    BY <1>3
  <2>3. c \in Callers /\ d \in Dev
    BY <1>1
  <2> DEFINE p == Popped(c, d)
             g == Head(line[c][d].fro)
  <2>4. /\ p \in [Callers -> [Dev -> Line]] /\ g \in Frame
        /\ p[c][d].dial = line[c][d].dial /\ p[c][d].serve = line[c][d].serve
        /\ p[c][d].to = line[c][d].to
        /\ Words(p[c][d].fro) \subseteq Words(line[c][d].fro)
        /\ Words(line[c][d].fro) \subseteq Words(p[c][d].fro) \cup {g}
        /\ \A c2 \in Callers, d2 \in Dev : c2 # c \/ d2 # d => p[c2][d2] = line[c2][d2]
    BY <2>2, <2>3, ReadFrom
  <2>5. ln = p /\ f = g
    BY <2>1
  <2> HIDE DEF p, g
  <2>6. QED
    BY <2>4, <2>5
<1>6. /\ \A c2 \in Callers, d2 \in Dev : c2 # c \/ d2 # d => SameStream(c2, d2)
      /\ line'[c][d] = Tidy(ln[c][d]) /\ UNCHANGED <<live, outcome>>
  BY <1>1, <1>3, <1>5, NotInCall
<1>7. PICK x \in Line : x = Tidy(ln[c][d])
  BY <1>5, TidyType
<1>8. /\ x.dial = "on" /\ x.serve = line[c][d].serve
      /\ Keeps(x.to, line[c][d].to, x.serve) /\ Words(x.fro) = Words(ln[c][d].fro)
  <2>1. ln[c][d] \in Line
    BY <1>1, <1>5
  <2>2. /\ x.dial = ln[c][d].dial /\ x.serve = ln[c][d].serve
        /\ Keeps(x.to, ln[c][d].to, ln[c][d].serve) /\ Keeps(x.fro, ln[c][d].fro, ln[c][d].dial)
    BY <1>7, <2>1, TidyCarries
  <2>3. QED
    BY <1>1, <1>5, <2>2 DEF Keeps
<1> DEFINE v == View(c, d)
           w == View(c, d)'
<1>9. /\ v.dial = "on" /\ v.serve = line[c][d].serve
      /\ v.to = Words(line[c][d].to) /\ v.fro = Words(line[c][d].fro)
      /\ w.dial = x.dial /\ w.serve = x.serve /\ w.to = Words(x.to) /\ w.fro = Words(x.fro)
      /\ w.mine = v.mine /\ w.theirs = v.theirs /\ w.tap = v.tap
      /\ w.placed = v.placed /\ w.took = v.took /\ w.end = v.end
  <2>1. UNCHANGED <<placed, chosen, live, tapped>> /\ line'[c][d] = x /\ outcome' = outcome
    BY <1>4, <1>6, <1>7
  <2>2. /\ v.dial = line[c][d].dial /\ v.serve = line[c][d].serve
        /\ v.to = Words(line[c][d].to) /\ v.fro = Words(line[c][d].fro)
        /\ w.dial = line'[c][d].dial /\ w.serve = line'[c][d].serve
        /\ w.to = Words(line'[c][d].to) /\ w.fro = Words(line'[c][d].fro)
        /\ w.mine = v.mine /\ w.theirs = v.theirs /\ w.tap = v.tap
        /\ w.placed = v.placed /\ w.took = v.took
        /\ v.end = outcome[d][c] /\ w.end = outcome'[d][c]
    BY <1>1, <2>1, StreamView
  <2> HIDE DEF v, w
  <2>3. QED
    BY <1>1, <2>1, <2>2
<1>10. v.mine = NoCall
  BY <1>1, MineIs DEF View
<1> HIDE DEF v, w
<1>11. PICK W : W = {}
  OBVIOUS
<1>12. /\ w.serve = v.serve \/ (v.serve = "none" /\ w.serve = "asked" /\ w.dial = "opened")
       /\ "taken" \notin W
       /\ w.to = v.to \cup W \/ (v.serve = "over" /\ w.to = {})
       /\ w.dial = v.dial \/ (v.dial = "dial" /\ w.dial = "opened")
             \/ (v.dial # "no" /\ w.dial = "over" /\ (w.serve \notin {"none", "over"} => "fin" \in w.to))
       /\ w.dial = "over" => w.fro \in {v.fro, {}}
       /\ w.dial # "over" => w.fro \subseteq v.fro /\ v.fro \subseteq w.fro \cup {f}
       /\ w.fro # v.fro => v.dial \in {"on", "over"} \/ w.dial = "over"
  BY <1>5, <1>8, <1>9, <1>11 DEF Keeps
<1>13. PairOK(c, d, v) /\ w.mine = NoCall
  BY <1>1, <1>9, <1>10 DEF v
<1>14. PairOK(c, d, w)
  BY ZenonT(60), <1>1, <1>3, <1>9, <1>10, <1>12, <1>13, NoCallerMoves
<1>15. QED
  BY <1>1, <1>4, <1>6, <1>14, StreamStep DEF w

\* The frames that end the caller's call or leave it going.
LEMMA CallerReadsOn ==
    ASSUME TypeOK, OwnsInv, PairsInv, NEW c \in Callers, NEW d \in Dev,
           CallerReads(c, d), In(c, c), NEW f, f = Head(line[c][d].fro),
           f = "glare" => ~ GlareHeld(c, live[c], d),
           f = "answer" => ~ (live[c].phase = "ringing" /\ d \in Open(live[c]))
    PROVE  OwnsInv' /\ PairsInv'
<1>1. d \in Dev \ {c} /\ line[c][d] \in Line /\ c \in Dev /\ line[c][d].dial = "on"
      /\ PairOK(c, d, View(c, d))
  BY StreamToOther DEF CallerReads
<1>2. PICK ln, r : ln = Popped(c, d) /\ r = OnFrame(c, live[c], d, f)
  OBVIOUS
<1>3. /\ Carry(c, c, ln, r)
      /\ line[c][d].fro # <<>> /\ Head(line[c][d].fro) # "fin" /\ f # "fin"
  BY <1>2 DEF CallerReads, Apply, Popped
<1>4. UNCHANGED <<placed, tapped, chosen>>
  BY <1>1 DEF CallerReads
<1>5. /\ ln \in [Callers -> [Dev -> Line]] /\ f \in Frame
      /\ ln[c][d].dial = line[c][d].dial /\ ln[c][d].serve = line[c][d].serve
      /\ ln[c][d].to = line[c][d].to
      /\ Words(ln[c][d].fro) \subseteq Words(line[c][d].fro)
      /\ Words(line[c][d].fro) \subseteq Words(ln[c][d].fro) \cup {f}
      /\ \A c2 \in Callers, d2 \in Dev : c2 # c \/ d2 # d => ln[c2][d2] = line[c2][d2]
  <2>1. ln = Popped(c, d) /\ f = Head(line[c][d].fro)
    BY <1>2
  <2>2. line[c][d].fro # <<>> /\ Head(line[c][d].fro) # "fin"
    BY <1>3
  <2>3. c \in Callers /\ d \in Dev
    BY <1>1
  <2> DEFINE p == Popped(c, d)
             g == Head(line[c][d].fro)
  <2>4. /\ p \in [Callers -> [Dev -> Line]] /\ g \in Frame
        /\ p[c][d].dial = line[c][d].dial /\ p[c][d].serve = line[c][d].serve
        /\ p[c][d].to = line[c][d].to
        /\ Words(p[c][d].fro) \subseteq Words(line[c][d].fro)
        /\ Words(line[c][d].fro) \subseteq Words(p[c][d].fro) \cup {g}
        /\ \A c2 \in Callers, d2 \in Dev : c2 # c \/ d2 # d => p[c2][d2] = line[c2][d2]
    BY <2>2, <2>3, ReadFrom
  <2>5. ln = p /\ f = g
    BY <2>1
  <2> HIDE DEF p, g
  <2>6. QED
    BY <2>4, <2>5
<1>6. /\ live[c] \in Live /\ live[c].id = c /\ RingsOpen(live[c])
      /\ Mine(c, c) = live[c] /\ CallOK(c, live[c], chosen[c]) /\ live[c] # NoCall
  <2>1. live[c] \in Live /\ live[c].id = c /\ Mine(c, c) = live[c] /\ live[c] # NoCall
    BY <1>1, MineIs, LiveIsCall
  <2>2. QED
    BY <2>1 DEF OwnsInv, OwnInv, CallOK, RingsOpen
<1>7. OthersKept(c, ln) /\ \A e \in Dev \ {d} : ln[c][e] = line[c][e]
  BY <1>5 DEF OthersKept
<1>8. /\ r \in Result
      /\ r.call = NoCall \/ GoesOn(live[c], d, r.call)
      /\ Told(live[c], r) /\ r.end # "elsewhere"
      /\ \A x \in Takes(r) : chosen[c] \notin {None, x}
      /\ f = "answer" /\ Answering(c, View(c, d)) =>
            CarriedBy(r.call, d) \/ "fin" \in Words(ln[c][d].to) \/ "fin" \in Words(r.say[d])
  <2>1. CASE f # "answer"
    <3>1. EndsOrGoesOn(live[c], d, r)
      BY <1>2, <1>5, <1>6, <2>1, FrameGoesOn
    <3>2. QED
      BY <2>1, <3>1 DEF EndsOrGoesOn
  <2>2. CASE f = "answer"
    <3>1. r = Answered(live[c], d)
      BY <1>2, <1>6, <2>2 DEF OnFrame
    <3>2. CASE live[c].active = d
      <4>1. r = Stays(live[c])
        BY <2>2, <3>1, <3>2 DEF Answered
      <4>2. EndsOrGoesOn(live[c], d, r) /\ r.call = live[c]
        BY <1>6, <4>1, SameGoesOn
      <4>3. CarriedBy(r.call, d)
        BY <1>1, <1>6, <3>2, <4>2, CallsAssumption DEF CarriedBy, RingsOpen
      <4>4. QED
        BY <4>2, <4>3 DEF EndsOrGoesOn
    <3>3. CASE live[c].active # d
      <4>1. /\ r \in Result /\ r.end = None /\ GoesOn(live[c], d, r.call) /\ Told(live[c], r)
            /\ Takes(r) \subseteq {d} \cap live[c].io
            /\ d \in live[c].io => "fin" \in Words(r.say[d])
        BY <1>6, <2>2, <3>1, <3>3, LateAnswer
      <4>2. None # "elsewhere" /\ None \notin Dev
        BY NoneAssumption, CallsAssumption DEF End
      <4>3. ASSUME NEW x \in Takes(r) PROVE chosen[c] \notin {None, x}
        <5>1. x = d /\ d \in live[c].io
          BY <4>1
        <5>2. live[c].phase # "ringing"
          BY <1>6, <2>2, <5>1 DEF RingsOpen
        <5>3. chosen[c] = live[c].active /\ live[c].active \in Dev
          BY <1>6, <5>2 DEF CallOK
        <5>4. QED
          BY <3>3, <4>2, <5>1, <5>3
      <4>4. ASSUME Answering(c, View(c, d)), d \notin live[c].io
            PROVE  "fin" \in Words(line[c][d].to)
        <5>1. View(c, d).serve = "on"
          BY <1>1, <4>4 DEF PairOK, CalleeOK, Answering
        <5>2. View(c, d).dial = "on" /\ View(c, d).mine = live[c]
              /\ View(c, d).to = Words(line[c][d].to)
          BY <1>1, <1>6 DEF View
        <5>3. QED
          BY <1>1, <4>4, <5>1, <5>2 DEF PairOK, ToldOK
      <4>5. QED
        BY <1>5, <4>1, <4>2, <4>3, <4>4
    <3>4. QED
      BY <3>2, <3>3
  <2>3. QED
    BY <2>1, <2>2
<1>9. Words(ln[c][d].to) = Words(line[c][d].to) \cup {}
  BY <1>5
<1>10. PICK more : more = {}
  OBVIOUS
<1>11. StreamLeft(c, d, ln, f, more, r)
  BY <1>1, <1>3, <1>5, <1>8, <1>9, <1>10 DEF StreamLeft
<1>12. d # c /\ (d = c => ln[c][c] = line[c][c])
  BY <1>1
<1>13. r \in Result /\ Carry(c, c, ln, r) /\ UNCHANGED <<tapped, placed, chosen>>
  BY <1>3, <1>4, <1>8
<1>14. QED
  BY <1>5, <1>7, <1>8, <1>11, <1>12, <1>13, CallerEvent

\* The streams as they are after a frame was taken from one.
FrameTaken(c, d, ln, f) ==
    /\ ln \in [Callers -> [Dev -> Line]] /\ f \in Words(line[c][d].fro) /\ f # "fin"
    /\ Carry(c, c, ln, OnFrame(c, live[c], d, f))
    /\ ln[c][d].dial = line[c][d].dial /\ ln[c][d].serve = line[c][d].serve
    /\ ln[c][d].to = line[c][d].to
    /\ Words(ln[c][d].fro) \subseteq Words(line[c][d].fro)
    /\ Words(line[c][d].fro) \subseteq Words(ln[c][d].fro) \cup {f}
    /\ \A c2 \in Callers, d2 \in Dev : c2 # c \/ d2 # d => ln[c2][d2] = line[c2][d2]

LEMMA CallerTakesFrame ==
    ASSUME TypeOK, OwnsInv, PairsInv, NEW c \in Callers, NEW d \in Dev,
           CallerReads(c, d), In(c, c)
    PROVE  /\ d \in Dev \ {c} /\ c \in Dev /\ line[c][d].dial = "on"
           /\ live[c] \in Live /\ live[c].id = c /\ RingsOpen(live[c]) /\ live[c] # NoCall
           /\ Mine(c, c) = live[c] /\ CallOK(c, live[c], chosen[c])
           /\ \E ln : FrameTaken(c, d, ln, Head(line[c][d].fro))
<1>1. d \in Dev \ {c} /\ c \in Dev /\ line[c][d].dial = "on"
  BY StreamToOther DEF CallerReads
<1>2. /\ live[c] \in Live /\ live[c].id = c /\ RingsOpen(live[c]) /\ live[c] # NoCall
      /\ Mine(c, c) = live[c] /\ CallOK(c, live[c], chosen[c])
  <2>1. live[c] \in Live /\ live[c].id = c /\ Mine(c, c) = live[c] /\ live[c] # NoCall
    BY <1>1, MineIs, LiveIsCall
  <2>2. QED
    BY <2>1 DEF OwnsInv, OwnInv, CallOK, RingsOpen
<1>3. line[c][d].fro # <<>> /\ Head(line[c][d].fro) # "fin"
  BY DEF CallerReads
<1> DEFINE p == Popped(c, d)
           g == Head(line[c][d].fro)
<1>4. /\ p \in [Callers -> [Dev -> Line]] /\ g \in Words(line[c][d].fro)
      /\ p[c][d].dial = line[c][d].dial /\ p[c][d].serve = line[c][d].serve
      /\ p[c][d].to = line[c][d].to
      /\ Words(p[c][d].fro) \subseteq Words(line[c][d].fro)
      /\ Words(line[c][d].fro) \subseteq Words(p[c][d].fro) \cup {g}
      /\ \A c2 \in Callers, d2 \in Dev : c2 # c \/ d2 # d => p[c2][d2] = line[c2][d2]
  BY <1>3, ReadFrom
<1>5. Carry(c, c, p, OnFrame(c, live[c], d, g)) /\ g # "fin"
  BY <1>3 DEF CallerReads, Apply, Popped
<1> HIDE DEF p, g
<1>6. FrameTaken(c, d, p, g)
  BY <1>4, <1>5 DEF FrameTaken
<1>7. \E ln : FrameTaken(c, d, ln, g)
  BY <1>6
<1>8. QED
  BY <1>1, <1>2, <1>7 DEF g

\* The first answer.
LEMMA CallerReadsAnswer ==
    ASSUME TypeOK, OwnsInv, PairsInv, NEW c \in Callers, NEW d \in Dev,
           CallerReads(c, d), In(c, c), Head(line[c][d].fro) = "answer",
           live[c].phase = "ringing", d \in Open(live[c])
    PROVE  OwnsInv' /\ PairsInv'
<1>1. /\ d \in Dev \ {c} /\ c \in Dev /\ line[c][d].dial = "on"
      /\ live[c] \in Live /\ live[c].id = c /\ RingsOpen(live[c]) /\ live[c] # NoCall
      /\ Mine(c, c) = live[c] /\ CallOK(c, live[c], chosen[c])
  BY CallerTakesFrame
<1>2. PICK ln : FrameTaken(c, d, ln, Head(line[c][d].fro))
  BY CallerTakesFrame
<1>3. /\ "answer" \in Words(line[c][d].fro) /\ ln \in [Callers -> [Dev -> Line]]
      /\ Carry(c, c, ln, OnFrame(c, live[c], d, "answer"))
      /\ ln[c][d].dial = line[c][d].dial /\ ln[c][d].serve = line[c][d].serve
      /\ ln[c][d].to = line[c][d].to
      /\ Words(ln[c][d].fro) \subseteq Words(line[c][d].fro)
      /\ Words(line[c][d].fro) \subseteq Words(ln[c][d].fro) \cup {"answer"}
      /\ \A c2 \in Callers, d2 \in Dev : c2 # c \/ d2 # d => ln[c2][d2] = line[c2][d2]
  BY <1>2 DEF FrameTaken
<1>4. PICK r : r = Answered(live[c], d)
  OBVIOUS
<1>5. Carry(c, c, ln, r)
  BY <1>1, <1>3, <1>4 DEF OnFrame
<1>6. /\ r \in Result /\ r.end = None /\ r.call \in Live /\ r.call.id = c
      /\ r.call.phase = "connecting" /\ r.call.active = d
      /\ r.call.glareWait = live[c].glareWait
      /\ \A e \in Dev : /\ e \in live[c].io => "fin" \in Words(r.say[e]) \/ e \in r.call.io
                        /\ "taken" \in Words(r.say[e]) => e # d
  BY <1>1, <1>4, FirstAnswer
<1>7. /\ UNCHANGED <<tapped, placed>> /\ chosen'[c] = d
      /\ \A c2 \in Callers \ {c} : chosen'[c2] = chosen[c2]
  BY DEF CallerReads, TypeOK
<1>8. r.call # NoCall /\ r.end # "elsewhere"
  BY <1>6, LiveIsCall, NoneAssumption DEF End
<1>9. OwnsInv'
  <2>1. CallOK(c, r.call, chosen'[c])
    BY <1>1, <1>6, <1>7 DEF CallOK
  <2>2. \A c2 \in Callers : ln[c2][c2].dial = "no" /\ ln[c2][c2].serve = "none"
    <3>1. \A c2 \in Callers : ln[c2][c2] = line[c2][c2]
      BY <1>1, <1>3, CallsAssumption
    <3>2. QED
      BY <3>1 DEF OwnsInv, OwnInv
  <2>3. r.call = NoCall \/ r.call.id = c
    BY <1>6
  <2>4. \A c2 \in Callers \ {c} : chosen'[c2] = chosen[c2]
    BY <1>7
  <2>5. UNCHANGED <<tapped, placed>> /\ r \in Result
    BY <1>6, <1>7
  <2>6. QED
    BY <1>3, <1>5, <1>8, <2>1, <2>2, <2>3, <2>4, <2>5, OwnsAfter
<1>10. ASSUME NEW e \in Dev \ {c} PROVE PairOK(c, e, View(c, e)')
  <2> DEFINE v == View(c, e)
             w == View(c, e)'
             x == ln[c][e]
             W == Words(r.say[e])
  <2>1. /\ w.dial = x.dial /\ w.serve = x.serve
        /\ w.mine = r.call /\ w.theirs = v.theirs /\ w.tap = v.tap
        /\ w.end = v.end /\ w.placed = v.placed /\ w.took = chosen'[c]
        /\ w.to = Words(x.to) \cup W \/ (x.serve = "over" /\ w.to = {})
        /\ w.fro = Words(x.fro) \/ (x.dial = "over" /\ w.fro = {})
    BY <1>3, <1>5, <1>6, <1>7, CallerSays
  <2>2. /\ v.dial = line[c][e].dial /\ v.serve = line[c][e].serve
        /\ v.to = Words(line[c][e].to) /\ v.fro = Words(line[c][e].fro)
        /\ v.mine = live[c] /\ v.took = chosen[c]
    BY <1>1 DEF View
  <2>3. PairOK(c, e, v) /\ e \in Dev
    BY DEF PairsInv
  <2>4. /\ x.dial = line[c][e].dial /\ x.serve = line[c][e].serve /\ x.to = line[c][e].to
        /\ e # d => x.fro = line[c][e].fro
        /\ e = d => /\ Words(x.fro) \subseteq Words(line[c][e].fro)
                    /\ Words(line[c][e].fro) \subseteq Words(x.fro) \cup {"answer"}
                    /\ "answer" \in Words(line[c][e].fro)
    BY <1>3
  <2>5. /\ e \in live[c].io => "fin" \in W \/ e \in r.call.io
        /\ "taken" \in W => e # d
    BY <1>6
  <2> HIDE DEF v, w, x, W
  <2>6. /\ w.serve = v.serve /\ w.theirs = v.theirs /\ w.tap = v.tap /\ w.end = v.end
        /\ w.placed = v.placed /\ w.dial = v.dial
        /\ w.mine # NoCall /\ w.mine.phase # "ringing" /\ w.mine.active = d /\ w.took = d
        /\ w.mine.glareWait = v.mine.glareWait
        /\ v.mine # NoCall /\ v.mine.phase = "ringing" /\ CallOK(c, v.mine, v.took)
    BY <1>1, <1>6, <1>7, <1>8, <2>1, <2>2, <2>4
  <2>7. /\ w.to = v.to \cup W \/ (v.serve = "over" /\ w.to = {})
        /\ e \in v.mine.io => "fin" \in W \/ e \in w.mine.io
        /\ "taken" \in W => e # d
    BY <2>1, <2>2, <2>4, <2>5
  <2>8. e # d => w.fro = v.fro \/ (v.dial = "over" /\ w.fro = {})
    BY <2>1, <2>2, <2>4
  <2>9. e = d => v.dial = "on" /\ "answer" \in v.fro /\ w.fro \subseteq v.fro
                 /\ v.fro \subseteq w.fro \cup {"answer"}
    BY <1>1, <2>1, <2>2, <2>4
  <2>10. PairOK(c, e, w)
    BY <1>1, <2>3, <2>6, <2>7, <2>8, <2>9, AnswerTaken
  <2>11. QED
    BY <2>10 DEF w
<1>11. ASSUME NEW c2 \in Callers, NEW e \in Dev \ {c2} PROVE PairOK(c2, e, View(c2, e)')
  <2>1. CASE c2 = c
    BY <1>10, <2>1
  <2>2. CASE c2 # c
    <3>1. OthersKept(c, ln) /\ chosen'[c2] = chosen[c2] /\ UNCHANGED <<tapped, placed>>
      BY <1>3, <1>7, <2>2 DEF OthersKept
    <3>2. r \in Result /\ (r.call = NoCall \/ r.call.id = c)
      BY <1>6
    <3>3. QED
      BY <1>3, <1>5, <2>2, <3>1, <3>2, OtherPairs
  <2>3. QED
    BY <2>1, <2>2
<1>12. QED
  BY <1>9, <1>11 DEF PairsInv

\* "My call wins": the call waits for the one of the other side.
LEMMA CallerReadsGlare ==
    ASSUME TypeOK, OwnsInv, PairsInv, NEW c \in Callers, NEW d \in Dev,
           CallerReads(c, d), In(c, c), Head(line[c][d].fro) = "glare",
           GlareHeld(c, live[c], d)
    PROVE  OwnsInv' /\ PairsInv'
<1>1. /\ d \in Dev \ {c} /\ c \in Dev /\ line[c][d].dial = "on"
      /\ live[c] \in Live /\ live[c].id = c /\ RingsOpen(live[c]) /\ live[c] # NoCall
      /\ Mine(c, c) = live[c] /\ CallOK(c, live[c], chosen[c])
  BY CallerTakesFrame
<1>2. PICK ln : FrameTaken(c, d, ln, Head(line[c][d].fro))
  BY CallerTakesFrame
<1>3. /\ "glare" \in Words(line[c][d].fro) /\ ln \in [Callers -> [Dev -> Line]]
      /\ Carry(c, c, ln, OnFrame(c, live[c], d, "glare"))
      /\ ln[c][d].dial = line[c][d].dial /\ ln[c][d].serve = line[c][d].serve
      /\ ln[c][d].to = line[c][d].to
      /\ Words(ln[c][d].fro) \subseteq Words(line[c][d].fro)
      /\ Words(line[c][d].fro) \subseteq Words(ln[c][d].fro) \cup {"glare"}
      /\ \A c2 \in Callers, d2 \in Dev : c2 # c \/ d2 # d => ln[c2][d2] = line[c2][d2]
  BY <1>2 DEF FrameTaken
<1>4. PICK k : k = [live[c] EXCEPT !.glareWait = d]
  OBVIOUS
<1>5. /\ k \in Live /\ k.id = c /\ k.phase = "ringing" /\ live[c].phase = "ringing"
      /\ k.active = live[c].active /\ k.active = None
      /\ k.leg = live[c].leg /\ k.io = live[c].io /\ k.glareWait = d
  <2>1. live[c].phase = "ringing" /\ live[c].active = None
    BY <1>1 DEF GlareHeld, RingsOpen
  <2>2. QED
    BY <1>1, <1>4, <2>1 DEF Live
<1>6. PICK r : r = Stays(k)
  OBVIOUS
<1>7. Carry(c, c, ln, r)
  <2>1. OnFrame(c, live[c], d, "glare") = Stays([live[c] EXCEPT !.glareWait = d])
    BY <1>1 DEF OnFrame, Glare, GlareHeld
  <2>2. QED
    BY <1>3, <1>4, <1>6, <2>1
<1>8. /\ r \in Result /\ r.call = k /\ r.end = None /\ k # NoCall
      /\ \A e \in Dev : Words(r.say[e]) = {}
  <2>1. Silence \in Say
    BY WordsThatEnd
  <2>2. r.call = k /\ r.say = Silence /\ r.end = None
    BY <1>6 DEF Stays
  <2>3. r \in Result
    BY <1>5, <1>6, <2>1 DEF Stays, Result
  <2>4. QED
    BY <1>5, <2>2, <2>3, LiveIsCall, SaidWords
<1>9. UNCHANGED <<tapped, placed, chosen>>
  BY DEF CallerReads
<1>10. OwnsInv'
  <2>1. CallOK(c, r.call, chosen'[c])
    <3>1. RingsOpen(k)
      BY <1>1, <1>5 DEF RingsOpen, Open
    <3>2. chosen[c] = None
      BY <1>1, <1>5 DEF CallOK
    <3>3. QED
      BY <1>5, <1>8, <1>9, <3>1, <3>2 DEF CallOK
  <2>2. \A c2 \in Callers : ln[c2][c2].dial = "no" /\ ln[c2][c2].serve = "none"
    <3>1. \A c2 \in Callers : ln[c2][c2] = line[c2][c2]
      BY <1>1, <1>3, CallsAssumption
    <3>2. QED
      BY <3>1 DEF OwnsInv, OwnInv
  <2>3. (r.call = NoCall \/ r.call.id = c) /\ r.end # "elsewhere"
    BY <1>5, <1>8, NoneAssumption DEF End
  <2>4. \A c2 \in Callers \ {c} : chosen'[c2] = chosen[c2]
    BY <1>9
  <2>5. UNCHANGED <<tapped, placed>> /\ r \in Result
    BY <1>8, <1>9
  <2>6. QED
    BY <1>3, <1>7, <2>1, <2>2, <2>3, <2>4, <2>5, OwnsAfter
<1>11. ASSUME NEW e \in Dev \ {c} PROVE PairOK(c, e, View(c, e)')
  <2> DEFINE v == View(c, e)
             w == View(c, e)'
             x == ln[c][e]
  <2>1. /\ w.dial = x.dial /\ w.serve = x.serve
        /\ w.mine = r.call /\ w.theirs = v.theirs /\ w.tap = v.tap
        /\ w.end = v.end /\ w.placed = v.placed /\ w.took = chosen'[c]
        /\ w.to = Words(x.to) \cup Words(r.say[e]) \/ (x.serve = "over" /\ w.to = {})
        /\ w.fro = Words(x.fro) \/ (x.dial = "over" /\ w.fro = {})
    BY <1>3, <1>5, <1>7, <1>8, <1>9, CallerSays
  <2>2. /\ v.dial = line[c][e].dial /\ v.serve = line[c][e].serve
        /\ v.to = Words(line[c][e].to) /\ v.fro = Words(line[c][e].fro)
        /\ v.mine = live[c] /\ v.took = chosen[c]
    BY <1>1 DEF View
  <2>3. PairOK(c, e, v) /\ e \in Dev /\ Words(r.say[e]) = {}
    BY <1>8 DEF PairsInv
  <2>4. /\ x.dial = line[c][e].dial /\ x.serve = line[c][e].serve /\ x.to = line[c][e].to
        /\ e # d => x.fro = line[c][e].fro
        /\ e = d => /\ Words(x.fro) \subseteq Words(line[c][e].fro)
                    /\ Words(line[c][e].fro) \subseteq Words(x.fro) \cup {"glare"}
                    /\ "glare" \in Words(line[c][e].fro)
    BY <1>3
  <2> HIDE DEF v, w, x
  <2>11. chosen'[c] = chosen[c] /\ w.mine = k /\ v.mine = live[c]
    BY <1>8, <1>9, <2>1, <2>2
  <2>12. /\ w.serve = v.serve /\ w.theirs = v.theirs /\ w.tap = v.tap /\ w.end = v.end
         /\ w.placed = v.placed /\ w.dial = v.dial /\ w.took = v.took
    BY <2>1, <2>2, <2>4, <2>11
  <2>5. /\ w.mine # NoCall /\ v.mine # NoCall
        /\ w.mine.phase = "ringing" /\ v.mine.phase = "ringing"
        /\ w.mine.active = v.mine.active /\ v.mine.active = None
        /\ e \in v.mine.io => e \in w.mine.io
    BY <1>1, <1>5, <1>8, <2>11
  <2>6. Open(w.mine) = Open(v.mine)
    BY <1>5, <1>8, <2>1, <2>2 DEF Open
  <2>7. w.mine.glareWait = e => v.dial = "on" /\ "glare" \in v.fro
                                /\ ~ CarriedBy(v.mine, e) /\ v.mine.active = None
    BY <1>1, <1>5, <1>8, <2>1, <2>2, <2>4, <2>5 DEF CarriedBy
  <2>8. /\ w.to = v.to \/ (v.serve = "over" /\ w.to = {})
        /\ w.fro = v.fro \/ (v.dial = "on" /\ w.fro \subseteq v.fro /\ v.fro \subseteq w.fro \cup {"glare"})
              \/ (v.dial = "over" /\ w.fro = {})
    BY <1>1, <2>1, <2>2, <2>3, <2>4
  <2>9. PairOK(c, e, w)
    BY <2>3, <2>5, <2>6, <2>7, <2>8, <2>12, CallChanges
  <2>10. QED
    BY <2>9 DEF w
<1>12. ASSUME NEW c2 \in Callers, NEW e \in Dev \ {c2} PROVE PairOK(c2, e, View(c2, e)')
  <2>1. CASE c2 = c
    BY <1>11, <2>1
  <2>2. CASE c2 # c
    <3>1. OthersKept(c, ln) /\ chosen'[c2] = chosen[c2] /\ UNCHANGED <<tapped, placed>>
      BY <1>3, <1>9, <2>2 DEF OthersKept
    <3>2. r \in Result /\ (r.call = NoCall \/ r.call.id = c)
      BY <1>5, <1>8
    <3>3. QED
      BY <1>3, <1>7, <2>2, <3>1, <3>2, OtherPairs
  <2>3. QED
    BY <2>1, <2>2
<1>13. QED
  BY <1>10, <1>12 DEF PairsInv

LEMMA CallerReadsKeeps ==
    ASSUME TypeOK, TypeOK', OwnsInv, PairsInv, NEW c \in Callers, NEW d \in Dev, CallerReads(c, d)
    PROVE  OwnsInv' /\ PairsInv'
<1>1. PICK f : f = Head(line[c][d].fro)
  OBVIOUS
<1>2. CASE ~ In(c, c)
  BY <1>2, CallerReadsLate
<1>3. CASE In(c, c) /\ f = "answer" /\ live[c].phase = "ringing" /\ d \in Open(live[c])
  BY <1>1, <1>3, CallerReadsAnswer
<1>4. CASE In(c, c) /\ f = "glare" /\ GlareHeld(c, live[c], d)
  BY <1>1, <1>4, CallerReadsGlare
<1>5. CASE /\ In(c, c) /\ (f = "glare" => ~ GlareHeld(c, live[c], d))
           /\ f = "answer" => ~ (live[c].phase = "ringing" /\ d \in Open(live[c]))
  BY <1>1, <1>5, CallerReadsOn
<1>6. QED
  BY <1>2, <1>3, <1>4, <1>5

(***************************************************************************)
(* A call that ends, or goes on, on the device that placed it.             *)
(***************************************************************************)
\* The call of a device as that device has it.
LEMMA OwnCall ==
    ASSUME TypeOK, OwnsInv, NEW c \in Dev, In(c, c)
    PROVE  /\ c \in Callers /\ live[c] \in Live /\ live[c].id = c /\ live[c] # NoCall
           /\ RingsOpen(live[c]) /\ Mine(c, c) = live[c] /\ CallOK(c, live[c], chosen[c])
<1>1. c \in Callers
  BY CallsAssumption DEF In, TypeOK, NoCall, Live
<1>2. live[c] \in Live /\ live[c].id = c /\ Mine(c, c) = live[c] /\ live[c] # NoCall
  BY <1>1, MineIs, LiveIsCall
<1>3. QED
  BY <1>1, <1>2 DEF OwnsInv, OwnInv, CallOK, RingsOpen

LEMMA OwnEvent ==
    ASSUME TypeOK, OwnsInv, PairsInv, NEW c \in Dev, NEW e \in Dev, In(c, c),
           NEW ln \in [Callers -> [Dev -> Line]], NEW r, Carry(c, c, ln, r),
           UNCHANGED <<tapped, placed, chosen>>, EndsOrGoesOn(live[c], e, r),
           OthersKept(c, ln), \A d \in Dev : ln[c][d] = line[c][d],
           e # c => line[c][e].dial \in {"on", "over"}
    PROVE  OwnsInv' /\ PairsInv'
<1>1. c \in Callers
  BY OwnCall
<1>2. /\ r \in Result /\ Told(live[c], r) /\ Takes(r) = {} /\ r.end # "elsewhere"
      /\ r.call = NoCall \/ GoesOn(live[c], e, r.call)
  BY DEF EndsOrGoesOn
<1>3. PICK f, more : f = "ring" /\ more = {}
  OBVIOUS
<1>4. e # c => StreamLeft(c, e, ln, f, more, r)
  BY <1>3 DEF StreamLeft
<1>5. /\ \A d \in Dev \ {e} : ln[c][d] = line[c][d]
      /\ e = c => ln[c][c] = line[c][c]
      /\ \A d \in Takes(r) : chosen[c] \notin {None, d}
  BY <1>2
<1>6. QED
  BY <1>1, <1>2, <1>4, <1>5, CallerEvent

LEMMA SameStreams == TypeOK => line \in [Callers -> [Dev -> Line]] /\ \A c : OthersKept(c, line)
BY DEF TypeOK, OthersKept

\* The person of the caller hangs up.
LEMMA CallerHangupKeeps ==
    ASSUME TypeOK, OwnsInv, PairsInv, NEW c \in Dev, In(c, c), Hangup(c)
    PROVE  OwnsInv' /\ PairsInv'
<1>1. live[c] \in Live /\ live[c].id = c
  BY OwnCall
<1>2. PICK r : r = HangUp(c, live[c])
  OBVIOUS
<1>3. EndsOrGoesOn(live[c], c, r)
  BY <1>1, <1>2, HangUpEnds
<1>4. Carry(c, c, line, r) /\ UNCHANGED <<tapped, placed, chosen>>
  BY <1>1, <1>2 DEF Hangup
<1>5. QED
  BY <1>3, <1>4, SameStreams, OwnEvent

LEMMA CallerTickKeeps ==
    ASSUME TypeOK, OwnsInv, PairsInv, NEW c \in Dev, In(c, c), Tick(c)
    PROVE  OwnsInv' /\ PairsInv'
<1>1. live[c] \in Live /\ live[c].id = c /\ live[c].phase # "active"
  BY OwnCall DEF Tick
<1>2. PICK r : r = TimedOut(c, live[c])
  OBVIOUS
<1>3. EndsOrGoesOn(live[c], c, r)
  BY <1>1, <1>2, TimeEnds
<1>4. Carry(c, c, line, r) /\ UNCHANGED <<tapped, placed, chosen>>
  BY <1>1, <1>2 DEF Tick
<1>5. QED
  BY <1>3, <1>4, SameStreams, OwnEvent

\* The other side's call did not come.
LEMMA GlareOverKeeps ==
    ASSUME TypeOK, OwnsInv, PairsInv, NEW c \in Dev, GlareOver(c)
    PROVE  OwnsInv' /\ PairsInv'
<1>1. /\ In(c, c) /\ c \in Callers /\ live[c] \in Live /\ live[c].id = c /\ live[c] # NoCall
      /\ RingsOpen(live[c]) /\ Mine(c, c) = live[c]
  BY OwnCall DEF GlareOver
<1>2. PICK l, e, k, r : /\ l = live[c] /\ e = l.glareWait /\ k = [l EXCEPT !.glareWait = None]
                        /\ r = LegOut(k, e, "unavailable")
  OBVIOUS
<1>3. Carry(c, c, line, r) /\ UNCHANGED <<tapped, placed, chosen>> /\ e # None
  BY <1>2 DEF GlareOver
<1>4. /\ e \in Dev /\ k \in Live /\ k.id = l.id /\ k.phase = l.phase /\ k.active = l.active
      /\ k.leg = l.leg /\ k.io = l.io /\ k.glareWait = None
  BY <1>1, <1>2, <1>3 DEF Live
<1>5. Open(k) = Open(l) /\ RingsOpen(k)
  BY <1>1, <1>2, <1>4 DEF Open, RingsOpen
<1>6. EndsOrGoesOn(k, e, r)
  <2>1. "unavailable" \in LegState \ Undone
    BY DEF LegState, Undone
  <2>2. QED
    BY <1>2, <1>4, <1>5, <2>1, LegOutGoesOn
<1>7. EndsOrGoesOn(live[c], e, r)
  BY <1>2, <1>4, <1>5, <1>6 DEF EndsOrGoesOn, GoesOn, Told
<1>8. e # c => line[c][e].dial \in {"on", "over"}
  <2>1. ASSUME e # c PROVE line[c][e].dial \in {"on", "over"}
    <3>1. CallerOK(c, e, View(c, e))
      BY <1>1, <1>4, <2>1 DEF PairsInv, PairOK
    <3>2. View(c, e).mine = live[c] /\ View(c, e).dial = line[c][e].dial
      BY <1>1 DEF View
    <3>3. QED
      BY <1>1, <1>2, <3>1, <3>2 DEF CallerOK
  <2>2. QED
    BY <2>1
<1>9. QED
  BY <1>1, <1>3, <1>4, <1>7, <1>8, SameStreams, OwnEvent

\* Our own call is hung up for the one that just arrived.
LEMMA DropMineKeeps ==
    ASSUME TypeOK, TypeOK', OwnsInv, PairsInv, NEW c \in Callers, NEW d \in Dev, DropMine(c, d)
    PROVE  OwnsInv' /\ PairsInv'
<1>1. d \in Dev \ {c} /\ line[c][d] \in Line /\ c \in Dev /\ PairOK(c, d, View(c, d))
      /\ line[c][d].serve = "hang"
  BY StreamToOther DEF DropMine
<1>2. PICK ln : ln = [line EXCEPT ![c][d].serve = "bridge"]
  OBVIOUS
<1>3. /\ ln[c][d] = [line[c][d] EXCEPT !.serve = "bridge"]
      /\ \A c2 \in Callers, d2 \in Dev : c2 # c \/ d2 # d => ln[c2][d2] = line[c2][d2]
      /\ ln \in [Callers -> [Dev -> Line]]
  BY <1>1, <1>2 DEF TypeOK, Line
<1>4. Apply(d, d, ln, HangUp(d, live[d])) /\ UNCHANGED <<tapped, placed, chosen>>
  BY <1>2 DEF DropMine
<1>5. CASE In(d, d)
  <2>1. live[d] \in Live /\ live[d].id = d /\ d \in Callers
    BY <1>5, OwnCall
  <2>2. PICK r : r = HangUp(d, live[d])
    OBVIOUS
  <2>3. EndsOrGoesOn(live[d], d, r)
    BY <2>1, <2>2, HangUpEnds
  <2>4. Carry(d, d, ln, r)
    BY <1>4, <1>5, <2>2 DEF Apply
  <2>5. OthersKept(d, ln) /\ \A e \in Dev : ln[d][e] = line[d][e]
    BY <1>1, <1>3, <2>1 DEF OthersKept
  <2>6. QED
    BY <1>3, <1>4, <1>5, <2>3, <2>4, <2>5, OwnEvent
<1>6. CASE ~ In(d, d)
  <2>1. line' = [ln EXCEPT ![d] = [e \in Dev |-> Tidy(ln[d][e])]] /\ UNCHANGED <<live, outcome>>
    BY <1>4, <1>6 DEF Apply
  <2>2. line'[c][d] = ln[c][d]
    BY <1>1, <1>3, <2>1
  <2>3. ASSUME NEW c2 \in Callers, NEW d2 \in Dev, c2 # c \/ d2 # d
        PROVE  SameStream(c2, d2)
    <3>1. line'[c2][d2] \in {line[c2][d2], Tidy(line[c2][d2])}
      BY <1>3, <2>1, <2>3
    <3>2. line[c2][d2] \in Line
      BY DEF TypeOK
    <3>3. QED
      BY <3>1, <3>2, TidyCarries DEF SameStream, Keeps
  <2> DEFINE v == View(c, d)
             w == View(c, d)'
  <2>4. /\ v.dial = line[c][d].dial /\ v.serve = line[c][d].serve
        /\ v.to = Words(line[c][d].to) /\ v.fro = Words(line[c][d].fro)
        /\ w.dial = line'[c][d].dial /\ w.serve = line'[c][d].serve
        /\ w.to = Words(line'[c][d].to) /\ w.fro = Words(line'[c][d].fro)
        /\ w.mine = v.mine /\ w.theirs = v.theirs /\ w.tap = v.tap
        /\ w.placed = v.placed /\ w.took = v.took
        /\ v.end = outcome[d][c] /\ w.end = outcome'[d][c]
    BY <1>1, <1>4, <2>1, StreamView
  <2> HIDE DEF v, w
  <2>5. /\ line'[c][d].dial = line[c][d].dial /\ line'[c][d].serve = "bridge"
        /\ line'[c][d].to = line[c][d].to /\ line'[c][d].fro = line[c][d].fro
    BY <1>1, <1>3, <2>2 DEF Line
  <2>6. PairOK(c, d, v)
    BY <1>1 DEF v
  <2>7. PairOK(c, d, w)
    BY <1>1, <2>1, <2>4, <2>5, <2>6, ServeMoves
  <2>8. QED
    BY <1>1, <1>4, <2>1, <2>3, <2>7, StreamStep DEF w
<1>7. QED
  BY <1>5, <1>6

(***************************************************************************)
(* An offer on the device that is called.                                  *)
(***************************************************************************)
\* Its task moves on, or refuses the call.
LEMMA OfferStep ==
    ASSUME TypeOK, TypeOK', OwnsInv, PairsInv, NEW c \in Callers, NEW d \in Dev, NEW x,
           line' = [line EXCEPT ![c][d] = x], UNCHANGED <<placed, chosen, live, tapped>>,
           \A c2 \in Callers, d2 \in Dev :
              outcome'[d2][c2] = outcome[d2][c2] \/ (c2 = c /\ d2 = d /\ outcome'[d][c] # "elsewhere"),
           line[c][d].serve \in {"asked", "drop", "hang", "bridge"}, x.dial = line[c][d].dial,
           \/ /\ x.serve \in {"asked", "drop", "hang", "bridge"}
              /\ x.to = line[c][d].to /\ x.fro = line[c][d].fro
           \/ x.serve = "over" /\ Words(x.to) = {} /\ "answer" \notin Words(x.fro)
    PROVE  OwnsInv' /\ PairsInv'
<1>1. d \in Dev \ {c} /\ line[c][d] \in Line /\ c \in Dev /\ PairOK(c, d, View(c, d))
  BY StreamToOther
<1>2. /\ line'[c][d] = x
      /\ \A c2 \in Callers, d2 \in Dev : c2 # c \/ d2 # d => SameStream(c2, d2)
  BY OneStream
<1> DEFINE v == View(c, d)
           w == View(c, d)'
<1>3. /\ v.dial = line[c][d].dial /\ v.serve = line[c][d].serve
      /\ v.to = Words(line[c][d].to) /\ v.fro = Words(line[c][d].fro)
      /\ w.dial = line'[c][d].dial /\ w.serve = line'[c][d].serve
      /\ w.to = Words(line'[c][d].to) /\ w.fro = Words(line'[c][d].fro)
      /\ w.mine = v.mine /\ w.theirs = v.theirs /\ w.tap = v.tap
      /\ w.placed = v.placed /\ w.took = v.took
      /\ v.end = outcome[d][c] /\ w.end = outcome'[d][c]
  BY <1>1, StreamView
<1> HIDE DEF v, w
<1>4. w.end = v.end \/ w.end # "elsewhere"
  BY <1>3
<1>5. PairOK(c, d, v)
  BY <1>1 DEF v
<1>6. PairOK(c, d, w)
  BY <1>1, <1>2, <1>3, <1>4, <1>5, ServeMoves
<1>7. \A c2 \in Callers, d2 \in Dev : c2 # c \/ d2 # d =>
         outcome'[d2][c2] = outcome[d2][c2] /\ SameStream(c2, d2)
  BY <1>2
<1>8. QED
  BY <1>1, <1>6, <1>7, StreamStep DEF w

\* A stream that the called device ends with these words.
LEMMA RefusalIs ==
    ASSUME TypeOK, OwnsInv, PairsInv, NEW c \in Callers, NEW d \in Dev, NEW s \in Seq(Frame),
           line[c][d].serve \in {"asked", "drop", "hang", "bridge"}, "answer" \notin Words(s)
    PROVE  LET x == Tidy([line[c][d] EXCEPT !.serve = "over", !.fro = @ \o s])
           IN  /\ x.dial = line[c][d].dial /\ x.serve = "over"
               /\ Words(x.to) = {} /\ "answer" \notin Words(x.fro)
<1>1. line[c][d] \in Line /\ PairOK(c, d, View(c, d))
  BY StreamToOther
<1>2. Words(line[c][d].fro) = {}
  BY <1>1 DEF PairOK, StreamOK, View
<1>3. line[c][d].fro \in Seq(Frame) /\ line[c][d].fro \o s \in Seq(Frame)
  <2>1. line[c][d].fro \in Seq(Frame)
    BY <1>1 DEF Line
  <2>2. QED
    BY <2>1
<1>4. "answer" \notin Words(line[c][d].fro \o s)
  BY <1>2, <1>3, JoinedWords
<1> DEFINE y == [line[c][d] EXCEPT !.serve = "over", !.fro = @ \o s]
           x == Tidy(y)
<1>5. y \in Line /\ y.dial = line[c][d].dial /\ y.serve = "over"
      /\ y.fro = line[c][d].fro \o s
  BY <1>1, <1>3 DEF Line
<1> HIDE DEF y
<1>6. /\ x.dial = y.dial /\ x.serve = y.serve /\ Keeps(x.fro, y.fro, y.dial)
      /\ y.serve = "over" => Words(x.to) = {}
  BY <1>5, TidyCarries
<1> HIDE DEF x
<1>7. /\ x.dial = line[c][d].dial /\ x.serve = "over"
      /\ Words(x.to) = {} /\ "answer" \notin Words(x.fro)
  BY <1>4, <1>5, <1>6 DEF Keeps
<1>8. QED
  BY <1>7 DEF x, y

LEMMA RefuseKeeps ==
    ASSUME TypeOK, TypeOK', OwnsInv, PairsInv, NEW c \in Callers, NEW d \in Dev,
           NEW word \in {"unavailable", "glare", "busy"}, Refuse(c, d, word),
           line[c][d].serve \in {"asked", "drop", "hang", "bridge"},
           UNCHANGED <<placed, chosen, live, tapped>>,
           \A c2 \in Callers, d2 \in Dev :
              outcome'[d2][c2] = outcome[d2][c2] \/ (c2 = c /\ d2 = d /\ outcome'[d][c] # "elsewhere")
    PROVE  OwnsInv' /\ PairsInv'
<1>1. <<word, "fin">> \in Seq(Frame) /\ "answer" \notin Words(<<word, "fin">>)
  BY FewWords DEF Frame
<1> DEFINE x == Tidy([line[c][d] EXCEPT !.serve = "over", !.fro = @ \o <<word, "fin">>])
<1>2. /\ x.dial = line[c][d].dial /\ x.serve = "over"
      /\ Words(x.to) = {} /\ "answer" \notin Words(x.fro)
  BY <1>1, RefusalIs
<1>3. line' = [line EXCEPT ![c][d] = x]
  BY DEF Refuse
<1> HIDE DEF x
<1>4. QED
  BY <1>2, <1>3, OfferStep

LEMMA OfferRefusedKeeps ==
    ASSUME TypeOK, TypeOK', OwnsInv, PairsInv, NEW c \in Callers, NEW d \in Dev,
           OfferRefused(c, d)
    PROVE  OwnsInv' /\ PairsInv'
<1>1. /\ Refuse(c, d, "unavailable") /\ UNCHANGED <<placed, chosen, live, tapped>>
      /\ line[c][d].serve \in {"asked", "drop", "hang", "bridge"}
      /\ outcome' = outcome
  BY DEF OfferRefused
<1>2. QED
  BY <1>1, RefuseKeeps

LEMMA OfferSeenKeeps ==
    ASSUME TypeOK, TypeOK', OwnsInv, PairsInv, NEW c \in Callers, NEW d \in Dev, OfferSeen(c, d)
    PROVE  OwnsInv' /\ PairsInv'
<1>1. line[c][d].serve = "asked" /\ UNCHANGED <<placed, chosen, live, tapped>>
      /\ line[c][d] \in Line /\ line \in [Callers -> [Dev -> Line]]
  BY DEF OfferSeen, TypeOK
<1>2. ASSUME NEW s \in {"bridge", "drop"}, line' = [line EXCEPT ![c][d].serve = s],
             outcome' = outcome
      PROVE  OwnsInv' /\ PairsInv'
  <2> DEFINE x == [line[c][d] EXCEPT !.serve = s]
  <2>1. /\ x.serve \in {"asked", "drop", "hang", "bridge"} /\ x.dial = line[c][d].dial
        /\ x.to = line[c][d].to /\ x.fro = line[c][d].fro
    BY <1>1 DEF Line
  <2>2. line' = [line EXCEPT ![c][d] = x]
    BY <1>1, <1>2
  <2> HIDE DEF x
  <2>3. \A c2 \in Callers, d2 \in Dev :
           outcome'[d2][c2] = outcome[d2][c2] \/ (c2 = c /\ d2 = d /\ outcome'[d][c] # "elsewhere")
    BY <1>2
  <2>4. line[c][d].serve \in {"asked", "drop", "hang", "bridge"}
    BY <1>1
  <2>5. UNCHANGED <<placed, chosen, live, tapped>>
    BY <1>1
  <2>6. QED
    BY <2>1, <2>2, <2>3, <2>4, <2>5, OfferStep
<1>3. ASSUME Refuse(c, d, "glare"), outcome' = outcome
      PROVE  OwnsInv' /\ PairsInv'
  BY <1>1, <1>3, RefuseKeeps
<1>4. ASSUME Refuse(c, d, "busy"), outcome' = [outcome EXCEPT ![d][c] = "missed"]
      PROVE  OwnsInv' /\ PairsInv'
  <2>1. \A c2 \in Callers, d2 \in Dev :
              outcome'[d2][c2] = outcome[d2][c2] \/ (c2 = c /\ d2 = d /\ outcome'[d][c] # "elsewhere")
    BY <1>4 DEF TypeOK
  <2>2. QED
    BY <1>1, <1>4, <2>1, RefuseKeeps
<1>5. QED
  BY <1>2, <1>3, <1>4 DEF OfferSeen

LEMMA BridgeFailsKeeps ==
    ASSUME TypeOK, TypeOK', OwnsInv, PairsInv, NEW c \in Callers, NEW d \in Dev,
           BridgeFails(c, d)
    PROVE  OwnsInv' /\ PairsInv'
<1>1. line[c][d].serve = "bridge" /\ UNCHANGED <<placed, chosen, live, tapped, outcome>>
  BY DEF BridgeFails
<1>2. <<"fin">> \in Seq(Frame) /\ "answer" \notin Words(<<"fin">>)
  BY FewWords DEF Frame
<1> DEFINE x == Tidy([line[c][d] EXCEPT !.serve = "over", !.fro = @ \o <<"fin">>])
<1>3. /\ x.dial = line[c][d].dial /\ x.serve = "over"
      /\ Words(x.to) = {} /\ "answer" \notin Words(x.fro)
  BY <1>1, <1>2, RefusalIs
<1>4. line' = [line EXCEPT ![c][d] = x]
  BY DEF BridgeFails
<1> HIDE DEF x
<1>5. QED
  BY <1>1, <1>3, <1>4, OfferStep

\* Our own call is marked to leave no line of history.
LEMMA MarkSilentKeeps ==
    ASSUME TypeOK, TypeOK', OwnsInv, PairsInv, NEW c \in Callers, NEW d \in Dev, MarkSilent(c, d)
    PROVE  OwnsInv' /\ PairsInv'
<1>1. d \in Dev \ {c} /\ line[c][d] \in Line /\ c \in Dev /\ line[c][d].serve = "drop"
      /\ line \in [Callers -> [Dev -> Line]]
  BY StreamToOther DEF MarkSilent, TypeOK
<1>2. UNCHANGED <<placed, chosen, outcome, tapped>>
      /\ line' = [line EXCEPT ![c][d].serve = "hang"]
  BY DEF MarkSilent
<1> DEFINE x == [line[c][d] EXCEPT !.serve = "hang"]
<1>3. /\ x.serve = "hang" /\ x.dial = line[c][d].dial
      /\ x.to = line[c][d].to /\ x.fro = line[c][d].fro
  BY <1>1 DEF Line
<1>4. line' = [line EXCEPT ![c][d] = x]
  BY <1>1, <1>2
<1> HIDE DEF x
<1>5. CASE In(d, d)
  <2>1. d \in Callers /\ live[d] \in Live /\ live[d].id = d /\ RingsOpen(live[d])
    BY <1>5, OwnCall
  <2>2. PICK k : k = [live[d] EXCEPT !.silent = TRUE]
    OBVIOUS
  <2>3. /\ k \in Live /\ k.id = d /\ k.phase = live[d].phase /\ k.active = live[d].active
        /\ k.leg = live[d].leg /\ k.io = live[d].io /\ k.glareWait = live[d].glareWait
    BY <2>1, <2>2 DEF Live
  <2>4. live' = [live EXCEPT ![d] = k]
    BY <1>5, <2>2 DEF MarkSilent, TypeOK
  <2>5. Open(k) = Open(live[d]) /\ (k.phase = "ringing" => k.io \subseteq Open(k))
    BY <2>1, <2>3 DEF Open, RingsOpen
  <2>6. \A c2 \in Callers : line'[c2][c2] = line[c2][c2]
    BY <1>1, <1>4
  <2>7. ASSUME NEW c2 \in Callers, NEW d2 \in Dev \ {c2}
        PROVE  /\ line'[c2][d2].to = line[c2][d2].to /\ line'[c2][d2].fro = line[c2][d2].fro
               /\ line'[c2][d2].serve = line[c2][d2].serve
                  \/ (line[c2][d2].serve = "drop" /\ line'[c2][d2].serve = "hang")
               /\ line'[c2][d2].dial = line[c2][d2].dial
    <3>1. CASE c2 = c /\ d2 = d
      <4>1. line'[c2][d2] = x
        BY <1>1, <1>4, <3>1
      <4>2. QED
        BY <1>1, <1>3, <3>1, <4>1
    <3>2. CASE ~ (c2 = c /\ d2 = d)
      BY <1>1, <1>4, <3>2
    <3>3. QED
      BY <3>1, <3>2
  <2>8. OwnStreams(d, k)
    BY <2>6, <2>7 DEF OwnStreams
  <2>9. GoesOnWhole(live[d], k)
    BY <2>1, <2>3, <2>5 DEF GoesOnWhole
  <2>10. QED
    BY <1>2, <1>5, <2>1, <2>3, <2>4, <2>8, <2>9, OwnStep
<1>6. CASE ~ In(d, d)
  <2>1. UNCHANGED <<placed, chosen, live, tapped, outcome>>
    BY <1>2, <1>6 DEF MarkSilent
  <2>2. QED
    BY <1>1, <1>3, <1>4, <2>1, OfferStep
<1>7. QED
  BY <1>5, <1>6

\* The device rings.
LEMMA RingHereKeeps ==
    ASSUME TypeOK, TypeOK', OwnsInv, PairsInv, NEW c \in Callers, NEW d \in Dev, RingHere(c, d)
    PROVE  OwnsInv' /\ PairsInv'
<1>1. /\ d \in Dev \ {c} /\ line[c][d] \in Line /\ c \in Dev /\ line[c][d].serve = "bridge"
      /\ PairOK(c, d, View(c, d))
  BY StreamToOther DEF RingHere
<1>2. UNCHANGED <<placed, chosen, outcome, tapped>>
  BY DEF RingHere
<1>3. CASE live[d] # NoCall
  <2>1. Refuse(c, d, "busy") /\ UNCHANGED live
    BY <1>3 DEF RingHere
  <2>2. QED
    BY <1>1, <1>2, <2>1, RefuseKeeps
<1>4. CASE live[d] = NoCall
  <2>1. PICK k : k = Incoming(c)
    OBVIOUS
  <2>2. k \in Live /\ k.id = c /\ k.io = {c} /\ k.active = None /\ k.phase = "ringing"
    BY <1>1, <2>1 DEF Incoming, Live, LegState
  <2>3. live' = [live EXCEPT ![d] = k]
    BY <1>4, <2>1 DEF RingHere
  <2>4. /\ Mine(d, c)' = k
        /\ \A d2 \in Dev, c2 \in Callers : d2 # d \/ c2 # c => Mine(d2, c2)' = Mine(d2, c2)
    BY <1>4, <2>2, <2>3, MineAfter
  <2> DEFINE y == [line[c][d] EXCEPT !.serve = "on", !.fro = @ \o <<"ring">>]
             x == Tidy(y)
  <2>5. line[c][d].fro \in Seq(Frame) /\ <<"ring">> \in Seq(Frame)
        /\ line[c][d].fro \o <<"ring">> \in Seq(Frame) /\ Words(<<"ring">>) = {"ring"}
    <3>1. line[c][d].fro \in Seq(Frame) /\ <<"ring">> \in Seq(Frame)
      BY <1>1 DEF Line, Frame
    <3>2. QED
      BY <3>1, FewWords
  <2>6. y \in Line /\ y.dial = line[c][d].dial /\ y.serve = "on" /\ y.to = line[c][d].to
        /\ y.fro = line[c][d].fro \o <<"ring">>
    BY <1>1, <2>5 DEF Line
  <2>7. Words(line[c][d].fro) = {}
    BY <1>1 DEF PairOK, StreamOK, View
  <2>8. Words(y.fro) = {"ring"}
    <3>1. Words(line[c][d].fro \o <<"ring">>) = Words(line[c][d].fro) \cup Words(<<"ring">>)
      BY <2>5, JoinedWords
    <3>2. QED
      BY <2>5, <2>6, <2>7, <3>1
  <2>9. line' = [line EXCEPT ![c][d] = x]
    BY <1>4 DEF RingHere
  <2> HIDE DEF y
  <2>10. /\ x.dial = y.dial /\ x.serve = y.serve /\ Keeps(x.to, y.to, y.serve)
         /\ Keeps(x.fro, y.fro, y.dial)
    BY <2>6, TidyCarries
  <2> HIDE DEF x
  <2>11. /\ x.dial = line[c][d].dial /\ x.serve = "on" /\ Words(x.to) = Words(line[c][d].to)
         /\ "answer" \notin Words(x.fro) /\ "glare" \notin Words(x.fro)
    BY <2>6, <2>8, <2>10 DEF Keeps
  <2>12. /\ line'[c][d] = x
         /\ \A c2 \in Callers, d2 \in Dev : c2 # c \/ d2 # d => SameStream(c2, d2)
    BY <2>9, OneStream
  <2> DEFINE v == View(c, d)
             w == View(c, d)'
  <2>13. Mine(c, c)' = Mine(c, c)
    BY <1>1, <2>4
  <2>14. /\ v.dial = line[c][d].dial /\ v.serve = line[c][d].serve
         /\ v.to = Words(line[c][d].to)
         /\ w.dial = x.dial /\ w.serve = x.serve /\ w.to = Words(x.to) /\ w.fro = Words(x.fro)
         /\ w.mine = v.mine /\ w.theirs = k /\ w.tap = v.tap
         /\ w.placed = v.placed /\ w.took = v.took /\ w.end = v.end
    BY <1>2, <2>4, <2>12, <2>13 DEF View
  <2> HIDE DEF v, w
  <2>15. PairOK(c, d, v)
    BY <1>1 DEF v
  <2>16. PairOK(c, d, w)
    BY <1>1, <2>2, <2>11, <2>14, <2>15, RingsUp
  <2>17. \A c2 \in Callers, d2 \in Dev : c2 # c \/ d2 # d =>
              /\ Mine(d2, c2)' = Mine(d2, c2) /\ outcome'[d2][c2] = outcome[d2][c2]
              /\ tapped'[d2] = tapped[d2] \/ (tapped'[d2] # c2 /\ tapped[d2] # c2)
              /\ SameStream(c2, d2)
    BY <1>2, <2>4, <2>12
  <2>18. QED
    BY <1>1, <1>2, <2>16, <2>17, DeviceStep DEF w
<1>5. QED
  BY <1>3, <1>4

(***************************************************************************)
(* The call on the device that is called.                                  *)
(***************************************************************************)
\* What an event makes of it: the call ends and the caller is told, or stays.
CalleeResult(c, l, r) ==
    /\ r \in Result /\ r.call \in {l, NoCall}
    /\ r.call = NoCall => "fin" \in Words(r.say[c])
    /\ "answer" \notin Words(r.say[c]) /\ "glare" \notin Words(r.say[c])

LEMMA CalleeEnds ==
    ASSUME NEW c \in Callers, NEW l \in Live, l.io = {c}, NEW end \in End, NEW words \in Say,
           "answer" \notin Words(words[c]), "glare" \notin Words(words[c]),
           NEW r, r = Finish(l, end, words)
    PROVE  CalleeResult(c, l, r) /\ r.end = end /\ r.call = NoCall
<1>1. c \in Dev /\ words[c] \in Seq(Frame) /\ <<"fin">> \in Seq(Frame)
  BY CallsAssumption DEF Say, Frame
<1>2. Words(words[c] \o <<"fin">>) = Words(words[c]) \cup {"fin"}
  <2>1. Words(<<"fin">>) = {"fin"}
    BY FewWords
  <2>2. Words(words[c] \o <<"fin">>) = Words(words[c]) \cup Words(<<"fin">>)
    BY <1>1, JoinedWords
  <2>3. QED
    BY <2>1, <2>2
<1>3. r \in Result
  BY FinishType
<1>4. r.say[c] = words[c] \o <<"fin">> /\ r.call = NoCall /\ r.end = end
  BY <1>1 DEF Finish
<1>5. QED
  BY <1>2, <1>3, <1>4 DEF CalleeResult

LEMMA CalleeStays ==
    ASSUME NEW c \in Callers, NEW l \in Live, NEW r, r = Stays(l)
    PROVE  CalleeResult(c, l, r) /\ r.end = None
<1>1. Silence \in Say /\ Words(Silence[c]) = {}
  BY WordsThatEnd, SaidWords, CallsAssumption
<1>2. r.call = l /\ r.say = Silence /\ r.end = None
  BY DEF Stays
<1>3. r \in Result
  BY <1>1 DEF Stays, Result
<1>4. l # NoCall
  BY LiveIsCall
<1>5. QED
  BY <1>1, <1>2, <1>3, <1>4 DEF CalleeResult

\* A frame from the caller.
LEMMA CalleeHears ==
    ASSUME NEW c \in Callers, NEW d \in Dev \ {c}, NEW l \in Live, l.id = c, l.io = {c},
           NEW f \in Frame, NEW r, r = OnFrame(d, l, c, f)
    PROVE  CalleeResult(c, l, r) /\ (r.end = "elsewhere" => f = "taken")
<1>1. l.id # d /\ Silence \in Say /\ c \in Dev
      /\ "answer" \notin Words(Silence[c]) /\ "glare" \notin Words(Silence[c])
  BY WordsThatEnd, SaidWords, CallsAssumption
<1>2. None # "elsewhere"
  BY NoneAssumption DEF End
<1>3. ASSUME NEW end \in End, r = Finish(l, end, Silence)
      PROVE  CalleeResult(c, l, r) /\ r.end = end
  BY <1>1, <1>3, CalleeEnds
<1>4. ASSUME r = Stays(l) PROVE CalleeResult(c, l, r) /\ r.end # "elsewhere"
  BY <1>2, <1>4, CalleeStays
<1>5. CASE f = "hangup"
  <2>1. r = HungUp(d, l, c)
    BY <1>5 DEF OnFrame
  <2>2. r = Finish(l, "remotehangup", Silence) \/ r = Stays(l)
    BY <1>1, <2>1 DEF HungUp
  <2>3. QED
    BY <1>3, <1>4, <2>2 DEF End
<1>6. CASE f = "glare"
  <2>1. r = Stays(l)
    BY <1>1, <1>6 DEF OnFrame, Glare
  <2>2. QED
    BY <1>4, <2>1
<1>7. CASE f = "cancel"
  <2>1. r = Finish(l, IF l.phase = "ringing" THEN "missed" ELSE "failed", Silence)
    BY <1>1, <1>7 DEF OnFrame
  <2>2. r = Finish(l, "missed", Silence) \/ r = Finish(l, "failed", Silence)
    BY <2>1
  <2>3. QED
    BY <1>3, <2>2 DEF End
<1>8. CASE f = "taken"
  <2>1. r = Finish(l, "elsewhere", Silence)
    BY <1>1, <1>8 DEF OnFrame
  <2>2. QED
    BY <1>3, <1>8, <2>1 DEF End
<1>9. CASE f \notin {"hangup", "glare", "cancel", "taken"}
  <2>1. r = Stays(l)
    BY <1>1, <1>9 DEF OnFrame
  <2>2. QED
    BY <1>4, <2>1
<1>10. QED
  BY <1>5, <1>6, <1>7, <1>8, <1>9

LEMMA CalleeLoses ==
    ASSUME NEW c \in Callers, NEW d \in Dev \ {c}, NEW l \in Live, l.id = c, l.io = {c},
           NEW r, r = LostAt(d, l, c)
    PROVE  CalleeResult(c, l, r) /\ r.end # "elsewhere" /\ r.call = NoCall
<1>1. l.id # d /\ Silence \in Say
      /\ "answer" \notin Words(Silence[c]) /\ "glare" \notin Words(Silence[c])
  BY WordsThatEnd, SaidWords, CallsAssumption
<1>2. r = Finish(l, "missed", Silence) \/ r = Finish(l, "failed", Silence)
  BY <1>1 DEF LostAt
<1>3. "missed" \in End /\ "failed" \in End
  BY DEF End
<1>4. QED
  BY <1>1, <1>2, <1>3, CalleeEnds

LEMMA CalleeLeaves ==
    ASSUME NEW c \in Callers, NEW d \in Dev \ {c}, NEW l \in Live, l.id = c, l.io = {c},
           NEW r, r = HangUp(d, l) \/ (r = TimedOut(d, l) /\ l.phase # "active")
    PROVE  CalleeResult(c, l, r) /\ r.end # "elsewhere" /\ r.call = NoCall
<1>1. l.id # d /\ c \in Dev /\ l.phase \in {"ringing", "connecting", "active"}
  BY CallsAssumption DEF Live
<1>2. PICK S, w, end : /\ r = Finish(l, end, Tell(S, w)) /\ end \in {"hangup", "declined", "failed", "missed"}
                       /\ w \in {"hangup", "decline", "missed"}
  BY <1>1 DEF HangUp, TimedOut
<1>3. Tell(S, w) \in Say
  BY <1>2, WordsThatEnd
<1>4. "answer" \notin Words(Tell(S, w)[c]) /\ "glare" \notin Words(Tell(S, w)[c])
  <2>1. Words(Tell(S, w)[c]) = IF c \in S THEN {w} ELSE {}
    BY <1>1, SaidWords
  <2>2. QED
    BY <1>2, <2>1
<1>5. end \in End /\ end # "elsewhere"
  BY <1>2 DEF End
<1>6. QED
  BY <1>2, <1>3, <1>4, <1>5, CalleeEnds

\* What the called device says is said on its own stream only.
LEMMA SaidAlone ==
    ASSUME TypeOK, NEW c \in Callers, NEW d \in Dev \ {c},
           NEW ln \in [Callers -> [Dev -> Line]], NEW say \in Say, line' = Said(ln, d, c, say),
           \A c2 \in Callers, d2 \in Dev : c2 # c \/ d2 # d => ln[c2][d2] = line[c2][d2]
    PROVE  \A c2 \in Callers, d2 \in Dev : c2 # c \/ d2 # d => SameStream(c2, d2)
<1>1. ASSUME NEW c2 \in Callers, NEW d2 \in Dev, c2 # c \/ d2 # d
      PROVE  SameStream(c2, d2)
  <2>1. CASE c2 # c
    <3>1. line'[c2] = ln[c2]
      BY <2>1, SaidElsewhere
    <3>2. line'[c2][d2] = line[c2][d2]
      BY <1>1, <3>1
    <3>3. QED
      BY <3>2 DEF SameStream, Keeps
  <2>2. CASE c2 = c
    <3> DEFINE y == Said(ln, d, c, say)[c][d2]
               x == ln[c][d2]
    <3>1. d2 # d
      BY <1>1, <2>2
    <3>2. /\ y.dial = x.dial /\ y.serve = x.serve
          /\ Keeps(y.to, x.to, x.serve) /\ Keeps(y.fro, x.fro, x.dial)
      BY <3>1, SaidCarries
    <3>3. line'[c2][d2] = y /\ line[c2][d2] = x
      BY <1>1, <2>2, <3>1
    <3> HIDE DEF y, x
    <3>4. QED
      BY <3>2, <3>3 DEF SameStream
  <2>3. QED
    BY <2>1, <2>2
<1>2. QED
  BY <1>1

\* An event on the called device.
LEMMA CalleeEvent ==
    ASSUME TypeOK, TypeOK', OwnsInv, PairsInv, NEW c \in Callers, NEW d \in Dev \ {c},
           NEW ln \in [Callers -> [Dev -> Line]], NEW r, In(d, c), Carry(d, c, ln, r),
           UNCHANGED <<tapped, placed, chosen>>, CalleeResult(c, live[d], r),
           r.end = "elsewhere" => "taken" \in Words(line[c][d].to),
           ln[c][d].dial = line[c][d].dial, ln[c][d].fro = line[c][d].fro,
           ln[c][d].serve = "on" \/ (ln[c][d].serve = "over" /\ r.call = NoCall),
           Words(ln[c][d].to) \subseteq Words(line[c][d].to),
           "fin" \in Words(line[c][d].to) => "fin" \in Words(ln[c][d].to),
           \A c2 \in Callers, d2 \in Dev : c2 # c \/ d2 # d => ln[c2][d2] = line[c2][d2]
    PROVE  OwnsInv' /\ PairsInv'
<1>1. /\ live[d] \in Live /\ live[d].id = c /\ live[d] # NoCall /\ Mine(d, c) = live[d]
      /\ PairOK(c, d, View(c, d)) /\ c \in Dev /\ d \in Dev
  BY MineIs, LiveIsCall, CallsAssumption DEF PairsInv
<1>2. r \in Result /\ (r.call = NoCall \/ r.call.id = c) /\ r.call \in Live \cup {NoCall}
  BY <1>1 DEF CalleeResult
<1>3. live' = [live EXCEPT ![d] = r.call]
  BY DEF Carry
<1>4. \A d2 \in Dev, c2 \in Callers : d2 # d \/ c2 # c => Mine(d2, c2)' = Mine(d2, c2)
  BY <1>1, <1>2, <1>3, MineAfter
<1>5. \A c2 \in Callers, d2 \in Dev : c2 # c \/ d2 # d =>
              SameStream(c2, d2) /\ outcome'[d2][c2] = outcome[d2][c2]
  <2>1. r.say \in Say /\ line' = Said(ln, d, c, r.say)
    BY <1>2 DEF Result, Carry
  <2>2. PICK say \in Say : line' = Said(ln, d, c, say)
    BY <2>1
  <2>3. \A c2 \in Callers, d2 \in Dev : c2 # c \/ d2 # d => SameStream(c2, d2)
    BY <2>2, SaidAlone
  <2>4. \A c2 \in Callers, d2 \in Dev : c2 # c \/ d2 # d => outcome'[d2][c2] = outcome[d2][c2]
    BY DEF Carry, TypeOK
  <2>5. QED
    BY <2>3, <2>4
<1> DEFINE v == View(c, d)
           w == View(c, d)'
           x == ln[c][d]
           W == Words(r.say[c])
<1>6. /\ w.dial = x.dial /\ w.serve = x.serve
      /\ w.mine = v.mine /\ w.theirs = r.call /\ w.tap = v.tap
      /\ w.placed = v.placed /\ w.took = v.took
      /\ w.end = (IF r.end = None THEN v.end ELSE r.end)
      /\ w.to = Words(x.to) \/ (x.serve = "over" /\ w.to = {})
      /\ w.fro = Words(x.fro) \cup W \/ (x.dial = "over" /\ w.fro = {})
  BY <1>2, CalleeSays
<1>7. /\ v.dial = line[c][d].dial /\ v.serve = line[c][d].serve
      /\ v.to = Words(line[c][d].to) /\ v.fro = Words(line[c][d].fro)
      /\ v.theirs = live[d]
  BY <1>1 DEF View
<1>8. x.dial = v.dial /\ Words(x.fro) = v.fro /\ Words(x.to) \subseteq v.to
      /\ ("fin" \in v.to => "fin" \in Words(x.to))
  BY <1>7
<1> HIDE DEF v, w, x, W
<1>9. PairOK(c, d, v) /\ v.theirs # NoCall
  BY <1>1, <1>7 DEF v
<1>10. v.serve = "on"
  BY <1>9 DEF PairOK, CalleeOK
<1>11. /\ x.serve = "on" \/ (x.serve = "over" /\ r.call = NoCall)
       /\ r.call \in {live[d], NoCall} /\ (r.call = NoCall => "fin" \in W)
       /\ "answer" \notin W /\ "glare" \notin W
       /\ r.end = "elsewhere" => "taken" \in Words(line[c][d].to)
  BY DEF x, W, CalleeResult
<1>12. /\ w.serve \in {"on", "over"} /\ w.dial = v.dial
       /\ w.theirs = NoCall \/ (w.theirs = v.theirs /\ w.serve = "on")
       /\ v.theirs # NoCall /\ w.theirs = NoCall => "fin" \in W
  BY <1>1, <1>6, <1>7, <1>8, <1>11
<1>13. /\ w.fro = v.fro \cup W \/ (v.dial = "over" /\ w.fro = {})
       /\ w.to \subseteq v.to /\ (w.serve = "on" /\ "fin" \in v.to => "fin" \in w.to)
       /\ w.end \in {v.end} \/ w.end # "elsewhere" \/ "taken" \in v.to
  BY <1>6, <1>7, <1>8, <1>11
<1>14. PairOK(c, d, w)
  BY <1>1, <1>6, <1>9, <1>10, <1>11, <1>12, <1>13, CalleeMoves
<1>15. UNCHANGED <<placed, chosen>>
       /\ \A c2 \in Callers, d2 \in Dev : c2 # c \/ d2 # d =>
              /\ Mine(d2, c2)' = Mine(d2, c2) /\ outcome'[d2][c2] = outcome[d2][c2]
              /\ tapped'[d2] = tapped[d2] \/ (tapped'[d2] # c2 /\ tapped[d2] # c2)
              /\ SameStream(c2, d2)
  BY <1>4, <1>5
<1>16. QED
  BY <1>14, <1>15, DeviceStep DEF w

\* An event for a device that is not in the call any more.
LEMMA CalleeStale ==
    ASSUME TypeOK, TypeOK', OwnsInv, PairsInv, NEW c \in Callers, NEW d \in Dev \ {c},
           NEW ln \in [Callers -> [Dev -> Line]], NEW r, ~ In(d, c), Apply(d, c, ln, r),
           UNCHANGED <<tapped, placed, chosen>>, line[c][d].serve = "on",
           ln[c][d].dial = line[c][d].dial, ln[c][d].fro = line[c][d].fro,
           ln[c][d].serve \in {"on", "over"},
           Words(ln[c][d].to) \subseteq Words(line[c][d].to),
           "fin" \in Words(line[c][d].to) => "fin" \in Words(ln[c][d].to),
           \A c2 \in Callers, d2 \in Dev : c2 # c \/ d2 # d => ln[c2][d2] = line[c2][d2]
    PROVE  OwnsInv' /\ PairsInv'
<1>1. PairOK(c, d, View(c, d)) /\ c \in Dev /\ d \in Dev /\ Mine(d, c) = NoCall
  BY MineIs, CallsAssumption DEF PairsInv
<1>2. /\ \A c2 \in Callers, d2 \in Dev : c2 # c \/ d2 # d => SameStream(c2, d2)
      /\ line'[c][d] = Tidy(ln[c][d]) /\ UNCHANGED <<live, outcome>>
  BY <1>1, NotInCall
<1>3. PICK x \in Line : x = Tidy(ln[c][d])
  BY <1>1, TidyType
<1>4. /\ x.dial = line[c][d].dial /\ x.serve = ln[c][d].serve
      /\ Keeps(x.to, ln[c][d].to, ln[c][d].serve) /\ Keeps(x.fro, line[c][d].fro, line[c][d].dial)
  <2>1. ln[c][d] \in Line
    BY <1>1
  <2>2. QED
    BY <1>3, <2>1, TidyCarries
<1> DEFINE v == View(c, d)
           w == View(c, d)'
<1>5. /\ v.dial = line[c][d].dial /\ v.serve = line[c][d].serve
      /\ v.to = Words(line[c][d].to) /\ v.fro = Words(line[c][d].fro)
      /\ w.dial = x.dial /\ w.serve = x.serve /\ w.to = Words(x.to) /\ w.fro = Words(x.fro)
      /\ w.mine = v.mine /\ w.theirs = v.theirs /\ w.tap = v.tap
      /\ w.placed = v.placed /\ w.took = v.took /\ w.end = v.end
  <2>1. UNCHANGED <<placed, chosen, live, tapped>> /\ line'[c][d] = x /\ outcome' = outcome
    BY <1>2, <1>3
  <2>2. /\ v.dial = line[c][d].dial /\ v.serve = line[c][d].serve
        /\ v.to = Words(line[c][d].to) /\ v.fro = Words(line[c][d].fro)
        /\ w.dial = line'[c][d].dial /\ w.serve = line'[c][d].serve
        /\ w.to = Words(line'[c][d].to) /\ w.fro = Words(line'[c][d].fro)
        /\ w.mine = v.mine /\ w.theirs = v.theirs /\ w.tap = v.tap
        /\ w.placed = v.placed /\ w.took = v.took
        /\ v.end = outcome[d][c] /\ w.end = outcome'[d][c]
    BY <2>1, StreamView
  <2> HIDE DEF v, w
  <2>3. QED
    BY <2>1, <2>2
<1>6. v.theirs = NoCall /\ PairOK(c, d, v)
  BY <1>1 DEF View
<1> HIDE DEF v, w
<1>7. PICK W : W = {}
  OBVIOUS
<1>8. /\ w.serve \in {"on", "over"} /\ w.dial = v.dial /\ v.serve = "on" /\ w.theirs = NoCall
      /\ v.theirs # NoCall /\ w.theirs = NoCall => "fin" \in W
      /\ "answer" \notin W /\ "glare" \notin W
      /\ w.fro = v.fro \cup W \/ (v.dial = "over" /\ w.fro = {})
      /\ w.to \subseteq v.to /\ (w.serve = "on" /\ "fin" \in v.to => "fin" \in w.to)
      /\ w.end \in {v.end} \/ w.end # "elsewhere" \/ "taken" \in v.to
  BY <1>4, <1>5, <1>6, <1>7 DEF Keeps
<1>9. PairOK(c, d, w)
  BY <1>1, <1>5, <1>6, <1>8, CalleeMoves
<1>10. UNCHANGED <<placed, chosen, live, tapped>>
       /\ \A c2 \in Callers, d2 \in Dev : c2 # c \/ d2 # d =>
             outcome'[d2][c2] = outcome[d2][c2] /\ SameStream(c2, d2)
  BY <1>2
<1>11. QED
  BY <1>9, <1>10, StreamStep DEF w

\* What a called device has of its call.
LEMMA CalledOne ==
    ASSUME TypeOK, PairsInv, NEW c \in Callers, NEW d \in Dev \ {c}, In(d, c)
    PROVE  /\ live[d] \in Live /\ live[d].id = c /\ live[d].io = {c} /\ live[d] # NoCall
           /\ line[c][d].serve = "on" /\ Mine(d, c) = live[d]
<1>1. /\ live[d] \in Live /\ live[d].id = c /\ live[d] # NoCall /\ Mine(d, c) = live[d]
  BY MineIs, LiveIsCall
<1>2. CalleeOK(c, View(c, d)) /\ View(c, d).theirs = live[d] /\ View(c, d).serve = line[c][d].serve
  BY <1>1 DEF PairsInv, PairOK, View
<1>3. QED
  BY <1>1, <1>2 DEF CalleeOK

LEMMA CalleeReadsKeeps ==
    ASSUME TypeOK, TypeOK', OwnsInv, PairsInv, NEW c \in Callers, NEW d \in Dev,
           CalleeReads(c, d)
    PROVE  OwnsInv' /\ PairsInv'
<1>1. d \in Dev \ {c} /\ line[c][d] \in Line /\ c \in Dev /\ line[c][d].serve = "on"
      /\ UNCHANGED <<tapped, placed, chosen>>
  BY StreamToOther DEF CalleeReads
<1>2. /\ line[c][d].to \in Seq(Frame) /\ line[c][d].to # <<>> /\ Head(line[c][d].to) # "fin"
      /\ line \in [Callers -> [Dev -> Line]]
  BY <1>1 DEF CalleeReads, Line, TypeOK
<1>3. PICK f, q : f = Head(line[c][d].to) /\ q = Tail(line[c][d].to)
  OBVIOUS
<1>4. /\ f \in Frame /\ q \in Seq(Frame) /\ f \in Words(line[c][d].to)
      /\ Words(q) \subseteq Words(line[c][d].to) /\ Words(line[c][d].to) \subseteq Words(q) \cup {f}
      /\ f # "fin"
  BY <1>2, <1>3, HeadType, HeadWord
<1>5. PICK y : y = [line[c][d] EXCEPT !.to = q]
  OBVIOUS
<1>6. /\ y \in Line /\ y.dial = line[c][d].dial /\ y.serve = "on" /\ y.to = q
      /\ y.fro = line[c][d].fro
  BY <1>1, <1>4, <1>5 DEF Line
<1>7. PICK ln : ln = [line EXCEPT ![c][d] = y]
  OBVIOUS
<1>8. /\ ln \in [Callers -> [Dev -> Line]] /\ ln[c][d] = y
      /\ \A c2 \in Callers, d2 \in Dev : c2 # c \/ d2 # d => ln[c2][d2] = line[c2][d2]
  BY <1>1, <1>2, <1>6, <1>7
<1>9. PICK r : r = OnFrame(d, live[d], c, f)
  OBVIOUS
<1>10. Apply(d, c, ln, r)
  <2>1. ln = [line EXCEPT ![c][d].to = Tail(@)]
    BY <1>1, <1>2, <1>3, <1>5, <1>7
  <2>2. QED
    BY <1>3, <1>9, <2>1 DEF CalleeReads
<1>11. /\ Words(ln[c][d].to) \subseteq Words(line[c][d].to)
       /\ "fin" \in Words(line[c][d].to) => "fin" \in Words(ln[c][d].to)
       /\ ln[c][d].dial = line[c][d].dial /\ ln[c][d].fro = line[c][d].fro
       /\ ln[c][d].serve = "on"
  BY <1>4, <1>6, <1>8
<1>12. CASE In(d, c)
  <2>1. live[d] \in Live /\ live[d].id = c /\ live[d].io = {c}
    BY <1>1, <1>12, CalledOne
  <2>2. CalleeResult(c, live[d], r) /\ (r.end = "elsewhere" => f = "taken")
    BY <1>1, <1>4, <1>9, <2>1, CalleeHears
  <2>3. Carry(d, c, ln, r)
    BY <1>10, <1>12 DEF Apply
  <2>4. r.end = "elsewhere" => "taken" \in Words(line[c][d].to)
    BY <1>4, <2>2
  <2>5. QED
    BY <1>1, <1>8, <1>11, <1>12, <2>2, <2>3, <2>4, CalleeEvent
<1>13. CASE ~ In(d, c)
  <2>1. ln[c][d].serve \in {"on", "over"}
    BY <1>11
  <2>2. QED
    BY <1>1, <1>8, <1>10, <1>11, <1>13, <2>1, CalleeStale
<1>14. QED
  BY <1>12, <1>13

LEMMA CalleePumpEndsKeeps ==
    ASSUME TypeOK, TypeOK', OwnsInv, PairsInv, NEW c \in Callers, NEW d \in Dev,
           CalleePumpEnds(c, d)
    PROVE  OwnsInv' /\ PairsInv'
<1>1. d \in Dev \ {c} /\ line[c][d] \in Line /\ c \in Dev /\ line[c][d].serve = "on"
      /\ UNCHANGED <<tapped, placed, chosen>> /\ line \in [Callers -> [Dev -> Line]]
  BY StreamToOther DEF CalleePumpEnds, TypeOK
<1>2. PICK y : y = [line[c][d] EXCEPT !.serve = "over"]
  OBVIOUS
<1>3. /\ y \in Line /\ y.dial = line[c][d].dial /\ y.serve = "over" /\ y.to = line[c][d].to
      /\ y.fro = line[c][d].fro
  BY <1>1, <1>2 DEF Line
<1>4. PICK ln : ln = [line EXCEPT ![c][d] = y]
  OBVIOUS
<1>5. /\ ln \in [Callers -> [Dev -> Line]] /\ ln[c][d] = y
      /\ \A c2 \in Callers, d2 \in Dev : c2 # c \/ d2 # d => ln[c2][d2] = line[c2][d2]
  BY <1>1, <1>3, <1>4
<1>6. PICK r : r = LostAt(d, live[d], c)
  OBVIOUS
<1>7. Apply(d, c, ln, r)
  <2>1. ln = [line EXCEPT ![c][d].serve = "over"]
    BY <1>1, <1>2, <1>4
  <2>2. QED
    BY <1>6, <2>1 DEF CalleePumpEnds
<1>8. /\ Words(ln[c][d].to) \subseteq Words(line[c][d].to)
      /\ "fin" \in Words(line[c][d].to) => "fin" \in Words(ln[c][d].to)
      /\ ln[c][d].dial = line[c][d].dial /\ ln[c][d].fro = line[c][d].fro
      /\ ln[c][d].serve = "over"
  BY <1>3, <1>5
<1>9. CASE In(d, c)
  <2>1. live[d] \in Live /\ live[d].id = c /\ live[d].io = {c}
    BY <1>1, <1>9, CalledOne
  <2>2. CalleeResult(c, live[d], r) /\ r.end # "elsewhere" /\ r.call = NoCall
    BY <1>1, <1>6, <2>1, CalleeLoses
  <2>3. Carry(d, c, ln, r)
    BY <1>7, <1>9 DEF Apply
  <2>4. QED
    BY <1>1, <1>5, <1>8, <1>9, <2>2, <2>3, CalleeEvent
<1>10. CASE ~ In(d, c)
  <2>1. ln[c][d].serve \in {"on", "over"}
    BY <1>8
  <2>2. QED
    BY <1>1, <1>5, <1>7, <1>8, <1>10, <2>1, CalleeStale
<1>11. QED
  BY <1>9, <1>10

\* The call a device is in.
LEMMA CallerOf ==
    ASSUME TypeOK, NEW d \in Dev, live[d] # NoCall
    PROVE  live[d].id \in Callers /\ In(d, live[d].id)
BY DEF TypeOK, Live, In

LEMMA HangupKeeps ==
    ASSUME TypeOK, TypeOK', OwnsInv, PairsInv, NEW d \in Dev, Hangup(d)
    PROVE  OwnsInv' /\ PairsInv'
<1>1. CASE In(d, d)
  BY <1>1, CallerHangupKeeps
<1>2. CASE ~ In(d, d)
  <2>1. PICK c \in Callers : c = live[d].id
    BY CallerOf DEF Hangup
  <2>2. In(d, c) /\ d \in Dev \ {c}
    BY <1>2, <2>1 DEF In
  <2>3. PICK r : r = HangUp(d, live[d])
    OBVIOUS
  <2>4. Carry(d, c, line, r) /\ UNCHANGED <<tapped, placed, chosen>>
    BY <2>1, <2>3 DEF Hangup
  <2>5. live[d] \in Live /\ live[d].id = c /\ live[d].io = {c} /\ line[c][d].serve = "on"
    BY <2>2, CalledOne
  <2>6. CalleeResult(c, live[d], r) /\ r.end # "elsewhere" /\ r.call = NoCall
    BY <2>2, <2>3, <2>5, CalleeLeaves
  <2>7. line \in [Callers -> [Dev -> Line]]
    BY DEF TypeOK
  <2>8. QED
    BY <2>2, <2>4, <2>5, <2>6, <2>7, CalleeEvent
<1>3. QED
  BY <1>1, <1>2

LEMMA TickKeeps ==
    ASSUME TypeOK, TypeOK', OwnsInv, PairsInv, NEW d \in Dev, Tick(d)
    PROVE  OwnsInv' /\ PairsInv'
<1>1. CASE In(d, d)
  BY <1>1, CallerTickKeeps
<1>2. CASE ~ In(d, d)
  <2>1. PICK c \in Callers : c = live[d].id
    BY CallerOf DEF Tick
  <2>2. In(d, c) /\ d \in Dev \ {c}
    BY <1>2, <2>1 DEF In
  <2>3. PICK r : r = TimedOut(d, live[d])
    OBVIOUS
  <2>4. Carry(d, c, line, r) /\ UNCHANGED <<tapped, placed, chosen>> /\ live[d].phase # "active"
    BY <2>1, <2>3 DEF Tick
  <2>5. live[d] \in Live /\ live[d].id = c /\ live[d].io = {c} /\ line[c][d].serve = "on"
    BY <2>2, CalledOne
  <2>6. CalleeResult(c, live[d], r) /\ r.end # "elsewhere" /\ r.call = NoCall
    BY <2>2, <2>3, <2>4, <2>5, CalleeLeaves
  <2>7. line \in [Callers -> [Dev -> Line]]
    BY DEF TypeOK
  <2>8. QED
    BY <2>2, <2>4, <2>5, <2>6, <2>7, CalleeEvent
<1>3. QED
  BY <1>1, <1>2

(***************************************************************************)
(* What the person and the media do.                                       *)
(***************************************************************************)
\* The call of the device is connected, or a tap is forgotten: whether it
\* answered stays the same.
LEMMA StillAnswering ==
    ASSUME NEW c \in Callers, NEW d \in Dev, NEW v, NEW w, PairOK(c, d, v),
           w.dial = v.dial, w.serve = v.serve, w.to = v.to, w.fro = v.fro,
           w.mine = v.mine, w.took = v.took, w.end = v.end, w.placed = v.placed,
           w.tap \in {v.tap, None}, Answering(c, w) <=> Answering(c, v),
           w.theirs = v.theirs
              \/ (v.theirs # NoCall /\ w.theirs.io = v.theirs.io /\ w.theirs.active = v.theirs.active
                  /\ w.theirs.phase # "ringing" /\ v.theirs.phase # "ringing")
    PROVE  PairOK(c, d, w)
<1>1. StreamOK(c, d, v) /\ CallerOK(c, d, v) /\ ToldOK(d, v)
      /\ CalleeOK(c, v) /\ AnswerOK(c, d, v) /\ TakenOK(d, v)
  BY DEF PairOK
<1>2. StreamOK(c, d, w) /\ CallerOK(c, d, w) /\ ToldOK(d, w) /\ TakenOK(d, w)
  BY <1>1 DEF StreamOK, CallerOK, ToldOK, TakenOK
<1>3. CalleeOK(c, w)
  BY <1>1, CallsAssumption DEF CalleeOK
<1>4. AnswerOK(c, d, w)
  BY <1>1 DEF AnswerOK
<1>5. QED
  BY <1>2, <1>3, <1>4 DEF PairOK

LEMMA AnswerKeeps ==
    ASSUME TypeOK, TypeOK', OwnsInv, PairsInv, NEW d \in Dev, Answer(d)
    PROVE  OwnsInv' /\ PairsInv'
<1>1. PICK c \in Callers \ {d} :
          /\ In(d, c) /\ live[d].phase = "ringing" /\ c \in live[d].io
          /\ line' = Said(line, d, c, Tell({c}, "answer"))
          /\ tapped' = [tapped EXCEPT ![d] = c]
  BY DEF Answer
<1>2. /\ c \in Dev /\ d \in Dev \ {c} /\ PairOK(c, d, View(c, d))
      /\ line \in [Callers -> [Dev -> Line]] /\ tapped[d] = None
      /\ UNCHANGED <<live, outcome, placed, chosen>>
  BY <1>1, CallsAssumption DEF PairsInv, TypeOK, Answer
<1>3. /\ live[d] \in Live /\ live[d].io = {c} /\ live[d] # NoCall
      /\ line[c][d].serve = "on" /\ Mine(d, c) = live[d]
  BY <1>1, <1>2, CalledOne
<1>4. PICK say \in Say : say = Tell({c}, "answer") /\ Words(say[c]) = {"answer"}
  <2>1. Tell({c}, "answer") \in Say
    BY SayType DEF Frame
  <2>2. Words(Tell({c}, "answer")[c]) = {"answer"}
    BY <1>2, SaidWords
  <2>3. QED
    BY <2>1, <2>2
<1>5. line' = Said(line, d, c, say)
  BY <1>1, <1>4
<1>6. \A c2 \in Callers, d2 \in Dev : c2 # c \/ d2 # d => SameStream(c2, d2)
  BY <1>2, <1>5, SaidAlone
<1> DEFINE x == line[c][d]
           y == Said(line, d, c, say)[c][d]
<1>7. /\ y.dial = x.dial /\ y.serve = x.serve /\ Keeps(y.to, x.to, x.serve)
  BY <1>2, SaidCarries
<1>8. Gains(y.fro, x.fro, say[c], x.dial)
  BY <1>2, SaidCarries
<1>9. line'[c][d] = y
  BY <1>5
<1> HIDE DEF y
<1>10. /\ line'[c][d].dial = line[c][d].dial /\ line'[c][d].serve = line[c][d].serve
       /\ Words(line'[c][d].to) = Words(line[c][d].to)
       /\ Words(line'[c][d].fro) = Words(line[c][d].fro) \cup {"answer"}
          \/ (line[c][d].dial = "over" /\ Words(line'[c][d].fro) = {})
  BY <1>3, <1>4, <1>7, <1>8, <1>9 DEF Keeps, Gains
<1>11. \A d2 \in Dev, c2 \in Callers : Mine(d2, c2)' = Mine(d2, c2)
  BY <1>2, MineKept
<1>12. tapped'[d] = c /\ \A d2 \in Dev : d2 # d => tapped'[d2] = tapped[d2]
  BY <1>1 DEF TypeOK
<1> DEFINE v == View(c, d)
           w == View(c, d)'
<1>13. /\ w.mine = v.mine /\ w.theirs = v.theirs /\ w.placed = v.placed /\ w.took = v.took
       /\ w.dial = v.dial /\ w.end = v.end /\ w.to = v.to /\ w.serve = v.serve
       /\ w.tap = c /\ v.theirs = live[d]
       /\ w.fro = v.fro \cup {"answer"} \/ (v.dial = "over" /\ w.fro = {})
  BY <1>2, <1>3, <1>10, <1>11, <1>12 DEF View
<1>14. PairOK(c, d, v)
  BY <1>2
<1> HIDE DEF v, w
<1>15. PairOK(c, d, w)
  BY <1>2, <1>3, <1>13, <1>14, PersonAnswers
<1>16. \A c2 \in Callers, d2 \in Dev : c2 # c \/ d2 # d =>
              /\ Mine(d2, c2)' = Mine(d2, c2) /\ outcome'[d2][c2] = outcome[d2][c2]
              /\ tapped'[d2] = tapped[d2] \/ (tapped'[d2] # c2 /\ tapped[d2] # c2)
              /\ SameStream(c2, d2)
  BY <1>2, <1>6, <1>11, <1>12, CallsAssumption
<1>17. UNCHANGED <<placed, chosen>>
  BY <1>2
<1>18. QED
  BY <1>2, <1>15, <1>16, <1>17, DeviceStep DEF w

LEMMA AcceptKeeps ==
    ASSUME TypeOK, TypeOK', OwnsInv, PairsInv, NEW d \in Dev, Accept(d)
    PROVE  OwnsInv' /\ PairsInv'
<1>1. PICK c : c = tapped[d]
  OBVIOUS
<1>2. c \in Callers /\ tapped[d] # None
  BY <1>1 DEF Accept, TypeOK
<1>3. c # d
  BY <1>1, <1>2 DEF OwnsInv, OwnInv
<1>4. /\ c \in Dev /\ d \in Dev \ {c} /\ PairOK(c, d, View(c, d))
      /\ UNCHANGED <<line, outcome, placed, chosen>>
      /\ tapped'[d] = None /\ \A d2 \in Dev : d2 # d => tapped'[d2] = tapped[d2]
  BY <1>2, <1>3, CallsAssumption DEF PairsInv, TypeOK, Accept
<1> DEFINE v == View(c, d)
           w == View(c, d)'
<1>5. ASSUME \A d2 \in Dev, c2 \in Callers : d2 # d \/ c2 # c => Mine(d2, c2)' = Mine(d2, c2),
             PairOK(c, d, w)
      PROVE  OwnsInv' /\ PairsInv'
  <2>1. \A c2 \in Callers, d2 \in Dev : c2 # c \/ d2 # d =>
              /\ Mine(d2, c2)' = Mine(d2, c2) /\ outcome'[d2][c2] = outcome[d2][c2]
              /\ tapped'[d2] = tapped[d2] \/ (tapped'[d2] # c2 /\ tapped[d2] # c2)
              /\ SameStream(c2, d2)
    BY <1>1, <1>4, <1>5, CallsAssumption DEF SameStream, Keeps
  <2>2. QED
    BY <1>2, <1>4, <1>5, <2>1, DeviceStep
<1>6. ASSUME \A d2 \in Dev, c2 \in Callers : d2 # d \/ c2 # c => Mine(d2, c2)' = Mine(d2, c2)
      PROVE  /\ w.mine = v.mine /\ w.placed = v.placed /\ w.took = v.took
             /\ w.dial = v.dial /\ w.end = v.end /\ w.to = v.to /\ w.fro = v.fro
             /\ w.serve = v.serve /\ w.tap = None /\ v.tap = c
             /\ v.theirs = Mine(d, c) /\ w.theirs = Mine(d, c)'
  BY <1>1, <1>2, <1>4, <1>6 DEF View
<1>7. PairOK(c, d, v)
  BY <1>4
<1> HIDE DEF v, w
<1>8. CASE In(d, c) /\ live[d].phase = "ringing"
  <2>1. live[d] \in Live /\ live[d].io = {c} /\ live[d].id = c /\ live[d] # NoCall
        /\ Mine(d, c) = live[d]
    BY <1>2, <1>4, <1>8, CalledOne
  <2>2. PICK k : k = [live[d] EXCEPT !.leg[c] = "answered", !.active = c, !.phase = "connecting"]
    OBVIOUS
  <2>3. /\ k \in Live /\ k.id = c /\ k.io = live[d].io /\ k.active = c /\ k.phase = "connecting"
    BY <1>4, <2>1, <2>2 DEF Live, LegState
  <2>4. live' = [live EXCEPT ![d] = k]
    BY <1>1, <1>8, <2>1, <2>2 DEF Accept, TypeOK
  <2>5. /\ Mine(d, c)' = k
        /\ \A d2 \in Dev, c2 \in Callers : d2 # d \/ c2 # c => Mine(d2, c2)' = Mine(d2, c2)
    BY <1>2, <1>8, <2>3, <2>4, MineAfter
  <2>6. /\ w.mine = v.mine /\ w.placed = v.placed /\ w.took = v.took
        /\ w.dial = v.dial /\ w.end = v.end /\ w.to = v.to /\ w.fro = v.fro
        /\ w.serve = v.serve /\ w.tap = None /\ v.tap = c
        /\ v.theirs = live[d] /\ w.theirs = k
    BY <1>6, <2>1, <2>5
  <2>7. k # NoCall /\ None # c
    BY <1>4, <2>3, LiveIsCall, CallsAssumption
  <2>8. Answering(c, v)
    BY <2>1, <2>6 DEF Answering
  <2>9. PairOK(c, d, w)
    BY <1>2, <1>4, <1>7, <2>1, <2>3, <2>6, <2>7, <2>8, PersonAnswers
  <2>10. QED
    BY <1>5, <2>5, <2>9
<1>9. CASE ~ (In(d, c) /\ live[d].phase = "ringing")
  <2>1. live' = live
    BY <1>1, <1>9 DEF Accept
  <2>2. \A d2 \in Dev, c2 \in Callers : Mine(d2, c2)' = Mine(d2, c2)
    BY <2>1, MineKept
  <2>3. /\ w.mine = v.mine /\ w.placed = v.placed /\ w.took = v.took
        /\ w.dial = v.dial /\ w.end = v.end /\ w.to = v.to /\ w.fro = v.fro
        /\ w.serve = v.serve /\ w.tap = None /\ v.tap = c
        /\ v.theirs = Mine(d, c) /\ w.theirs = v.theirs
    BY <1>2, <1>4, <1>6, <2>2
  <2>4. Mine(d, c) = NoCall \/ Mine(d, c).phase # "ringing"
    BY <1>9 DEF Mine
  <2>5. Answering(c, w) <=> Answering(c, v)
    BY <2>3, <2>4 DEF Answering
  <2>6. w.tap \in {v.tap, None}
    BY <2>3
  <2>7. PairOK(c, d, w)
    BY <1>2, <1>7, <2>3, <2>5, <2>6, StillAnswering
  <2>8. QED
    BY <1>5, <2>2, <2>7
<1>10. QED
  BY <1>8, <1>9

LEMMA MediaUpKeeps ==
    ASSUME TypeOK, TypeOK', OwnsInv, PairsInv, NEW d \in Dev, MediaUp(d)
    PROVE  OwnsInv' /\ PairsInv'
<1>1. /\ live[d] # NoCall /\ live[d].phase = "connecting"
      /\ UNCHANGED <<line, tapped, outcome, placed, chosen>>
      /\ live \in [Dev -> Live \cup {NoCall}]
  BY DEF MediaUp, TypeOK
<1>2. PICK c, k : c = live[d].id /\ k = [live[d] EXCEPT !.phase = "active"]
  OBVIOUS
<1>3. c \in Callers /\ In(d, c) /\ c \in Dev
  BY <1>1, <1>2, CallerOf, CallsAssumption
<1>4. /\ k \in Live /\ k.id = c /\ k.phase = "active" /\ k.active = live[d].active
      /\ k.leg = live[d].leg /\ k.io = live[d].io /\ k.glareWait = live[d].glareWait
      /\ k # NoCall
  <2>1. live[d] \in Live
    BY <1>1
  <2>2. /\ k \in Live /\ k.id = c /\ k.phase = "active" /\ k.active = live[d].active
        /\ k.leg = live[d].leg /\ k.io = live[d].io /\ k.glareWait = live[d].glareWait
    BY <1>2, <2>1 DEF Live
  <2>3. QED
    BY <2>2, LiveIsCall
<1>5. live' = [live EXCEPT ![d] = k]
  BY <1>1, <1>2 DEF MediaUp
<1>6. CASE c = d
  <2>1. Open(k) = Open(live[d]) /\ (k.phase = "ringing" => k.io \subseteq Open(k))
    BY <1>4 DEF Open
  <2>2. k.phase = "ringing" <=> live[d].phase = "ringing"
    BY <1>1, <1>4
  <2>3. live[d].io \subseteq k.io /\ k.id = d /\ In(d, d) /\ d \in Callers
    BY <1>3, <1>4, <1>6
  <2>4. OwnStreams(d, k)
    BY <1>1 DEF OwnStreams
  <2>5. GoesOnWhole(live[d], k)
    BY <1>2, <1>4, <1>6, <2>1, <2>2, <2>3 DEF GoesOnWhole
  <2>6. UNCHANGED <<placed, chosen, outcome, tapped>>
    BY <1>1
  <2>7. QED
    BY <1>4, <1>5, <2>3, <2>4, <2>5, <2>6, OwnStep
<1>7. CASE c # d
  <2>1. d \in Dev \ {c} /\ Mine(d, c) = live[d] /\ PairOK(c, d, View(c, d))
    BY <1>3, <1>7, CalledOne DEF PairsInv
  <2>2. /\ Mine(d, c)' = k
        /\ \A d2 \in Dev, c2 \in Callers : d2 # d \/ c2 # c => Mine(d2, c2)' = Mine(d2, c2)
    BY <1>3, <1>4, <1>5, MineAfter
  <2> DEFINE v == View(c, d)
             w == View(c, d)'
  <2>3. /\ w.mine = v.mine /\ w.placed = v.placed /\ w.took = v.took
        /\ w.dial = v.dial /\ w.end = v.end /\ w.to = v.to /\ w.fro = v.fro
        /\ w.serve = v.serve /\ w.tap = v.tap
        /\ v.theirs = live[d] /\ w.theirs = k
    BY <1>1, <1>3, <1>7, <2>1, <2>2 DEF View
  <2> HIDE DEF v, w
  <2>4. Answering(c, w) <=> Answering(c, v)
    BY <1>1, <1>4, <2>3 DEF Answering
  <2>5. PairOK(c, d, v)
    BY <2>1 DEF v
  <2>6. PairOK(c, d, w)
    BY <1>1, <1>3, <1>4, <2>3, <2>4, <2>5, StillAnswering
  <2>7. \A c2 \in Callers, d2 \in Dev : c2 # c \/ d2 # d =>
              /\ Mine(d2, c2)' = Mine(d2, c2) /\ outcome'[d2][c2] = outcome[d2][c2]
              /\ tapped'[d2] = tapped[d2] \/ (tapped'[d2] # c2 /\ tapped[d2] # c2)
              /\ SameStream(c2, d2)
    BY <1>1, <2>2 DEF SameStream, Keeps
  <2>8. UNCHANGED <<placed, chosen>>
    BY <1>1
  <2>9. QED
    BY <1>3, <2>1, <2>6, <2>7, <2>8, DeviceStep DEF w
<1>8. QED
  BY <1>6, <1>7

LEMMA BreakKeeps ==
    ASSUME TypeOK, TypeOK', OwnsInv, PairsInv, NEW c \in Callers, NEW d \in Dev, Break(c, d)
    PROVE  OwnsInv' /\ PairsInv'
<1>1. /\ d \in Dev \ {c} /\ line[c][d] \in Line /\ PairOK(c, d, View(c, d))
      /\ line[c][d].serve = "on" /\ UNCHANGED <<placed, chosen, live, tapped, outcome>>
      /\ line \in [Callers -> [Dev -> Line]]
  BY StreamToOther DEF Break, TypeOK
<1>2. PICK x : x = [line[c][d] EXCEPT !.to = <<"fin">>, !.fro = <<"fin">>]
  OBVIOUS
<1>3. /\ x.dial = line[c][d].dial /\ x.serve = line[c][d].serve
      /\ x.to = <<"fin">> /\ x.fro = <<"fin">>
  BY <1>1, <1>2 DEF Line
<1>4. line' = [line EXCEPT ![c][d] = x]
  BY <1>1, <1>2 DEF Break
<1>5. /\ line'[c][d] = x
      /\ \A c2 \in Callers, d2 \in Dev : c2 # c \/ d2 # d => SameStream(c2, d2)
  BY <1>1, <1>4, OneStream
<1>6. Words(<<"fin">>) = {"fin"}
  BY FewWords
<1> DEFINE v == View(c, d)
           w == View(c, d)'
<1>7. /\ v.dial = line[c][d].dial /\ v.serve = line[c][d].serve
      /\ w.dial = line'[c][d].dial /\ w.serve = line'[c][d].serve
      /\ w.to = Words(line'[c][d].to) /\ w.fro = Words(line'[c][d].fro)
      /\ w.mine = v.mine /\ w.theirs = v.theirs /\ w.tap = v.tap
      /\ w.placed = v.placed /\ w.took = v.took
      /\ v.end = outcome[d][c] /\ w.end = outcome'[d][c]
  BY <1>1, StreamView
<1> HIDE DEF v, w
<1>8. /\ v.serve = "on" /\ w.serve = v.serve /\ w.dial = v.dial /\ w.end = v.end
      /\ w.to = {"fin"} /\ w.fro = {"fin"}
  BY <1>1, <1>3, <1>5, <1>6, <1>7
<1>9. PairOK(c, d, v)
  BY <1>1 DEF v
<1>10. PairOK(c, d, w)
  BY <1>1, <1>7, <1>8, <1>9, StreamBreaks
<1>11. QED
  BY <1>1, <1>5, <1>10, StreamStep DEF w

(***************************************************************************)
(* No call is left with one end, and "answered elsewhere" is true.         *)
(***************************************************************************)
LEMMA EndsInit ==
    ASSUME Init
    PROVE  OwnsInv /\ PairsInv
<1>1. \A d \in Dev, c \in Callers : Mine(d, c) = NoCall /\ ~ In(d, c)
  BY CallsAssumption DEF Init, Mine, In, NoCall
<1>2. ASSUME NEW c \in Callers PROVE OwnInv(c)
  <2>1. Mine(c, c) = NoCall /\ ~ In(c, c) /\ c \in Dev /\ None # c /\ None # "elsewhere"
    BY <1>1, CallsAssumption, NoneAssumption DEF End
  <2>2. QED
    BY <2>1 DEF OwnInv, CallOK, Init
<1>3. ASSUME NEW c \in Callers, NEW d \in Dev \ {c} PROVE PairOK(c, d, View(c, d))
  <2> DEFINE v == View(c, d)
  <2>1. Mine(c, c) = NoCall /\ Mine(d, c) = NoCall /\ Words(<<>>) = {}
    BY <1>1, FewWords, CallsAssumption
  <2>2. /\ v.dial = "no" /\ v.serve = "none" /\ v.to = {} /\ v.fro = {}
        /\ v.mine = NoCall /\ v.theirs = NoCall /\ v.tap = None /\ v.end = None
    BY <2>1 DEF View, Init
  <2>3. None # c /\ None # "elsewhere"
    BY CallsAssumption, NoneAssumption DEF End
  <2> HIDE DEF v
  <2>4. StreamOK(c, d, v) /\ ToldOK(d, v) /\ TakenOK(d, v)
    BY <2>2, <2>3 DEF StreamOK, ToldOK, TakenOK
  <2>5. CallerOK(c, d, v) /\ CalleeOK(c, v) /\ AnswerOK(c, d, v)
    BY <2>2, <2>3 DEF CallerOK, CarriedBy, CalleeOK, Answering, AnswerOK
  <2>6. QED
    BY <2>4, <2>5 DEF PairOK, v
<1>4. QED
  BY <1>2, <1>3 DEF OwnsInv, PairsInv

LEMMA EndsUnchanged ==
    ASSUME OwnsInv, PairsInv, UNCHANGED vars
    PROVE  OwnsInv' /\ PairsInv'
<1>1. /\ live' = live /\ line' = line /\ tapped' = tapped /\ chosen' = chosen
      /\ outcome' = outcome /\ placed' = placed
  BY DEF vars
<1>2. \A d \in Dev, c \in Callers : Mine(d, c)' = Mine(d, c)
  BY <1>1, MineKept
<1>3. ASSUME NEW c \in Callers PROVE OwnInv(c)'
  <2>1. OwnInv(c) /\ Mine(c, c)' = Mine(c, c) /\ (In(c, c)' <=> In(c, c))
    BY <1>1, <1>2, CallsAssumption DEF OwnsInv, In
  <2>2. CallOK(c, Mine(c, c), chosen[c])'
    BY <1>1, <2>1 DEF OwnInv, CallOK, RingsOpen, Open
  <2>3. QED
    BY <1>1, <2>1, <2>2 DEF OwnInv
<1>4. ASSUME NEW c \in Callers, NEW d \in Dev \ {c} PROVE PairOK(c, d, View(c, d)')
  <2>1. View(c, d)' = View(c, d)
    BY <1>1, <1>2, CallsAssumption DEF View
  <2>2. QED
    BY <2>1 DEF PairsInv
<1>5. QED
  BY <1>3, <1>4 DEF OwnsInv, PairsInv

LEMMA EndsStep ==
    ASSUME TypeOK, TypeOK', OwnsInv, PairsInv, [Next]_vars
    PROVE  OwnsInv' /\ PairsInv'
<1>1. CASE UNCHANGED vars
  BY <1>1, EndsUnchanged
<1>2. ASSUME NEW c \in Callers, Start(c) \/ SendOffer(c)
      PROVE  OwnsInv' /\ PairsInv'
  BY <1>2, StartKeeps, SendOfferKeeps
<1>3. ASSUME NEW c \in Callers, NEW d \in Dev,
             \/ DialOpens(c, d) \/ DialFails(c, d) \/ JoinLeg(c, d)
             \/ CallerReads(c, d) \/ CallerPumpEnds(c, d)
      PROVE  OwnsInv' /\ PairsInv'
  BY <1>3, DialOpensKeeps, DialFailsKeeps, JoinLegKeeps, CallerReadsKeeps, CallerPumpEndsKeeps
<1>4. ASSUME NEW c \in Callers, NEW d \in Dev,
             \/ OfferSeen(c, d) \/ MarkSilent(c, d) \/ DropMine(c, d) \/ RingHere(c, d)
             \/ OfferRefused(c, d) \/ BridgeFails(c, d)
      PROVE  OwnsInv' /\ PairsInv'
  BY <1>4, OfferSeenKeeps, MarkSilentKeeps, DropMineKeeps, RingHereKeeps, OfferRefusedKeeps,
     BridgeFailsKeeps
<1>5. ASSUME NEW c \in Callers, NEW d \in Dev,
             CalleeReads(c, d) \/ CalleePumpEnds(c, d) \/ Break(c, d)
      PROVE  OwnsInv' /\ PairsInv'
  BY <1>5, CalleeReadsKeeps, CalleePumpEndsKeeps, BreakKeeps
<1>6. ASSUME NEW d \in Dev,
             \/ Answer(d) \/ Accept(d) \/ Hangup(d) \/ MediaUp(d) \/ Tick(d) \/ GlareOver(d)
      PROVE  OwnsInv' /\ PairsInv'
  BY <1>6, AnswerKeeps, AcceptKeeps, HangupKeeps, MediaUpKeeps, TickKeeps, GlareOverKeeps
<1>7. CASE Next
  BY <1>2, <1>3, <1>4, <1>5, <1>6, <1>7 DEF Next, Work
<1>8. QED
  BY <1>1, <1>7

LEMMA EndsAlways == Spec => [](TypeOK /\ OwnsInv /\ PairsInv)
<1>1. Init => OwnsInv /\ PairsInv
  BY EndsInit
<1>2. TypeOK /\ TypeOK' /\ OwnsInv /\ PairsInv /\ [Next]_vars => (OwnsInv /\ PairsInv)'
  BY EndsStep
<1>3. QED
  BY <1>1, <1>2, TypeCorrect, PTL DEF Spec

\* A connected call has its other end, or word of how that end left it: for
\* any number of devices and calls, and with every order in which answers,
\* hang-ups, late frames and broken streams meet.
THEOREM TwoSidedAlways == Spec => []TwoSided
<1>1. ASSUME TypeOK, OwnsInv, PairsInv PROVE TwoSided
  <2>1. ASSUME NEW c \in Callers, NEW d \in Dev, Connected(d, c), d # c
        PROVE  \/ Connected(c, c) /\ live[c].active = d
               \/ Queued("answer", line[c][d].fro) /\ (In(c, c) \/ line[c][d].dial # "over")
               \/ Queued("fin", line[c][d].to) /\ line[c][d].serve = "on"
               \/ line[c][d].dial = "opened"
    <3> DEFINE v == View(c, d)
    <3>1. /\ c \in Dev /\ PairOK(c, d, v) /\ line[c][d] \in Line
          /\ Mine(d, c) # NoCall /\ Mine(d, c).phase # "ringing"
          /\ Connected(c, c) <=> Mine(c, c) # NoCall /\ Mine(c, c).phase # "ringing"
      BY <1>1, <2>1, MineIs, CallsAssumption DEF PairsInv, TypeOK
    <3>2. /\ v.dial = line[c][d].dial /\ v.serve = line[c][d].serve
          /\ v.to = Words(line[c][d].to) /\ v.fro = Words(line[c][d].fro)
          /\ v.mine = Mine(c, c) /\ v.theirs = Mine(d, c)
      BY DEF View
    <3> HIDE DEF v
    <3>3. v.dial \in {"no", "dial", "opened", "on", "over"}
      BY <3>1, <3>2 DEF Line
    <3>4. Answering(c, v) /\ v.serve = "on"
      BY <3>1, <3>2 DEF Answering, PairOK, CalleeOK
    <3>5. v.dial \notin {"no", "dial"}
      BY <3>1, <3>4 DEF PairOK, StreamOK
    <3>6. CASE v.dial = "over"
      <4>1. "fin" \in v.to
        BY <3>1, <3>4, <3>6 DEF PairOK, ToldOK
      <4>2. QED
        BY <3>2, <3>4, <4>1, QueuedIsWord
    <3>7. CASE v.dial = "on"
      <4>1. CarriedBy(v.mine, d) \/ "answer" \in v.fro \/ "fin" \in v.to
        BY <3>1, <3>4, <3>7 DEF PairOK, AnswerOK
      <4>2. CASE CarriedBy(v.mine, d)
        <5>1. Connected(c, c) /\ live[c].active = d
          BY <3>1, <3>2, <4>2 DEF CarriedBy, Mine
        <5>2. QED
          BY <5>1
      <4>3. CASE "answer" \in v.fro
        <5>1. Queued("answer", line[c][d].fro)
          BY <3>2, <4>3, QueuedIsWord
        <5>2. line[c][d].dial # "over"
          BY <3>2, <3>7
        <5>3. QED
          BY <5>1, <5>2
      <4>4. CASE "fin" \in v.to
        <5>1. Queued("fin", line[c][d].to)
          BY <3>2, <4>4, QueuedIsWord
        <5>2. QED
          BY <3>2, <3>4, <5>1
      <4>5. QED
        BY <4>1, <4>2, <4>3, <4>4
    <3>8. CASE v.dial = "opened"
      BY <3>2, <3>8
    <3>9. QED
      BY <3>3, <3>5, <3>6, <3>7, <3>8
  <2>2. ASSUME NEW c \in Callers, Connected(c, c), NEW e, e = live[c].active
        PROVE  \/ Connected(e, c)
               \/ tapped[e] = c
               \/ Queued("fin", line[c][e].fro) /\ line[c][e].dial = "on"
    <3>0. c \in Dev /\ In(c, c) /\ live[c].phase # "ringing"
      BY <2>2, CallsAssumption DEF Connected
    <3>1. c \in Dev /\ Mine(c, c) = live[c] /\ live[c] # NoCall /\ live[c].phase # "ringing"
      BY <1>1, <3>0, OwnCall
    <3>2. e \in Dev \ {c}
      BY <1>1, <2>2, <3>1 DEF OwnsInv, OwnInv, CallOK
    <3> DEFINE v == View(c, e)
    <3>3. PairOK(c, e, v) /\ (Connected(e, c) <=> Mine(e, c) # NoCall /\ Mine(e, c).phase # "ringing")
      BY <1>1, <3>2, MineIs DEF PairsInv
    <3>4. /\ v.dial = line[c][e].dial /\ v.fro = Words(line[c][e].fro)
          /\ v.mine = live[c] /\ v.theirs = Mine(e, c) /\ v.tap = tapped[e]
      BY <3>1 DEF View
    <3> HIDE DEF v
    <3>5. CarriedBy(v.mine, e)
      BY <2>2, <3>1, <3>4 DEF CarriedBy
    <3>6. v.dial = "on" /\ (Answering(c, v) \/ "fin" \in v.fro)
      BY <3>3, <3>5 DEF PairOK, CallerOK, AnswerOK
    <3>7. QED
      BY <3>3, <3>4, <3>6, QueuedIsWord DEF Answering
  <2>3. QED
    BY <2>1, <2>2 DEF TwoSided
<1>2. QED
  BY <1>1, EndsAlways, PTL

\* A device tells its person "answered on another device" only when the caller
\* took the answer of another one.
THEOREM ElsewhereIsTrueAlways == Spec => []ElsewhereIsTrue
<1>1. ASSUME TypeOK, OwnsInv, PairsInv PROVE ElsewhereIsTrue
  <2>1. ASSUME NEW d \in Dev, NEW c \in Callers, outcome[d][c] = "elsewhere"
        PROVE  chosen[c] \notin {None, d}
    <3>1. d # c
      BY <1>1, <2>1 DEF OwnsInv, OwnInv
    <3>2. TakenOK(d, View(c, d)) /\ View(c, d).end = outcome[d][c] /\ View(c, d).took = chosen[c]
      BY <1>1, <3>1 DEF PairsInv, PairOK, View
    <3>3. QED
      BY <2>1, <3>2 DEF TakenOK
  <2>2. QED
    BY <2>1 DEF ElsewhereIsTrue
<1>2. QED
  BY <1>1, EndsAlways, PTL
=============================================================================
