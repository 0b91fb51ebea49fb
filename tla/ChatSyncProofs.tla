--------------------------- MODULE ChatSyncProofs ---------------------------
(***************************************************************************)
(* Theorems about ChatSync: what merging two copies of a message does in   *)
(* any order, what no device takes back, and that devices which have come  *)
(* to agree show what the person last wanted.                              *)
(***************************************************************************)
EXTENDS ChatSync, TLAPS

(***************************************************************************)
(* Merging.                                                                *)
(***************************************************************************)
\* The stamp of a copy is not below those of its parts.
Stamped(m) ==
    /\ m.textRev <= m.rev
    /\ \A r \in Emoji : m.clk[r] # None => m.clk[r].at <= m.rev

\* An unsent copy was stamped as its text was removed.
UnsentIsStamped(m) == m.deleted => m.textRev > 0

\* Every change of a copy is one of its text or of a reaction.
AllClocked(m) == m.rev = 0 \/ Clocked(m)

\* The text of an edited copy has a clock, as it has since there are clocks.
ThisBuild(m) == AllClocked(m) \/ ~m.edited

\* All of a copy but its clocks.
SameButClocks(a, b) ==
    /\ a.status = b.status /\ a.text = b.text /\ a.edited = b.edited /\ a.deleted = b.deleted
    /\ a.preview = b.preview /\ a.rev = b.rev

LEMMA HigherIs ==
    \A a, b \in Nat : /\ Higher(a, b) \in Nat /\ a <= Higher(a, b) /\ b <= Higher(a, b)
                      /\ Higher(a, b) = a \/ Higher(a, b) = b
BY DEF Higher

LEMMA HigherCommutes == \A a, b \in Nat : Higher(a, b) = Higher(b, a)
BY DEF Higher

LEMMA LegacyIs ==
    ASSUME NEW m \in Message, NEW o \in Message
    PROVE  /\ LegacyClocks(m, o) \in Message
           /\ SameButClocks(LegacyClocks(m, o), m)
           /\ m.textRev <= LegacyClocks(m, o).textRev
           /\ Stamped(m) => Stamped(LegacyClocks(m, o))
           /\ AllClocked(m) => LegacyClocks(m, o) = m
           /\ ThisBuild(m) => LegacyClocks(m, o).textRev = m.textRev
<1>1. m.rev \in Nat /\ m.textRev \in Nat
  BY DEF Message
<1>2. CASE m.rev = 0 \/ Clocked(m) \/ ~Clocked(o)
  BY <1>1, <1>2 DEF LegacyClocks, SameButClocks
<1>3. CASE ~(m.rev = 0 \/ Clocked(m) \/ ~Clocked(o))
  <2> DEFINE f == [r \in Emoji |-> IF o.clk[r] = None THEN None ELSE [at |-> m.rev, on |-> FALSE]]
             t == IF m.edited THEN m.rev ELSE m.textRev
             x == [m EXCEPT !.textRev = t, !.clk = f]
  <2>1. LegacyClocks(m, o) = x
    BY <1>3 DEF LegacyClocks
  <2>2. m.textRev = 0 /\ ~AllClocked(m)
    BY <1>1, <1>3 DEF Clocked, AllClocked
  <2>3. f \in [Emoji -> Clock \cup {None}]
    BY <1>1 DEF Clock
  <2>4. \A r \in Emoji : f[r] # None => f[r].at <= m.rev
    BY <1>1
  <2>5. t \in Nat /\ t <= m.rev /\ m.textRev <= t /\ (ThisBuild(m) => t = m.textRev)
    BY <1>1, <2>2 DEF ThisBuild
  <2> HIDE DEF f, t
  <2>6. x \in Message /\ x.clk = f /\ x.textRev = t
    BY <2>3, <2>5 DEF Message
  <2>7. SameButClocks(x, m)
    BY DEF Message, SameButClocks
  <2> HIDE DEF x
  <2>8. Stamped(x)
    BY <2>4, <2>5, <2>6, <2>7 DEF Stamped, SameButClocks
  <2>9. QED
    BY <2>1, <2>2, <2>5, <2>6, <2>7, <2>8
<1>4. QED
  BY <1>2, <1>3

\* The clocks that a merge of n into o compares.
Ours(o, n) == LegacyClocks(o, LegacyClocks(n, o))
Theirs(o, n) == LegacyClocks(n, o)

LEMMA OursIs ==
    ASSUME NEW o \in Message, NEW n \in Message
    PROVE  /\ Ours(o, n) \in Message /\ SameButClocks(Ours(o, n), o)
           /\ Theirs(o, n) \in Message /\ SameButClocks(Theirs(o, n), n)
           /\ o.textRev <= Ours(o, n).textRev
           /\ Stamped(o) => Stamped(Ours(o, n))
           /\ Stamped(n) => Stamped(Theirs(o, n))
           /\ AllClocked(o) => Ours(o, n) = o
           /\ AllClocked(n) => Theirs(o, n) = n
           /\ ThisBuild(o) => Ours(o, n).textRev = o.textRev
           /\ ThisBuild(n) => Theirs(o, n).textRev = n.textRev
BY LegacyIs DEF Ours, Theirs

\* Only one of two copies is read as an older build's.
LEMMA OneIsLegacy ==
    ASSUME NEW o \in Message, NEW n \in Message
    PROVE  Ours(o, n) = Theirs(n, o)
<1>1. CASE LegacyClocks(n, o) = n
  BY <1>1 DEF Ours, Theirs
<1>2. CASE LegacyClocks(n, o) # n
  <2>1. Clocked(o)
    BY <1>2 DEF LegacyClocks
  <2>2. QED
    BY <2>1 DEF Ours, Theirs, LegacyClocks
<1>3. QED
  BY <1>1, <1>2

LEMMA LaterClockIs ==
    ASSUME NEW a \in Clock \cup {None}, NEW b \in Clock \cup {None}
    PROVE  LaterClock(a, b) \in Clock \cup {None} /\ (LaterClock(a, b) = a \/ LaterClock(a, b) = b)
BY DEF LaterClock

\* The text of n replaces the one of o.
Takes(o, n) == ~o.deleted /\ ~n.deleted /\ TextNewer(o, n)

\* What becomes of copy x when copy m is merged into it: all but the clocks.
Fields(x, m, w) ==
    /\ w \in Message
    /\ w.deleted = (x.deleted \/ m.deleted)
    /\ w.rev = Higher(x.rev, m.rev)
    /\ x.deleted => w.textRev = x.textRev
    /\ ~x.deleted /\ m.deleted => w.textRev = Higher(x.textRev, m.textRev)
    /\ Takes(x, m) => w.textRev = m.textRev /\ w.text = m.text /\ w.edited = m.edited
    /\ ~w.deleted /\ ~Takes(x, m)
       => w.textRev = x.textRev /\ w.text = x.text /\ w.edited = x.edited
    /\ w.deleted => w.edited = x.edited

Clocks(x, m, w) ==
    /\ w.deleted => w.clk = x.clk
    /\ ~w.deleted => w.clk = [r \in Emoji |-> LaterClock(x.clk[r], m.clk[r])]

\* Two copies are merged as they are compared.
Joins(x, m, w) == Fields(x, m, w) /\ Clocks(x, m, w)

\* Copies of this build are compared with the text stamps they have.
MergeMakes(o, n, w) == Fields(o, n, w) /\ Clocks(Ours(o, n), Theirs(o, n), w)

LEMMA MergeFieldsJoins ==
    ASSUME NEW o \in Message, NEW n \in Message
    PROVE  /\ Joins(Ours(o, n), Theirs(o, n), MergeFields(o, n))
           /\ MergeFields(o, n).status = o.status
<1> DEFINE x == Ours(o, n)
           m == Theirs(o, n)
           rev == Higher(x.rev, m.rev)
           both == [r \in Emoji |-> LaterClock(x.clk[r], m.clk[r])]
           t == IF TextNewer(x, m)
                  THEN [x EXCEPT !.text = m.text, !.edited = m.edited,
                                 !.preview = m.preview, !.textRev = m.textRev]
                  ELSE x
<1>1. x \in Message /\ m \in Message /\ x.status = o.status
  BY OursIs DEF SameButClocks
<1>2. MergeFields(o, n) =
        IF x.deleted THEN [x EXCEPT !.rev = rev]
        ELSE IF m.deleted
        THEN [x EXCEPT !.deleted = TRUE, !.text = 0, !.preview = FALSE,
                       !.textRev = Higher(x.textRev, m.textRev), !.rev = rev]
        ELSE [t EXCEPT !.clk = both, !.rev = rev]
  BY DEF MergeFields, Ours, Theirs
<1> HIDE DEF x, m
<1>3. rev \in Nat /\ Higher(x.textRev, m.textRev) \in Nat
  BY <1>1, HigherIs DEF Message
<1>4. both \in [Emoji -> Clock \cup {None}]
  <2>1. \A r \in Emoji : x.clk[r] \in Clock \cup {None} /\ m.clk[r] \in Clock \cup {None}
    BY <1>1 DEF Message
  <2>2. QED
    BY <2>1, LaterClockIs
<1>5. /\ t \in Message /\ t.status = x.status /\ t.deleted = x.deleted
      /\ TextNewer(x, m) => t.textRev = m.textRev /\ t.text = m.text /\ t.edited = m.edited
      /\ ~TextNewer(x, m) => t.textRev = x.textRev /\ t.text = x.text /\ t.edited = x.edited
  BY <1>1 DEF Message
<1>6. x.deleted \in BOOLEAN /\ m.deleted \in BOOLEAN
  BY <1>1 DEF Message
<1> HIDE DEF rev, both, t
<1>7. CASE x.deleted
  <2> DEFINE w == [x EXCEPT !.rev = rev]
  <2>1. MergeFields(o, n) = w
    BY <1>2, <1>7
  <2>2. /\ w \in Message /\ w.status = x.status /\ w.deleted = x.deleted /\ w.rev = rev
        /\ w.textRev = x.textRev /\ w.edited = x.edited /\ w.clk = x.clk
    BY <1>1, <1>3 DEF Message
  <2> HIDE DEF w
  <2>3. QED
    BY <1>1, <1>6, <1>7, <2>1, <2>2 DEF Joins, Fields, Clocks, Takes, rev, x, m
<1>8. CASE ~x.deleted /\ m.deleted
  <2> DEFINE top == Higher(x.textRev, m.textRev)
             w == [x EXCEPT !.deleted = TRUE, !.text = 0, !.preview = FALSE,
                            !.textRev = top, !.rev = rev]
  <2>1. MergeFields(o, n) = w
    BY <1>2, <1>8
  <2>2. top \in Nat
    BY <1>3
  <2> HIDE DEF top
  <2>3. /\ w \in Message /\ w.status = x.status /\ w.deleted = TRUE /\ w.rev = rev
        /\ w.textRev = top /\ w.edited = x.edited /\ w.clk = x.clk
    BY <1>1, <1>3, <2>2 DEF Message
  <2> HIDE DEF w
  <2>4. QED
    BY <1>1, <1>6, <1>8, <2>1, <2>3 DEF Joins, Fields, Clocks, Takes, rev, top, x, m
<1>9. CASE ~x.deleted /\ ~m.deleted
  <2> DEFINE w == [t EXCEPT !.clk = both, !.rev = rev]
  <2>1. MergeFields(o, n) = w
    BY <1>2, <1>9
  <2>2. /\ w \in Message /\ w.status = t.status /\ w.deleted = t.deleted /\ w.rev = rev
        /\ w.textRev = t.textRev /\ w.text = t.text /\ w.edited = t.edited /\ w.clk = both
    BY <1>3, <1>4, <1>5 DEF Message
  <2> HIDE DEF w
  <2>3. w.deleted = FALSE /\ x.deleted = FALSE /\ m.deleted = FALSE
    BY <1>5, <1>6, <1>9, <2>2
  <2>4. Joins(x, m, w)
    BY <1>5, <2>2, <2>3 DEF Joins, Fields, Clocks, Takes, rev, both
  <2>5. QED
    BY <1>1, <1>5, <2>1, <2>2, <2>4 DEF x, m
<1>10. QED
  BY <1>7, <1>8, <1>9

\* A copy from another device is as it was there, but for the delivery.
LEMMA ForeignIs ==
    ASSUME NEW n \in Message
    PROVE  /\ Foreign(n) \in Message /\ Rank(Foreign(n).status) = Rank(n.status)
           /\ Foreign(n).text = n.text /\ Foreign(n).edited = n.edited
           /\ Foreign(n).deleted = n.deleted /\ Foreign(n).rev = n.rev
           /\ Foreign(n).textRev = n.textRev /\ Foreign(n).clk = n.clk
BY DEF Foreign, Message, Status, Rank

LEMMA ForeignClocks ==
    ASSUME NEW o \in Message, NEW n \in Message
    PROVE  /\ Ours(o, Foreign(n)) = Ours(o, n)
           /\ Theirs(o, Foreign(n)).clk = Theirs(o, n).clk
           /\ Theirs(o, Foreign(n)).textRev = Theirs(o, n).textRev
<1>1. PICK f : f = Foreign(n)
  OBVIOUS
<1>2. f \in Message /\ f.rev = n.rev /\ f.textRev = n.textRev /\ f.clk = n.clk /\ f.edited = n.edited
  BY <1>1, ForeignIs
<1>3. Clocked(f) <=> Clocked(n)
  BY <1>2 DEF Clocked
<1>4. LegacyClocks(f, o).clk = LegacyClocks(n, o).clk /\ LegacyClocks(f, o).textRev = LegacyClocks(n, o).textRev
  BY <1>2, <1>3 DEF LegacyClocks, Message
<1>5. Clocked(LegacyClocks(f, o)) <=> Clocked(LegacyClocks(n, o))
  BY <1>4 DEF Clocked
<1>6. \A a, b \in Message : a.clk = b.clk /\ (Clocked(a) <=> Clocked(b)) => LegacyClocks(o, a) = LegacyClocks(o, b)
  BY DEF LegacyClocks
<1>7. LegacyClocks(f, o) \in Message /\ LegacyClocks(n, o) \in Message
  BY <1>2, LegacyIs
<1>8. QED
  BY <1>1, <1>4, <1>5, <1>6, <1>7 DEF Ours, Theirs

LEMMA MergedJoins ==
    ASSUME NEW o \in Message, NEW n \in Message
    PROVE  /\ Joins(Ours(o, n), Theirs(o, n), Merged(o, n))
           /\ Rank(Merged(o, n).status) = Higher(Rank(o.status), Rank(n.status))
<1>0. o # None
  BY NoneAssumption
<1> DEFINE f == Foreign(n)
           w == MergeFields(o, f)
           st == IF Rank(f.status) > Rank(o.status) THEN f.status ELSE o.status
<1>1. Merged(o, n) = [w EXCEPT !.status = st]
  BY <1>0 DEF Merged
<1>2. /\ f \in Message /\ Rank(f.status) = Rank(n.status) /\ f.rev = n.rev
      /\ f.deleted = n.deleted /\ f.text = n.text /\ f.edited = n.edited
  BY ForeignIs
<1>3. st \in Status /\ Rank(st) = Higher(Rank(o.status), Rank(n.status))
  <2>1. f.status \in Status /\ o.status \in Status
    BY <1>2 DEF Message
  <2>2. QED
    BY <1>2, <2>1 DEF Higher
<1> HIDE DEF w, st, f
<1>4. PICK x, m, l : x = Ours(o, n) /\ m = Theirs(o, n) /\ l = Theirs(o, f)
  OBVIOUS
<1>5. Joins(x, l, w)
  BY <1>2, <1>4, ForeignClocks, MergeFieldsJoins DEF w, f
<1>6. /\ l.clk = m.clk /\ l.textRev = m.textRev /\ l.rev = m.rev /\ l.deleted = m.deleted
      /\ l.text = m.text /\ l.edited = m.edited
  <2>1. SameButClocks(l, f) /\ SameButClocks(m, n)
    BY <1>2, <1>4, OursIs
  <2>2. l.clk = m.clk /\ l.textRev = m.textRev
    BY <1>4, ForeignClocks DEF f
  <2>3. QED
    BY <1>2, <2>1, <2>2 DEF SameButClocks
<1>7. Takes(x, l) <=> Takes(x, m)
  BY <1>6 DEF Takes, TextNewer
<1>8. Joins(x, m, w)
  BY <1>5, <1>6, <1>7 DEF Joins, Fields, Clocks
<1> DEFINE y == [w EXCEPT !.status = st]
<1>9. /\ y \in Message /\ y.deleted = w.deleted /\ y.rev = w.rev /\ y.textRev = w.textRev
      /\ y.text = w.text /\ y.edited = w.edited /\ y.clk = w.clk /\ y.status = st
  BY <1>3, <1>8 DEF Joins, Fields, Message
<1> HIDE DEF y
<1>10. Joins(x, m, y)
  BY <1>8, <1>9 DEF Joins, Fields, Clocks, Takes
<1>11. QED
  BY <1>1, <1>3, <1>4, <1>9, <1>10 DEF y

LEMMA MergedMakes ==
    ASSUME NEW o \in Message, NEW n \in Message, ThisBuild(o), ThisBuild(n)
    PROVE  /\ MergeMakes(o, n, Merged(o, n))
           /\ Rank(Merged(o, n).status) = Higher(Rank(o.status), Rank(n.status))
<1>1. PICK x, m, w : x = Ours(o, n) /\ m = Theirs(o, n) /\ w = Merged(o, n)
  OBVIOUS
<1>2. Joins(x, m, w)
  BY <1>1, MergedJoins
<1>3. SameButClocks(x, o) /\ SameButClocks(m, n) /\ x.textRev = o.textRev /\ m.textRev = n.textRev
  BY <1>1, OursIs
<1>4. Takes(x, m) <=> Takes(o, n)
  BY <1>3 DEF SameButClocks, Takes, TextNewer
<1>5. MergeMakes(o, n, w)
  BY <1>1, <1>2, <1>3, <1>4 DEF SameButClocks, Joins, Fields, MergeMakes
<1>6. QED
  BY <1>1, <1>5, MergedJoins

(***************************************************************************)
(* A merge is a join: the order, and a repetition, do not show.            *)
(***************************************************************************)
\* Texts with one stamp are one text.
TextKnown(a, b) ==
    ~a.deleted /\ ~b.deleted /\ a.textRev = b.textRev
    => a.text = b.text /\ a.edited = b.edited

LEMMA LaterClockJoins ==
    ASSUME NEW a \in Clock \cup {None}, NEW b \in Clock \cup {None}, NEW e \in Clock \cup {None}
    PROVE  /\ LaterClock(a, b) = LaterClock(b, a)
           /\ LaterClock(a, a) = a
           /\ LaterClock(LaterClock(a, b), b) = LaterClock(a, b)
           /\ LaterClock(LaterClock(a, b), e) = LaterClock(a, LaterClock(b, e))
<1>1. \A x, y \in Clock : x.at = y.at /\ x.on = y.on => x = y
  BY DEF Clock
<1>2. \A x \in Clock : x # None /\ x.at \in Nat /\ x.on \in BOOLEAN
  BY NoneAssumption DEF Clock
<1>3. LaterClock(a, b) = LaterClock(b, a) /\ LaterClock(a, a) = a
  BY <1>1, <1>2 DEF LaterClock
<1>4. LaterClock(LaterClock(a, b), b) = LaterClock(a, b)
  BY <1>1, <1>2 DEF LaterClock
<1>5. LaterClock(LaterClock(a, b), e) = LaterClock(a, LaterClock(b, e))
  BY <1>1, <1>2 DEF LaterClock
<1>6. QED
  BY <1>3, <1>4, <1>5

\* The text of a merge is the one with the higher stamp.
LEMMA TextIsLatest ==
    ASSUME NEW o \in Message, NEW n \in Message, NEW w, Fields(o, n, w), TextKnown(o, n),
           ~w.deleted
    PROVE  /\ w.textRev = Higher(o.textRev, n.textRev)
           /\ w.textRev = o.textRev => w.text = o.text /\ w.edited = o.edited
           /\ w.textRev = n.textRev => w.text = n.text /\ w.edited = n.edited
<1>1. ~o.deleted /\ ~n.deleted /\ o.textRev \in Nat /\ n.textRev \in Nat
  BY DEF Fields, Message
<1>2. CASE TextNewer(o, n)
  <2>1. w.textRev = n.textRev /\ w.text = n.text /\ w.edited = n.edited
    BY <1>1, <1>2 DEF Fields, Takes
  <2>2. o.textRev <= n.textRev
    BY <1>1, <1>2 DEF TextNewer
  <2>3. QED
    BY <1>1, <2>1, <2>2 DEF TextKnown, Higher
<1>3. CASE ~TextNewer(o, n)
  <2>1. w.textRev = o.textRev /\ w.text = o.text /\ w.edited = o.edited
    BY <1>1, <1>3 DEF Fields, Takes
  <2>2. n.textRev <= o.textRev
    BY <1>1, <1>3 DEF TextNewer
  <2>3. QED
    BY <1>1, <2>1, <2>2 DEF TextKnown, Higher
<1>4. QED
  BY <1>2, <1>3

\* Copies with clocks of their own: a merge takes the later of two clocks.
Sound(m) == AllClocked(m) /\ UnsentIsStamped(m)

LEMMA ClocksAreLatest ==
    ASSUME NEW o \in Message, NEW n \in Message, NEW w, MergeMakes(o, n, w),
           Sound(o), Sound(n)
    PROVE  /\ Sound(w)
           /\ w.deleted => w.clk = o.clk
           /\ ~w.deleted => \A r \in Emoji : w.clk[r] = LaterClock(o.clk[r], n.clk[r])
<1>1. Ours(o, n) = o /\ Theirs(o, n) = n
  BY OursIs DEF Sound
<1>2. /\ w.deleted => w.clk = o.clk
      /\ ~w.deleted => \A r \in Emoji : w.clk[r] = LaterClock(o.clk[r], n.clk[r])
  BY <1>1 DEF MergeMakes, Clocks
<1>3. /\ o.textRev \in Nat /\ n.textRev \in Nat /\ w.textRev \in Nat
      /\ o.rev \in Nat /\ n.rev \in Nat
      /\ \A r \in Emoji : o.clk[r] \in Clock \cup {None} /\ n.clk[r] \in Clock \cup {None}
  BY DEF MergeMakes, Fields, Message
<1>4. CASE w.deleted
  <2>1. w.textRev > 0
    <3>1. o.deleted \/ n.deleted
      BY <1>4 DEF MergeMakes, Fields
    <3>2. CASE o.deleted
      BY <3>2 DEF MergeMakes, Fields, Sound, UnsentIsStamped
    <3>3. CASE ~o.deleted /\ n.deleted
      <4>1. w.textRev = Higher(o.textRev, n.textRev) /\ n.textRev > 0
        BY <3>3 DEF MergeMakes, Fields, Sound, UnsentIsStamped
      <4>2. QED
        BY <1>3, <4>1 DEF Higher
    <3>4. QED
      BY <3>1, <3>2, <3>3
  <2>2. QED
    BY <1>2, <1>4, <2>1 DEF Sound, AllClocked, Clocked, UnsentIsStamped
<1>5. CASE ~w.deleted
  <2>1. ~o.deleted /\ ~n.deleted
    BY <1>5 DEF MergeMakes, Fields
  <2>2. o.textRev <= w.textRev /\ n.textRev <= w.textRev
    BY <1>3, <1>5, <2>1 DEF MergeMakes, Fields, Takes, TextNewer
  <2>3. \A r \in Emoji : o.clk[r] # None \/ n.clk[r] # None => w.clk[r] # None
    BY <1>2, <1>5 DEF LaterClock
  <2>4. Clocked(o) \/ Clocked(n) => Clocked(w)
    BY <1>3, <2>2, <2>3 DEF Clocked
  <2>5. o.rev = 0 /\ n.rev = 0 => w.rev = 0
    BY DEF MergeMakes, Fields, Higher
  <2>6. AllClocked(w)
    BY <2>4, <2>5 DEF Sound, AllClocked
  <2>7. QED
    BY <1>2, <1>5, <2>6 DEF Sound, UnsentIsStamped
<1>6. QED
  BY <1>4, <1>5

\* A copy as others see it: what is shown and what a digest tells apart.
Alike(a, b) == Hash(a) = Hash(b) /\ Shown(a) = Shown(b)

LEMMA AlikeIf ==
    ASSUME NEW a \in Message, NEW b \in Message, a.rev = b.rev, Rank(a.status) = Rank(b.status),
           a.deleted = b.deleted, a.edited = b.edited, a.textRev = b.textRev, a.clk = b.clk,
           ~a.deleted => a.text = b.text
    PROVE  Alike(a, b)
<1>1. a # None /\ b # None
  BY NoneAssumption
<1>2. Hash(a) = Hash(b)
  BY <1>1 DEF Hash
<1>3. Reactions(a) = Reactions(b)
  BY DEF Reactions
<1>4. CASE a.deleted
  <2>1. b.deleted
    BY <1>4
  <2>2. QED
    BY <1>2, <1>4, <2>1 DEF Alike, Shown
<1>5. CASE ~a.deleted
  <2>1. ~b.deleted
    BY <1>5
  <2>2. QED
    BY <1>2, <1>3, <1>5, <2>1 DEF Alike, Shown
<1>6. QED
  BY <1>2, <1>4, <1>5 DEF Alike

\* Two devices that take each other's copies show the same: whose copy was
\* merged into whose makes no difference.  The texts are known by the stamps they
\* are compared with: an edited copy without a clock, of an older build, is given
\* the stamp of its last change, which may tie with another edit.
THEOREM MergeCommutes ==
    ASSUME NEW o \in Message, NEW n \in Message, TextKnown(Ours(o, n), Theirs(o, n))
    PROVE  Shown(Merged(o, n)) = Shown(Merged(n, o)) /\ Merged(o, n).rev = Merged(n, o).rev
<1>1. PICK x, m, v, w : /\ x = Ours(o, n) /\ m = Theirs(o, n)
                       /\ v = Merged(o, n) /\ w = Merged(n, o)
  OBVIOUS
<1>2. x \in Message /\ m \in Message /\ TextKnown(x, m)
  BY <1>1, OursIs
<1>3. /\ Joins(x, m, v) /\ Joins(m, x, w)
      /\ Rank(v.status) = Higher(Rank(o.status), Rank(n.status))
      /\ Rank(w.status) = Higher(Rank(n.status), Rank(o.status))
  BY <1>1, MergedJoins, OneIsLegacy
<1>4. Rank(v.status) = Rank(w.status) /\ v.rev = w.rev
  <2>1. /\ x.rev \in Nat /\ m.rev \in Nat
        /\ Rank(o.status) \in Nat /\ Rank(n.status) \in Nat
    BY <1>2 DEF Message, Status, Rank
  <2>2. QED
    BY <1>3, <2>1, HigherCommutes DEF Joins, Fields
<1>5. v.deleted = w.deleted
  BY <1>2, <1>3 DEF Joins, Fields, Message
<1>6. CASE v.deleted
  BY <1>1, <1>4, <1>5, <1>6 DEF Shown
<1>7. CASE ~v.deleted
  <2>1. ~w.deleted /\ x.textRev \in Nat /\ m.textRev \in Nat /\ TextKnown(m, x)
    BY <1>2, <1>5, <1>7 DEF Message, TextKnown
  <2>2. v.text = w.text
    <3>1. /\ v.textRev = Higher(x.textRev, m.textRev)
          /\ v.textRev = x.textRev => v.text = x.text
          /\ v.textRev = m.textRev => v.text = m.text
      BY <1>2, <1>3, <1>7, TextIsLatest DEF Joins
    <3>2. /\ w.textRev = Higher(m.textRev, x.textRev)
          /\ w.textRev = x.textRev => w.text = x.text
          /\ w.textRev = m.textRev => w.text = m.text
      BY <1>2, <1>3, <2>1, TextIsLatest DEF Joins
    <3>3. QED
      BY <2>1, <3>1, <3>2, HigherCommutes, HigherIs
  <2>3. \A r \in Emoji : v.clk[r] = w.clk[r]
    <3>1. SUFFICES ASSUME NEW r \in Emoji PROVE v.clk[r] = w.clk[r]
      OBVIOUS
    <3>2. /\ v.clk[r] = LaterClock(x.clk[r], m.clk[r])
          /\ w.clk[r] = LaterClock(m.clk[r], x.clk[r])
      BY <1>3, <1>7, <2>1 DEF Joins, Clocks
    <3>3. x.clk[r] \in Clock \cup {None} /\ m.clk[r] \in Clock \cup {None}
      BY <1>2 DEF Message
    <3>4. QED
      BY <3>2, <3>3, LaterClockJoins
  <2>4. Reactions(v) = Reactions(w)
    BY <2>3 DEF Reactions
  <2>5. QED
    BY <1>1, <1>4, <1>7, <2>1, <2>2, <2>4 DEF Shown
<1>8. QED
  BY <1>6, <1>7

\* A copy that arrives a second time changes nothing more.
THEOREM MergeRepeats ==
    ASSUME NEW o \in Message, NEW n \in Message, Sound(o), Sound(n), TextKnown(o, n)
    PROVE  Alike(Merged(Merged(o, n), n), Merged(o, n))
<1> DEFINE v == Merged(o, n)
           w == Merged(v, n)
<1>1. MergeMakes(o, n, v) /\ Rank(v.status) = Higher(Rank(o.status), Rank(n.status))
  BY MergedMakes DEF Sound, ThisBuild
<1> SUFFICES Alike(w, v)
  OBVIOUS
<1> HIDE DEF v
<1>2. v \in Message /\ Sound(v)
  BY <1>1, ClocksAreLatest DEF MergeMakes, Fields
<1>3. MergeMakes(v, n, w) /\ Rank(w.status) = Higher(Rank(v.status), Rank(n.status))
  BY <1>2, MergedMakes DEF Sound, ThisBuild
<1> HIDE DEF w
<1>4. w \in Message
  BY <1>3 DEF MergeMakes, Fields
<1>5. Rank(w.status) = Rank(v.status) /\ w.rev = v.rev
  <2>1. /\ o.rev \in Nat /\ n.rev \in Nat
        /\ Rank(o.status) \in Nat /\ Rank(n.status) \in Nat
    BY DEF Message, Status, Rank
  <2>2. /\ v.rev = Higher(o.rev, n.rev) /\ w.rev = Higher(v.rev, n.rev)
    BY <1>1, <1>3 DEF MergeMakes, Fields
  <2>3. QED
    BY <1>1, <1>3, <2>1, <2>2 DEF Higher
<1>6. w.deleted = v.deleted
  BY <1>1, <1>3 DEF MergeMakes, Fields, Message
<1>7. CASE v.deleted
  <2>1. w.clk = v.clk
    BY <1>2, <1>3, <1>6, <1>7, ClocksAreLatest
  <2>2. w.textRev = v.textRev /\ w.edited = v.edited
    BY <1>3, <1>6, <1>7 DEF MergeMakes, Fields
  <2>3. QED
    BY <1>2, <1>4, <1>5, <1>6, <1>7, <2>1, <2>2, AlikeIf
<1>8. CASE ~v.deleted
  <2>1. /\ ~w.deleted /\ ~o.deleted /\ ~n.deleted /\ o.textRev \in Nat /\ n.textRev \in Nat
    BY <1>1, <1>6, <1>8 DEF MergeMakes, Fields, Message
  <2>2. /\ v.textRev = Higher(o.textRev, n.textRev)
        /\ v.textRev = n.textRev => v.text = n.text /\ v.edited = n.edited
    BY <1>1, <1>8, TextIsLatest DEF MergeMakes
  <2>3. TextKnown(v, n)
    BY <2>2 DEF TextKnown
  <2>4. /\ w.textRev = Higher(v.textRev, n.textRev)
        /\ w.textRev = v.textRev => w.text = v.text /\ w.edited = v.edited
    BY <1>2, <1>3, <2>1, <2>3, TextIsLatest DEF MergeMakes
  <2>5. w.textRev = v.textRev /\ w.text = v.text /\ w.edited = v.edited
    BY <2>1, <2>2, <2>4 DEF Higher
  <2>6. \A r \in Emoji : w.clk[r] = v.clk[r]
    <3>1. SUFFICES ASSUME NEW r \in Emoji PROVE w.clk[r] = v.clk[r]
      OBVIOUS
    <3>2. v.clk[r] = LaterClock(o.clk[r], n.clk[r])
      BY <1>1, <1>8, ClocksAreLatest
    <3>3. w.clk[r] = LaterClock(v.clk[r], n.clk[r])
      BY <1>2, <1>3, <2>1, ClocksAreLatest
    <3>4. o.clk[r] \in Clock \cup {None} /\ n.clk[r] \in Clock \cup {None}
      BY DEF Message
    <3>5. QED
      BY <3>2, <3>3, <3>4, LaterClockJoins
  <2>7. w.clk = v.clk
    BY <1>2, <1>4, <2>6 DEF Message
  <2>8. QED
    BY <1>2, <1>4, <1>5, <1>6, <1>8, <2>5, <2>7, AlikeIf
<1>9. QED
  BY <1>7, <1>8

\* Copies of three devices come together alike in any order: a device may merge
\* one after the other, or take a copy that others have merged.
THEOREM MergeAssociates ==
    ASSUME NEW a \in Message, NEW b \in Message, NEW e \in Message,
           Sound(a), Sound(b), Sound(e), TextKnown(a, b), TextKnown(b, e), TextKnown(a, e)
    PROVE  /\ Shown(Merged(Merged(a, b), e)) = Shown(Merged(a, Merged(b, e)))
           /\ Merged(Merged(a, b), e).rev = Merged(a, Merged(b, e)).rev
<1> DEFINE ab == Merged(a, b)
           be == Merged(b, e)
           v == Merged(ab, e)
           w == Merged(a, be)
<1>1. /\ MergeMakes(a, b, ab) /\ Rank(ab.status) = Higher(Rank(a.status), Rank(b.status))
      /\ MergeMakes(b, e, be) /\ Rank(be.status) = Higher(Rank(b.status), Rank(e.status))
  BY MergedMakes DEF Sound, ThisBuild
<1> SUFFICES Shown(v) = Shown(w) /\ v.rev = w.rev
  OBVIOUS
<1> HIDE DEF ab, be
<1>2. ab \in Message /\ be \in Message /\ Sound(ab) /\ Sound(be)
  BY <1>1, ClocksAreLatest DEF MergeMakes, Fields
<1>3. /\ MergeMakes(ab, e, v) /\ Rank(v.status) = Higher(Rank(ab.status), Rank(e.status))
      /\ MergeMakes(a, be, w) /\ Rank(w.status) = Higher(Rank(a.status), Rank(be.status))
  BY <1>2, MergedMakes DEF Sound, ThisBuild
<1> HIDE DEF v, w
<1>4. Rank(w.status) = Rank(v.status) /\ w.rev = v.rev
  <2>1. /\ a.rev \in Nat /\ b.rev \in Nat /\ e.rev \in Nat
        /\ Rank(a.status) \in Nat /\ Rank(b.status) \in Nat /\ Rank(e.status) \in Nat
    BY DEF Message, Status, Rank
  <2>2. \A x, y, z \in Nat : Higher(Higher(x, y), z) = Higher(x, Higher(y, z))
    BY DEF Higher
  <2>3. /\ ab.rev = Higher(a.rev, b.rev) /\ be.rev = Higher(b.rev, e.rev)
        /\ v.rev = Higher(ab.rev, e.rev) /\ w.rev = Higher(a.rev, be.rev)
    BY <1>1, <1>3 DEF MergeMakes, Fields
  <2>4. QED
    BY <1>1, <1>3, <2>1, <2>2, <2>3
<1>5. /\ ab.deleted = (a.deleted \/ b.deleted) /\ be.deleted = (b.deleted \/ e.deleted)
      /\ v.deleted = (ab.deleted \/ e.deleted) /\ w.deleted = (a.deleted \/ be.deleted)
  BY <1>1, <1>3 DEF MergeMakes, Fields
<1>6. CASE v.deleted
  <2>1. w.deleted
    BY <1>5, <1>6
  <2>2. QED
    BY <1>4, <1>6, <2>1 DEF Shown
<1>7. CASE ~v.deleted
  <2>1. /\ ~w.deleted /\ ~ab.deleted /\ ~be.deleted /\ ~a.deleted /\ ~b.deleted /\ ~e.deleted
    BY <1>5, <1>7
  <2>2. a.textRev \in Nat /\ b.textRev \in Nat /\ e.textRev \in Nat
    BY DEF Message
  <2>3. /\ ab.textRev = Higher(a.textRev, b.textRev)
        /\ ab.textRev = a.textRev => ab.text = a.text /\ ab.edited = a.edited
        /\ ab.textRev = b.textRev => ab.text = b.text /\ ab.edited = b.edited
    BY <1>1, <2>1, TextIsLatest DEF MergeMakes
  <2>4. /\ be.textRev = Higher(b.textRev, e.textRev)
        /\ be.textRev = b.textRev => be.text = b.text /\ be.edited = b.edited
        /\ be.textRev = e.textRev => be.text = e.text /\ be.edited = e.edited
    BY <1>1, <2>1, TextIsLatest DEF MergeMakes
  <2>5. TextKnown(ab, e) /\ TextKnown(a, be)
    BY <2>1, <2>2, <2>3, <2>4 DEF TextKnown, Higher
  <2>6. /\ v.textRev = Higher(ab.textRev, e.textRev)
        /\ v.textRev = ab.textRev => v.text = ab.text
        /\ v.textRev = e.textRev => v.text = e.text
    BY <1>2, <1>3, <1>7, <2>5, TextIsLatest DEF MergeMakes
  <2>7. /\ w.textRev = Higher(a.textRev, be.textRev)
        /\ w.textRev = a.textRev => w.text = a.text
        /\ w.textRev = be.textRev => w.text = be.text
    BY <1>2, <1>3, <2>1, <2>5, TextIsLatest DEF MergeMakes
  <2>8. v.text = w.text
    BY <2>1, <2>2, <2>3, <2>4, <2>6, <2>7 DEF TextKnown, Higher
  <2>9. \A r \in Emoji : v.clk[r] = w.clk[r]
    <3>1. SUFFICES ASSUME NEW r \in Emoji PROVE v.clk[r] = w.clk[r]
      OBVIOUS
    <3>2. /\ Sound(ab) /\ ab.clk[r] = LaterClock(a.clk[r], b.clk[r])
          /\ Sound(be) /\ be.clk[r] = LaterClock(b.clk[r], e.clk[r])
      BY <1>1, <2>1, ClocksAreLatest
    <3>3. /\ v.clk[r] = LaterClock(ab.clk[r], e.clk[r])
          /\ w.clk[r] = LaterClock(a.clk[r], be.clk[r])
      BY <1>2, <1>3, <1>7, <2>1, <3>2, ClocksAreLatest
    <3>4. /\ a.clk[r] \in Clock \cup {None} /\ b.clk[r] \in Clock \cup {None}
          /\ e.clk[r] \in Clock \cup {None}
      BY DEF Message
    <3>5. QED
      BY <3>2, <3>3, <3>4, LaterClockJoins
  <2>10. Reactions(v) = Reactions(w)
    BY <2>9 DEF Reactions
  <2>11. QED
    BY <1>4, <1>7, <2>1, <2>8, <2>10 DEF Shown
<1>8. QED
  BY <1>6, <1>7

(***************************************************************************)
(* The changes of a copy.                                                  *)
(***************************************************************************)
Edited(m, t, rev) == [m EXCEPT !.text = t, !.edited = TRUE, !.rev = rev, !.textRev = rev]
Unsent(m, rev) == [m EXCEPT !.deleted = TRUE, !.text = 0, !.preview = FALSE,
                            !.rev = rev, !.textRev = rev]
Reacted(m, r, rev, on) == [m EXCEPT !.rev = rev, !.clk[r] = [at |-> rev, on |-> on]]
Previewed(m, rev) == [m EXCEPT !.preview = TRUE, !.rev = rev]
WithStatus(m, st) == [m EXCEPT !.status = st]

LEMMA EditedIs ==
    ASSUME NEW m \in Message, NEW t \in Nat, NEW rev \in Nat
    PROVE  LET w == Edited(m, t, rev)
           IN  /\ w \in Message /\ w.status = m.status /\ w.deleted = m.deleted
               /\ w.rev = rev /\ w.textRev = rev /\ w.clk = m.clk
BY DEF Edited, Message

LEMMA EditedText ==
    ASSUME NEW m \in Message, NEW t \in Nat, NEW rev \in Nat
    PROVE  Edited(m, t, rev).text = t /\ Edited(m, t, rev).edited = TRUE
BY DEF Edited, Message

LEMMA UnsentIs ==
    ASSUME NEW m \in Message, NEW rev \in Nat
    PROVE  LET w == Unsent(m, rev)
           IN  /\ w \in Message /\ w.status = m.status /\ w.deleted
               /\ w.rev = rev /\ w.textRev = rev /\ w.clk = m.clk
BY DEF Unsent, Message

LEMMA ReactedIs ==
    ASSUME NEW m \in Message, NEW r \in Emoji, NEW rev \in Nat, NEW on \in BOOLEAN
    PROVE  LET w == Reacted(m, r, rev, on)
           IN  /\ w \in Message /\ w.status = m.status /\ w.deleted = m.deleted
               /\ w.text = m.text /\ w.edited = m.edited /\ w.rev = rev /\ w.textRev = m.textRev
               /\ w.clk[r] = [at |-> rev, on |-> on]
               /\ \A q \in Emoji \ {r} : w.clk[q] = m.clk[q]
<1> DEFINE f == [m.clk EXCEPT ![r] = [at |-> rev, on |-> on]]
<1>1. f \in [Emoji -> Clock \cup {None}] /\ f[r] = [at |-> rev, on |-> on]
      /\ \A q \in Emoji \ {r} : f[q] = m.clk[q]
  BY DEF Message, Clock
<1>2. Reacted(m, r, rev, on) = [m EXCEPT !.rev = rev, !.clk = f]
  BY DEF Reacted
<1> HIDE DEF f
<1>3. QED
  BY <1>1, <1>2 DEF Message

LEMMA PreviewedIs ==
    ASSUME NEW m \in Message, NEW rev \in Nat
    PROVE  LET w == Previewed(m, rev)
           IN  /\ w \in Message /\ w.status = m.status /\ w.deleted = m.deleted
               /\ w.text = m.text /\ w.edited = m.edited /\ w.rev = rev /\ w.textRev = m.textRev
               /\ w.clk = m.clk
BY DEF Previewed, Message

LEMMA WithStatusIs ==
    ASSUME NEW m \in Message, NEW st \in Status
    PROVE  LET w == WithStatus(m, st)
           IN  /\ w \in Message /\ w.status = st /\ w.deleted = m.deleted
               /\ w.text = m.text /\ w.edited = m.edited /\ w.rev = m.rev
               /\ w.textRev = m.textRev /\ w.clk = m.clk
BY DEF WithStatus, Message

(***************************************************************************)
(* Types, and what a step makes of the copies.                             *)
(***************************************************************************)
Frame == [step : {"hello", "lists", "plan", "last"}, list : {Hash(m) : m \in Message \cup {None}},
          msg : Message \cup {None}, want : BOOLEAN]

Types ==
    /\ copy \in [Dev -> Message \cup {None}] /\ copy[Origin] # None
    /\ ex \in [Dev -> [Dev -> Frame \cup {None}]]
    /\ inStep \in [Dev -> SUBSET Dev]
    /\ time \in Nat \ {0} /\ arrived \in BOOLEAN
    /\ wish \in [link : BOOLEAN, text : Nat, unsent : BOOLEAN, react : SUBSET Emoji]

\* The copies on the devices and on their way.
Held == {m \in Message : \/ \E d \in Dev : copy[d] = m
                         \/ \E c, s \in Dev : ex[c][s] # None /\ ex[c][s].msg = m}

\* Some time passes, after which there is a change.
Passes == \E g \in Gap : time' = time + g

\* A change of device d's copy: the copy becomes w.
Rewrites(d, w) == w \in Message /\ copy' = [copy EXCEPT ![d] = w] /\ ex' = ex

EditStep(d) ==
    LET m == copy[d]
    IN  /\ m # None /\ ~m.deleted /\ Passes
        /\ Rewrites(d, Edited(m, time', BumpRev(d, m)))
        /\ wish' = [wish EXCEPT !.text = time'] /\ arrived' = arrived

UnsendStep(d) ==
    LET m == copy[d]
    IN  /\ m # None /\ Passes
        /\ Rewrites(d, Unsent(m, BumpRev(d, m)))
        /\ wish' = [wish EXCEPT !.unsent = TRUE] /\ arrived' = arrived

ReactStep(d) ==
    LET m == copy[d]
    IN  /\ m # None /\ Passes /\ arrived' = arrived
        /\ \E r \in Emoji, on \in BOOLEAN :
             /\ Rewrites(d, Reacted(m, r, BumpRev(d, m), on))
             /\ wish' = [wish EXCEPT !.react = IF on THEN wish.react \cup {r} ELSE wish.react \ {r}]

PreviewStep ==
    LET m == copy[Origin]
    IN  /\ wish.link /\ ~m.deleted /\ Passes
        /\ Rewrites(Origin, Previewed(m, BumpRev(Origin, m)))
        /\ UNCHANGED <<wish, arrived>>

\* The copy of d moves forward: delivered, or read.
StatusStep(d) ==
    LET m == copy[d]
    IN  /\ m # None /\ UNCHANGED <<time, wish>>
        /\ \E st \in Status : Rank(m.status) <= Rank(st) /\ Rewrites(d, WithStatus(m, st))

\* Devices take in copies that are on their way; nothing new is made.
SpreadStep ==
    /\ UNCHANGED <<time, wish, arrived>>
    /\ \A d \in Dev : copy'[d] = copy[d] \/ \E m \in Held : copy'[d] = Merged(copy[d], m)
    /\ \A m \in Held' : m \in Held \/ \E d \in Dev : m = copy'[d]

IdleStep == UNCHANGED <<copy, ex, time, wish>>

CopyStep ==
    \/ \E d \in Dev : EditStep(d) \/ UnsendStep(d) \/ ReactStep(d) \/ StatusStep(d)
    \/ PreviewStep \/ SpreadStep \/ IdleStep

LEMMA CopyIs ==
    ASSUME Types, NEW d \in Dev, copy[d] # None
    PROVE  copy[d] \in Message /\ copy[d] \in Held
BY DEF Types, Held

LEMMA PassesIs ==
    ASSUME Types, Passes
    PROVE  time' \in Nat \ {0} /\ time' > 1 /\ time < time'
<1>1. PICK g \in Gap : time' = time + g
  BY DEF Passes
<1>2. g \in Nat /\ g > 0 /\ time \in Nat /\ time > 0
  BY GapAssumption DEF Types
<1>3. QED
  BY <1>1, <1>2

LEMMA BumpRevIs ==
    ASSUME NEW d \in Dev, NEW m \in Message, time' \in Nat
    PROVE  BumpRev(d, m) \in Nat /\ m.rev < BumpRev(d, m)
BY DevAssumption DEF Message, BumpRev

LEMMA RewriteTypes ==
    ASSUME Types, NEW d \in Dev, NEW w, Rewrites(d, w)
    PROVE  /\ copy' \in [Dev -> Message \cup {None}] /\ copy'[Origin] # None
           /\ ex' \in [Dev -> [Dev -> Frame \cup {None}]]
           /\ copy'[d] = w /\ \A e \in Dev \ {d} : copy'[e] = copy[e]
           /\ w \in Held' /\ Held' \subseteq Held \cup {w}
<1>1. /\ w \in Message /\ copy' = [copy EXCEPT ![d] = w] /\ ex' = ex
  BY DEF Rewrites
<1>2. /\ copy' \in [Dev -> Message \cup {None}]
      /\ copy'[d] = w /\ \A e \in Dev \ {d} : copy'[e] = copy[e]
  BY <1>1 DEF Types
<1>3. copy'[Origin] # None
  BY <1>1, <1>2, NoneAssumption, DevAssumption DEF Types
<1>4. w \in Held'
  BY <1>1, <1>2 DEF Held
<1>5. Held' \subseteq Held \cup {w}
  BY <1>1, <1>2 DEF Held
<1>6. QED
  BY <1>1, <1>2, <1>3, <1>4, <1>5 DEF Types

LEMMA InStepType ==
    ASSUME Types, NEW d \in Dev, NEW m, Becomes(d, m)
    PROVE  inStep' \in [Dev -> SUBSET Dev]
BY DEF Types, Becomes

LEMMA EditTypes ==
    ASSUME Types, NEW d \in Dev, Edit(d)
    PROVE  Types' /\ EditStep(d)
<1> DEFINE m == copy[d]
           w == Edited(m, time', BumpRev(d, m))
<1>1. m # None /\ ~m.deleted /\ Passes /\ arrived' = arrived /\ ex' = ex
      /\ wish' = [wish EXCEPT !.text = time']
  BY DEF Edit, Change, Passes
<1>2. Becomes(d, w)
  BY <1>1 DEF Edit, Change, Edited
<1>3. m \in Message /\ time' \in Nat \ {0} /\ BumpRev(d, m) \in Nat
  BY <1>1, CopyIs, BumpRevIs, PassesIs DEF Types
<1>4. w \in Message
  BY <1>3, EditedIs
<1> HIDE DEF w
<1>5. Rewrites(d, w)
  BY <1>1, <1>2, <1>4 DEF Rewrites, Becomes
<1>6. Types'
  BY <1>1, <1>2, <1>3, <1>5, RewriteTypes, InStepType DEF Types
<1>7. QED
  BY <1>1, <1>5, <1>6 DEF EditStep, w

LEMMA UnsendTypes ==
    ASSUME Types, NEW d \in Dev, Unsend(d)
    PROVE  Types' /\ UnsendStep(d)
<1> DEFINE m == copy[d]
           w == Unsent(m, BumpRev(d, m))
<1>1. m # None /\ Passes /\ arrived' = arrived /\ ex' = ex
      /\ wish' = [wish EXCEPT !.unsent = TRUE]
  BY DEF Unsend, Change, Passes
<1>2. Becomes(d, w)
  BY <1>1 DEF Unsend, Change, Unsent
<1>3. m \in Message /\ time' \in Nat \ {0} /\ BumpRev(d, m) \in Nat
  BY <1>1, CopyIs, BumpRevIs, PassesIs DEF Types
<1>4. w \in Message
  BY <1>3, UnsentIs
<1> HIDE DEF w
<1>5. Rewrites(d, w)
  BY <1>1, <1>2, <1>4 DEF Rewrites, Becomes
<1>6. Types'
  BY <1>1, <1>2, <1>3, <1>5, RewriteTypes, InStepType DEF Types
<1>7. QED
  BY <1>1, <1>5, <1>6 DEF UnsendStep, w

LEMMA ReactTypes ==
    ASSUME Types, NEW d \in Dev, NEW r \in Emoji, React(d, r)
    PROVE  Types' /\ ReactStep(d)
<1> DEFINE m == copy[d]
           on == m.clk[r] = None \/ ~m.clk[r].on
           w == Reacted(m, r, BumpRev(d, m), on)
<1>1. m # None /\ Passes /\ arrived' = arrived /\ ex' = ex
      /\ wish' = [wish EXCEPT !.react = IF on THEN wish.react \cup {r} ELSE wish.react \ {r}]
  BY DEF React, Change, Passes
<1>2. Becomes(d, w)
  BY <1>1 DEF React, Change, Reacted
<1>3. m \in Message /\ time' \in Nat \ {0} /\ BumpRev(d, m) \in Nat /\ on \in BOOLEAN
  BY <1>1, CopyIs, BumpRevIs, PassesIs DEF Types
<1> HIDE DEF on
<1>4. w \in Message
  BY <1>3, ReactedIs
<1>5. wish' \in [link : BOOLEAN, text : Nat, unsent : BOOLEAN, react : SUBSET Emoji]
  <2> DEFINE x == IF on THEN wish.react \cup {r} ELSE wish.react \ {r}
  <2>1. x \in SUBSET Emoji
    BY DEF Types
  <2>2. wish' = [wish EXCEPT !.react = x]
    BY <1>1
  <2> HIDE DEF x
  <2>3. QED
    BY <2>1, <2>2 DEF Types
<1>6. Rewrites(d, w)
  <2> HIDE DEF w
  <2>1. QED
    BY <1>1, <1>2, <1>4 DEF Rewrites, Becomes
<1>7. Types'
  <2> HIDE DEF w
  <2>1. QED
    BY <1>1, <1>2, <1>3, <1>5, <1>6, RewriteTypes, InStepType DEF Types
<1>8. QED
  BY <1>1, <1>3, <1>6, <1>7 DEF ReactStep

LEMMA PreviewTypes ==
    ASSUME Types, Preview
    PROVE  Types' /\ PreviewStep
<1> DEFINE m == copy[Origin]
           w == Previewed(m, BumpRev(Origin, m))
<1>1. wish.link /\ ~m.deleted /\ Passes /\ arrived' = arrived /\ ex' = ex
      /\ wish' = wish
  BY DEF Preview, Change, Passes
<1>2. Becomes(Origin, w)
  BY <1>1 DEF Preview, Change, Previewed
<1>3. m \in Message /\ time' \in Nat \ {0} /\ BumpRev(Origin, m) \in Nat
  BY <1>1, CopyIs, BumpRevIs, PassesIs, DevAssumption DEF Types
<1>4. w \in Message
  BY <1>3, PreviewedIs
<1> HIDE DEF w
<1>5. Rewrites(Origin, w)
  BY <1>1, <1>2, <1>4 DEF Rewrites, Becomes
<1>6. Types'
  BY <1>1, <1>2, <1>3, <1>5, RewriteTypes, InStepType, DevAssumption DEF Types
<1>7. QED
  BY <1>1, <1>5, <1>6 DEF PreviewStep, w

LEMMA StatusTypes ==
    ASSUME Types, NEW d \in Dev, copy[d] # None, NEW st \in Status,
           Rank(copy[d].status) <= Rank(st), Becomes(d, [copy[d] EXCEPT !.status = st]),
           UNCHANGED <<ex, time, wish>>, arrived' \in BOOLEAN
    PROVE  Types' /\ StatusStep(d)
<1> DEFINE m == copy[d]
           w == WithStatus(m, st)
<1>1. Becomes(d, w) /\ ex' = ex /\ time' = time /\ wish' = wish
  BY DEF WithStatus
<1>2. w \in Message
  BY CopyIs, WithStatusIs
<1> HIDE DEF w
<1>3. Rewrites(d, w)
  BY <1>1, <1>2 DEF Rewrites, Becomes
<1>4. Types'
  BY <1>1, <1>3, RewriteTypes, InStepType DEF Types
<1>5. QED
  BY <1>1, <1>3, <1>4 DEF StatusStep, w

LEMMA DeliverTypes ==
    ASSUME Types, Deliver
    PROVE  Types' /\ (StatusStep(Origin) \/ IdleStep)
<1> DEFINE m == copy[Origin]
<1>1. m # None /\ m.status = "sending" /\ arrived' = TRUE /\ UNCHANGED <<ex, time, wish>>
  BY DEF Types, Deliver
<1>2. CASE Becomes(Origin, [m EXCEPT !.status = "delivered"])
  <2>1. "delivered" \in Status /\ Rank(m.status) <= Rank("delivered")
    BY <1>1 DEF Status, Rank
  <2>2. QED
    BY <1>1, <1>2, <2>1, StatusTypes, DevAssumption
<1>3. CASE UNCHANGED <<copy, inStep>>
  BY <1>1, <1>3 DEF Types, IdleStep
<1>4. QED
  BY <1>2, <1>3 DEF Deliver

LEMMA ReadTypes ==
    ASSUME Types, NEW d \in Dev, ReadReceipt(d)
    PROVE  Types' /\ StatusStep(d)
<1>1. /\ copy[d] # None /\ Becomes(d, [copy[d] EXCEPT !.status = "read"])
      /\ copy[d].status \in {"delivered", "sent"}
      /\ UNCHANGED <<ex, time, arrived, wish>>
  BY DEF ReadReceipt
<1>2. "read" \in Status /\ Rank(copy[d].status) <= Rank("read")
  BY <1>1 DEF Status, Rank
<1>3. arrived' \in BOOLEAN
  BY <1>1 DEF Types
<1>4. QED
  BY <1>1, <1>2, <1>3, StatusTypes

LEMMA MergedType ==
    ASSUME NEW x \in Message \cup {None}, NEW n \in Message
    PROVE  Merged(x, n) \in Message
<1>1. CASE x = None
  BY <1>1, ForeignIs DEF Merged
<1>2. CASE x # None
  BY <1>2, MergedJoins DEF Joins, Fields
<1>3. QED
  BY <1>1, <1>2

\* The frame of an exchange that goes on.
LEMMA FrameType ==
    ASSUME Types, NEW c \in Dev, NEW s \in Dev, NEW x \in Frame \cup {None}, SetEx(c, s, x)
    PROVE  /\ ex' \in [Dev -> [Dev -> Frame \cup {None}]]
           /\ ex'[c][s] = x
           /\ \A a, b \in Dev : a # c \/ b # s => ex'[a][b] = ex[a][b]
BY DEF Types, SetEx

\* A step of an exchange sends what is on a device or passes on what was sent.
LEMMA SpreadIs ==
    ASSUME Types, NEW c \in Dev, NEW s \in Dev, NEW x \in Frame \cup {None}, SetEx(c, s, x),
           UNCHANGED <<time, arrived, wish>>, inStep' \in [Dev -> SUBSET Dev],
           NEW d \in Dev, NEW n \in Held,
           copy' = copy \/ copy' = [copy EXCEPT ![d] = Merged(copy[d], n)],
           \/ x = None \/ x.msg = None \/ x.msg \in Held \/ \E e \in Dev : x.msg = copy'[e]
    PROVE  Types' /\ SpreadStep
<1>1. n \in Message
  BY DEF Held
<1>2. Merged(copy[d], n) \in Message
  BY <1>1, MergedType DEF Types
<1>3. copy' \in [Dev -> Message \cup {None}] /\ copy'[Origin] # None
  BY <1>2, NoneAssumption, DevAssumption DEF Types
<1>4. \A e \in Dev : copy'[e] = copy[e] \/ \E m \in Held : copy'[e] = Merged(copy[e], m)
  BY DEF Types
<1>5. /\ ex' \in [Dev -> [Dev -> Frame \cup {None}]] /\ ex'[c][s] = x
      /\ \A a, b \in Dev : a # c \/ b # s => ex'[a][b] = ex[a][b]
  BY FrameType
<1>6. \A m \in Held' : m \in Held \/ \E e \in Dev : m = copy'[e]
  <2>1. SUFFICES ASSUME NEW m \in Message, NEW a \in Dev, NEW b \in Dev,
                        ex'[a][b] # None, ex'[a][b].msg = m
                 PROVE  m \in Held \/ \E e \in Dev : m = copy'[e]
    BY DEF Held
  <2>2. CASE a # c \/ b # s
    BY <1>5, <2>1, <2>2 DEF Held
  <2>3. CASE a = c /\ b = s
    BY <1>5, <2>1, <2>3, NoneAssumption
  <2>4. QED
    BY <2>2, <2>3
<1>7. QED
  BY <1>3, <1>4, <1>5, <1>6 DEF Types, SpreadStep

\* A step of an exchange that leaves the copies alone.
LEMMA QuietIs ==
    ASSUME Types, NEW c \in Dev, NEW s \in Dev, NEW x \in Frame \cup {None}, SetEx(c, s, x),
           UNCHANGED <<copy, inStep, time, arrived, wish>>,
           \/ x = None \/ x.msg = None \/ x.msg \in Held
    PROVE  Types' /\ SpreadStep
<1>1. copy[Origin] \in Held
  BY CopyIs, DevAssumption DEF Types
<1>2. inStep' \in [Dev -> SUBSET Dev]
  BY DEF Types
<1>3. QED
  BY <1>1, <1>2, SpreadIs

LEMMA DigestIs == \A m \in Message \cup {None} : Hash(m) \in {Hash(n) : n \in Message \cup {None}}
OBVIOUS

LEMMA NoneIsDigest == None \in {Hash(n) : n \in Message \cup {None}}
BY DEF Hash

LEMMA FrameChange ==
    ASSUME Types, NEW c \in Dev, NEW s \in Dev, ex[c][s] # None
    PROVE  /\ ex[c][s] \in Frame
           /\ ex[c][s].msg # None => ex[c][s].msg \in Held
BY DEF Types, Held, Frame

LEMMA HelloTypes ==
    ASSUME Types, NEW c \in Dev, NEW s \in Dev, Hello(c, s)
    PROVE  Types' /\ SpreadStep
<1> DEFINE x == [step |-> "hello", list |-> Hash(copy[c]), msg |-> None, want |-> FALSE]
<1>1. SetEx(c, s, x) /\ UNCHANGED <<copy, inStep, time, arrived, wish>>
  BY DEF Hello
<1>2. Hash(copy[c]) \in {Hash(n) : n \in Message \cup {None}}
  BY DigestIs DEF Types
<1>3. x \in Frame /\ x.msg = None
  BY <1>2 DEF Frame
<1> HIDE DEF x
<1>4. QED
  BY <1>1, <1>3, QuietIs

LEMMA ListsTypes ==
    ASSUME Types, NEW c \in Dev, NEW s \in Dev, Lists(c, s)
    PROVE  Types' /\ SpreadStep
<1> DEFINE same == Hash(copy[s]) = ex[c][s].list
           to == IF same THEN "last" ELSE "lists"
           lst == IF same THEN None ELSE Hash(copy[s])
           x == [ex[c][s] EXCEPT !.step = to, !.list = lst]
<1>1. SetEx(c, s, x) /\ UNCHANGED <<copy, inStep, time, arrived, wish>> /\ ex[c][s] # None
  BY DEF Lists
<1>2. ex[c][s] \in Frame /\ (ex[c][s].msg # None => ex[c][s].msg \in Held)
  BY <1>1, FrameChange
<1>3. lst \in {Hash(n) : n \in Message \cup {None}} /\ to \in {"last", "lists"}
  BY DigestIs, NoneIsDigest DEF Types
<1> HIDE DEF to, lst
<1>4. x \in Frame /\ x.msg = ex[c][s].msg
  BY <1>2, <1>3 DEF Frame
<1> HIDE DEF x
<1>5. QED
  BY <1>1, <1>2, <1>4, QuietIs

LEMMA PlanTypes ==
    ASSUME Types, NEW c \in Dev, NEW s \in Dev, Plan(c, s)
    PROVE  Types' /\ SpreadStep
<1> DEFINE differs == Hash(copy[c]) # ex[c][s].list
           msg == IF differs THEN copy[c] ELSE None
           want == differs /\ ex[c][s].list # None
           x == [ex[c][s] EXCEPT !.step = "plan", !.list = None, !.msg = msg, !.want = want]
<1>1. SetEx(c, s, x) /\ UNCHANGED <<copy, inStep, time, arrived, wish>> /\ ex[c][s] # None
  BY DEF Plan
<1>2. ex[c][s] \in Frame
  BY <1>1, FrameChange
<1>3. msg \in Message \cup {None} /\ (msg = None \/ msg \in Held) /\ want \in BOOLEAN
  BY CopyIs DEF Types
<1> HIDE DEF msg, want
<1>4. x \in Frame /\ x.msg = msg
  BY <1>2, <1>3, NoneIsDigest DEF Frame
<1> HIDE DEF x
<1>5. QED
  BY <1>1, <1>3, <1>4, QuietIs

LEMMA ServeTypes ==
    ASSUME Types, NEW c \in Dev, NEW s \in Dev, Serve(c, s)
    PROVE  Types' /\ SpreadStep
<1> DEFINE n == ex[c][s].msg
           msg == IF ex[c][s].want THEN copy'[s] ELSE None
           x == [ex[c][s] EXCEPT !.step = "last", !.want = FALSE, !.msg = msg]
<1>1. /\ SetEx(c, s, x) /\ UNCHANGED <<time, arrived, wish>> /\ ex[c][s] # None
      /\ Apply(s, n)
  BY DEF Serve
<1>2. ex[c][s] \in Frame /\ n \in Message \cup {None} /\ (n # None => n \in Held)
  BY <1>1, FrameChange DEF Frame
<1>3. PICK h \in Held : copy' = copy \/ copy' = [copy EXCEPT ![s] = Merged(copy[s], h)]
  <2>1. CASE n = None
    <3>1. copy[Origin] \in Held /\ copy' = copy
      BY <1>1, <2>1, CopyIs, DevAssumption DEF Types, Apply
    <3>2. QED
      BY <3>1
  <2>2. CASE n # None
    BY <1>1, <1>2, <2>2 DEF Apply, Becomes
  <2>3. QED
    BY <2>1, <2>2
<1>4. inStep' \in [Dev -> SUBSET Dev]
  BY <1>1, InStepType DEF Apply, Types
<1>5. copy'[s] \in Message \cup {None}
  <2>1. Merged(copy[s], h) \in Message
    BY MergedType DEF Types, Held
  <2>2. QED
    BY <1>3, <2>1 DEF Types
<1>6. msg \in Message \cup {None} /\ (msg = None \/ \E e \in Dev : msg = copy'[e])
  BY <1>5
<1> HIDE DEF msg, n
<1>7. x \in Frame /\ x.msg = msg
  BY <1>2, <1>6 DEF Frame
<1> HIDE DEF x
<1>8. QED
  BY <1>1, <1>3, <1>4, <1>6, <1>7, SpreadIs

LEMMA LastTypes ==
    ASSUME Types, NEW c \in Dev, NEW s \in Dev, Last(c, s)
    PROVE  Types' /\ SpreadStep
<1> DEFINE n == ex[c][s].msg
           now == IF n = None THEN copy[c] ELSE Merged(copy[c], n)
<1>1. /\ SetEx(c, s, None) /\ UNCHANGED <<time, arrived, wish>> /\ ex[c][s] # None
      /\ copy' = [copy EXCEPT ![c] = now]
  BY DEF Last
<1>2. n \in Message \cup {None} /\ (n # None => n \in Held)
  BY <1>1, FrameChange DEF Frame
<1>3. PICK h \in Held : copy' = copy \/ copy' = [copy EXCEPT ![c] = Merged(copy[c], h)]
  <2>1. CASE n = None
    <3>1. copy[Origin] \in Held /\ copy' = copy
      BY <1>1, <2>1, CopyIs, DevAssumption DEF Types
    <3>2. QED
      BY <3>1
  <2>2. CASE n # None
    BY <1>1, <1>2, <2>2
  <2>3. QED
    BY <2>1, <2>2
<1>4. inStep' \in [Dev -> SUBSET Dev]
  BY DEF Last, InStep, Types
<1>5. QED
  BY <1>1, <1>3, <1>4, SpreadIs

LEMMA LostTypes ==
    ASSUME Types, NEW c \in Dev, NEW s \in Dev, Lost(c, s)
    PROVE  Types' /\ SpreadStep
BY QuietIs DEF Lost

LEMMA RefreshTypes ==
    ASSUME Types, NEW c \in Dev, NEW s \in Dev, Refresh(c, s)
    PROVE  Types' /\ IdleStep
BY DEF Types, Refresh, IdleStep

\* A step keeps the types, and is one of the steps above for the copies.
LEMMA StepTypes ==
    ASSUME Types, [Next]_vars
    PROVE  Types' /\ CopyStep
<1>1. CASE UNCHANGED vars
  BY <1>1 DEF Types, vars, CopyStep, IdleStep
<1>2. ASSUME NEW d \in Dev, Edit(d) PROVE Types' /\ CopyStep
  BY <1>2, EditTypes DEF CopyStep
<1>3. ASSUME NEW d \in Dev, Unsend(d) PROVE Types' /\ CopyStep
  BY <1>3, UnsendTypes DEF CopyStep
<1>4. ASSUME NEW d \in Dev, ReadReceipt(d) PROVE Types' /\ CopyStep
  BY <1>4, ReadTypes DEF CopyStep
<1>5. ASSUME NEW d \in Dev, NEW r \in Emoji, React(d, r) PROVE Types' /\ CopyStep
  BY <1>5, ReactTypes DEF CopyStep
<1>6. CASE Preview
  BY <1>6, PreviewTypes DEF CopyStep
<1>7. CASE Deliver
  BY <1>7, DeliverTypes, DevAssumption DEF CopyStep
<1>8. ASSUME NEW c \in Dev, NEW s \in Dev, Exchange(c, s) PROVE Types' /\ CopyStep
  BY <1>8, HelloTypes, ListsTypes, PlanTypes, ServeTypes, LastTypes DEF Exchange, CopyStep
<1>9. ASSUME NEW c \in Dev, NEW s \in Dev, Lost(c, s) PROVE Types' /\ CopyStep
  BY <1>9, LostTypes DEF CopyStep
<1>10. ASSUME NEW c \in Dev, NEW s \in Dev, Refresh(c, s) PROVE Types' /\ CopyStep
  BY <1>10, RefreshTypes DEF CopyStep
<1>11. QED
  BY <1>1, <1>2, <1>3, <1>4, <1>5, <1>6, <1>7, <1>8, <1>9, <1>10 DEF Next

LEMMA InitTypes == Init => Types
<1> SUFFICES ASSUME Init PROVE Types
  OBVIOUS
<1> DEFINE m == [status |-> "sending", text |-> 1, edited |-> FALSE, deleted |-> FALSE,
                 preview |-> FALSE, rev |-> 0, textRev |-> 0, clk |-> [r \in Emoji |-> None]]
<1>1. m \in Message
  BY DEF Message, Status
<1>2. copy = [d \in Dev |-> IF d # Origin THEN None ELSE m]
  BY DEF Init
<1> HIDE DEF m
<1>3. copy \in [Dev -> Message \cup {None}] /\ copy[Origin] # None
  BY <1>1, <1>2, NoneAssumption, DevAssumption
<1>4. /\ ex \in [Dev -> [Dev -> Frame \cup {None}]] /\ inStep \in [Dev -> SUBSET Dev]
      /\ time \in Nat \ {0} /\ arrived \in BOOLEAN
      /\ wish \in [link : BOOLEAN, text : Nat, unsent : BOOLEAN, react : SUBSET Emoji]
  <2>1. ex = [c \in Dev |-> [e \in Dev |-> None]] /\ inStep = [c \in Dev |-> {}] /\ time = 1
        /\ arrived = FALSE
    BY DEF Init
  <2>2. ex \in [Dev -> [Dev -> Frame \cup {None}]]
    BY <2>1
  <2>3. inStep \in [Dev -> SUBSET Dev]
    BY <2>1
  <2>4. wish \in [link : BOOLEAN, text : {1}, unsent : {FALSE}, react : {{}}]
    BY DEF Init
  <2>5. wish \in [link : BOOLEAN, text : Nat, unsent : BOOLEAN, react : SUBSET Emoji]
    <3>1. {1} \subseteq Nat /\ {{}} \subseteq SUBSET Emoji
      OBVIOUS
    <3>2. {FALSE} \subseteq BOOLEAN
      BY Zenon
    <3>4. QED
      BY <2>4, <3>1, <3>2
  <2>6. time \in Nat \ {0}
    BY <2>1
  <2>7. arrived \in BOOLEAN
    BY <2>1, Zenon
  <2>8. QED
    BY <2>2, <2>3, <2>5, <2>6, <2>7
<1>5. QED
  BY <1>3, <1>4 DEF Types

(***************************************************************************)
(* The stamps of a copy.                                                   *)
(***************************************************************************)
AllStamped == \A m \in Held : Stamped(m)

LEMMA MergedStamped ==
    ASSUME NEW x \in Message \cup {None}, NEW n \in Message, x # None => Stamped(x), Stamped(n)
    PROVE  Stamped(Merged(x, n))
<1>1. CASE x = None
  BY <1>1, ForeignIs DEF Merged, Stamped
<1>2. CASE x # None
  <2>1. PICK o, m, w : o = Ours(x, n) /\ m = Theirs(x, n) /\ w = Merged(x, n)
    OBVIOUS
  <2>2. Joins(o, m, w) /\ o \in Message /\ m \in Message /\ Stamped(o) /\ Stamped(m)
    BY <1>2, <2>1, MergedJoins, OursIs
  <2>3. /\ o.rev \in Nat /\ m.rev \in Nat /\ o.textRev \in Nat /\ m.textRev \in Nat
        /\ w.rev = Higher(o.rev, m.rev) /\ o.textRev <= o.rev /\ m.textRev <= m.rev
    BY <2>2 DEF Joins, Fields, Message, Stamped
  <2>4. w.textRev = o.textRev \/ w.textRev = m.textRev
    BY <2>2, <2>3, HigherIs DEF Joins, Fields
  <2>5. o.rev <= w.rev /\ m.rev <= w.rev /\ w.rev \in Nat
    BY <2>3, HigherIs
  <2>6. w.textRev <= w.rev
    BY <2>3, <2>4, <2>5
  <2>7. ASSUME NEW r \in Emoji, w.clk[r] # None PROVE w.clk[r].at <= w.rev
    <3>1. PICK a, b : a = o.clk[r] /\ b = m.clk[r]
      OBVIOUS
    <3>2. /\ a \in Clock \cup {None} /\ b \in Clock \cup {None}
          /\ a # None => a.at <= o.rev
          /\ b # None => b.at <= m.rev
      BY <2>2, <3>1 DEF Stamped, Message
    <3>3. w.clk[r] = a \/ w.clk[r] = LaterClock(a, b)
      BY <2>2, <3>1 DEF Joins, Clocks
    <3>4. w.clk[r] = a \/ w.clk[r] = b
      BY <3>2, <3>3, LaterClockIs
    <3>5. (a # None => a.at \in Nat) /\ (b # None => b.at \in Nat)
      BY <3>2 DEF Clock
    <3>6. QED
      BY <2>3, <2>5, <2>7, <3>2, <3>4, <3>5
  <2>8. QED
    BY <2>1, <2>6, <2>7 DEF Stamped
<1>3. QED
  BY <1>1, <1>2

\* What one copy has, the other has too.
After(a, b) ==
    /\ a.deleted => b.deleted
    /\ Rank(a.status) <= Rank(b.status) /\ a.rev <= b.rev /\ a.textRev <= b.textRev
    /\ \A r \in Emoji : a.clk[r] # None => b.clk[r] # None /\ a.clk[r].at <= b.clk[r].at

LEMMA AfterSame == \A m \in Message : After(m, m)
<1> SUFFICES ASSUME NEW m \in Message PROVE After(m, m)
  OBVIOUS
<1>1. m.rev \in Nat /\ m.textRev \in Nat /\ Rank(m.status) \in Nat
  BY DEF Message, Rank, Status
<1>2. \A r \in Emoji : m.clk[r] # None => m.clk[r].at \in Nat
  BY DEF Message, Clock
<1>3. QED
  BY <1>1, <1>2 DEF After

LEMMA MergedAfter ==
    ASSUME NEW o \in Message, NEW n \in Message
    PROVE  After(o, Merged(o, n))
<1>1. PICK x, m, w : x = Ours(o, n) /\ m = Theirs(o, n) /\ w = Merged(o, n)
  OBVIOUS
<1>2. /\ Joins(x, m, w) /\ Rank(w.status) = Higher(Rank(o.status), Rank(n.status))
      /\ x \in Message /\ m \in Message
      /\ x.rev = o.rev /\ x.deleted = o.deleted /\ o.textRev <= x.textRev
  BY <1>1, MergedJoins, OursIs DEF SameButClocks
<1>3. /\ o.rev \in Nat /\ m.rev \in Nat /\ o.textRev \in Nat /\ x.textRev \in Nat
      /\ m.textRev \in Nat /\ Rank(o.status) \in Nat /\ Rank(n.status) \in Nat
  BY <1>2 DEF Message, Rank, Status
<1>4. Rank(o.status) <= Rank(w.status) /\ o.rev <= w.rev /\ (o.deleted => w.deleted)
  <2>1. w.rev = Higher(o.rev, m.rev) /\ (o.deleted => w.deleted)
    BY <1>2 DEF Joins, Fields
  <2>2. QED
    BY <1>2, <1>3, <2>1, HigherIs
<1>5. o.textRev <= w.textRev
  <2>1. CASE x.deleted
    BY <1>2, <1>3, <2>1 DEF Joins, Fields
  <2>2. CASE ~x.deleted /\ m.deleted
    <3>1. w.textRev = Higher(x.textRev, m.textRev)
      BY <1>2, <2>2 DEF Joins, Fields
    <3>2. QED
      BY <1>2, <1>3, <3>1 DEF Higher
  <2>3. CASE ~x.deleted /\ ~m.deleted /\ TextNewer(x, m)
    <3>1. w.textRev = m.textRev
      BY <1>2, <2>3 DEF Joins, Fields, Takes
    <3>2. QED
      BY <1>2, <1>3, <2>3, <3>1 DEF TextNewer
  <2>4. CASE ~x.deleted /\ ~m.deleted /\ ~TextNewer(x, m)
    <3>1. ~w.deleted
      BY <1>2, <2>4 DEF Joins, Fields
    <3>2. w.textRev = x.textRev
      BY <1>2, <2>4, <3>1 DEF Joins, Fields, Takes
    <3>3. QED
      BY <1>2, <1>3, <3>2
  <2>5. QED
    BY <2>1, <2>2, <2>3, <2>4
<1>6. ASSUME NEW r \in Emoji, o.clk[r] # None
      PROVE  w.clk[r] # None /\ o.clk[r].at <= w.clk[r].at
  <2>1. PICK a, b : a = o.clk[r] /\ b = m.clk[r]
    OBVIOUS
  <2>2. x.clk[r] = a
    BY <1>1, <1>6, <2>1 DEF Ours, LegacyClocks, Clocked
  <2>3. a \in Clock /\ b \in Clock \cup {None}
    BY <1>2, <1>6, <2>1 DEF Message
  <2>4. w.clk[r] = a \/ w.clk[r] = LaterClock(a, b)
    BY <1>2, <2>1, <2>2 DEF Joins, Clocks
  <2>5. a # None /\ a.at \in Nat /\ (b # None => b.at \in Nat)
    BY <1>6, <2>1, <2>3 DEF Clock
  <2>6. w.clk[r] # None /\ a.at <= w.clk[r].at
    BY <2>3, <2>4, <2>5 DEF LaterClock
  <2>7. QED
    BY <2>1, <2>6
<1>7. QED
  BY <1>1, <1>4, <1>5, <1>6 DEF After

\* A change is stamped above all that the copy has.
LEMMA ChangedAfter ==
    ASSUME NEW m \in Message, Stamped(m), NEW rev \in Nat, m.rev < rev
    PROVE  /\ \A t \in Nat : ~m.deleted => After(m, Edited(m, t, rev)) /\ Stamped(Edited(m, t, rev))
           /\ After(m, Unsent(m, rev)) /\ Stamped(Unsent(m, rev))
           /\ \A r \in Emoji, on \in BOOLEAN :
                 After(m, Reacted(m, r, rev, on)) /\ Stamped(Reacted(m, r, rev, on))
           /\ After(m, Previewed(m, rev)) /\ Stamped(Previewed(m, rev))
           /\ \A st \in Status : Rank(m.status) <= Rank(st)
                 => After(m, WithStatus(m, st)) /\ Stamped(WithStatus(m, st))
<1>1. /\ m.rev \in Nat /\ m.textRev \in Nat /\ Rank(m.status) \in Nat
      /\ m.textRev <= m.rev
  BY DEF Message, Rank, Status, Stamped
<1>2. \A r \in Emoji : m.clk[r] # None => m.clk[r].at \in Nat /\ m.clk[r].at <= m.rev
  BY DEF Message, Clock, Stamped
<1>3. ASSUME NEW w, w.deleted = m.deleted \/ w.deleted, Rank(m.status) <= Rank(w.status),
             w.rev = m.rev \/ w.rev = rev, w.textRev = m.textRev \/ (w.textRev = rev /\ w.rev = rev),
             w.clk = m.clk
      PROVE  After(m, w) /\ Stamped(w)
  BY <1>1, <1>2, <1>3 DEF After, Stamped
<1>4. ASSUME NEW t \in Nat PROVE After(m, Edited(m, t, rev)) /\ Stamped(Edited(m, t, rev))
  <2> DEFINE w == Edited(m, t, rev)
  <2>1. /\ w.deleted = m.deleted \/ w.deleted
        /\ Rank(m.status) <= Rank(w.status)
        /\ w.rev = m.rev \/ w.rev = rev
        /\ w.textRev = m.textRev \/ (w.textRev = rev /\ w.rev = rev)
        /\ w.clk = m.clk
    <3>1. /\ w.status = m.status /\ w.deleted = m.deleted /\ w.rev = rev /\ w.textRev = rev
          /\ w.clk = m.clk
      BY EditedIs
    <3>2. QED
      BY <1>1, <3>1
  <2> HIDE DEF w
  <2>2. QED
    BY <1>3, <2>1 DEF w
<1>5. After(m, Unsent(m, rev)) /\ Stamped(Unsent(m, rev))
  <2> DEFINE w == Unsent(m, rev)
  <2>1. /\ w.deleted = m.deleted \/ w.deleted
        /\ Rank(m.status) <= Rank(w.status)
        /\ w.rev = m.rev \/ w.rev = rev
        /\ w.textRev = m.textRev \/ (w.textRev = rev /\ w.rev = rev)
        /\ w.clk = m.clk
    BY <1>1, UnsentIs
  <2> HIDE DEF w
  <2>2. QED
    BY <1>3, <2>1 DEF w
<1>6. ASSUME NEW r \in Emoji, NEW on \in BOOLEAN
      PROVE  After(m, Reacted(m, r, rev, on)) /\ Stamped(Reacted(m, r, rev, on))
  <2> DEFINE w == Reacted(m, r, rev, on)
  <2>1. /\ w \in Message /\ w.status = m.status /\ w.deleted = m.deleted
        /\ w.rev = rev /\ w.textRev = m.textRev /\ w.clk[r] = [at |-> rev, on |-> on]
        /\ \A q \in Emoji \ {r} : w.clk[q] = m.clk[q]
    BY ReactedIs
  <2> HIDE DEF w
  <2>2. [at |-> rev, on |-> on] # None /\ w.clk[r].at = rev
    BY <2>1, NoneAssumption DEF Clock
  <2>3. \A q \in Emoji : m.clk[q] # None => w.clk[q] # None /\ m.clk[q].at <= w.clk[q].at
    BY <1>1, <1>2, <2>1, <2>2
  <2>4. \A q \in Emoji : w.clk[q] # None => w.clk[q].at <= w.rev
    BY <1>1, <1>2, <2>1, <2>2
  <2>5. QED
    BY <1>1, <2>1, <2>3, <2>4 DEF After, Stamped, w
<1>7. After(m, Previewed(m, rev)) /\ Stamped(Previewed(m, rev))
  <2> DEFINE w == Previewed(m, rev)
  <2>1. /\ w.deleted = m.deleted \/ w.deleted
        /\ Rank(m.status) <= Rank(w.status)
        /\ w.rev = m.rev \/ w.rev = rev
        /\ w.textRev = m.textRev \/ (w.textRev = rev /\ w.rev = rev)
        /\ w.clk = m.clk
    BY <1>1, PreviewedIs
  <2> HIDE DEF w
  <2>2. QED
    BY <1>3, <2>1 DEF w
<1>8. ASSUME NEW st \in Status, Rank(m.status) <= Rank(st)
      PROVE  After(m, WithStatus(m, st)) /\ Stamped(WithStatus(m, st))
  <2> DEFINE w == WithStatus(m, st)
  <2>1. /\ w.deleted = m.deleted \/ w.deleted
        /\ Rank(m.status) <= Rank(w.status)
        /\ w.rev = m.rev \/ w.rev = rev
        /\ w.textRev = m.textRev \/ (w.textRev = rev /\ w.rev = rev)
        /\ w.clk = m.clk
    BY <1>1, <1>8, WithStatusIs
  <2> HIDE DEF w
  <2>2. QED
    BY <1>3, <2>1 DEF w
<1>9. QED
  BY <1>4, <1>5, <1>6, <1>7, <1>8

\* Every device's copy has what it had.
CopiesGrow == \A d \in Dev : copy[d] # None => copy'[d] # None /\ After(copy[d], copy'[d])

LEMMA RewriteGrows ==
    ASSUME Types, AllStamped, NEW d \in Dev, NEW w, Rewrites(d, w), copy[d] # None,
           After(copy[d], w), Stamped(w)
    PROVE  AllStamped' /\ CopiesGrow
<1>1. /\ copy'[d] = w /\ \A e \in Dev \ {d} : copy'[e] = copy[e]
      /\ Held' \subseteq Held \cup {w} /\ w # None
  BY RewriteTypes, NoneAssumption DEF Rewrites
<1>2. AllStamped'
  BY <1>1 DEF AllStamped
<1>3. \A e \in Dev : copy[e] # None => After(copy[e], copy[e])
  BY CopyIs, AfterSame
<1>4. QED
  BY <1>1, <1>2, <1>3 DEF CopiesGrow

LEMMA SpreadGrows ==
    ASSUME Types, AllStamped, SpreadStep
    PROVE  AllStamped' /\ CopiesGrow
<1>1. \A d \in Dev : copy[d] # None => Stamped(copy[d]) /\ copy[d] \in Message
  BY CopyIs DEF AllStamped
<1>2. ASSUME NEW d \in Dev
      PROVE  /\ copy'[d] # None => Stamped(copy'[d])
             /\ copy[d] # None => copy'[d] # None /\ After(copy[d], copy'[d])
  <2>1. CASE copy'[d] = copy[d]
    BY <1>1, <2>1, AfterSame
  <2>2. ASSUME NEW m \in Held, copy'[d] = Merged(copy[d], m)
        PROVE  /\ copy'[d] # None => Stamped(copy'[d])
               /\ copy[d] # None => copy'[d] # None /\ After(copy[d], copy'[d])
    <3>1. m \in Message /\ Stamped(m) /\ copy[d] \in Message \cup {None}
      BY DEF Held, AllStamped, Types
    <3>2. Stamped(copy'[d]) /\ copy'[d] # None
      BY <1>1, <2>2, <3>1, MergedStamped, MergedType, NoneAssumption
    <3>3. copy[d] # None => After(copy[d], copy'[d])
      BY <1>1, <2>2, <3>1, MergedAfter
    <3>4. QED
      BY <3>2, <3>3
  <2>3. QED
    BY <2>1, <2>2 DEF SpreadStep
<1>3. \A m \in Held' : m # None
  BY NoneAssumption DEF Held
<1>4. AllStamped'
  BY <1>2, <1>3 DEF AllStamped, SpreadStep
<1>5. QED
  BY <1>2, <1>4 DEF CopiesGrow

LEMMA StampStep ==
    ASSUME Types, AllStamped, CopyStep
    PROVE  AllStamped' /\ CopiesGrow
<1>0. ASSUME NEW d \in Dev, copy[d] # None
      PROVE  copy[d] \in Message /\ Stamped(copy[d])
  BY <1>0, CopyIs DEF AllStamped
<1>1. ASSUME NEW d \in Dev, copy[d] # None, Passes
      PROVE  /\ copy[d] \in Message /\ Stamped(copy[d]) /\ time' \in Nat
             /\ BumpRev(d, copy[d]) \in Nat /\ copy[d].rev < BumpRev(d, copy[d])
  BY <1>0, <1>1, BumpRevIs, PassesIs
<1>2. ASSUME NEW d \in Dev, EditStep(d) PROVE AllStamped' /\ CopiesGrow
  <2> DEFINE w == Edited(copy[d], time', BumpRev(d, copy[d]))
  <2>1. copy[d] # None /\ ~copy[d].deleted /\ Passes /\ Rewrites(d, w)
    BY <1>2 DEF EditStep
  <2>2. After(copy[d], w) /\ Stamped(w)
    BY <1>1, <2>1, ChangedAfter
  <2> HIDE DEF w
  <2>3. QED
    BY <2>1, <2>2, RewriteGrows
<1>3. ASSUME NEW d \in Dev, UnsendStep(d) PROVE AllStamped' /\ CopiesGrow
  <2> DEFINE w == Unsent(copy[d], BumpRev(d, copy[d]))
  <2>1. copy[d] # None /\ Passes /\ Rewrites(d, w)
    BY <1>3 DEF UnsendStep
  <2>2. After(copy[d], w) /\ Stamped(w)
    BY <1>1, <2>1, ChangedAfter
  <2> HIDE DEF w
  <2>3. QED
    BY <2>1, <2>2, RewriteGrows
<1>4. ASSUME NEW d \in Dev, ReactStep(d) PROVE AllStamped' /\ CopiesGrow
  <2>1. PICK r \in Emoji, on \in BOOLEAN : Rewrites(d, Reacted(copy[d], r, BumpRev(d, copy[d]), on))
    BY <1>4 DEF ReactStep
  <2> DEFINE w == Reacted(copy[d], r, BumpRev(d, copy[d]), on)
  <2>2. copy[d] # None /\ Passes /\ Rewrites(d, w)
    BY <1>4, <2>1 DEF ReactStep
  <2>3. After(copy[d], w) /\ Stamped(w)
    BY <1>1, <2>2, ChangedAfter
  <2> HIDE DEF w
  <2>4. QED
    BY <2>2, <2>3, RewriteGrows
<1>5. ASSUME NEW d \in Dev, StatusStep(d) PROVE AllStamped' /\ CopiesGrow
  <2>1. PICK st \in Status : /\ Rank(copy[d].status) <= Rank(st)
                            /\ Rewrites(d, WithStatus(copy[d], st))
    BY <1>5 DEF StatusStep
  <2> DEFINE w == WithStatus(copy[d], st)
  <2>2. copy[d] # None /\ Rewrites(d, w)
    BY <1>5, <2>1 DEF StatusStep
  <2>3. PICK rev \in Nat : copy[d].rev < rev
    <3>1. copy[d].rev \in Nat /\ copy[d].rev < copy[d].rev + 1
      BY <1>0, <2>2 DEF Message
    <3>2. QED
      BY <3>1
  <2>4. After(copy[d], w) /\ Stamped(w)
    BY <1>0, <2>1, <2>2, <2>3, ChangedAfter
  <2> HIDE DEF w
  <2>5. QED
    BY <2>2, <2>4, RewriteGrows
<1>6. CASE PreviewStep
  <2> DEFINE w == Previewed(copy[Origin], BumpRev(Origin, copy[Origin]))
  <2>1. Origin \in Dev /\ copy[Origin] # None /\ Passes /\ Rewrites(Origin, w)
    BY <1>6, DevAssumption DEF PreviewStep, Types
  <2>2. After(copy[Origin], w) /\ Stamped(w)
    BY <1>1, <2>1, ChangedAfter
  <2> HIDE DEF w
  <2>3. QED
    BY <2>1, <2>2, RewriteGrows
<1>7. CASE SpreadStep
  BY <1>7, SpreadGrows
<1>8. CASE IdleStep
  BY <1>8, CopyIs, AfterSame DEF IdleStep, AllStamped, CopiesGrow, Held
<1>9. QED
  BY <1>2, <1>3, <1>4, <1>5, <1>6, <1>7, <1>8 DEF CopyStep

LEMMA InitHeld ==
    ASSUME Init, NEW m \in Held
    PROVE  /\ m = copy[Origin] /\ m.status = "sending" /\ m.text = 1 /\ ~m.edited /\ ~m.deleted
           /\ m.rev = 0 /\ m.textRev = 0 /\ m.clk = [r \in Emoji |-> None]
BY NoneAssumption, DevAssumption DEF Init, Held

LEMMA InitStamped == Init => AllStamped
<1> SUFFICES ASSUME Init, NEW m \in Held PROVE Stamped(m)
  BY DEF AllStamped
<1>1. m.rev = 0 /\ m.textRev = 0 /\ m.clk = [r \in Emoji |-> None]
  BY InitHeld
<1>2. QED
  BY <1>1 DEF Stamped

LEMMA StampsAlways == Spec => [](Types /\ AllStamped)
<1>1. Init => Types /\ AllStamped
  BY InitTypes, InitStamped
<1>2. Types /\ AllStamped /\ [Next]_vars => (Types /\ AllStamped)'
  BY StepTypes, StampStep
<1>3. QED
  BY <1>1, <1>2, PTL DEF Spec

\* Every variable keeps its type, and the stamp of a copy is never below those
\* of its parts, whatever the skew of the devices' clocks: the next change of a
\* copy is stamped above everything the copy has.
THEOREM TypeCorrect == Spec => []TypeOK
<1>1. Types /\ AllStamped => TypeOK
  <2>1. SUFFICES ASSUME Types, AllStamped PROVE TypeOK
    OBVIOUS
  <2>2. \A d \in Dev : copy[d] # None => Stamped(copy[d])
    BY <2>1, CopyIs DEF AllStamped
  <2>3. \A c, s \in Dev : ex[c][s] # None => ex[c][s] \in Frame
    BY <2>1 DEF Types
  <2>4. QED
    BY <2>1, <2>2, <2>3 DEF Types, TypeOK, Stamped, Frame
<1>2. QED
  BY <1>1, StampsAlways, PTL

\* What a device has is never taken back, whatever copies reach it in which
\* order and however its clock is skewed: it does not lose the message, an
\* unsend stays, the delivery moves forward, and no stamp of the text or of a
\* reaction goes back to an earlier one.
NeverTakenBack == [][CopiesGrow]_vars

THEOREM NeverTakenBackAlways == Spec => NeverTakenBack
<1>1. Types /\ AllStamped /\ [Next]_vars => [CopiesGrow]_vars
  BY StepTypes, StampStep
<1>2. QED
  BY <1>1, StampsAlways, PTL DEF Spec, NeverTakenBack

(***************************************************************************)
(* What the person wanted, while the devices' clocks differ by less than   *)
(* the time between two changes.                                           *)
(***************************************************************************)
ClocksClose == \A d, e \in Dev : \A g \in Gap : Skew[d] < Skew[e] + g

\* The stamp s is one of time t or before, by some device's clock, or before t
\* by the clock of every device.
Past(s, t) == \E d \in Dev : s <= t + Skew[d]
Before(s, t) == \A d \in Dev : s < t + Skew[d]

\* Copy m has the last text, stamped when it was written; or an older one.
HasText(m, w) ==
    /\ m.text = w.text
    /\ IF w.text = 1 THEN m.textRev = 0 ELSE \E d \in Dev : m.textRev = w.text + Skew[d]
OlderText(m, w) == w.text > 1 /\ Before(m.textRev, w.text)

\* At time t and with wish w: the stamp of a copy is in the past, and that of its
\* text tells whether it is the last; only what was unsent is; and every change
\* is one of the text or of a reaction.
Right(m, t, w) ==
    /\ Sound(m) \/ (w.link /\ UnsentIsStamped(m))
    /\ Stamped(m) /\ Past(m.rev, t)
    /\ ~m.deleted => (m.edited <=> m.textRev > 0)
    /\ m.deleted => w.unsent
    /\ ~w.unsent => HasText(m, w) \/ OlderText(m, w)

AllRight == \A m \in Held : Right(m, time, wish)

\* Clock a of a reaction is not later than clock b.
NotLater(a, b) == a = None \/ (b # None /\ (a.at < b.at \/ a = b))

\* Copy m has the last choice of reaction r.
HasLast(m, r) ==
    /\ r \in Reactions(m) <=> r \in wish.react
    /\ \A n \in Held : NotLater(n.clk[r], m.clk[r])

\* Some device has what was wanted last.
UnsendKept == wish.unsent => \E d \in Dev : copy[d] # None /\ copy[d].deleted
TextKept == ~wish.unsent => \E d \in Dev : copy[d] # None /\ HasText(copy[d], wish)
ReactionKept ==
    ~wish.unsent /\ ~wish.link
    => \A r \in Emoji : \E d \in Dev : copy[d] # None /\ HasLast(copy[d], r)

WishInv == AllRight /\ UnsendKept /\ TextKept /\ ReactionKept

\* What is in the past is before the next change, by every device's clock.
LEMMA PastIsBefore ==
    ASSUME Types, ClocksClose, Passes, NEW s \in Nat, Past(s, time)
    PROVE  Before(s, time')
<1>1. PICK g \in Gap : time' = time + g
  BY DEF Passes
<1>2. PICK e \in Dev : s <= time + Skew[e]
  BY DEF Past
<1>3. SUFFICES ASSUME NEW d \in Dev PROVE s < time' + Skew[d]
  BY DEF Before
<1>4. Skew[e] < Skew[d] + g
  BY DEF ClocksClose
<1>5. g \in Nat /\ time \in Nat /\ Skew[d] \in Nat /\ Skew[e] \in Nat
  BY GapAssumption, DevAssumption DEF Types
<1>6. QED
  BY <1>1, <1>2, <1>4, <1>5

\* Copies with one stamp of the text of which one has the last text both have it.
LEMMA SameText ==
    ASSUME NEW a \in Message, NEW b \in Message, NEW t, NEW w, Right(b, t, w),
           ~w.unsent, w.text \in Nat, HasText(a, w), a.textRev = b.textRev
    PROVE  HasText(b, w)
<1>1. SUFFICES ASSUME OlderText(b, w) PROVE FALSE
  BY DEF Right
<1>2. w.text > 1
  BY <1>1 DEF OlderText
<1>3. PICK d \in Dev : a.textRev = w.text + Skew[d]
  BY <1>2 DEF HasText
<1>4. b.textRev < w.text + Skew[d]
  BY <1>1 DEF OlderText, Before
<1>5. b.textRev \in Nat /\ w.text + Skew[d] \in Nat
  BY DevAssumption DEF Message
<1>6. QED
  BY <1>3, <1>4, <1>5

\* The last text is stamped after every older one.
LEMMA OlderIsEarlier ==
    ASSUME NEW a \in Message, NEW b \in Message, NEW w, w.text \in Nat,
           HasText(a, w), HasText(b, w) \/ OlderText(b, w)
    PROVE  HasText(b, w) \/ b.textRev < a.textRev
<1>1. SUFFICES ASSUME OlderText(b, w) PROVE b.textRev < a.textRev
  OBVIOUS
<1>2. w.text > 1
  BY <1>1 DEF OlderText
<1>3. PICK d \in Dev : a.textRev = w.text + Skew[d]
  BY <1>2 DEF HasText
<1>4. QED
  BY <1>1, <1>3 DEF OlderText, Before

\* What is right stays so as time goes on and the wish changes.
LEMMA RightLater ==
    ASSUME NEW m \in Message, NEW t \in Nat, NEW u \in Nat, NEW w, NEW v, Right(m, t, w), t <= u,
           v.link = w.link, w.unsent => v.unsent,
           ~v.unsent => v.text = w.text \/ (v.text = u /\ u > 1 /\ Before(m.rev, u))
    PROVE  Right(m, u, v)
<1>1. m.textRev \in Nat /\ m.rev \in Nat /\ m.textRev <= m.rev
  BY DEF Right, Stamped, Message
<1>2. Past(m.rev, u)
  <2>1. PICK d \in Dev : m.rev <= t + Skew[d]
    BY DEF Right, Past
  <2>2. Skew[d] \in Nat
    BY DevAssumption
  <2>3. m.rev <= u + Skew[d]
    BY <1>1, <2>1, <2>2
  <2>4. QED
    BY <2>3 DEF Past
<1>3. ASSUME ~v.unsent PROVE HasText(m, v) \/ OlderText(m, v)
  <2>1. CASE v.text = w.text
    BY <1>3, <2>1 DEF Right, HasText, OlderText
  <2>2. CASE v.text = u /\ u > 1 /\ Before(m.rev, u)
    <3>1. \A d \in Dev : m.textRev < u + Skew[d]
      <4>1. SUFFICES ASSUME NEW d \in Dev PROVE m.textRev < u + Skew[d]
        OBVIOUS
      <4>2. m.rev < u + Skew[d] /\ Skew[d] \in Nat
        BY <2>2, DevAssumption DEF Before
      <4>3. QED
        BY <1>1, <4>2
    <3>2. QED
      BY <2>2, <3>1 DEF OlderText, Before
  <2>3. QED
    BY <1>3, <2>1, <2>2
<1>4. QED
  BY <1>2, <1>3 DEF Right

LEMMA RightForeign ==
    ASSUME NEW n \in Message, NEW t \in Nat, NEW w, Right(n, t, w)
    PROVE  Right(Foreign(n), t, w)
<1> DEFINE f == Foreign(n)
<1>1. /\ f.text = n.text /\ f.edited = n.edited /\ f.deleted = n.deleted
      /\ f.rev = n.rev /\ f.textRev = n.textRev /\ f.clk = n.clk
  BY ForeignIs
<1> HIDE DEF f
<1>2. (Sound(f) <=> Sound(n)) /\ (UnsentIsStamped(f) <=> UnsentIsStamped(n))
      /\ (Stamped(f) <=> Stamped(n))
  BY <1>1 DEF Sound, AllClocked, Clocked, UnsentIsStamped, Stamped
<1>3. (HasText(f, w) <=> HasText(n, w)) /\ (OlderText(f, w) <=> OlderText(n, w))
  BY <1>1 DEF HasText, OlderText
<1>4. QED
  BY <1>1, <1>2, <1>3 DEF Right, f

LEMMA RightIsOfThisBuild ==
    ASSUME NEW m \in Message, NEW t, NEW w, Right(m, t, w)
    PROVE  ThisBuild(m)
<1>1. m.deleted => m.textRev > 0
  BY DEF Right, Sound, UnsentIsStamped
<1>2. ~m.deleted /\ m.edited => m.textRev > 0
  BY DEF Right
<1>3. QED
  BY <1>1, <1>2 DEF ThisBuild, AllClocked, Clocked

LEMMA RightMerged ==
    ASSUME NEW o \in Message, NEW n \in Message, NEW t \in Nat, NEW w,
           Right(o, t, w), Right(n, t, w)
    PROVE  Right(Merged(o, n), t, w)
<1> DEFINE x == Merged(o, n)
<1>1. MergeMakes(o, n, x)
  BY MergedMakes, RightIsOfThisBuild
<1>2. Stamped(x)
  BY MergedStamped DEF Right
<1> HIDE DEF x
<1>3. /\ o.rev \in Nat /\ n.rev \in Nat /\ o.textRev \in Nat /\ n.textRev \in Nat
      /\ x.rev = Higher(o.rev, n.rev)
  BY <1>1 DEF MergeMakes, Fields, Message
<1>4. Past(x.rev, t)
  <2>1. x.rev = o.rev \/ x.rev = n.rev
    BY <1>3, HigherIs
  <2>2. QED
    BY <2>1 DEF Right
<1>5. x.deleted <=> o.deleted \/ n.deleted
  BY <1>1 DEF MergeMakes, Fields
<1>6. ~x.deleted => \/ x.text = o.text /\ x.edited = o.edited /\ x.textRev = o.textRev
                    \/ x.text = n.text /\ x.edited = n.edited /\ x.textRev = n.textRev
  BY <1>1, <1>5 DEF MergeMakes, Fields, Takes
<1>7. x.deleted => w.unsent
  BY <1>5 DEF Right
<1>8. ~x.deleted => (x.edited <=> x.textRev > 0)
  BY <1>5, <1>6 DEF Right
<1>9. ASSUME ~w.unsent PROVE HasText(x, w) \/ OlderText(x, w)
  <2>1. ~x.deleted
    BY <1>7, <1>9
  <2>2. HasText(o, w) \/ OlderText(o, w)
    BY <1>9 DEF Right
  <2>3. HasText(n, w) \/ OlderText(n, w)
    BY <1>9 DEF Right
  <2>4. CASE x.text = o.text /\ x.textRev = o.textRev
    BY <2>2, <2>4 DEF HasText, OlderText
  <2>5. CASE x.text = n.text /\ x.textRev = n.textRev
    BY <2>3, <2>5 DEF HasText, OlderText
  <2>6. QED
    BY <1>6, <2>1, <2>4, <2>5
<1>10. UnsentIsStamped(x)
  <2>1. UnsentIsStamped(o) /\ UnsentIsStamped(n)
    BY DEF Right, Sound
  <2>2. CASE o.deleted
    BY <1>1, <2>1, <2>2 DEF MergeMakes, Fields, UnsentIsStamped
  <2>3. CASE ~o.deleted /\ n.deleted
    <3>1. x.textRev = Higher(o.textRev, n.textRev) /\ n.textRev > 0
      BY <1>1, <2>1, <2>3 DEF MergeMakes, Fields, UnsentIsStamped
    <3>2. x.textRev > 0
      BY <1>3, <3>1 DEF Higher
    <3>3. QED
      BY <3>2 DEF UnsentIsStamped
  <2>4. CASE ~o.deleted /\ ~n.deleted
    BY <1>1, <2>4 DEF MergeMakes, Fields, UnsentIsStamped
  <2>5. QED
    BY <2>2, <2>3, <2>4
<1>11. ~w.link => Sound(x)
  <2>1. SUFFICES ASSUME ~w.link PROVE Sound(x)
    OBVIOUS
  <2>2. Sound(o) /\ Sound(n)
    BY <2>1 DEF Right
  <2>3. QED
    BY <1>1, <2>2, ClocksAreLatest
<1>12. QED
  BY <1>2, <1>4, <1>7, <1>8, <1>9, <1>10, <1>11 DEF Right, x

\* A copy that is changed next is stamped with the time, after every other stamp.
LEMMA ChangeIsNow ==
    ASSUME Types, ClocksClose, AllRight, Passes, NEW d \in Dev, copy[d] # None
    PROVE  /\ copy[d] \in Message /\ Right(copy[d], time, wish)
           /\ BumpRev(d, copy[d]) = time' + Skew[d]
           /\ \A m \in Held : m \in Message /\ m.rev < time' + Skew[d]
                              /\ Before(m.rev, time')
<1>1. copy[d] \in Message /\ copy[d] \in Held /\ Right(copy[d], time, wish)
  BY CopyIs DEF AllRight
<1>2. ASSUME NEW m \in Held
      PROVE  m \in Message /\ m.rev < time' + Skew[d] /\ Before(m.rev, time')
  <2>1. m \in Message /\ m.rev \in Nat /\ Past(m.rev, time)
    BY DEF AllRight, Right, Held, Message
  <2>2. Before(m.rev, time')
    BY <2>1, PastIsBefore
  <2>3. QED
    BY <2>1, <2>2 DEF Before
<1>3. BumpRev(d, copy[d]) = time' + Skew[d]
  <2>1. copy[d].rev < time' + Skew[d] /\ copy[d].rev \in Nat
    BY <1>1, <1>2 DEF Message
  <2>2. time' \in Nat /\ Skew[d] \in Nat
    BY PassesIs, DevAssumption
  <2>3. QED
    BY <2>1, <2>2 DEF BumpRev
<1>4. QED
  BY <1>1, <1>2, <1>3

\* A stamp of now, by a device's clock.
Stamps(rev, u, m) == \E d \in Dev : rev = u + Skew[d] /\ m.rev < rev

LEMMA StampsIs ==
    ASSUME NEW u \in Nat, u > 1, NEW m \in Message, NEW rev, Stamps(rev, u, m)
    PROVE  rev \in Nat /\ rev > 0 /\ m.rev < rev /\ Past(rev, u)
<1>1. PICK d \in Dev : rev = u + Skew[d] /\ m.rev < rev
  BY DEF Stamps
<1>2. Skew[d] \in Nat
  BY DevAssumption
<1>3. rev \in Nat /\ rev > 0
  BY <1>1, <1>2
<1>4. Past(rev, u)
  BY <1>1, <1>3 DEF Past
<1>5. QED
  BY <1>1, <1>3, <1>4

LEMMA RightEdited ==
    ASSUME NEW m \in Message, NEW t, NEW u \in Nat, NEW w, NEW v, Right(m, t, w),
           ~m.deleted, u > 1, NEW rev, Stamps(rev, u, m), v.text = u
    PROVE  Right(Edited(m, u, rev), u, v) /\ HasText(Edited(m, u, rev), v)
<1> DEFINE x == Edited(m, u, rev)
<1>1. rev \in Nat /\ rev > 0 /\ m.rev < rev /\ Past(rev, u)
  BY StampsIs
<1>2. x.deleted = m.deleted /\ x.rev = rev /\ x.textRev = rev
  BY <1>1, EditedIs, ZenonT(40)
<1>3. x.text = u /\ x.edited
  BY <1>1, EditedText, ZenonT(40)
<1>4. Stamped(x)
  BY <1>1, ChangedAfter DEF Right
<1> HIDE DEF x
<1>5. Sound(x)
  BY <1>1, <1>2 DEF Sound, AllClocked, Clocked, UnsentIsStamped
<1>6. HasText(x, v)
  <2>1. \E d \in Dev : x.textRev = v.text + Skew[d]
    BY <1>2 DEF Stamps
  <2>2. QED
    BY <1>3, <2>1 DEF HasText
<1>7. x.edited <=> x.textRev > 0
  BY <1>1, <1>2, <1>3
<1>8. Past(x.rev, u)
  BY <1>1, <1>2
<1>9. QED
  BY <1>2, <1>4, <1>5, <1>6, <1>7, <1>8 DEF Right, x

LEMMA RightUnsent ==
    ASSUME NEW m \in Message, NEW t, NEW u \in Nat, NEW w, NEW v, Right(m, t, w),
           u > 1, NEW rev, Stamps(rev, u, m), v.unsent
    PROVE  Right(Unsent(m, rev), u, v)
<1> DEFINE x == Unsent(m, rev)
<1>1. rev \in Nat /\ rev > 0 /\ m.rev < rev /\ Past(rev, u)
  BY StampsIs
<1>2. x.deleted /\ x.rev = rev /\ x.textRev = rev
  BY <1>1, UnsentIs
<1>3. Stamped(x)
  BY <1>1, ChangedAfter DEF Right
<1> HIDE DEF x
<1>4. Sound(x)
  BY <1>1, <1>2 DEF Sound, AllClocked, Clocked, UnsentIsStamped
<1>5. QED
  BY <1>1, <1>2, <1>3, <1>4 DEF Right, x

LEMMA RightReacted ==
    ASSUME NEW m \in Message, NEW t, NEW u \in Nat, NEW w, NEW v, Right(m, t, w),
           u > 1, NEW rev, Stamps(rev, u, m), NEW r \in Emoji, NEW on \in BOOLEAN,
           v.unsent = w.unsent, v.text = w.text
    PROVE  Right(Reacted(m, r, rev, on), u, v)
<1> DEFINE x == Reacted(m, r, rev, on)
<1>1. rev \in Nat /\ rev > 0 /\ m.rev < rev /\ Past(rev, u)
  BY StampsIs
<1>2. /\ x.deleted = m.deleted /\ x.text = m.text /\ x.edited = m.edited
      /\ x.rev = rev /\ x.textRev = m.textRev /\ x.clk[r] = [at |-> rev, on |-> on]
  BY <1>1, ReactedIs
<1>3. Stamped(x)
  BY <1>1, ChangedAfter DEF Right
<1> HIDE DEF x
<1>4. x.clk[r] # None
  BY <1>1, <1>2, NoneAssumption DEF Clock
<1>5. UnsentIsStamped(m)
  BY DEF Right, Sound
<1>6. Sound(x)
  BY <1>2, <1>4, <1>5 DEF Sound, AllClocked, Clocked, UnsentIsStamped
<1>7. (HasText(x, v) <=> HasText(m, w)) /\ (OlderText(x, v) <=> OlderText(m, w))
  BY <1>2 DEF HasText, OlderText
<1>8. QED
  BY <1>1, <1>2, <1>3, <1>6, <1>7 DEF Right, x

LEMMA RightPreviewed ==
    ASSUME NEW m \in Message, NEW t, NEW u \in Nat, NEW w, Right(m, t, w),
           u > 1, NEW rev, Stamps(rev, u, m), w.link
    PROVE  Right(Previewed(m, rev), u, w)
<1> DEFINE x == Previewed(m, rev)
<1>1. rev \in Nat /\ m.rev < rev /\ Past(rev, u)
  BY StampsIs
<1>2. /\ x.deleted = m.deleted /\ x.text = m.text /\ x.edited = m.edited
      /\ x.rev = rev /\ x.textRev = m.textRev
  BY <1>1, PreviewedIs
<1>3. Stamped(x)
  BY <1>1, ChangedAfter DEF Right
<1> HIDE DEF x
<1>4. UnsentIsStamped(m)
  BY DEF Right, Sound
<1>5. UnsentIsStamped(x)
  BY <1>2, <1>4 DEF UnsentIsStamped
<1>6. (HasText(x, w) <=> HasText(m, w)) /\ (OlderText(x, w) <=> OlderText(m, w))
  BY <1>2 DEF HasText, OlderText
<1>7. QED
  BY <1>1, <1>2, <1>3, <1>5, <1>6 DEF Right, x

LEMMA RightStatus ==
    ASSUME NEW m \in Message, NEW t, NEW w, Right(m, t, w), NEW st \in Status
    PROVE  Right(WithStatus(m, st), t, w)
<1> DEFINE f == WithStatus(m, st)
<1>1. /\ f.text = m.text /\ f.edited = m.edited /\ f.deleted = m.deleted
      /\ f.rev = m.rev /\ f.textRev = m.textRev /\ f.clk = m.clk
  BY WithStatusIs
<1> HIDE DEF f
<1>2. (Sound(f) <=> Sound(m)) /\ (UnsentIsStamped(f) <=> UnsentIsStamped(m))
      /\ (Stamped(f) <=> Stamped(m))
  BY <1>1 DEF Sound, AllClocked, Clocked, UnsentIsStamped, Stamped
<1>3. (HasText(f, w) <=> HasText(m, w)) /\ (OlderText(f, w) <=> OlderText(m, w))
  BY <1>1 DEF HasText, OlderText
<1>4. QED
  BY <1>1, <1>2, <1>3 DEF Right, f

(***************************************************************************)
(* A change keeps what was wanted last.                                    *)
(***************************************************************************)
LEMMA RewriteRight ==
    ASSUME Types, AllRight, NEW d \in Dev, NEW x, Rewrites(d, x), time' \in Nat, time <= time',
           wish'.link = wish.link, wish.unsent => wish'.unsent,
           \/ wish'.text = wish.text
           \/ wish'.text = time' /\ time' > 1 /\ \A m \in Held : Before(m.rev, time'),
           Right(x, time', wish')
    PROVE  AllRight'
<1>1. Held' \subseteq Held \cup {x}
  BY RewriteTypes
<1>2. \A m \in Held : Right(m, time', wish')
  BY RightLater DEF AllRight, Held, Types
<1>3. QED
  BY <1>1, <1>2 DEF AllRight

LEMMA RewriteText ==
    ASSUME Types, TextKept, NEW d \in Dev, NEW x, Rewrites(d, x), copy[d] # None,
           x.text = copy[d].text, x.textRev = copy[d].textRev,
           wish'.text = wish.text, wish'.unsent = wish.unsent
    PROVE  TextKept'
<1>1. copy'[d] = x /\ x # None /\ \A e \in Dev \ {d} : copy'[e] = copy[e]
  BY RewriteTypes, NoneAssumption DEF Rewrites
<1>2. SUFFICES ASSUME ~wish'.unsent PROVE \E e \in Dev : copy'[e] # None /\ HasText(copy'[e], wish')
  BY DEF TextKept
<1>3. PICK e \in Dev : copy[e] # None /\ HasText(copy[e], wish)
  BY <1>2 DEF TextKept
<1>4. copy'[e] # None /\ copy'[e].text = copy[e].text /\ copy'[e].textRev = copy[e].textRev
  BY <1>1, <1>3
<1>5. HasText(copy'[e], wish')
  BY <1>3, <1>4 DEF HasText
<1>6. QED
  BY <1>4, <1>5

LEMMA RewriteReactions ==
    ASSUME Types, ReactionKept, NEW d \in Dev, NEW x, Rewrites(d, x), copy[d] # None,
           x.clk = copy[d].clk, wish'.react = wish.react, wish'.link = wish.link,
           wish'.unsent = wish.unsent
    PROVE  ReactionKept'
<1>1. /\ copy'[d] = x /\ x # None /\ \A e \in Dev \ {d} : copy'[e] = copy[e]
      /\ Held' \subseteq Held \cup {x}
  BY RewriteTypes, NoneAssumption DEF Rewrites
<1>2. SUFFICES ASSUME ~wish.unsent, ~wish.link, NEW r \in Emoji
               PROVE  \E e \in Dev : copy'[e] # None /\ HasLast(copy[e], r)'
  BY DEF ReactionKept
<1>3. PICK e \in Dev : copy[e] # None /\ HasLast(copy[e], r)
  BY <1>2 DEF ReactionKept
<1>4. copy'[e] # None /\ copy'[e].clk = copy[e].clk
  BY <1>1, <1>3
<1>5. copy[d] \in Held
  BY CopyIs
<1>6. \A n \in Held' : \E m \in Held : n.clk = m.clk
  BY <1>1, <1>5
<1>7. HasLast(copy[e], r)'
  BY <1>3, <1>4, <1>6 DEF HasLast, Reactions
<1>8. QED
  BY <1>4, <1>7

LEMMA UnsendStays ==
    ASSUME UnsendKept, CopiesGrow, wish'.unsent = wish.unsent
    PROVE  UnsendKept'
<1>1. SUFFICES ASSUME wish.unsent PROVE \E d \in Dev : copy'[d] # None /\ copy'[d].deleted
  BY DEF UnsendKept
<1>2. PICK d \in Dev : copy[d] # None /\ copy[d].deleted
  BY <1>1 DEF UnsendKept
<1>3. copy'[d] # None /\ copy'[d].deleted
  BY <1>2 DEF CopiesGrow, After
<1>4. QED
  BY <1>3

LEMMA EditKeeps ==
    ASSUME Types, ClocksClose, WishInv, NEW d \in Dev, EditStep(d), CopiesGrow
    PROVE  WishInv'
<1> DEFINE m == copy[d]
           x == Edited(m, time', BumpRev(d, m))
<1>1. /\ m # None /\ ~m.deleted /\ Passes /\ Rewrites(d, x)
      /\ time' \in Nat /\ time' > 1 /\ time <= time'
      /\ wish'.text = time' /\ wish'.link = wish.link /\ wish'.unsent = wish.unsent
      /\ wish'.react = wish.react
  <2>1. Passes
    BY DEF EditStep
  <2>2. time' \in Nat /\ time' > 1 /\ time <= time'
    BY <2>1, PassesIs DEF Types
  <2>3. QED
    BY <2>2 DEF EditStep, Types
<1>2. /\ m \in Message /\ Right(m, time, wish)
      /\ Stamps(BumpRev(d, m), time', m) /\ BumpRev(d, m) = time' + Skew[d]
      /\ \A n \in Held : n \in Message /\ n.rev < time' + Skew[d] /\ Before(n.rev, time')
  BY <1>1, CopyIs, ChangeIsNow DEF WishInv, Stamps
<1>3. Right(x, time', wish') /\ HasText(x, wish')
  <2>1. PICK u, rev, v : u = time' /\ u \in Nat /\ rev = BumpRev(d, m) /\ v = wish'
    BY <1>1
  <2>2. u > 1 /\ Stamps(rev, u, m) /\ v.text = u
    BY <1>1, <1>2, <2>1
  <2>3. Right(Edited(m, u, rev), u, v) /\ HasText(Edited(m, u, rev), v)
    BY <1>1, <1>2, <2>1, <2>2, RightEdited
  <2>4. QED
    BY <2>1, <2>3
<1>4. x.clk = m.clk
  <2>1. PICK u, rev : u = time' /\ u \in Nat /\ rev = BumpRev(d, m)
    BY <1>1
  <2>2. rev \in Nat
    BY <1>1, <1>2, <2>1, StampsIs
  <2>3. Edited(m, u, rev).clk = m.clk
    BY <1>2, <2>1, <2>2, EditedIs, ZenonT(40)
  <2>4. QED
    BY <2>1, <2>3
<1> HIDE DEF x
<1>5. AllRight'
  BY <1>1, <1>2, <1>3, RewriteRight DEF WishInv
<1>6. copy'[d] = x /\ x # None
  BY <1>1, RewriteTypes, NoneAssumption DEF Rewrites
<1>7. TextKept'
  BY <1>3, <1>6 DEF TextKept
<1>8. ReactionKept'
  BY <1>1, <1>4, RewriteReactions DEF WishInv
<1>9. UnsendKept'
  BY <1>1, UnsendStays DEF WishInv
<1>10. QED
  BY <1>5, <1>7, <1>8, <1>9 DEF WishInv

LEMMA UnsendKeeps ==
    ASSUME Types, ClocksClose, WishInv, NEW d \in Dev, UnsendStep(d)
    PROVE  WishInv'
<1> DEFINE m == copy[d]
           x == Unsent(m, BumpRev(d, m))
<1>1. /\ m # None /\ Passes /\ Rewrites(d, x)
      /\ time' \in Nat /\ time' > 1 /\ time <= time'
      /\ wish'.text = wish.text /\ wish'.link = wish.link /\ wish'.unsent
  <2>1. Passes
    BY DEF UnsendStep
  <2>2. time' \in Nat /\ time' > 1 /\ time <= time'
    BY <2>1, PassesIs DEF Types
  <2>3. QED
    BY <2>2 DEF UnsendStep, Types
<1>2. /\ m \in Message /\ Right(m, time, wish)
      /\ Stamps(BumpRev(d, m), time', m) /\ BumpRev(d, m) = time' + Skew[d]
      /\ \A n \in Held : n \in Message /\ n.rev < time' + Skew[d] /\ Before(n.rev, time')
  BY <1>1, CopyIs, ChangeIsNow DEF WishInv, Stamps
<1>3. Right(x, time', wish')
  <2>1. PICK u, rev, v : u = time' /\ u \in Nat /\ rev = BumpRev(d, m) /\ v = wish'
    BY <1>1
  <2>2. u > 1 /\ Stamps(rev, u, m) /\ v.unsent
    BY <1>1, <1>2, <2>1
  <2>3. Right(Unsent(m, rev), u, v)
    BY <1>2, <2>1, <2>2, RightUnsent
  <2>4. QED
    BY <2>1, <2>3
<1>4. x.deleted
  <2>1. BumpRev(d, m) \in Nat
    BY <1>1, <1>2, StampsIs
  <2>2. QED
    BY <1>2, <2>1, UnsentIs
<1> HIDE DEF x
<1>5. AllRight'
  BY <1>1, <1>3, RewriteRight DEF WishInv
<1>6. copy'[d] = x /\ x # None
  BY <1>1, RewriteTypes, NoneAssumption DEF Rewrites
<1>7. UnsendKept' /\ TextKept' /\ ReactionKept'
  BY <1>1, <1>4, <1>6 DEF UnsendKept, TextKept, ReactionKept
<1>8. QED
  BY <1>5, <1>7 DEF WishInv

LEMMA ReactKeeps ==
    ASSUME Types, ClocksClose, WishInv, NEW d \in Dev, ReactStep(d), CopiesGrow
    PROVE  WishInv'
<1> DEFINE m == copy[d]
<1>1. PICK r \in Emoji, on \in BOOLEAN :
        /\ Rewrites(d, Reacted(m, r, BumpRev(d, m), on))
        /\ wish' = [wish EXCEPT !.react = IF on THEN wish.react \cup {r} ELSE wish.react \ {r}]
  BY DEF ReactStep
<1> DEFINE x == Reacted(m, r, BumpRev(d, m), on)
           react == IF on THEN wish.react \cup {r} ELSE wish.react \ {r}
<1>2. /\ m # None /\ Passes /\ Rewrites(d, x)
      /\ time' \in Nat /\ time' > 1 /\ time <= time'
      /\ wish'.text = wish.text /\ wish'.link = wish.link /\ wish'.unsent = wish.unsent
      /\ wish'.react = react
  <2> HIDE DEF react
  <2>1. wish' = [wish EXCEPT !.react = react]
    BY <1>1 DEF react
  <2>2. /\ wish'.text = wish.text /\ wish'.link = wish.link /\ wish'.unsent = wish.unsent
        /\ wish'.react = react
    BY <2>1 DEF Types
  <2>3. Passes
    BY DEF ReactStep
  <2>4. time' \in Nat /\ time' > 1 /\ time <= time'
    BY <2>3, PassesIs DEF Types
  <2>5. QED
    BY <1>1, <2>2, <2>4 DEF ReactStep
<1>3. /\ m \in Message /\ Right(m, time, wish)
      /\ Stamps(BumpRev(d, m), time', m) /\ BumpRev(d, m) = time' + Skew[d]
      /\ \A n \in Held : n \in Message /\ n.rev < time' + Skew[d] /\ Before(n.rev, time')
  BY <1>2, CopyIs, ChangeIsNow DEF WishInv, Stamps
<1>4. Right(x, time', wish')
  <2>1. PICK u, rev, v : u = time' /\ u \in Nat /\ rev = BumpRev(d, m) /\ v = wish'
    BY <1>2
  <2>2. u > 1 /\ Stamps(rev, u, m) /\ v.unsent = wish.unsent /\ v.text = wish.text
    BY <1>2, <1>3, <2>1
  <2>3. Right(Reacted(m, r, rev, on), u, v)
    BY <1>3, <2>1, <2>2, RightReacted
  <2>4. QED
    BY <2>1, <2>3
<1>5. /\ x.text = m.text /\ x.textRev = m.textRev
      /\ x.clk[r] = [at |-> time' + Skew[d], on |-> on]
      /\ \A q \in Emoji \ {r} : x.clk[q] = m.clk[q]
  <2>1. BumpRev(d, m) \in Nat
    BY <1>2, <1>3, StampsIs
  <2>2. QED
    BY <1>3, <2>1, ReactedIs
<1> HIDE DEF x
<1>6. AllRight'
  BY <1>2, <1>4, RewriteRight DEF WishInv
<1>7. TextKept'
  BY <1>2, <1>5, RewriteText DEF WishInv
<1>8. /\ copy'[d] = x /\ x # None /\ \A e \in Dev \ {d} : copy'[e] = copy[e]
      /\ Held' \subseteq Held \cup {x}
  BY <1>2, RewriteTypes, NoneAssumption DEF Rewrites
<1>9. x.clk[r] # None
  <2>1. time' + Skew[d] \in Nat
    BY <1>2, DevAssumption
  <2>2. QED
    BY <1>5, <2>1, NoneAssumption DEF Clock
<1>10. ReactionKept'
  <2>1. SUFFICES ASSUME ~wish.unsent, ~wish.link, NEW q \in Emoji
                 PROVE  \E e \in Dev : copy'[e] # None /\ HasLast(copy[e], q)'
    BY <1>2 DEF ReactionKept
  <2>2. CASE q = r
    <3>1. \A n \in Held : n.clk[r] # None => n.clk[r].at < time' + Skew[d]
      <4>1. SUFFICES ASSUME NEW n \in Held, n.clk[r] # None PROVE n.clk[r].at < time' + Skew[d]
        OBVIOUS
      <4>2. n \in Message /\ Stamped(n) /\ n.rev < time' + Skew[d]
        BY <1>3 DEF WishInv, AllRight, Right
      <4>3. n.rev \in Nat /\ n.clk[r] \in Clock /\ n.clk[r].at <= n.rev
        BY <4>1, <4>2 DEF Message, Stamped
      <4>4. n.clk[r].at \in Nat
        BY <4>3 DEF Clock
      <4>5. time' + Skew[d] \in Nat
        BY <1>2, DevAssumption
      <4>6. QED
        BY <4>2, <4>3, <4>4, <4>5
    <3>2. \A n \in Held' : NotLater(n.clk[r], x.clk[r])
      BY <1>5, <1>8, <1>9, <3>1 DEF NotLater
    <3>3. r \in Reactions(x) <=> on
      BY <1>5, <1>9 DEF Reactions
    <3>4. r \in wish'.react <=> on
      BY <1>2
    <3>5. HasLast(copy[d], r)'
      BY <1>8, <3>2, <3>3, <3>4 DEF HasLast
    <3>6. QED
      BY <1>8, <2>2, <3>5
  <2>3. CASE q # r
    <3>1. PICK e \in Dev : copy[e] # None /\ HasLast(copy[e], q)
      BY <2>1 DEF WishInv, ReactionKept
    <3>2. copy'[e] # None /\ copy'[e].clk[q] = copy[e].clk[q]
      BY <1>5, <1>8, <2>3, <3>1
    <3>3. \A n \in Held' : \E k \in Held : n.clk[q] = k.clk[q]
      BY <1>2, <1>5, <1>8, <2>3, CopyIs
    <3>4. q \in wish'.react <=> q \in wish.react
      BY <1>2, <2>3
    <3>5. HasLast(copy[e], q)'
      BY <3>1, <3>2, <3>3, <3>4 DEF HasLast, Reactions
    <3>6. QED
      BY <3>2, <3>5
  <2>4. QED
    BY <2>2, <2>3
<1>11. UnsendKept'
  BY <1>2, UnsendStays DEF WishInv
<1>12. QED
  BY <1>6, <1>7, <1>10, <1>11 DEF WishInv

LEMMA PreviewKeeps ==
    ASSUME Types, ClocksClose, WishInv, PreviewStep, CopiesGrow
    PROVE  WishInv'
<1> DEFINE m == copy[Origin]
           x == Previewed(m, BumpRev(Origin, m))
<1>1. /\ Origin \in Dev /\ m # None /\ Passes /\ Rewrites(Origin, x)
      /\ time' \in Nat /\ time' > 1 /\ time <= time' /\ wish' = wish /\ wish.link
  <2>1. Passes
    BY DEF PreviewStep
  <2>2. time' \in Nat /\ time' > 1 /\ time <= time'
    BY <2>1, PassesIs DEF Types
  <2>3. QED
    BY <2>2, DevAssumption DEF PreviewStep, Types
<1>2. /\ m \in Message /\ Right(m, time, wish)
      /\ Stamps(BumpRev(Origin, m), time', m) /\ BumpRev(Origin, m) = time' + Skew[Origin]
      /\ \A n \in Held : n \in Message /\ n.rev < time' + Skew[Origin] /\ Before(n.rev, time')
  BY <1>1, CopyIs, ChangeIsNow DEF WishInv, Stamps
<1>3. Right(x, time', wish')
  <2>1. PICK u, rev : u = time' /\ u \in Nat /\ rev = BumpRev(Origin, m)
    BY <1>1
  <2>2. u > 1 /\ Stamps(rev, u, m)
    BY <1>1, <1>2, <2>1
  <2>3. Right(Previewed(m, rev), u, wish)
    BY <1>1, <1>2, <2>1, <2>2, RightPreviewed
  <2>4. QED
    BY <1>1, <2>1, <2>3
<1>4. x.text = m.text /\ x.textRev = m.textRev
  <2>1. BumpRev(Origin, m) \in Nat
    BY <1>1, <1>2, StampsIs
  <2>2. QED
    BY <1>2, <2>1, PreviewedIs
<1> HIDE DEF x
<1>5. AllRight'
  <2>1. wish'.link = wish.link /\ wish'.unsent = wish.unsent /\ wish'.text = wish.text
    BY <1>1
  <2>2. time <= time'
    BY <1>1
  <2>3. QED
    BY <1>1, <1>3, <2>1, <2>2, RewriteRight DEF WishInv
<1>6. TextKept'
  BY <1>1, <1>4, RewriteText DEF WishInv
<1>7. ReactionKept'
  BY <1>1 DEF ReactionKept
<1>8. UnsendKept'
  BY <1>1, UnsendStays DEF WishInv
<1>9. QED
  BY <1>5, <1>6, <1>7, <1>8 DEF WishInv

LEMMA StatusKeeps ==
    ASSUME Types, WishInv, NEW d \in Dev, StatusStep(d), CopiesGrow
    PROVE  WishInv'
<1> DEFINE m == copy[d]
<1>1. PICK st \in Status : Rewrites(d, WithStatus(m, st))
  BY DEF StatusStep
<1> DEFINE x == WithStatus(m, st)
<1>2. /\ m # None /\ time' = time /\ wish' = wish /\ Rewrites(d, x)
      /\ time \in Nat /\ time' \in Nat
  BY <1>1 DEF StatusStep, Types
<1>3. m \in Message /\ Right(m, time, wish)
  BY <1>2, CopyIs DEF WishInv, AllRight
<1>4. Right(x, time', wish')
  BY <1>2, <1>3, RightStatus
<1>5. x.text = m.text /\ x.textRev = m.textRev /\ x.clk = m.clk
  BY <1>3, WithStatusIs
<1> HIDE DEF x
<1>6. AllRight'
  BY <1>2, <1>4, RewriteRight DEF WishInv
<1>7. TextKept'
  BY <1>2, <1>5, RewriteText DEF WishInv
<1>8. ReactionKept'
  BY <1>2, <1>5, RewriteReactions DEF WishInv
<1>9. UnsendKept'
  BY <1>2, UnsendStays DEF WishInv
<1>10. QED
  BY <1>6, <1>7, <1>8, <1>9 DEF WishInv

(***************************************************************************)
(* An exchange keeps what was wanted last.                                 *)
(***************************************************************************)
\* A device that has the last text keeps it.
LEMMA MergedHasText ==
    ASSUME NEW o \in Message, NEW n \in Message, NEW t \in Nat, NEW w,
           Right(o, t, w), Right(n, t, w), ~w.unsent, w.text \in Nat, HasText(o, w)
    PROVE  HasText(Merged(o, n), w)
<1> DEFINE x == Merged(o, n)
<1>1. MergeMakes(o, n, x)
  BY MergedMakes, RightIsOfThisBuild
<1> HIDE DEF x
<1>2. ~o.deleted /\ ~n.deleted /\ ~x.deleted
  BY <1>1 DEF Right, MergeMakes, Fields
<1>3. HasText(n, w) \/ n.textRev < o.textRev
  BY OlderIsEarlier DEF Right
<1>4. CASE HasText(n, w)
  <2>1. \/ x.text = o.text /\ x.textRev = o.textRev
        \/ x.text = n.text /\ x.textRev = n.textRev
    BY <1>1, <1>2 DEF MergeMakes, Fields, Takes
  <2>2. QED
    BY <1>4, <2>1 DEF HasText, x
<1>5. CASE n.textRev < o.textRev
  <2>1. TextKnown(o, n)
    BY <1>5 DEF TextKnown, Message
  <2>2. /\ x.textRev = Higher(o.textRev, n.textRev)
        /\ x.textRev = o.textRev => x.text = o.text
    BY <1>1, <1>2, <2>1, TextIsLatest DEF MergeMakes
  <2>3. x.textRev = o.textRev
    BY <1>5, <2>2 DEF Higher, Message
  <2>4. QED
    BY <2>2, <2>3 DEF HasText, x
<1>6. QED
  BY <1>3, <1>4, <1>5

\* A clock of a merge is a clock of one of the two.
LEMMA MergedClocks ==
    ASSUME NEW o \in Message, NEW n \in Message, Sound(o), Sound(n), NEW r \in Emoji
    PROVE  /\ Merged(o, n).clk[r] = o.clk[r] \/ Merged(o, n).clk[r] = n.clk[r]
           /\ NotLater(n.clk[r], o.clk[r]) => Merged(o, n).clk[r] = o.clk[r]
<1> DEFINE x == Merged(o, n)
<1>1. MergeMakes(o, n, x)
  BY MergedMakes DEF Sound, ThisBuild
<1> HIDE DEF x
<1>2. /\ x.deleted => x.clk = o.clk
      /\ ~x.deleted => x.clk[r] = LaterClock(o.clk[r], n.clk[r])
  BY <1>1, ClocksAreLatest
<1>3. o.clk[r] \in Clock \cup {None} /\ n.clk[r] \in Clock \cup {None}
  BY DEF Message
<1>4. \A a, b \in Clock \cup {None} :
        NotLater(b, a) => LaterClock(a, b) = a
  BY DEF NotLater, LaterClock, Clock
<1>5. x.clk[r] = o.clk[r] \/ x.clk[r] = n.clk[r]
  BY <1>2, <1>3, LaterClockIs
<1>6. NotLater(n.clk[r], o.clk[r]) => x.clk[r] = o.clk[r]
  BY <1>2, <1>3, <1>4
<1>7. QED
  BY <1>5, <1>6 DEF x

LEMMA SpreadKeeps ==
    ASSUME Types, WishInv, SpreadStep, CopiesGrow
    PROVE  WishInv'
<1>1. /\ time' = time /\ wish' = wish /\ time \in Nat /\ wish.text \in Nat
      /\ \A d \in Dev : copy'[d] = copy[d] \/ \E m \in Held : copy'[d] = Merged(copy[d], m)
      /\ \A m \in Held' : m \in Held \/ \E d \in Dev : m = copy'[d]
  BY DEF SpreadStep, Types
<1>2. \A m \in Held : m \in Message /\ Right(m, time, wish)
  BY DEF WishInv, AllRight, Held
<1>3. \A m \in Held' : m # None
  BY NoneAssumption DEF Held
<1>4. ASSUME NEW d \in Dev, copy'[d] # None
      PROVE  Right(copy'[d], time, wish)
  <2>1. CASE copy'[d] = copy[d]
    BY <1>2, <1>4, <2>1, CopyIs
  <2>2. ASSUME NEW n \in Held, copy'[d] = Merged(copy[d], n)
        PROVE  Right(copy'[d], time, wish)
    <3>1. CASE copy[d] = None
      BY <1>1, <1>2, <2>2, <3>1, RightForeign DEF Merged
    <3>2. CASE copy[d] # None
      BY <1>1, <1>2, <2>2, <3>2, CopyIs, RightMerged
    <3>3. QED
      BY <3>1, <3>2
  <2>3. QED
    BY <1>1, <2>1, <2>2
<1>5. AllRight'
  BY <1>1, <1>2, <1>3, <1>4 DEF AllRight
<1>6. TextKept'
  <2>1. SUFFICES ASSUME ~wish.unsent PROVE \E d \in Dev : copy'[d] # None /\ HasText(copy'[d], wish)
    BY <1>1 DEF TextKept
  <2>2. PICK d \in Dev : copy[d] # None /\ HasText(copy[d], wish)
    BY <2>1 DEF WishInv, TextKept
  <2>3. copy'[d] # None
    BY <2>2 DEF CopiesGrow
  <2>4. copy[d] \in Held
    BY <2>2, CopyIs
  <2>5. ASSUME NEW n \in Held, copy'[d] = Merged(copy[d], n)
        PROVE  HasText(copy'[d], wish)
    BY <1>1, <1>2, <2>1, <2>2, <2>4, <2>5, MergedHasText
  <2>6. HasText(copy'[d], wish)
    BY <1>1, <2>2, <2>5
  <2>7. QED
    BY <2>3, <2>6
<1>7. ReactionKept'
  <2>1. SUFFICES ASSUME ~wish.unsent, ~wish.link, NEW r \in Emoji
                 PROVE  \E d \in Dev : copy'[d] # None /\ HasLast(copy[d], r)'
    BY <1>1 DEF ReactionKept
  <2>2. PICK d \in Dev : copy[d] # None /\ HasLast(copy[d], r)
    BY <2>1 DEF WishInv, ReactionKept
  <2>3. \A m \in Held : m \in Message /\ Sound(m)
    BY <1>2, <2>1 DEF Right
  <2>4. \A m \in Held' : \E n \in Held : m.clk[r] = n.clk[r]
    <3>1. SUFFICES ASSUME NEW m \in Held' PROVE \E n \in Held : m.clk[r] = n.clk[r]
      OBVIOUS
    <3>2. CASE m \in Held
      BY <3>2
    <3>3. ASSUME NEW e \in Dev, m = copy'[e] PROVE \E n \in Held : m.clk[r] = n.clk[r]
      <4>1. CASE copy'[e] = copy[e]
        BY <1>3, <3>3, <4>1, CopyIs
      <4>2. ASSUME NEW n \in Held, copy'[e] = Merged(copy[e], n)
            PROVE  \E k \in Held : m.clk[r] = k.clk[r]
        <5>1. CASE copy[e] = None
          BY <2>3, <3>3, <4>2, <5>1, ForeignIs DEF Merged
        <5>2. CASE copy[e] # None
          BY <2>3, <3>3, <4>2, <5>2, CopyIs, MergedClocks
        <5>3. QED
          BY <5>1, <5>2
      <4>3. QED
        BY <1>1, <4>1, <4>2
    <3>4. QED
      BY <1>1, <3>2, <3>3
  <2>5. copy[d] \in Held
    BY <2>2, CopyIs
  <2>6. copy'[d].clk[r] = copy[d].clk[r]
    <3>1. ASSUME NEW n \in Held, copy'[d] = Merged(copy[d], n)
          PROVE  copy'[d].clk[r] = copy[d].clk[r]
      <4>1. NotLater(n.clk[r], copy[d].clk[r])
        BY <2>2 DEF HasLast
      <4>2. QED
        BY <2>3, <2>5, <3>1, <4>1, MergedClocks
    <3>2. QED
      BY <1>1, <3>1
  <2>7. copy'[d] # None
    BY <2>2 DEF CopiesGrow
  <2>8. HasLast(copy[d], r)'
    BY <1>1, <2>2, <2>4, <2>6 DEF HasLast, Reactions
  <2>9. QED
    BY <2>7, <2>8
<1>8. UnsendKept'
  BY <1>1, UnsendStays DEF WishInv
<1>9. QED
  BY <1>5, <1>6, <1>7, <1>8 DEF WishInv

LEMMA IdleKeeps ==
    ASSUME WishInv, IdleStep
    PROVE  WishInv'
BY DEF IdleStep, WishInv, AllRight, UnsendKept, TextKept, ReactionKept, HasLast, Held

(***************************************************************************)
(* What the devices agree on is what was wanted.                           *)
(***************************************************************************)
LEMMA WishInit == Init => WishInv
<1> SUFFICES ASSUME Init PROVE WishInv
  OBVIOUS
<1>1. /\ time = 1 /\ wish.text = 1 /\ ~wish.unsent /\ wish.react = {}
  BY DEF Init
<1>2. Types /\ Origin \in Dev /\ copy[Origin] # None
  BY InitTypes, DevAssumption DEF Types
<1>3. copy[Origin] \in Held
  BY <1>2, CopyIs
<1>4. AllRight
  <2>1. SUFFICES ASSUME NEW m \in Held PROVE Right(m, time, wish)
    BY DEF AllRight
  <2>2. /\ m.text = 1 /\ ~m.edited /\ ~m.deleted /\ m.rev = 0 /\ m.textRev = 0
    BY InitHeld
  <2>3. Stamped(m)
    BY InitStamped DEF AllStamped
  <2>4. Sound(m)
    BY <2>2 DEF Sound, AllClocked, UnsentIsStamped
  <2>5. Past(m.rev, time)
    <3>1. Skew[Origin] \in Nat
      BY DevAssumption
    <3>2. m.rev <= time + Skew[Origin]
      BY <1>1, <2>2, <3>1
    <3>3. QED
      BY <1>2, <3>2 DEF Past
  <2>6. HasText(m, wish)
    BY <1>1, <2>2 DEF HasText
  <2>7. QED
    BY <2>2, <2>3, <2>4, <2>5, <2>6 DEF Right
<1>5. TextKept
  <2>1. HasText(copy[Origin], wish)
    BY <1>1, <1>3, InitHeld DEF HasText
  <2>2. QED
    BY <1>2, <2>1 DEF TextKept
<1>6. ReactionKept
  <2>1. SUFFICES ASSUME NEW r \in Emoji PROVE HasLast(copy[Origin], r)
    BY <1>2 DEF ReactionKept
  <2>2. \A m \in Held : m.clk[r] = None
    BY InitHeld
  <2>3. QED
    BY <1>1, <1>3, <2>2 DEF HasLast, Reactions, NotLater
<1>7. QED
  BY <1>1, <1>4, <1>5, <1>6 DEF WishInv, UnsendKept

LEMMA WishStep ==
    ASSUME Types, AllStamped, ClocksClose, WishInv, CopyStep
    PROVE  WishInv'
<1>1. CopiesGrow
  BY StampStep
<1>2. ASSUME NEW d \in Dev, EditStep(d) \/ UnsendStep(d) \/ ReactStep(d) \/ StatusStep(d)
      PROVE  WishInv'
  BY <1>1, <1>2, EditKeeps, UnsendKeeps, ReactKeeps, StatusKeeps
<1>3. QED
  BY <1>1, <1>2, PreviewKeeps, SpreadKeeps, IdleKeeps DEF CopyStep

\* Two copies with one digest have the same parts.
LEMMA DigestTells ==
    ASSUME NEW a \in Message, NEW b \in Message, Hash(a) = Hash(b)
    PROVE  /\ Rank(a.status) = Rank(b.status) /\ a.deleted = b.deleted
           /\ a.textRev = b.textRev /\ a.clk = b.clk
<1>1. a # None /\ b # None
  BY NoneAssumption
<1>2. Hash(a) = [rev |-> a.rev, rank |-> Rank(a.status), deleted |-> a.deleted,
                 edited |-> a.edited, textRev |-> a.textRev, clk |-> a.clk]
  BY <1>1 DEF Hash
<1>3. Hash(b) = [rev |-> b.rev, rank |-> Rank(b.status), deleted |-> b.deleted,
                 edited |-> b.edited, textRev |-> b.textRev, clk |-> b.clk]
  BY <1>1 DEF Hash
<1>4. /\ Hash(a).rank = Rank(a.status) /\ Hash(a).deleted = a.deleted
      /\ Hash(a).textRev = a.textRev /\ Hash(a).clk = a.clk
  BY <1>2
<1>5. /\ Hash(b).rank = Rank(b.status) /\ Hash(b).deleted = b.deleted
      /\ Hash(b).textRev = b.textRev /\ Hash(b).clk = b.clk
  BY <1>3
<1>6. QED
  BY <1>4, <1>5

LEMMA WishAgreed ==
    ASSUME Types, WishInv
    PROVE  AgreedIsWanted
<1>1. SUFFICES ASSUME Agreed, NEW d \in Dev
               PROVE  AsWanted(copy[d]) /\ Shown(copy[d]) = Shown(copy[Origin])
  BY DEF AgreedIsWanted
<1>2. \A e \in Dev : copy[e] # None /\ copy[e] \in Message /\ Right(copy[e], time, wish)
  BY <1>1, CopyIs DEF Agreed, WishInv, AllRight
<1>3. \A e \in Dev : /\ Rank(copy[d].status) = Rank(copy[e].status)
                     /\ copy[d].deleted = copy[e].deleted
                     /\ copy[d].textRev = copy[e].textRev /\ copy[d].clk = copy[e].clk
  BY <1>1, <1>2, DigestTells DEF Agreed
<1>4. Origin \in Dev
  BY DevAssumption
<1>5. CASE wish.unsent
  <2>1. PICK e \in Dev : copy[e].deleted
    BY <1>5 DEF WishInv, UnsendKept
  <2>2. copy[d].deleted = TRUE /\ copy[Origin].deleted = TRUE
    BY <1>2, <1>3, <1>4, <2>1 DEF Message
  <2>3. wish.unsent = TRUE
    BY <1>5 DEF Types
  <2>4. QED
    BY <2>2, <2>3 DEF AsWanted, Shown
<1>6. CASE ~wish.unsent
  <2>1. \A e \in Dev : ~copy[e].deleted
    BY <1>2, <1>6 DEF Right
  <2>2. PICK e \in Dev : HasText(copy[e], wish)
    BY <1>6 DEF WishInv, TextKept
  <2>3. wish.text \in Nat
    BY DEF Types
  <2>4. copy[d].text = wish.text /\ copy[Origin].text = wish.text
    <3>1. ASSUME NEW k \in Dev PROVE copy[k].text = wish.text
      <4>1. copy[k].textRev = copy[e].textRev
        BY <1>3
      <4>2. HasText(copy[k], wish)
        BY <1>2, <1>6, <2>2, <2>3, <4>1, SameText
      <4>3. QED
        BY <4>2 DEF HasText
    <3>2. QED
      BY <1>4, <3>1
  <2>5. wish.link \/ Reactions(copy[d]) = wish.react
    <3>1. SUFFICES ASSUME ~wish.link, NEW r \in Emoji
                   PROVE  r \in Reactions(copy[d]) <=> r \in wish.react
      BY DEF Reactions, Types
    <3>2. PICK k \in Dev : HasLast(copy[k], r)
      BY <1>6, <3>1 DEF WishInv, ReactionKept
    <3>3. QED
      BY <1>3, <3>2 DEF HasLast, Reactions
  <2>6. Reactions(copy[d]) = Reactions(copy[Origin])
    BY <1>3, <1>4 DEF Reactions
  <2>7. Shown(copy[d]) = Shown(copy[Origin])
    BY <1>3, <1>4, <2>1, <2>4, <2>6 DEF Shown
  <2>8. copy[d].deleted = FALSE /\ wish.unsent = FALSE
    BY <1>2, <1>6, <2>1 DEF Message, Types
  <2>9. QED
    BY <2>4, <2>5, <2>7, <2>8 DEF AsWanted
<1>7. QED
  BY <1>5, <1>6

\* Whenever the digests of all the devices agree - and they then leave each
\* other alone - every device shows the message alike and as the person last
\* wanted it, whichever devices the changes were made on and whatever exchanges
\* were lost, crossed or repeated on the way; as long as the clocks of the
\* devices, which stamp the changes, differ by less than the time between two
\* changes.
THEOREM AgreedIsWantedAlways ==
    ASSUME ClocksClose
    PROVE  Spec => []AgreedIsWanted
<1>1. Init => Types /\ AllStamped /\ WishInv
  BY InitTypes, InitStamped, WishInit
<1>2. Types /\ AllStamped /\ WishInv /\ [Next]_vars => (Types /\ AllStamped /\ WishInv)'
  BY StepTypes, StampStep, WishStep
<1>3. Types /\ WishInv => AgreedIsWanted
  BY WishAgreed
<1>4. QED
  BY <1>1, <1>2, <1>3, PTL DEF Spec
=============================================================================
