------------------------- MODULE SharedFolderProofs -------------------------
(***************************************************************************)
(* Proofs about SharedFolder, for all contents, sizes, clocks, folders and *)
(* numbers of edits and upsets: no content is lost; and, in a folder with  *)
(* a group id, a delete spares what the deleter had not seen.              *)
(***************************************************************************)
EXTENDS SharedFolder, FiniteSetTheorems, TLAPS

(***************************************************************************)
(* The invariant.                                                          *)
(***************************************************************************)
\* A set of versions has a newest one, unless it is empty.
HasNewest(S) == S # {} => \E v \in S : \A w \in S : w[2] <= v[2]

\* A round that has deletes to bring has one.
RoundInv(m) == beacon[m] # None /\ beacon[m].step = "deletes" => beacon[m].del # None

MemberInv(m) ==
    HasNewest(live[m].inbound) /\ HasNewest(saved[m].manifest) /\ RoundInv(m)

FolderInv == TypeOK /\ NothingLost /\ \A m \in Member : MemberInv(m)

(***************************************************************************)
(* The invariant of a group's folder, in which no two writes get the same  *)
(* mtime: a delete only ever names a size that a user did away with.       *)
(***************************************************************************)
Undone(v, U) == \E u \in U : Size[u[2]] = v[1]

\* What a record of a delete may name.
Names(d, U) == d # None => (d.v # None => Undone(d.v, U))

NamesInv(m) ==
    /\ Names(live[m].pending, undone) /\ Names(live[m].missed, undone)
    /\ Names(saved[m].tombVer, undone)
    /\ beacon[m] # None =>
          Names(beacon[m].del, undone) /\ (beacon[m].named # None => Undone(beacon[m].named, undone))

\* The newest versions a member knows are of the file it has, or were done away with.
Newer(S, v) == \A w \in S : w[2] <= v[2]
KnownAt(S, d, U) ==
    \A v \in S : Newer(S, v) => Undone(v, U) \/ (d # None /\ v = Sig(d))
KnownInv(m) ==
    KnownAt(live[m].inbound, disk[m], undone) /\ KnownAt(saved[m].manifest, disk[m], undone)

\* The files there are, on disks and on their way; the mtime tells the content.
Files == {f \in File : \E m \in Member : f = disk[m] \/ (flight[m] # None /\ f = flight[m].f)}
Timed(F, t) ==
    /\ \A f \in F : f.mt <= t
    /\ \A f, g \in F : f.mt = g.mt => f.c = g.c
TimeInv == Timed(Files, now)

SpareInv ==
    /\ TimeInv /\ DeleteSparesEdits
    /\ \A m \in Member : NamesInv(m) /\ KnownInv(m)

\* What every step keeps.
Good == FolderInv /\ (Group /\ ~ SameSecond => SpareInv)

(***************************************************************************)
(* Members, versions and files.                                            *)
(***************************************************************************)
LEMMA OtherIs == ASSUME NEW m \in Member PROVE other(m) \in Member /\ other(m) # m
<1>1. \E p \in Member : p # m
  <2> SUFFICES ASSUME \A p \in Member : p = m PROVE FALSE
    OBVIOUS
  <2>1. Member = {m}
    OBVIOUS
  <2>2. Cardinality({m}) = 1
    BY FS_Singleton
  <2>3. QED
    BY <2>1, <2>2, MemberAssumption
<1>2. QED
  BY <1>1 DEF other

\* file_sig: the size and the mtime of the file.
LEMMA SigIs ==
    ASSUME NEW f \in File
    PROVE  Sig(f) \in Version /\ Sig(f)[1] = Size[f.c] /\ Sig(f)[2] = f.mt /\ Sig(f) # None
<1>1. f.c \in Content /\ f.mt \in Nat
  BY DEF File
<1>2. PICK a : a = Size[f.c]
  OBVIOUS
<1>3. PICK t : t = f.mt
  OBVIOUS
<1>4. Sig(f) = <<a, t>>
  BY <1>2, <1>3 DEF Sig
<1>5. <<a, t>> \in Version
  BY <1>1, <1>2, <1>3 DEF Version
<1>6. <<a, t>> # None
  BY <1>5, NoneAssumption
<1>7. QED
  BY <1>2, <1>3, <1>4, <1>5, <1>6

LEMMA VersionIs == ASSUME NEW v \in Version PROVE v[2] \in Nat /\ v[1] \in Nat /\ v # None
BY ContentAssumption, NoneAssumption DEF Version

LEMMA FileIs ==
    ASSUME TypeOK, NEW m \in Member, disk[m] # None
    PROVE  disk[m] \in File /\ disk[m].c \in Content /\ disk[m].mt \in Nat /\ disk[m].at \in Nat
BY DEF TypeOK, File

LEMMA MindIs ==
    ASSUME TypeOK, NEW m \in Member
    PROVE  /\ live[m] \in Live /\ saved[m] \in Saved
           /\ live[m].inbound \subseteq Version /\ saved[m].manifest \subseteq Version
           /\ flight[m] # None => /\ flight[m] \in Flight /\ flight[m].f \in File
           /\ beacon[m] # None => beacon[m] \in Round
BY DEF TypeOK, Live, Saved, Flight

\* The newest version, where there is one, is one of them.
LEMMA NewestIs ==
    ASSUME NEW S \in SUBSET Version, S # {}, HasNewest(S)
    PROVE  Newest(S) \in S /\ Newest(S) \in Version /\ Newer(S, Newest(S))
BY DEF Newest, HasNewest, Newer

LEMMA NewestWith ==
    ASSUME NEW S \in SUBSET Version, NEW v \in Version, HasNewest(S)
    PROVE  HasNewest(S \cup {v}) /\ S \cup {v} \in SUBSET Version
<1>1. CASE S = {}
  <2>1. v[2] <= v[2]
    BY VersionIs
  <2>2. QED
    BY <1>1, <2>1 DEF HasNewest
<1>2. CASE S # {}
  <2>1. PICK w \in S : \A x \in S : x[2] <= w[2]
    BY <1>2 DEF HasNewest
  <2>2. w[2] \in Nat /\ v[2] \in Nat /\ \A x \in S : x[2] \in Nat
    BY VersionIs
  <2>3. CASE v[2] <= w[2]
    BY <2>1, <2>3 DEF HasNewest
  <2>4. CASE w[2] <= v[2]
    <3>1. \A x \in S \cup {v} : x[2] <= v[2]
      BY <2>1, <2>2, <2>4
    <3>2. QED
      BY <3>1 DEF HasNewest
  <2>5. QED
    BY <2>2, <2>3, <2>4
<1>3. QED
  BY <1>1, <1>2

LEMMA NoVersions == HasNewest({})
BY DEF HasNewest

(***************************************************************************)
(* What recording a delete changes of what a member keeps.                 *)
(***************************************************************************)
LEMMA TombstonedIs ==
    ASSUME NEW s \in Saved, NEW v \in Version \cup {None}, NEW ts \in Nat
    PROVE  /\ Tombstoned(s, v, ts) \in Saved
           /\ Tombstoned(s, v, ts).manifest = s.manifest
           /\ \/ Tombstoned(s, v, ts).tombVer = s.tombVer
              \/ v # None /\ Tombstoned(s, v, ts).tombVer = [v |-> v, ts |-> ts]
<1>1. PICK n : n = NoteTombstone(s, ts)
  OBVIOUS
<1>2. n \in Saved /\ n.manifest = s.manifest /\ n.tombVer = s.tombVer
  <2>1. CASE ts > s.tomb
    <3>1. n = [s EXCEPT !.tomb = ts]
      BY <1>1, <2>1 DEF NoteTombstone
    <3>2. QED
      BY <3>1 DEF Saved
  <2>2. CASE ~ (ts > s.tomb)
    BY <1>1, <2>2 DEF NoteTombstone
  <2>3. QED
    BY <2>1, <2>2
<1>3. CASE v = None
  BY <1>1, <1>2, <1>3 DEF Tombstoned
<1>4. CASE v # None
  <2>1. Tombstoned(s, v, ts) = NoteTombVersion(n, v, ts)
    BY <1>1, <1>4 DEF Tombstoned
  <2>2. PICK d : d = [v |-> v, ts |-> ts]
    OBVIOUS
  <2>3. d \in DeletedVersion
    BY <1>4, <2>2 DEF DeletedVersion
  <2>4. CASE n.tombVer = None \/ ts >= n.tombVer.ts
    <3>1. Tombstoned(s, v, ts) = [n EXCEPT !.tombVer = d]
      BY <2>1, <2>2, <2>4 DEF NoteTombVersion
    <3>2. QED
      BY <1>2, <1>4, <2>2, <2>3, <3>1 DEF Saved
  <2>5. CASE ~ (n.tombVer = None \/ ts >= n.tombVer.ts)
    BY <1>2, <2>1, <2>5 DEF NoteTombVersion
  <2>6. QED
    BY <2>4, <2>5
<1>5. QED
  BY <1>3, <1>4

LEMMA RecordedIs ==
    ASSUME NEW s \in Saved, NEW S \in SUBSET Version, NEW ts \in Nat
    PROVE  /\ RecordDeleted(s, S, ts) \in Saved
           /\ RecordDeleted(s, S, ts).manifest = s.manifest
           /\ RecordDeleted(s, S, ts).tombVer = s.tombVer
<1>1. PICK D : D = s.deleted \cup {[v |-> v, ts |-> ts] : v \in S}
  OBVIOUS
<1>2. D \in SUBSET DeletedVersion
  BY <1>1 DEF Saved, DeletedVersion
<1>3. RecordDeleted(s, S, ts) = [s EXCEPT !.deleted = D]
  BY <1>1 DEF RecordDeleted
<1>4. QED
  BY <1>2, <1>3 DEF Saved

LEMMA PendIs ==
    ASSUME NEW l \in Live, NEW v \in Version \cup {None}, NEW ts \in Nat
    PROVE  /\ Pend(l, v, ts) \in Live
           /\ Pend(l, v, ts).missed = l.missed
           /\ Pend(l, v, ts).pending \in {l.pending, [v |-> v, ts |-> ts]}
<1>1. PICK d : d = [v |-> v, ts |-> ts]
  OBVIOUS
<1>2. d \in Delete
  BY <1>1 DEF Delete
<1>3. CASE l.pending = None
  <2>1. Pend(l, v, ts) = [l EXCEPT !.pending = d]
    BY <1>1, <1>3 DEF Pend
  <2>2. QED
    BY <1>1, <1>2, <2>1 DEF Live
<1>4. CASE l.pending # None
  BY <1>4 DEF Pend
<1>5. QED
  BY <1>3, <1>4

\* What a member records of a delete it makes or applies: v is named, the versions
\* S are noted as deleted.
Recorded(s, v, S, ts) == RecordDeleted(Tombstoned(s, v, ts), S, ts)

LEMMA RecordKeeps ==
    ASSUME NEW s \in Saved, NEW v \in Version \cup {None}, NEW S \in SUBSET Version, NEW ts \in Nat
    PROVE  /\ Recorded(s, v, S, ts) \in Saved /\ Recorded(s, v, S, ts).manifest = s.manifest
           /\ \/ Recorded(s, v, S, ts).tombVer = s.tombVer
              \/ v # None /\ Recorded(s, v, S, ts).tombVer = [v |-> v, ts |-> ts]
<1>1. PICK t : t = Tombstoned(s, v, ts)
  OBVIOUS
<1>2. /\ t \in Saved /\ t.manifest = s.manifest
      /\ t.tombVer = s.tombVer \/ (v # None /\ t.tombVer = [v |-> v, ts |-> ts])
  BY <1>1, TombstonedIs
<1>3. PICK r : r = RecordDeleted(t, S, ts)
  OBVIOUS
<1>4. r \in Saved /\ r.manifest = t.manifest /\ r.tombVer = t.tombVer
  BY <1>2, <1>3, RecordedIs
<1>5. Recorded(s, v, S, ts) = r
  BY <1>1, <1>3 DEF Recorded
<1>6. QED
  BY <1>2, <1>4, <1>5

LEMMA SweptIs ==
    ASSUME NEW l \in Live
    PROVE  /\ Swept(l) \in Live /\ Swept(l).inbound = {}
           /\ Swept(l).pending = l.pending /\ Swept(l).missed = l.missed
BY DEF Swept, Live

LEMMA ToldIs ==
    ASSUME TypeOK, NEW m \in Member
    PROVE  /\ Told(m) \in Live /\ Told(m).inbound = live[m].inbound
           /\ Told(m).pending \in {live[m].pending, None} /\ Told(m).missed = live[m].missed
<1>1. live[m] \in Live
  BY MindIs
<1>2. QED
  BY <1>1 DEF Told, Live

(***************************************************************************)
(* What is left to show of a step.                                         *)
(***************************************************************************)
\* What was in the folder of q is there still, or archived, or a user removed it.
DiskStep(q) ==
    disk[q] # None => \/ disk'[q] # None /\ disk'[q].c = disk[q].c
                      \/ disk[q].c \in history'[q]
                      \/ <<q, disk[q].c>> \in undone'

\* What q knows grows by a version, or comes from its manifest, or is forgotten.
MindStep(q) ==
    /\ \/ live'[q].inbound \in {{}, live[q].inbound, saved[q].manifest}
       \/ \E v \in Version : live'[q].inbound = live[q].inbound \cup {v}
    /\ saved'[q].manifest \in {{}, saved[q].manifest, live'[q].inbound}
    /\ beacon'[q] # None /\ beacon'[q].step = "deletes" => beacon'[q].del # None

LEMMA FolderSteps ==
    ASSUME FolderInv, TypeOK',
           \A c \in written' : c \in written \/ \E q \in Member : disk'[q] # None /\ disk'[q].c = c,
           undone \subseteq undone',
           \A q \in Member : history[q] \subseteq history'[q] /\ DiskStep(q) /\ MindStep(q)
    PROVE  FolderInv'
<1> TypeOK
  BY DEF FolderInv
<1>1. NothingLost'
  BY DEF FolderInv, NothingLost, DiskStep
<1>2. ASSUME NEW q \in Member PROVE MemberInv(q)'
  <2>1. /\ HasNewest(live[q].inbound) /\ HasNewest(saved[q].manifest)
        /\ live[q].inbound \in SUBSET Version
    BY MindIs DEF FolderInv, MemberInv
  <2>2. HasNewest(live'[q].inbound)
    <3>1. CASE live'[q].inbound \in {{}, live[q].inbound, saved[q].manifest}
      BY <2>1, <3>1, NoVersions
    <3>2. CASE \E v \in Version : live'[q].inbound = live[q].inbound \cup {v}
      <4>1. PICK v \in Version : live'[q].inbound = live[q].inbound \cup {v}
        BY <3>2
      <4>2. HasNewest(live[q].inbound \cup {v})
        BY <2>1, NewestWith
      <4>3. QED
        BY <4>1, <4>2
    <3>3. QED
      BY <3>1, <3>2 DEF MindStep
  <2>3. HasNewest(saved'[q].manifest)
    BY <2>1, <2>2, NoVersions DEF MindStep
  <2>4. QED
    BY <2>2, <2>3 DEF MemberInv, RoundInv, MindStep
<1>3. QED
  BY <1>1, <1>2 DEF FolderInv

LEMMA UndoneStays ==
    ASSUME NEW U, NEW W, U \subseteq W
    PROVE  /\ \A v : Undone(v, U) => Undone(v, W)
           /\ \A d : Names(d, U) => Names(d, W)
BY DEF Undone, Names

LEMMA TimedStays ==
    ASSUME NEW F \in SUBSET File, NEW G \in SUBSET File, NEW s \in Nat, NEW t \in Nat, s <= t,
           Timed(F, s), \A g \in G : \E f \in F : f.c = g.c /\ f.mt = g.mt
    PROVE  Timed(G, t)
<1>1. ASSUME NEW g \in G PROVE g.mt <= t
  <2>1. PICK f \in F : f.mt = g.mt
    OBVIOUS
  <2>2. f.mt \in Nat /\ f.mt <= s
    BY DEF Timed, File
  <2>3. QED
    BY <2>1, <2>2
<1>2. ASSUME NEW f \in G, NEW g \in G, f.mt = g.mt PROVE f.c = g.c
  <2>1. PICK x \in F : x.c = f.c /\ x.mt = f.mt
    OBVIOUS
  <2>2. PICK y \in F : y.c = g.c /\ y.mt = g.mt
    OBVIOUS
  <2>3. x.c = y.c
    BY <1>2, <2>1, <2>2 DEF Timed
  <2>4. QED
    BY <2>1, <2>2, <2>3
<1>3. QED
  BY <1>1, <1>2 DEF Timed

\* A file like one there was.
Like(f) == \E g \in Files : g.c = f.c /\ g.mt = f.mt

\* q has, and sends, no other files than there were.
FileStep(q) ==
    /\ disk'[q] # None => Like(disk'[q])
    /\ flight'[q] # None => Like(flight'[q].f)

LEMMA FilesAre ==
    ASSUME TypeOK, NEW q \in Member
    PROVE  /\ disk[q] # None => disk[q] \in Files /\ Like(disk[q])
           /\ flight[q] # None => flight[q].f \in Files /\ Like(flight[q].f)
<1>1. disk[q] # None => disk[q] \in Files
  BY FileIs DEF Files
<1>2. flight[q] # None => flight[q].f \in Files
  BY MindIs DEF Files
<1>3. QED
  BY <1>1, <1>2 DEF Like

LEMMA TimeSteps ==
    ASSUME TypeOK, TypeOK', TimeInv, now <= now', \A q \in Member : FileStep(q)
    PROVE  TimeInv'
<1>1. PICK F : F = Files
  OBVIOUS
<1>2. PICK G : G = Files'
  OBVIOUS
<1>3. F \in SUBSET File /\ G \in SUBSET File
  BY <1>1, <1>2 DEF Files
<1>4. ASSUME NEW g \in G PROVE \E f \in F : f.c = g.c /\ f.mt = g.mt
  <2>1. g \in File /\ g # None
    BY <1>3, NoneAssumption
  <2>2. PICK m \in Member : g = disk'[m] \/ (flight'[m] # None /\ g = flight'[m].f)
    BY <1>2 DEF Files
  <2>3. Like(g)
    BY <2>1, <2>2 DEF FileStep
  <2>4. QED
    BY <1>1, <2>3 DEF Like
<1>5. Timed(F, now) /\ now \in Nat /\ now' \in Nat
  BY <1>1 DEF TimeInv, TypeOK
<1>6. PICK s : s = now
  OBVIOUS
<1>7. PICK t : t = now'
  OBVIOUS
<1>8. Timed(G, t)
  BY ONLY <1>3, <1>4, <1>5, <1>6, <1>7, TimedStays, now <= now'
<1>9. QED
  BY <1>2, <1>7, <1>8 DEF TimeInv

(***************************************************************************)
(* What a member knows, when its file or its knowledge changes.            *)
(***************************************************************************)
\* The file of q is of the version it was, or that one is done away with.
FileStays(d, e, U) ==
    d # None => Undone(Sig(d), U) \/ (e # None /\ Sig(e) = Sig(d))

LEMMA KnownStays ==
    ASSUME NEW S, NEW d, NEW e, NEW U, NEW W, KnownAt(S, d, U), U \subseteq W, FileStays(d, e, W)
    PROVE  KnownAt(S, e, W)
<1>1. ASSUME NEW v \in S, Newer(S, v) PROVE Undone(v, W) \/ (e # None /\ v = Sig(e))
  <2>1. CASE Undone(v, U)
    BY <2>1, UndoneStays
  <2>2. CASE d # None /\ v = Sig(d)
    BY <2>2 DEF FileStays
  <2>3. QED
    BY <1>1, <2>1, <2>2 DEF KnownAt
<1>2. QED
  BY <1>1 DEF KnownAt

LEMMA KnownWith ==
    ASSUME NEW S \in SUBSET Version, NEW e \in File, NEW U, KnownAt(S, e, U)
    PROVE  KnownAt(S \cup {Sig(e)}, e, U)
<1>1. Sig(e) \in Version /\ e # None
  BY SigIs, NoneAssumption
<1>2. ASSUME NEW v \in S, Newer(S \cup {Sig(e)}, v) PROVE Newer(S, v)
  BY <1>2 DEF Newer
<1>3. QED
  BY <1>1, <1>2 DEF KnownAt

LEMMA KnownNone == ASSUME NEW d, NEW U PROVE KnownAt({}, d, U)
BY DEF KnownAt

\* A file is replaced by a newer one, which is known from then on.
LEMMA KnownPlaced ==
    ASSUME NEW S \in SUBSET Version, NEW d, NEW e \in File, NEW U, KnownAt(S, d, U),
           d # None => d \in File /\ d.mt < e.mt
    PROVE  KnownAt(S \cup {Sig(e)}, e, U)
<1>1. Sig(e) \in Version /\ e # None /\ Sig(e)[2] = e.mt /\ e.mt \in Nat
  BY SigIs, NoneAssumption DEF File
<1>2. ASSUME NEW v \in S, Newer(S \cup {Sig(e)}, v), ~ Undone(v, U) PROVE FALSE
  <2>1. Newer(S, v)
    BY <1>2 DEF Newer
  <2>2. d # None /\ v = Sig(d)
    BY <1>2, <2>1 DEF KnownAt
  <2>3. Sig(d)[2] = d.mt /\ d.mt \in Nat
    BY <2>2, SigIs DEF File
  <2>4. Sig(e)[2] <= v[2]
    BY <1>2 DEF Newer
  <2>5. QED
    BY <1>1, <2>2, <2>3, <2>4
<1>3. QED
  BY <1>1, <1>2 DEF KnownAt

\* How the knowledge of q may change while its file stays, or is done away with.
KnowStep(q) ==
    /\ FileStays(disk[q], disk'[q], undone')
    /\ \/ live'[q].inbound \in {{}, live[q].inbound, saved[q].manifest}
       \/ disk'[q] # None /\ live'[q].inbound = live[q].inbound \cup {Sig(disk'[q])}
    /\ saved'[q].manifest \in {{}, saved[q].manifest, live'[q].inbound}

LEMMA KnowSteps ==
    ASSUME TypeOK, TypeOK', NEW q \in Member, KnownInv(q), undone \subseteq undone', KnowStep(q)
    PROVE  KnownInv(q)'
<1>1. PICK S : S = live[q].inbound
  OBVIOUS
<1>2. PICK M : M = saved[q].manifest
  OBVIOUS
<1>3. PICK d : d = disk[q]
  OBVIOUS
<1>4. PICK e : e = disk'[q]
  OBVIOUS
<1>5. PICK U : U = undone
  OBVIOUS
<1>6. PICK W : W = undone'
  OBVIOUS
<1>7. KnownAt(S, d, U) /\ KnownAt(M, d, U) /\ U \subseteq W /\ FileStays(d, e, W)
  BY <1>1, <1>2, <1>3, <1>4, <1>5, <1>6 DEF KnownInv, KnowStep
<1>8. KnownAt(S, e, W) /\ KnownAt(M, e, W) /\ KnownAt({}, e, W)
  BY <1>7, KnownStays, KnownNone
<1>9. S \in SUBSET Version /\ (e # None => e \in File)
  BY <1>1, <1>4, MindIs DEF TypeOK
<1>10. e # None => KnownAt(S \cup {Sig(e)}, e, W)
  BY <1>8, <1>9, KnownWith
<1>11. KnownAt(live'[q].inbound, e, W)
  BY <1>1, <1>2, <1>4, <1>8, <1>10 DEF KnowStep
<1>12. KnownAt(saved'[q].manifest, e, W)
  BY <1>2, <1>8, <1>11 DEF KnowStep
<1>13. QED
  BY <1>4, <1>6, <1>11, <1>12 DEF KnownInv

\* What q records names what it named, or what was done away with.
NameStep(q) ==
    /\ live'[q].pending = live[q].pending \/ Names(live'[q].pending, undone')
    /\ live'[q].missed = live[q].missed \/ Names(live'[q].missed, undone')
    /\ saved'[q].tombVer = saved[q].tombVer \/ Names(saved'[q].tombVer, undone')
    /\ beacon'[q] # None =>
          \/ beacon[q] # None /\ beacon'[q].del = beacon[q].del /\ beacon'[q].named = beacon[q].named
          \/ /\ beacon'[q].del = live[q].pending
             /\ beacon'[q].named = Named(saved[q])

LEMMA NameSteps ==
    ASSUME NEW q \in Member, NamesInv(q), undone \subseteq undone', NameStep(q)
    PROVE  NamesInv(q)'
<1>1. /\ Names(live[q].pending, undone') /\ Names(live[q].missed, undone')
      /\ Names(saved[q].tombVer, undone')
      /\ beacon[q] # None => /\ Names(beacon[q].del, undone')
                             /\ beacon[q].named # None => Undone(beacon[q].named, undone')
  BY UndoneStays DEF NamesInv
<1>2. Named(saved[q]) # None => Undone(Named(saved[q]), undone')
  BY <1>1 DEF Named, Names
<1>3. QED
  BY <1>1, <1>2 DEF NamesInv, NameStep

SweptStep ==
    \A c \in swept' : c \in swept \/ \E u \in undone' : Size[u[2]] = Size[c]

\* A step that keeps files, knowledge and records keeps the invariant.
LEMMA SpareSteps ==
    ASSUME TypeOK, TypeOK', SpareInv, undone \subseteq undone', now <= now', SweptStep,
           \A q \in Member : FileStep(q) /\ (KnowStep(q) \/ KnownInv(q)') /\ NameStep(q)
    PROVE  SpareInv'
<1>1. TimeInv'
  BY TimeSteps DEF SpareInv
<1>2. DeleteSparesEdits'
  BY DEF SpareInv, DeleteSparesEdits, SweptStep
<1>3. \A m \in Member : NamesInv(m)'
  BY NameSteps DEF SpareInv
<1>4. \A m \in Member : KnownInv(m)'
  BY KnowSteps DEF SpareInv
<1>5. QED
  BY <1>1, <1>2, <1>3, <1>4 DEF SpareInv

Grouped == Group /\ ~ SameSecond

LEMMA GoodSteps ==
    ASSUME Good, TypeOK', undone \subseteq undone',
           \A c \in written' : c \in written \/ \E q \in Member : disk'[q] # None /\ disk'[q].c = c,
           \A q \in Member : history[q] \subseteq history'[q] /\ DiskStep(q) /\ MindStep(q),
           Grouped => /\ SweptStep /\ (TimeInv' \/ \A q \in Member : FileStep(q)) /\ now <= now'
                      /\ \A q \in Member : (KnowStep(q) \/ KnownInv(q)') /\ NameStep(q)
    PROVE  Good'
<1>1. FolderInv'
  BY FolderSteps DEF Good
<1>2. ASSUME Grouped PROVE SpareInv'
  <2>1. TypeOK /\ SpareInv
    BY <1>2 DEF Good, FolderInv, Grouped
  <2>2. TimeInv'
    BY <1>2, <2>1, TimeSteps DEF SpareInv
  <2>3. DeleteSparesEdits'
    BY <1>2, <2>1 DEF SpareInv, DeleteSparesEdits, SweptStep
  <2>4. \A m \in Member : NamesInv(m)'
    BY <1>2, <2>1, NameSteps DEF SpareInv
  <2>5. \A m \in Member : KnownInv(m)'
    BY <1>2, <2>1, KnowSteps DEF SpareInv
  <2>6. QED
    BY <2>2, <2>3, <2>4, <2>5 DEF SpareInv
<1>3. QED
  BY <1>1, <1>2 DEF Good, Grouped

LEMMA GoodIs ==
    ASSUME Good
    PROVE  /\ TypeOK /\ FolderInv /\ now \in Nat /\ (Grouped => SpareInv)
           /\ \A m \in Member : MemberInv(m)
BY DEF Good, FolderInv, Grouped, TypeOK

LEMMA EventIs == ASSUME TypeOK, Event PROVE events' \in 0 .. MaxEvents
BY BoundAssumption DEF Event, TypeOK

\* Nothing happened in the folders.
LEMMA FoldersRest ==
    ASSUME Good, UNCHANGED <<disk, history, undone, written, swept>>
    PROVE  /\ undone \subseteq undone' /\ \A c \in written' : c \in written
           /\ SweptStep
           /\ \A q \in Member : /\ history[q] \subseteq history'[q] /\ DiskStep(q)
                                /\ FileStays(disk[q], disk'[q], undone')
                                /\ disk'[q] # None => Like(disk'[q])
BY GoodIs, FilesAre DEF DiskStep, FileStays, SweptStep

\* What is in flight was there before.
LEMMA FlightsRest ==
    ASSUME Good, NEW q \in Member, flight'[q] # None => flight[q] # None /\ flight'[q].f = flight[q].f
    PROVE  flight'[q] # None => Like(flight'[q].f)
BY GoodIs, FilesAre

\* Apps start and stop; what was on its way stays or is gone.
Around ==
    /\ now' \in Nat /\ now <= now'
    /\ up' \in [Member -> BOOLEAN] /\ events' \in 0 .. MaxEvents
    /\ flight' \in [Member -> Flight \cup {None}] /\ beacon' \in [Member -> Round \cup {None}]
    /\ \A q \in Member : /\ flight'[q] = flight[q] \/ flight'[q] = None
                         /\ beacon'[q] = beacon[q] \/ beacon'[q] = None
                         /\ ~ up'[q] => flight'[q] = None /\ beacon'[q] = None

LEMMA StillAround ==
    ASSUME Good, UNCHANGED <<up, flight, beacon, now>>, events' = events \/ Event
    PROVE  Around
<1>1. TypeOK
  BY GoodIs
<1>2. events' \in 0 .. MaxEvents
  BY <1>1, EventIs DEF TypeOK
<1>3. now' \in Nat /\ now <= now'
  BY <1>1 DEF TypeOK
<1>4. QED
  BY <1>1, <1>2, <1>3 DEF TypeOK, Around

\* What is in memory of a member changes, and nothing else.
LEMMA MemoryStep ==
    ASSUME Good, NEW m \in Member, NEW l \in Live, live' = [live EXCEPT ![m] = l], Around,
           l.inbound \in {{}, live[m].inbound, saved[m].manifest},
           Grouped => /\ l.pending = live[m].pending \/ Names(l.pending, undone)
                      /\ l.missed = live[m].missed \/ Names(l.missed, undone),
           UNCHANGED <<disk, history, saved, written, undone, swept>>
    PROVE  Good'
<1>1. TypeOK /\ \A q \in Member : RoundInv(q)
  BY GoodIs DEF MemberInv
<1>2. live' \in [Member -> Live] /\ live'[m] = l /\ \A q \in Member : q # m => live'[q] = live[q]
  BY <1>1 DEF TypeOK
<1>3. TypeOK'
  BY <1>1, <1>2 DEF TypeOK, Around
<1>4. \A q \in Member : MindStep(q)
  BY <1>1, <1>2 DEF MindStep, RoundInv, Around
<1>5. \A q \in Member : FileStep(q) /\ KnowStep(q)
  BY <1>2, FoldersRest, FlightsRest DEF FileStep, KnowStep, Around
<1>6. Grouped => \A q \in Member : NameStep(q)
  BY <1>2 DEF NameStep, Around
<1>7. QED
  BY <1>3, <1>4, <1>5, <1>6, FoldersRest, GoodSteps DEF Around

(***************************************************************************)
(* The watcher and the scans.                                              *)
(***************************************************************************)
\* The newest version known of a file that is gone was done away with.
LEMMA GoneIsUndone ==
    ASSUME Good, NEW m \in Member, disk[m] = None, live[m].inbound # {}
    PROVE  /\ Newest(live[m].inbound) \in Version
           /\ Grouped => Undone(Newest(live[m].inbound), undone)
<1>1. PICK S : S = live[m].inbound
  OBVIOUS
<1>2. S \in SUBSET Version /\ S # {} /\ HasNewest(S)
  BY <1>1, GoodIs, MindIs DEF MemberInv
<1>3. Newest(S) \in S /\ Newest(S) \in Version /\ Newer(S, Newest(S))
  BY <1>2, NewestIs
<1>4. Grouped => KnownAt(S, disk[m], undone)
  BY <1>1, GoodIs DEF SpareInv, KnownInv
<1>5. QED
  BY <1>1, <1>3, <1>4 DEF KnownAt

LEMMA MissingIs ==
    ASSUME Good, NEW m \in Member
    PROVE  /\ Missing(m) \in Version \cup {None}
           /\ Missing(m) # None => disk[m] = None /\ (Grouped => Undone(Missing(m), undone))
<1>1. CASE Missing(m) = None
  BY <1>1
<1>2. CASE Missing(m) # None
  <2>1. live[m].inbound # {} /\ disk[m] = None
    BY <1>2 DEF Missing
  <2>2. Missing(m) = Newest(live[m].inbound)
    BY <1>2 DEF Missing
  <2>3. QED
    BY <2>1, <2>2, GoneIsUndone
<1>3. QED
  BY <1>1, <1>2

LEMMA QueueKeeps == ASSUME Good, NEW m \in Member, Queue(m) PROVE Good'
<1>1. TypeOK /\ live[m] \in Live
  BY GoodIs, MindIs
<1>2. PICK b \in BOOLEAN : b = (live[m].queued \/ Candidate(m))
  OBVIOUS
<1>3. PICK l : l = [live[m] EXCEPT !.event = FALSE, !.queued = b]
  OBVIOUS
<1>4. l \in Live /\ l.inbound = live[m].inbound /\ l.pending = live[m].pending /\ l.missed = live[m].missed
  BY <1>1, <1>3 DEF Live
<1>5. /\ live' = [live EXCEPT ![m] = l]
      /\ UNCHANGED <<disk, history, up, saved, flight, beacon, now, written, undone, swept, events>>
  BY <1>2, <1>3 DEF Queue
<1>6. QED
  BY <1>4, <1>5, StillAround, MemoryStep

LEMMA OwnRemovalKeeps == ASSUME Good, NEW m \in Member, OwnRemoval(m) PROVE Good'
<1>1. TypeOK /\ live[m] \in Live
  BY GoodIs, MindIs
<1>2. PICK l : l = [live[m] EXCEPT !.event = FALSE, !.guard = FALSE]
  OBVIOUS
<1>3. l \in Live /\ l.inbound = live[m].inbound /\ l.pending = live[m].pending /\ l.missed = live[m].missed
  BY <1>1, <1>2 DEF Live
<1>4. /\ live' = [live EXCEPT ![m] = l]
      /\ UNCHANGED <<disk, history, up, saved, flight, beacon, now, written, undone, swept, events>>
  BY <1>2 DEF OwnRemoval
<1>5. QED
  BY <1>3, <1>4, StillAround, MemoryStep

LEMMA GuardEndsKeeps == ASSUME Good, NEW m \in Member, GuardEnds(m) PROVE Good'
<1>1. TypeOK /\ live[m] \in Live
  BY GoodIs, MindIs
<1>2. PICK l : l = [live[m] EXCEPT !.guard = FALSE]
  OBVIOUS
<1>3. l \in Live /\ l.inbound = live[m].inbound /\ l.pending = live[m].pending /\ l.missed = live[m].missed
  BY <1>1, <1>2 DEF Live
<1>4. /\ live' = [live EXCEPT ![m] = l]
      /\ UNCHANGED <<disk, history, up, saved, flight, beacon, now, written, undone, swept, events>>
  BY <1>1, <1>2 DEF GuardEnds, TypeOK
<1>5. QED
  BY <1>3, <1>4, StillAround, MemoryStep

LEMMA OverflowKeeps == ASSUME Good, NEW m \in Member, Overflow(m) PROVE Good'
<1>1. TypeOK /\ live[m] \in Live
  BY GoodIs, MindIs
<1>2. PICK d : d = [v |-> None, ts |-> now + 1]
  OBVIOUS
<1>3. PICK l : l = [live[m] EXCEPT !.event = FALSE, !.missed = d]
  OBVIOUS
<1>4. d \in Delete /\ Names(d, undone)
  BY <1>1, <1>2 DEF Delete, TypeOK, Names
<1>5. l \in Live /\ l.inbound = live[m].inbound /\ l.pending = live[m].pending /\ l.missed = d
  BY <1>1, <1>3, <1>4 DEF Live
<1>6. /\ live' = [live EXCEPT ![m] = l] /\ Event
      /\ UNCHANGED <<disk, history, up, saved, flight, beacon, now, written, undone, swept>>
  BY <1>2, <1>3 DEF Overflow, Upset
<1>7. QED
  BY <1>4, <1>5, <1>6, StillAround, MemoryStep

LEMMA FirstScanKeeps == ASSUME Good, NEW m \in Member, FirstScan(m) PROVE Good'
<1>1. TypeOK /\ live[m] \in Live
  BY GoodIs, MindIs
<1>2. PICK d : d = IF Missing(m) = None THEN None ELSE [v |-> Missing(m), ts |-> live[m].missed.ts]
  OBVIOUS
<1>3. PICK l : l = [live[m] EXCEPT !.missed = d]
  OBVIOUS
<1>4. d \in Delete \cup {None} /\ (Grouped => Names(d, undone))
  <2>1. live[m].missed \in Delete
    BY <1>1 DEF FirstScan, Live
  <2>2. QED
    BY <1>2, <2>1, MissingIs DEF Delete, Names
<1>5. l \in Live /\ l.inbound = live[m].inbound /\ l.pending = live[m].pending /\ l.missed = d
  BY <1>1, <1>3, <1>4 DEF Live
<1>6. /\ live' = [live EXCEPT ![m] = l]
      /\ UNCHANGED <<disk, history, up, saved, flight, beacon, now, written, undone, swept, events>>
  BY <1>1, <1>2, <1>3 DEF FirstScan, TypeOK
<1>7. QED
  BY <1>4, <1>5, <1>6, StillAround, MemoryStep

LEMMA OpenKeeps == ASSUME Good, NEW m \in Member, Open(m) PROVE Good'
<1>1. TypeOK /\ live[m] \in Live /\ saved[m] \in Saved
  BY GoodIs, MindIs
<1>2. PICK d : d = [v |-> None, ts |-> saved[m].seen]
  OBVIOUS
<1>3. PICK l : l = [Fresh(saved[m].manifest) EXCEPT !.missed = d]
  OBVIOUS
<1>4. d \in Delete /\ Names(d, undone) /\ Names(None, undone)
  BY <1>1, <1>2 DEF Delete, Saved, Names
<1>5. l \in Live /\ l.inbound = saved[m].manifest /\ l.pending = None /\ l.missed = d
  BY <1>1, <1>3, <1>4 DEF Live, Saved, Fresh
<1>6. /\ live' = [live EXCEPT ![m] = l] /\ up' = [up EXCEPT ![m] = TRUE]
      /\ UNCHANGED <<disk, history, saved, flight, beacon, now, written, undone, swept, events>>
  BY <1>2, <1>3 DEF Open
<1>7. Around
  <2>1. up' \in [Member -> BOOLEAN] /\ \A q \in Member : ~ up'[q] => ~ up[q]
    BY <1>1, <1>6 DEF TypeOK
  <2>2. now' \in Nat /\ now <= now'
    BY <1>1, <1>6 DEF TypeOK
  <2>3. QED
    BY <1>1, <1>6, <2>1, <2>2 DEF TypeOK, Around
<1>8. QED
  BY <1>4, <1>5, <1>6, <1>7, MemoryStep

LEMMA CloseKeeps == ASSUME Good, NEW m \in Member, Close(m) PROVE Good'
<1>1. TypeOK
  BY GoodIs
<1>2. PICK l : l = Fresh({})
  OBVIOUS
<1>3. l \in Live /\ l.inbound = {} /\ l.pending = None /\ l.missed = None
  BY <1>2 DEF Live, Fresh
<1>4. /\ live' = [live EXCEPT ![m] = l] /\ up' = [up EXCEPT ![m] = FALSE] /\ Event
      /\ flight' = [flight EXCEPT ![m] = None] /\ beacon' = [beacon EXCEPT ![m] = None]
      /\ UNCHANGED <<disk, history, saved, now, written, undone, swept>>
  BY <1>2 DEF Close, Upset
<1>5. Around
  <2>1. up' \in [Member -> BOOLEAN] /\ now' \in Nat /\ now <= now' /\ events' \in 0 .. MaxEvents
    BY <1>1, <1>4, EventIs DEF TypeOK
  <2>2. flight' \in [Member -> Flight \cup {None}] /\ beacon' \in [Member -> Round \cup {None}]
    BY <1>1, <1>4 DEF TypeOK
  <2>3. \A q \in Member : /\ flight'[q] = flight[q] \/ flight'[q] = None
                          /\ beacon'[q] = beacon[q] \/ beacon'[q] = None
                          /\ ~ up'[q] => flight'[q] = None /\ beacon'[q] = None
    BY <1>1, <1>4 DEF TypeOK
  <2>4. QED
    BY <2>1, <2>2, <2>3 DEF Around
<1>6. Names(None, undone)
  BY DEF Names
<1>7. QED
  BY <1>3, <1>4, <1>5, <1>6, MemoryStep
(***************************************************************************)
(* Users.                                                                  *)
(***************************************************************************)
\* A user puts the file d, or nothing, where m had what it had.
LEMMA EditStep ==
    ASSUME Good, NEW m \in Member, NEW d \in File \cup {None}, disk' = [disk EXCEPT ![m] = d],
           Edit(m), now' \in Nat, now <= now', written' \subseteq Content,
           \A c \in written' : c \in written \/ (d # None /\ d.c = c),
           Grouped => TimeInv' \/ d = None,
           UNCHANGED <<history, up, saved, flight, beacon, swept>>
    PROVE  Good'
<1>1. TypeOK /\ live[m] \in Live /\ \A q \in Member : RoundInv(q)
  BY GoodIs, MindIs DEF MemberInv
<1>2. PICK l : l = [live[m] EXCEPT !.event = up[m]]
  OBVIOUS
<1>3. up[m] \in BOOLEAN
  BY <1>1 DEF TypeOK
<1>4. l \in Live /\ l.inbound = live[m].inbound /\ l.pending = live[m].pending /\ l.missed = live[m].missed
  BY <1>1, <1>2, <1>3 DEF Live
<1>5. live' = [live EXCEPT ![m] = l]
  BY <1>1, <1>2 DEF Edit, TypeOK
<1>6. live' \in [Member -> Live] /\ live'[m] = l /\ \A q \in Member : q # m => live'[q] = live[q]
  BY <1>1, <1>4, <1>5 DEF TypeOK
<1>7. disk' \in [Member -> File \cup {None}] /\ disk'[m] = d /\ \A q \in Member : q # m => disk'[q] = disk[q]
  BY <1>1 DEF TypeOK
<1>8. undone \subseteq undone' /\ (disk[m] # None => <<m, disk[m].c>> \in undone')
  BY DEF Edit
<1>9. undone' \subseteq Member \X Content
  <2>1. {<<m, f.c>> : f \in {disk[m]} \ {None}} \subseteq Member \X Content
    BY <1>1, FileIs
  <2>2. QED
    BY <1>1, <2>1 DEF Edit, TypeOK
<1>10. TypeOK'
  BY <1>1, <1>6, <1>7, <1>9, EventIs DEF TypeOK, Edit
<1>11. \A q \in Member : DiskStep(q)
  BY <1>1, <1>7, <1>8 DEF DiskStep
<1>12. \A q \in Member : MindStep(q)
  BY <1>1, <1>4, <1>6 DEF MindStep, RoundInv
<1>13. \A q \in Member : FileStays(disk[q], disk'[q], undone')
  <2>1. ASSUME disk[m] # None PROVE Undone(Sig(disk[m]), undone')
    <3>1. Sig(disk[m])[1] = Size[disk[m].c]
      BY <1>1, <2>1, FileIs, SigIs
    <3>2. PICK u \in undone' : u = <<m, disk[m].c>>
      BY <1>8, <2>1
    <3>3. u[2] = disk[m].c
      BY <3>2
    <3>4. QED
      BY <3>1, <3>2, <3>3 DEF Undone
  <2>2. QED
    BY <1>7, <2>1 DEF FileStays
<1>14. \A q \in Member : KnowStep(q) /\ NameStep(q)
  BY <1>4, <1>6, <1>13 DEF KnowStep, NameStep
<1>15. SweptStep
  BY DEF SweptStep
<1>16. Grouped => TimeInv' \/ \A q \in Member : FileStep(q)
  <2>1. ASSUME d = None PROVE \A q \in Member : FileStep(q)
    BY <1>1, <1>7, <2>1, FilesAre DEF FileStep
  <2>2. QED
    BY <2>1
<1>17. \A c \in written' : c \in written \/ \E q \in Member : disk'[q] # None /\ disk'[q].c = c
  BY <1>7
<1>18. \A q \in Member : history[q] \subseteq history'[q]
  OBVIOUS
<1>19. QED
  BY <1>8, <1>10, <1>11, <1>12, <1>14, <1>15, <1>16, <1>17, <1>18, GoodSteps

\* A file written now has an mtime of its own.
LEMMA TimedWith ==
    ASSUME NEW F \in SUBSET File, NEW G \in SUBSET File, NEW d \in File, NEW t \in Nat,
           G \subseteq F \cup {d}, Timed(F, t), d.mt = t + 2
    PROVE  Timed(G, t + 2)
<1>1. \A f \in F : f.mt \in Nat /\ f.mt <= t
  BY DEF Timed, File
<1>2. \A f, g \in F : f.mt = g.mt => f.c = g.c
  BY DEF Timed
<1>3. \A f \in F : f.mt # t + 2 /\ f.mt <= t + 2
  BY <1>1
<1>4. \A f \in G : f.mt <= t + 2
  BY <1>3
<1>5. \A f, g \in G : f.mt = g.mt => f.c = g.c
  BY <1>2, <1>3
<1>6. QED
  BY <1>4, <1>5 DEF Timed

LEMMA WriteKeeps == ASSUME Good, NEW m \in Member, Write(m) PROVE Good'
<1>1. TypeOK /\ now \in Nat
  BY GoodIs
<1>2. PICK c \in Content \ written, mt \in {now + 2} \cup {t \in {now} : SameSecond} :
        /\ now' = now + 2
        /\ disk' = [disk EXCEPT ![m] = [c |-> c, mt |-> mt, at |-> now', fresh |-> TRUE]]
        /\ written' = written \cup {c}
        /\ Edit(m)
        /\ UNCHANGED <<history, up, saved, flight, beacon, swept>>
  BY DEF Write
<1>3. PICK d : d = [c |-> c, mt |-> mt, at |-> now', fresh |-> TRUE]
  OBVIOUS
<1>4. now' \in Nat /\ now <= now' /\ mt \in Nat
  BY <1>1, <1>2
<1>5. d \in File /\ d.c = c /\ d.mt = mt /\ d # None
  <2>1. c \in Content
    OBVIOUS
  <2>2. d \in File
    BY <1>3, <1>4, <2>1 DEF File
  <2>3. d.c = c /\ d.mt = mt
    BY <1>3
  <2>4. QED
    BY <2>2, <2>3, NoneAssumption
<1>6. disk' = [disk EXCEPT ![m] = d]
  BY <1>2, <1>3
<1>7. written' \subseteq Content /\ \A x \in written' : x \in written \/ (d # None /\ d.c = x)
  BY <1>1, <1>2, <1>5 DEF TypeOK
<1>8. ASSUME Grouped PROVE TimeInv'
  <2>1. PICK F : F = Files
    OBVIOUS
  <2>2. PICK G : G = Files'
    OBVIOUS
  <2>3. F \in SUBSET File /\ G \in SUBSET File
    BY <2>1, <2>2 DEF Files
  <2>4. Timed(F, now) /\ d.mt = now + 2
    BY <1>2, <1>5, <1>8, <2>1, GoodIs DEF SpareInv, TimeInv, Grouped
  <2>5. G \subseteq F \cup {d}
    <3>1. \A q \in Member : disk'[q] = d \/ disk'[q] = disk[q]
      BY <1>1, <1>6 DEF TypeOK
    <3>2. QED
      BY <1>2, <2>1, <2>2, <3>1 DEF Files
  <2>6. PICK t : t = now
    OBVIOUS
  <2>7. Timed(G, t + 2)
    BY ONLY <1>1, <1>5, <2>3, <2>4, <2>5, <2>6, TimedWith
  <2>8. QED
    BY <1>2, <2>2, <2>6, <2>7 DEF TimeInv
<1>9. QED
  BY <1>2, <1>4, <1>5, <1>6, <1>7, <1>8, EditStep

LEMMA UserDeleteKeeps == ASSUME Good, NEW m \in Member, UserDelete(m) PROVE Good'
<1>1. TypeOK /\ now \in Nat
  BY GoodIs
<1>2. PICK d : d = None
  OBVIOUS
<1>3. /\ disk' = [disk EXCEPT ![m] = d] /\ Edit(m)
      /\ UNCHANGED <<history, up, saved, flight, beacon, swept>> /\ now' = now /\ written' = written
  BY <1>2 DEF UserDelete
<1>4. now' \in Nat /\ now <= now' /\ written' \subseteq Content /\ d \in File \cup {None}
  BY <1>1, <1>2, <1>3 DEF TypeOK
<1>5. \A c \in written' : c \in written
  BY <1>3
<1>6. QED
  BY <1>2, <1>3, <1>4, <1>5, EditStep

(***************************************************************************)
(* Steps that leave the folders alone.                                     *)
(***************************************************************************)
\* What q knows of its file, when the file stays.
LearnStep(q) ==
    /\ \/ live'[q].inbound \in {{}, live[q].inbound, saved[q].manifest}
       \/ disk[q] # None /\ live'[q].inbound = live[q].inbound \cup {Sig(disk[q])}
    /\ saved'[q].manifest \in {{}, saved[q].manifest, live'[q].inbound}

LEMMA RestStep ==
    ASSUME Good, TypeOK', now <= now', UNCHANGED <<disk, undone, written, swept>>,
           \A q \in Member : history[q] \subseteq history'[q],
           \A q \in Member : flight'[q] # None => Like(flight'[q].f),
           \A q \in Member : LearnStep(q),
           \A q \in Member : beacon'[q] # None /\ beacon'[q].step = "deletes" => beacon'[q].del # None,
           Grouped => \A q \in Member : NameStep(q)
    PROVE  Good'
<1>1. TypeOK
  BY GoodIs
<1>2. \A q \in Member : /\ DiskStep(q) /\ FileStays(disk[q], disk'[q], undone')
                        /\ disk'[q] # None => Like(disk'[q])
  BY <1>1, FilesAre DEF DiskStep, FileStays
<1>3. \A q \in Member : MindStep(q)
  BY <1>1, FileIs, SigIs DEF MindStep, LearnStep
<1>4. \A q \in Member : FileStep(q) /\ KnowStep(q)
  BY <1>2 DEF FileStep, KnowStep, LearnStep
<1>5. SweptStep
  BY DEF SweptStep
<1>6. undone \subseteq undone' /\ \A c \in written' : c \in written
  OBVIOUS
<1>7. QED
  BY <1>2, <1>3, <1>4, <1>5, <1>6, GoodSteps

\* What member m knows and keeps changes, and nothing else.
LEMMA MindsStep ==
    ASSUME Good, NEW m \in Member, NEW l \in Live, NEW s \in Saved, Around,
           live' = [live EXCEPT ![m] = l], saved' = [saved EXCEPT ![m] = s],
           \/ l.inbound \in {{}, live[m].inbound, saved[m].manifest}
           \/ disk[m] # None /\ l.inbound = live[m].inbound \cup {Sig(disk[m])},
           s.manifest \in {{}, saved[m].manifest, l.inbound},
           Grouped => /\ l.pending = live[m].pending \/ Names(l.pending, undone)
                      /\ l.missed = live[m].missed \/ Names(l.missed, undone)
                      /\ s.tombVer = saved[m].tombVer \/ Names(s.tombVer, undone),
           UNCHANGED <<disk, history, written, undone, swept>>
    PROVE  Good'
<1>1. TypeOK /\ \A q \in Member : RoundInv(q)
  BY GoodIs DEF MemberInv
<1>2. live' \in [Member -> Live] /\ live'[m] = l /\ \A q \in Member : q # m => live'[q] = live[q]
  BY <1>1 DEF TypeOK
<1>3. saved' \in [Member -> Saved] /\ saved'[m] = s /\ \A q \in Member : q # m => saved'[q] = saved[q]
  BY <1>1 DEF TypeOK
<1>4. TypeOK'
  BY <1>1, <1>2, <1>3 DEF TypeOK, Around
<1>5. \A q \in Member : LearnStep(q)
  BY <1>2, <1>3 DEF LearnStep
<1>6. \A q \in Member : flight'[q] # None => Like(flight'[q].f)
  BY FlightsRest DEF Around
<1>7. \A q \in Member : beacon'[q] # None /\ beacon'[q].step = "deletes" => beacon'[q].del # None
  BY <1>1 DEF Around, RoundInv
<1>8. Grouped => \A q \in Member : NameStep(q)
  BY <1>2, <1>3 DEF NameStep, Around
<1>9. now <= now' /\ \A q \in Member : history[q] \subseteq history'[q]
  BY DEF Around
<1>10. QED
  BY <1>4, <1>5, <1>6, <1>7, <1>8, <1>9, RestStep

\* Time goes on, and nothing else changes but the count of upsets.
LEMMA TimeGoesOn ==
    ASSUME Good, UNCHANGED <<up, flight, beacon>>, now' \in Nat, now <= now', events' = events \/ Event
    PROVE  Around
<1>1. TypeOK
  BY GoodIs
<1>2. events' \in 0 .. MaxEvents
  BY <1>1, EventIs DEF TypeOK
<1>3. QED
  BY <1>1, <1>2 DEF TypeOK, Around

LEMMA DeletedKeeps == ASSUME Good, NEW m \in Member, Deleted(m) PROVE Good'
<1>1. TypeOK /\ live[m] \in Live /\ saved[m] \in Saved /\ live[m].inbound \in SUBSET Version /\ now \in Nat
  BY GoodIs, MindIs
<1>2. PICK K : K = live[m].inbound
  OBVIOUS
<1>3. PICK v : v = IF K = {} THEN None ELSE Newest(K)
  OBVIOUS
<1>4. PICK ts : ts = now'
  OBVIOUS
<1>5. ts \in Nat /\ now <= ts
  BY <1>1, <1>4 DEF Deleted
<1>6. v \in Version \cup {None} /\ (Grouped => (v # None => Undone(v, undone)))
  BY <1>2, <1>3, GoneIsUndone DEF Deleted
<1>7. PICK n : n = Pend(live[m], v, ts)
  OBVIOUS
<1>8. n \in Live /\ n.missed = live[m].missed /\ n.pending \in {live[m].pending, [v |-> v, ts |-> ts]}
  BY <1>1, <1>5, <1>6, <1>7, PendIs
<1>9. PICK l : l = [n EXCEPT !.event = FALSE, !.inbound = {}]
  OBVIOUS
<1>10. l \in Live /\ l.inbound = {} /\ l.missed = n.missed /\ l.pending = n.pending
  BY <1>8, <1>9 DEF Live
<1>11. PICK s : s = Recorded(saved[m], v, K, ts)
  OBVIOUS
<1>12. /\ s \in Saved /\ s.manifest = saved[m].manifest
       /\ s.tombVer = saved[m].tombVer \/ (v # None /\ s.tombVer = [v |-> v, ts |-> ts])
  <2>1. PICK z \in Saved : z = saved[m]
    BY <1>1
  <2>2. K \in SUBSET Version /\ s = Recorded(z, v, K, ts)
    BY <1>1, <1>2, <1>11, <2>1
  <2>3. /\ s \in Saved /\ s.manifest = z.manifest
        /\ s.tombVer = z.tombVer \/ (v # None /\ s.tombVer = [v |-> v, ts |-> ts])
    BY <1>5, <1>6, <2>2, RecordKeeps
  <2>4. QED
    BY <2>1, <2>3
<1>13. /\ live' = [live EXCEPT ![m] = l] /\ saved' = [saved EXCEPT ![m] = s] /\ now' = now + 2
       /\ UNCHANGED <<disk, history, up, flight, beacon, written, undone, swept, events>>
  BY <1>2, <1>3, <1>4, <1>7, <1>9, <1>11 DEF Deleted, Recorded
<1>14. Grouped => Names([v |-> v, ts |-> ts], undone)
  BY <1>6 DEF Names
<1>15. Around
  BY <1>4, <1>5, <1>13, TimeGoesOn
<1>16. Grouped => /\ l.pending = live[m].pending \/ Names(l.pending, undone)
                  /\ l.missed = live[m].missed
                  /\ s.tombVer = saved[m].tombVer \/ Names(s.tombVer, undone)
  BY <1>8, <1>10, <1>12, <1>14
<1>17. QED
  BY <1>10, <1>12, <1>13, <1>15, <1>16, MindsStep

LEMMA SecondScanKeeps == ASSUME Good, NEW m \in Member, SecondScan(m) PROVE Good'
<1>1. TypeOK /\ live[m] \in Live /\ saved[m] \in Saved
  BY GoodIs, MindIs
<1>2. PICK v : v = live[m].missed.v
  OBVIOUS
<1>3. PICK ts : ts = live[m].missed.ts
  OBVIOUS
<1>4. live[m].missed # None /\ v # None
  BY <1>2 DEF SecondScan
<1>5. live[m].missed \in Delete
  BY <1>1, <1>4 DEF Live
<1>6. v \in Version /\ ts \in Nat
  BY <1>2, <1>3, <1>4, <1>5 DEF Delete
<1>7. CASE Missing(m) # v
  <2>1. PICK l : l = [live[m] EXCEPT !.missed = None]
    OBVIOUS
  <2>2. l \in Live /\ l.inbound = live[m].inbound /\ l.pending = live[m].pending /\ l.missed = None
    BY <1>1, <2>1 DEF Live
  <2>3. /\ live' = [live EXCEPT ![m] = l]
        /\ UNCHANGED <<disk, history, up, saved, flight, beacon, now, written, undone, swept, events>>
    BY <1>1, <1>2, <1>7, <2>1 DEF SecondScan, TypeOK
  <2>4. Names(None, undone)
    BY DEF Names
  <2>5. QED
    BY <2>2, <2>3, <2>4, StillAround, MemoryStep
<1>8. CASE Missing(m) = v
  <2>1. Grouped => Undone(v, undone)
    BY <1>4, <1>8, MissingIs
  <2>2. PICK n : n = Pend(live[m], v, ts)
    OBVIOUS
  <2>3. n \in Live /\ n.missed = live[m].missed /\ n.pending \in {live[m].pending, [v |-> v, ts |-> ts]}
    BY <1>1, <1>6, <2>2, PendIs
  <2>4. PICK l : l = [n EXCEPT !.missed = None, !.inbound = {}]
    OBVIOUS
  <2>5. l \in Live /\ l.inbound = {} /\ l.missed = None /\ l.pending = n.pending
    BY <2>3, <2>4 DEF Live
  <2>6. PICK V : V = {v}
    OBVIOUS
  <2>7. PICK M : M = {}
    OBVIOUS
  <2>8. V \in SUBSET Version /\ M \in SUBSET Version
    BY <1>6, <2>6, <2>7
  <2>9. PICK r : r = Recorded(saved[m], v, V, ts)
    OBVIOUS
  <2>10. PICK s : s = [r EXCEPT !.manifest = M]
    OBVIOUS
  <2>11. /\ s \in Saved /\ s.manifest = M
         /\ s.tombVer = saved[m].tombVer \/ s.tombVer = [v |-> v, ts |-> ts]
    <3>1. /\ r \in Saved
          /\ r.tombVer = saved[m].tombVer \/ r.tombVer = [v |-> v, ts |-> ts]
      BY <1>1, <1>6, <2>8, <2>9, RecordKeeps
    <3>2. s \in Saved /\ s.manifest = M /\ s.tombVer = r.tombVer
      BY <2>8, <2>10, <3>1 DEF Saved
    <3>3. QED
      BY <3>1, <3>2
  <2>12. /\ live' = [live EXCEPT ![m] = l] /\ saved' = [saved EXCEPT ![m] = s]
         /\ UNCHANGED <<disk, history, up, flight, beacon, now, written, undone, swept, events>>
    BY <1>2, <1>3, <1>8, <2>2, <2>4, <2>6, <2>7, <2>9, <2>10 DEF SecondScan, Recorded
  <2>13. Grouped => Names([v |-> v, ts |-> ts], undone)
    BY <2>1 DEF Names
  <2>14. Names(None, undone)
    BY DEF Names
  <2>15. Around
    BY <2>12, StillAround
  <2>16. Grouped => /\ l.pending = live[m].pending \/ Names(l.pending, undone)
                    /\ Names(l.missed, undone)
                    /\ s.tombVer = saved[m].tombVer \/ Names(s.tombVer, undone)
    BY <2>3, <2>5, <2>11, <2>13, <2>14
  <2>17. l.inbound = {} /\ s.manifest = {}
    BY <2>5, <2>7, <2>11
  <2>18. QED
    BY <2>5, <2>11, <2>12, <2>15, <2>16, <2>17, MindsStep
<1>9. QED
  BY <1>7, <1>8

(***************************************************************************)
(* Sending.                                                                *)
(***************************************************************************)
LEMMA StartSendKeeps == ASSUME Good, NEW m \in Member, StartSend(m) PROVE Good'
<1>1. TypeOK /\ live[m] \in Live /\ \A q \in Member : RoundInv(q)
  BY GoodIs, MindIs DEF MemberInv
<1>2. CASE disk[m] = None
  <2>1. PICK l : l = [live[m] EXCEPT !.queued = FALSE]
    OBVIOUS
  <2>2. l \in Live /\ l.inbound = live[m].inbound /\ l.pending = live[m].pending /\ l.missed = live[m].missed
    BY <1>1, <2>1 DEF Live
  <2>3. /\ live' = [live EXCEPT ![m] = l]
        /\ UNCHANGED <<disk, history, up, saved, flight, beacon, now, written, undone, swept, events>>
    BY <1>1, <1>2, <2>1 DEF StartSend, TypeOK
  <2>4. QED
    BY <2>2, <2>3, StillAround, MemoryStep
<1>3. CASE disk[m] # None
  <2>1. PICK g : g = [f |-> disk[m], end |-> "open"]
    OBVIOUS
  <2>2. g \in Flight /\ g.f = disk[m]
    BY <1>1, <1>3, <2>1, FileIs DEF Flight
  <2>3. /\ up[m] /\ flight' = [flight EXCEPT ![m] = g]
        /\ UNCHANGED <<disk, history, up, live, saved, beacon, now, written, undone, swept, events>>
    BY <1>3, <2>1 DEF StartSend
  <2>4. TypeOK'
    BY <1>1, <2>2, <2>3 DEF TypeOK
  <2>5. \A q \in Member : flight'[q] # None => Like(flight'[q].f)
    <3>1. Like(g.f)
      BY <1>1, <1>3, <2>2, FilesAre
    <3>2. \A q \in Member : flight'[q] = g \/ flight'[q] = flight[q]
      BY <1>1, <2>3 DEF TypeOK
    <3>3. QED
      BY <1>1, <3>1, <3>2, FilesAre
  <2>6. \A q \in Member : LearnStep(q) /\ NameStep(q) /\ history[q] \subseteq history'[q]
    BY <2>3 DEF LearnStep, NameStep
  <2>7. \A q \in Member : beacon'[q] # None /\ beacon'[q].step = "deletes" => beacon'[q].del # None
    BY <1>1, <2>3 DEF RoundInv
  <2>8. now <= now'
    BY <2>3, GoodIs
  <2>9. QED
    BY <2>3, <2>4, <2>5, <2>6, <2>7, <2>8, RestStep
<1>4. QED
  BY <1>2, <1>3

\* How a flight ends.
LEMMA EndsIs ==
    ASSUME Good, NEW m \in Member, flight[m] # None, NEW e \in {"landed", "kept", "failed"}, Ends(m, e)
    PROVE  /\ flight' \in [Member -> Flight \cup {None}]
           /\ \A q \in Member : flight[q] = None => flight'[q] = None
           /\ \A q \in Member : flight'[q] # None => flight[q] # None /\ flight'[q].f = flight[q].f
           /\ \A q \in Member : flight'[q] # None => Like(flight'[q].f)
<1>1. TypeOK /\ flight[m] \in Flight
  BY GoodIs, MindIs
<1>2. PICK g : g = [flight[m] EXCEPT !.end = e]
  OBVIOUS
<1>3. g \in Flight /\ g.f = flight[m].f
  BY <1>1, <1>2 DEF Flight
<1>4. flight' = [flight EXCEPT ![m] = g]
  BY <1>1, <1>2 DEF Ends, TypeOK
<1>5. flight'[m] = g /\ \A q \in Member : q # m => flight'[q] = flight[q]
  BY <1>1, <1>4 DEF TypeOK
<1>6. flight' \in [Member -> Flight \cup {None}]
  BY <1>1, <1>3, <1>4 DEF TypeOK
<1>7. \A q \in Member : flight'[q] # None => flight[q] # None /\ flight'[q].f = flight[q].f
  BY <1>3, <1>5
<1>8. QED
  BY <1>5, <1>6, <1>7, FlightsRest

\* A flight ends, and what is in folders and memory stays.
LEMMA FlightEnds ==
    ASSUME Good, NEW m \in Member, flight[m] # None, NEW e \in {"landed", "kept", "failed"}, Ends(m, e),
           events' = events \/ Event,
           UNCHANGED <<disk, up, live, saved, beacon, now, written, undone, swept>>,
           history' \in [Member -> SUBSET Content],
           \A q \in Member : history[q] \subseteq history'[q]
    PROVE  Good'
<1>1. TypeOK /\ \A q \in Member : RoundInv(q)
  BY GoodIs DEF MemberInv
<1>2. /\ flight' \in [Member -> Flight \cup {None}]
      /\ \A q \in Member : flight[q] = None => flight'[q] = None
      /\ \A q \in Member : flight'[q] # None => Like(flight'[q].f)
  BY EndsIs
<1>3. events' \in 0 .. MaxEvents
  BY <1>1, EventIs DEF TypeOK
<1>4. TypeOK'
  BY <1>1, <1>2, <1>3 DEF TypeOK
<1>5. \A q \in Member : LearnStep(q) /\ NameStep(q)
  BY DEF LearnStep, NameStep
<1>6. \A q \in Member : beacon'[q] # None /\ beacon'[q].step = "deletes" => beacon'[q].del # None
  BY <1>1 DEF RoundInv
<1>7. now <= now'
  BY GoodIs
<1>8. QED
  BY <1>2, <1>4, <1>5, <1>6, <1>7, RestStep

LEMMA LandFailsKeeps == ASSUME Good, NEW m \in Member, LandFails(m) PROVE Good'
<1>1. /\ flight[m] # None /\ Ends(m, "failed") /\ Event
      /\ UNCHANGED <<disk, history, up, live, saved, beacon, now, written, undone, swept>>
  BY DEF LandFails, Upset
<1>2. history' \in [Member -> SUBSET Content] /\ \A q \in Member : history[q] \subseteq history'[q]
  BY <1>1, GoodIs DEF TypeOK
<1>3. QED
  BY <1>1, <1>2, FlightEnds

LEMMA SendLostKeeps == ASSUME Good, NEW m \in Member, SendLost(m) PROVE Good'
<1>1. /\ flight[m] # None /\ Ends(m, "failed") /\ (events' = events \/ Event)
      /\ UNCHANGED <<disk, history, up, live, saved, beacon, now, written, undone, swept>>
  BY DEF SendLost, Upset
<1>2. history' \in [Member -> SUBSET Content] /\ \A q \in Member : history[q] \subseteq history'[q]
  BY <1>1, GoodIs DEF TypeOK
<1>3. QED
  BY <1>1, <1>2, FlightEnds

LEMMA SettleKeeps == ASSUME Good, NEW m \in Member, Settle(m) PROVE Good'
<1>1. TypeOK /\ live[m] \in Live /\ saved[m] \in Saved
  BY GoodIs, MindIs
<1>2. PICK v : v = Sig(disk[m])
  OBVIOUS
<1>3. PICK settled \in BOOLEAN :
        settled = (disk[m] # None /\ v = Sig(flight[m].f) /\ flight[m].end \in {"landed", "kept"})
  OBVIOUS
<1>4. settled => disk[m] # None /\ v \in Version
  BY <1>1, <1>2, <1>3, FileIs, SigIs
<1>5. PICK known : known = IF settled THEN live[m].inbound \cup {v} ELSE live[m].inbound
  OBVIOUS
<1>6. /\ known \in SUBSET Version
      /\ known = live[m].inbound \/ (disk[m] # None /\ known = live[m].inbound \cup {Sig(disk[m])})
  BY <1>1, <1>2, <1>4, <1>5, MindIs
<1>7. PICK b \in BOOLEAN : b = (disk[m] # None /\ ~ settled)
  OBVIOUS
<1>8. PICK l : l = [live[m] EXCEPT !.queued = b, !.inbound = known]
  OBVIOUS
<1>9. l \in Live /\ l.inbound = known /\ l.pending = live[m].pending /\ l.missed = live[m].missed
  BY <1>1, <1>6, <1>8 DEF Live
<1>10. PICK M : M = IF flight[m].end = "failed" THEN saved[m].manifest ELSE known
  OBVIOUS
<1>11. M \in SUBSET Version /\ M \in {saved[m].manifest, known}
  BY <1>1, <1>6, <1>10, MindIs
<1>12. PICK K : K = CASE ~ settled -> saved[m].skipped
                      [] settled /\ flight[m].end = "kept" -> saved[m].skipped \cup {v}
                      [] settled /\ flight[m].end = "landed" -> saved[m].skipped \ {v}
  OBVIOUS
<1>13. K \in SUBSET Version
  <2>1. saved[m].skipped \in SUBSET Version
    BY <1>1 DEF Saved
  <2>2. CASE ~ settled
    BY <1>12, <2>1, <2>2
  <2>3. CASE settled /\ flight[m].end = "kept"
    BY <1>4, <1>12, <2>1, <2>3
  <2>4. CASE settled /\ flight[m].end = "landed"
    BY <1>4, <1>12, <2>1, <2>4
  <2>5. QED
    BY <1>3, <2>2, <2>3, <2>4
<1>14. PICK s : s = [saved[m] EXCEPT !.manifest = M, !.skipped = K]
  OBVIOUS
<1>15. s \in Saved /\ s.manifest = M /\ s.tombVer = saved[m].tombVer
  BY <1>1, <1>11, <1>13, <1>14 DEF Saved
<1>16. /\ up[m] /\ flight' = [flight EXCEPT ![m] = None]
       /\ UNCHANGED <<disk, history, up, beacon, now, written, undone, swept, events>>
  BY DEF Settle
<1>17. live' = [live EXCEPT ![m] = l]
  BY <1>2, <1>3, <1>5, <1>7, <1>8 DEF Settle
<1>18. saved' = [saved EXCEPT ![m] = s]
  BY <1>2, <1>3, <1>5, <1>10, <1>12, <1>14 DEF Settle
<1>19. Around
  BY <1>1, <1>16 DEF TypeOK, Around
<1>20. QED
  BY <1>6, <1>9, <1>11, <1>15, <1>16, <1>17, <1>18, <1>19, MindsStep

(***************************************************************************)
(* A file reaches the peer.                                                *)
(***************************************************************************)
\* The peer's part of a Land that replaces nothing or a file that f wins over.
LEMMA PlaceStep ==
    ASSUME Good, NEW m \in Member, NEW p \in Member, p # m, flight[m] # None, up[p],
           NEW f \in File, f = flight[m].f, NEW kept \in SUBSET Content,
           Place(p, f, kept), Ends(m, "landed"),
           disk[p] # None => disk[p].c \in kept /\ (Grouped => disk[p].mt < f.mt),
           UNCHANGED <<up, beacon, written, undone, swept, events>>
    PROVE  Good'
<1>1. /\ TypeOK /\ live[p] \in Live /\ saved[p] \in Saved /\ live[p].inbound \in SUBSET Version
      /\ now \in Nat /\ \A q \in Member : RoundInv(q)
  BY GoodIs, MindIs DEF MemberInv
<1>2. PICK S : S = live[p].inbound \cup {Sig(f)}
  OBVIOUS
<1>3. PICK g \in {live[p].guard} \cup {kept # {}} :
        live' = [live EXCEPT ![p] = [live[p] EXCEPT
                   !.inbound = live[p].inbound \cup {Sig(f)}, !.guard = g]]
  BY DEF Place
<1>4. g \in BOOLEAN
  <2>1. live[p].guard \in BOOLEAN
    BY <1>1 DEF Live
  <2>2. QED
    BY <1>3, <2>1
<1>5. PICK l : l = [live[p] EXCEPT !.inbound = S, !.guard = g]
  OBVIOUS
<1>6. S \in SUBSET Version /\ Sig(f) \in Version
  BY <1>1, <1>2, SigIs
<1>7. l \in Live /\ l.inbound = S /\ l.pending = live[p].pending /\ l.missed = live[p].missed
  BY <1>1, <1>4, <1>5, <1>6 DEF Live
<1>8. PICK s : s = [saved[p] EXCEPT !.manifest = S]
  OBVIOUS
<1>9. s \in Saved /\ s.manifest = S /\ s.tombVer = saved[p].tombVer
  BY <1>1, <1>6, <1>8 DEF Saved
<1>10. PICK e : e = [f EXCEPT !.at = now', !.fresh = TRUE]
  OBVIOUS
<1>11. now' \in Nat /\ now <= now'
  BY <1>1 DEF Place
<1>12. e \in File /\ e.c = f.c /\ e.mt = f.mt /\ e # None
  <2>1. e \in File
    BY <1>10, <1>11 DEF File
  <2>2. e.c = f.c /\ e.mt = f.mt
    BY <1>10 DEF File
  <2>3. QED
    BY <2>1, <2>2, NoneAssumption
<1>13. /\ disk' = [disk EXCEPT ![p] = e] /\ live' = [live EXCEPT ![p] = l]
       /\ history' = [history EXCEPT ![p] = history[p] \cup kept]
  BY <1>2, <1>3, <1>5, <1>10 DEF Place
<1>14. saved' = [saved EXCEPT ![p] = s]
  BY <1>1, <1>2, <1>8 DEF Place, TypeOK
<1>15. /\ disk' \in [Member -> File \cup {None}] /\ disk'[p] = e
       /\ \A q \in Member : q # p => disk'[q] = disk[q]
  BY <1>1, <1>12, <1>13 DEF TypeOK
<1>16. /\ live' \in [Member -> Live] /\ live'[p] = l
       /\ \A q \in Member : q # p => live'[q] = live[q]
  BY <1>1, <1>7, <1>13 DEF TypeOK
<1>17. /\ saved' \in [Member -> Saved] /\ saved'[p] = s
       /\ \A q \in Member : q # p => saved'[q] = saved[q]
  BY <1>1, <1>9, <1>14 DEF TypeOK
<1>18. /\ history' \in [Member -> SUBSET Content] /\ kept \subseteq history'[p]
       /\ \A q \in Member : history[q] \subseteq history'[q]
  BY <1>1, <1>13 DEF TypeOK
<1>19. /\ flight' \in [Member -> Flight \cup {None}]
       /\ \A q \in Member : flight[q] = None => flight'[q] = None
       /\ \A q \in Member : flight'[q] # None => Like(flight'[q].f)
  BY EndsIs
<1>20. TypeOK'
  BY <1>1, <1>11, <1>15, <1>16, <1>17, <1>18, <1>19 DEF TypeOK
<1>21. \A q \in Member : DiskStep(q)
  BY <1>15, <1>18 DEF DiskStep
<1>22. \A q \in Member : MindStep(q)
  BY <1>1, <1>2, <1>6, <1>7, <1>9, <1>16, <1>17 DEF MindStep, RoundInv
<1>23. \A q \in Member : FileStep(q)
  <2>1. Like(e)
    BY <1>1, <1>12, FilesAre DEF Like
  <2>2. \A q \in Member : disk'[q] # None => Like(disk'[q])
    BY <1>1, <1>15, <2>1, FilesAre
  <2>3. QED
    BY <1>19, <2>2 DEF FileStep
<1>24. \A q \in Member : NameStep(q)
  BY <1>7, <1>9, <1>16, <1>17 DEF NameStep
<1>25. ASSUME Grouped PROVE \A q \in Member : KnowStep(q) \/ KnownInv(q)'
  <2>1. \A q \in Member : q # p => KnowStep(q)
    BY <1>15, <1>16, <1>17 DEF KnowStep, FileStays
  <2>2. KnownInv(p)'
    <3>1. PICK d : d = disk[p]
      OBVIOUS
    <3>2. PICK T : T = live[p].inbound
      OBVIOUS
    <3>3. PICK U : U = undone
      OBVIOUS
    <3>4. KnownAt(T, d, U)
      BY <1>25, <3>1, <3>2, <3>3, GoodIs DEF SpareInv, KnownInv
    <3>5. d # None => d \in File /\ d.mt < e.mt
      BY <1>1, <1>12, <1>25, <3>1, FileIs
    <3>6. T \in SUBSET Version
      BY <1>1, <3>2
    <3>7. KnownAt(T \cup {Sig(e)}, e, U)
      BY ONLY <1>12, <3>4, <3>5, <3>6, KnownPlaced
    <3>8. Sig(e) = Sig(f)
      BY <1>12 DEF Sig
    <3>9. KnownAt(S, e, U)
      BY <1>2, <3>2, <3>7, <3>8
    <3>10. undone' = U /\ live'[p].inbound = S /\ saved'[p].manifest = S /\ disk'[p] = e
      BY <1>7, <1>9, <1>15, <1>16, <1>17, <3>3
    <3>11. QED
      BY <3>9, <3>10 DEF KnownInv
  <2>3. QED
    BY <2>1, <2>2
<1>26. SweptStep /\ undone \subseteq undone' /\ \A c \in written' : c \in written
  BY DEF SweptStep
<1>27. QED
  BY <1>11, <1>18, <1>20, <1>21, <1>22, <1>23, <1>24, <1>25, <1>26, GoodSteps

LEMMA LandKeeps == ASSUME Good, NEW m \in Member, Land(m) PROVE Good'
<1>1. PICK p : p = other(m)
  OBVIOUS
<1>2. p \in Member /\ p # m
  BY <1>1, OtherIs
<1>3. PICK f : f = flight[m].f
  OBVIOUS
<1>4. PICK here : here = disk[p]
  OBVIOUS
<1>5. /\ flight[m] # None /\ flight[m].end = "open" /\ up[p]
      /\ UNCHANGED <<up, beacon, written, undone, swept, events>>
  BY <1>1 DEF Land
<1>6. /\ TypeOK /\ f \in File /\ f.c \in Content /\ live[p] \in Live
      /\ live[p].inbound \in SUBSET Version /\ \A q \in Member : RoundInv(q)
  BY <1>2, <1>3, <1>5, GoodIs, MindIs DEF MemberInv, File
<1>7. here # None => here \in File /\ here.c \in Content /\ here.mt \in Nat
  BY <1>2, <1>4, <1>6, FileIs
<1>8. CASE /\ Ends(m, "kept") /\ UNCHANGED <<disk, history, live, saved, now>>
  <2>1. history' \in [Member -> SUBSET Content] /\ \A q \in Member : history[q] \subseteq history'[q]
    BY <1>6, <1>8 DEF TypeOK
  <2>2. QED
    BY <1>5, <1>8, <2>1, FlightEnds
<1>9. CASE here = None /\ Place(p, f, {}) /\ Ends(m, "landed")
  <2>1. PICK kept \in SUBSET Content : kept = {}
    OBVIOUS
  <2>2. Place(p, f, kept)
    BY <1>9, <2>1
  <2>3. QED
    BY <1>2, <1>3, <1>4, <1>5, <1>6, <1>9, <2>2, PlaceStep
<1>10. CASE /\ here # None /\ here.c = f.c
            /\ live' = [live EXCEPT ![p].inbound = live[p].inbound \cup {Sig(here)}]
            /\ Ends(m, "landed")
            /\ UNCHANGED <<disk, history, saved, now>>
  <2>1. PICK S : S = live[p].inbound \cup {Sig(here)}
    OBVIOUS
  <2>2. S \in SUBSET Version
    BY <1>6, <1>7, <1>10, <2>1, SigIs
  <2>3. PICK l : l = [live[p] EXCEPT !.inbound = S]
    OBVIOUS
  <2>4. l \in Live /\ l.inbound = S /\ l.pending = live[p].pending /\ l.missed = live[p].missed
    BY <1>6, <2>2, <2>3 DEF Live
  <2>5. live' = [live EXCEPT ![p] = l]
    BY <1>2, <1>6, <1>10, <2>1, <2>3 DEF TypeOK
  <2>6. live' \in [Member -> Live] /\ live'[p] = l /\ \A q \in Member : q # p => live'[q] = live[q]
    BY <1>2, <1>6, <2>4, <2>5 DEF TypeOK
  <2>7. /\ flight' \in [Member -> Flight \cup {None}]
        /\ \A q \in Member : flight[q] = None => flight'[q] = None
        /\ \A q \in Member : flight'[q] # None => Like(flight'[q].f)
    BY <1>5, <1>10, EndsIs
  <2>8. TypeOK'
    BY <1>5, <1>6, <1>10, <2>6, <2>7 DEF TypeOK
  <2>9. \A q \in Member : LearnStep(q) /\ NameStep(q) /\ history[q] \subseteq history'[q]
    BY <1>4, <1>5, <1>10, <2>1, <2>4, <2>6 DEF LearnStep, NameStep
  <2>10. \A q \in Member : beacon'[q] # None /\ beacon'[q].step = "deletes" => beacon'[q].del # None
    BY <1>5, <1>6 DEF RoundInv
  <2>11. now <= now'
    BY <1>10, GoodIs
  <2>12. QED
    BY <1>5, <1>10, <2>7, <2>8, <2>9, <2>10, <2>11, RestStep
<1>11. CASE here # None /\ here.c # f.c /\ (Group => Wins(f, here)) /\ Place(p, f, {here.c}) /\ Ends(m, "landed")
  <2>1. PICK kept \in SUBSET Content : kept = {here.c}
    BY <1>7, <1>11
  <2>2. Place(p, f, kept)
    BY <1>11, <2>1
  <2>3. ASSUME Grouped PROVE here.mt < f.mt
    <3>1. TimeInv /\ Wins(f, here)
      BY <1>11, <2>3, GoodIs DEF SpareInv, Grouped
    <3>2. f \in Files /\ here \in Files
      BY <1>2, <1>3, <1>4, <1>5, <1>6, <1>11, FilesAre
    <3>3. f.mt # here.mt
      BY <1>11, <3>1, <3>2 DEF TimeInv, Timed
    <3>4. f.mt > here.mt
      BY <3>1, <3>3 DEF Wins
    <3>5. f.mt \in Nat
      BY <1>6 DEF File
    <3>6. QED
      BY <1>7, <1>11, <3>4, <3>5
  <2>4. QED
    BY <1>2, <1>3, <1>4, <1>5, <1>6, <1>11, <2>1, <2>2, <2>3, PlaceStep
<1>12. CASE /\ history' = [history EXCEPT ![p] = history[p] \cup {f.c}]
            /\ Ends(m, "kept") /\ UNCHANGED <<disk, live, saved, now>>
  <2>1. history' \in [Member -> SUBSET Content] /\ \A q \in Member : history[q] \subseteq history'[q]
    BY <1>2, <1>6, <1>12 DEF TypeOK
  <2>2. QED
    BY <1>5, <1>12, <2>1, FlightEnds
<1>13. QED
  BY <1>1, <1>3, <1>4, <1>8, <1>9, <1>10, <1>11, <1>12 DEF Land

(***************************************************************************)
(* The control beacon.                                                     *)
(***************************************************************************)
\* Rounds go on or are over; what they carry stays.
Rounds ==
    /\ beacon' \in [Member -> Round \cup {None}]
    /\ \A q \in Member : beacon'[q] # None =>
          /\ beacon[q] # None /\ beacon'[q].del = beacon[q].del /\ beacon'[q].named = beacon[q].named
          /\ beacon'[q].step = "deletes" => beacon[q].step = "deletes"

LEMMA OverIs == ASSUME Good, NEW m \in Member, Over(m) PROVE Rounds
BY GoodIs DEF Over, Rounds, TypeOK

\* Told keeps what the member knows, and at most forgets what was pending.
MindsKept ==
    /\ live' \in [Member -> Live]
    /\ \A q \in Member : /\ live'[q].pending \in {live[q].pending, None}
                         /\ live'[q].missed = live[q].missed

\* The peer's file is removed, as a delete of version v at ts.
LEMMA SweepStep ==
    ASSUME Good, NEW p \in Member, disk[p] # None, NEW v \in Version, NEW ts \in Nat,
           DeleteAllowed(disk[p], v, ts), Grouped => Undone(v, undone),
           NEW M \in SUBSET Version, M \in {{}, saved[p].manifest}, Sweep(p, v, ts, M),
           MindsKept, live'[p].inbound = {}, \A q \in Member : q # p => live'[q].inbound = live[q].inbound,
           Rounds, UNCHANGED <<up, flight, now, written, undone, events>>
    PROVE  Good'
<1>1. /\ TypeOK /\ live[p] \in Live /\ saved[p] \in Saved /\ disk[p] \in File
      /\ disk[p].c \in Content /\ \A q \in Member : RoundInv(q)
  BY GoodIs, MindIs, FileIs DEF MemberInv
<1>2. PICK z \in Saved : z = saved[p]
  BY <1>1
<1>3. PICK V \in SUBSET Version : V = {Sig(disk[p])}
  BY <1>1, SigIs
<1>4. PICK r, s : r = Recorded(z, v, V, ts) /\ s = [r EXCEPT !.manifest = M]
  OBVIOUS
<1>5. /\ s \in Saved /\ s.manifest = M
      /\ s.tombVer = z.tombVer \/ s.tombVer = [v |-> v, ts |-> ts]
  <2>1. r \in Saved /\ (r.tombVer = z.tombVer \/ r.tombVer = [v |-> v, ts |-> ts])
    BY <1>2, <1>3, <1>4, RecordKeeps
  <2>2. s \in Saved /\ s.manifest = M /\ s.tombVer = r.tombVer
    BY <1>4, <2>1 DEF Saved
  <2>3. QED
    BY <2>1, <2>2
<1>6. /\ disk' = [disk EXCEPT ![p] = None] /\ saved' = [saved EXCEPT ![p] = s]
      /\ history' = [history EXCEPT ![p] = history[p] \cup {disk[p].c}]
      /\ swept' = swept \cup {disk[p].c}
  BY <1>2, <1>3, <1>4 DEF Sweep, Recorded
<1>7. /\ disk' \in [Member -> File \cup {None}] /\ disk'[p] = None
      /\ \A q \in Member : q # p => disk'[q] = disk[q]
  BY <1>1, <1>6 DEF TypeOK
<1>8. /\ saved' \in [Member -> Saved] /\ saved'[p] = s
      /\ \A q \in Member : q # p => saved'[q] = saved[q]
  BY <1>1, <1>5, <1>6 DEF TypeOK
<1>9. /\ history' \in [Member -> SUBSET Content] /\ disk[p].c \in history'[p]
      /\ \A q \in Member : history[q] \subseteq history'[q]
  BY <1>1, <1>6 DEF TypeOK
<1>10. \A q \in Member : ~ up'[q] => beacon'[q] = None
  BY <1>1 DEF TypeOK, Rounds
<1>11. TypeOK'
  BY <1>1, <1>6, <1>7, <1>8, <1>9, <1>10 DEF TypeOK, MindsKept, Rounds
<1>12. \A q \in Member : DiskStep(q)
  BY <1>7, <1>9 DEF DiskStep
<1>13. \A q \in Member : MindStep(q)
  BY <1>1, <1>5, <1>8 DEF MindStep, RoundInv, Rounds
<1>14. \A q \in Member : FileStep(q)
  BY <1>1, <1>7, FilesAre DEF FileStep
<1>15. ASSUME Grouped PROVE \A q \in Member : NameStep(q)
  <2>1. Names([v |-> v, ts |-> ts], undone') /\ Names(None, undone')
    BY <1>15 DEF Names
  <2>2. \A q \in Member : live'[q].pending = live[q].pending \/ Names(live'[q].pending, undone')
    BY <2>1 DEF MindsKept
  <2>3. \A q \in Member : saved'[q].tombVer = saved[q].tombVer \/ Names(saved'[q].tombVer, undone')
    BY <1>2, <1>5, <1>8, <2>1
  <2>4. QED
    BY <2>2, <2>3 DEF NameStep, MindsKept, Rounds
<1>16. v[1] = Size[disk[p].c]
  <2>1. v # None
    BY VersionIs
  <2>2. QED
    BY <2>1 DEF DeleteAllowed
<1>17. ASSUME Grouped PROVE \A q \in Member : KnowStep(q)
  <2>1. Undone(Sig(disk[p]), undone')
    BY <1>1, <1>16, <1>17, SigIs DEF Undone
  <2>2. \A q \in Member : FileStays(disk[q], disk'[q], undone')
    BY <1>7, <2>1 DEF FileStays
  <2>3. QED
    BY <1>5, <1>8, <2>2 DEF KnowStep
<1>18. ASSUME Grouped PROVE SweptStep
  <2>1. \E u \in undone' : Size[u[2]] = Size[disk[p].c]
    BY <1>16, <1>18 DEF Undone
  <2>2. QED
    BY <1>6, <2>1 DEF SweptStep
<1>19. now <= now' /\ undone \subseteq undone' /\ \A c \in written' : c \in written
  BY GoodIs
<1>20. QED
  BY <1>9, <1>11, <1>12, <1>13, <1>14, <1>15, <1>17, <1>18, <1>19, GoodSteps

\* A round's step at p that removes nothing; p may adopt the delete.
LEMMA SpareStep ==
    ASSUME Good, NEW p \in Member, NEW v \in Version \cup {None}, NEW ts \in Nat,
           Grouped => (v # None => Undone(v, undone)),
           saved' \in {saved, [saved EXCEPT ![p] = Tombstoned(saved[p], v, ts)]},
           MindsKept, \A q \in Member : live'[q].inbound = live[q].inbound,
           Rounds, UNCHANGED <<disk, history, up, flight, now, written, undone, swept, events>>
    PROVE  Good'
<1>1. TypeOK /\ saved[p] \in Saved /\ \A q \in Member : RoundInv(q)
  BY GoodIs, MindIs DEF MemberInv
<1>2. PICK s : s = Tombstoned(saved[p], v, ts)
  OBVIOUS
<1>3. /\ s \in Saved /\ s.manifest = saved[p].manifest
      /\ s.tombVer = saved[p].tombVer \/ (v # None /\ s.tombVer = [v |-> v, ts |-> ts])
  BY <1>1, <1>2, TombstonedIs
<1>4. /\ saved' \in [Member -> Saved]
      /\ \A q \in Member : saved'[q] = saved[q] \/ (q = p /\ saved'[q] = s)
  BY <1>1, <1>2, <1>3 DEF TypeOK
<1>5. \A q \in Member : ~ up'[q] => beacon'[q] = None
  BY <1>1 DEF TypeOK, Rounds
<1>6. TypeOK'
  BY <1>1, <1>4, <1>5 DEF TypeOK, MindsKept, Rounds
<1>7. \A q \in Member : LearnStep(q)
  BY <1>3, <1>4 DEF LearnStep
<1>8. \A q \in Member : flight'[q] # None => Like(flight'[q].f)
  BY FlightsRest
<1>9. \A q \in Member : beacon'[q] # None /\ beacon'[q].step = "deletes" => beacon'[q].del # None
  BY <1>1 DEF Rounds, RoundInv
<1>10. ASSUME Grouped PROVE \A q \in Member : NameStep(q)
  <2>1. Names(None, undone') /\ (v # None => Names([v |-> v, ts |-> ts], undone'))
    BY <1>10 DEF Names
  <2>2. \A q \in Member : live'[q].pending = live[q].pending \/ Names(live'[q].pending, undone')
    BY <2>1 DEF MindsKept
  <2>3. \A q \in Member : saved'[q].tombVer = saved[q].tombVer \/ Names(saved'[q].tombVer, undone')
    BY <1>3, <1>4, <2>1
  <2>4. QED
    BY <2>2, <2>3 DEF NameStep, MindsKept, Rounds
<1>11. now <= now' /\ \A q \in Member : history[q] \subseteq history'[q]
  BY GoodIs
<1>12. QED
  BY <1>6, <1>7, <1>8, <1>9, <1>10, <1>11, RestStep

LEMMA BeaconKeeps == ASSUME Good, NEW m \in Member, Beacon(m) PROVE Good'
<1>1. /\ TypeOK /\ live[m] \in Live /\ saved[m] \in Saved /\ now \in Nat
      /\ \A q \in Member : RoundInv(q)
  BY GoodIs, MindIs DEF MemberInv
<1>2. PICK v : v = IF disk[m] = None THEN None ELSE Sig(disk[m])
  OBVIOUS
<1>3. v \in Version \cup {None}
  BY <1>1, <1>2, FileIs, SigIs
<1>4. PICK n : n = Named(saved[m])
  OBVIOUS
<1>5. n \in Version \cup {None}
  BY <1>1, <1>4 DEF Named, Saved, DeletedVersion
<1>6. PICK e : e = IF live[m].pending = None THEN "snapshot" ELSE "deletes"
  OBVIOUS
<1>7. PICK r : r = [del |-> live[m].pending, file |-> v, tomb |-> saved[m].tomb, named |-> n, step |-> e]
  OBVIOUS
<1>8. live[m].pending \in Delete \cup {None} /\ saved[m].tomb \in Nat /\ e \in {"deletes", "snapshot"}
  BY <1>1, <1>6 DEF Live, Saved
<1>9. r \in Round /\ r.del = live[m].pending /\ r.named = n /\ r.step = e
  BY <1>3, <1>5, <1>7, <1>8 DEF Round
<1>10. PICK K : K = saved[m].skipped \cap (IF disk[m] = None THEN {} ELSE {Sig(disk[m])})
  OBVIOUS
<1>11. PICK t : t = now + 1
  OBVIOUS
<1>12. PICK s : s = [saved[m] EXCEPT !.seen = t, !.skipped = K]
  OBVIOUS
<1>13. s \in Saved /\ s.manifest = saved[m].manifest /\ s.tombVer = saved[m].tombVer
  <2>1. t \in Nat /\ K \in SUBSET Version
    BY <1>1, <1>10, <1>11 DEF Saved
  <2>2. QED
    BY <1>1, <1>12, <2>1 DEF Saved
<1>14. /\ up[m] /\ beacon' = [beacon EXCEPT ![m] = r]
       /\ UNCHANGED <<disk, history, up, live, flight, now, written, undone, swept, events>>
  BY <1>2, <1>4, <1>6, <1>7 DEF Beacon
<1>15. saved' = [saved EXCEPT ![m] = s]
  BY <1>10, <1>11, <1>12 DEF Beacon
<1>16. /\ saved' \in [Member -> Saved] /\ saved'[m] = s
       /\ \A q \in Member : q # m => saved'[q] = saved[q]
  BY <1>1, <1>13, <1>15 DEF TypeOK
<1>17. /\ beacon' \in [Member -> Round \cup {None}] /\ beacon'[m] = r
       /\ \A q \in Member : q # m => beacon'[q] = beacon[q]
  BY <1>1, <1>9, <1>14 DEF TypeOK
<1>18. TypeOK'
  BY <1>1, <1>14, <1>16, <1>17 DEF TypeOK
<1>19. \A q \in Member : LearnStep(q) /\ history[q] \subseteq history'[q]
  BY <1>13, <1>14, <1>16 DEF LearnStep
<1>20. \A q \in Member : NameStep(q)
  BY <1>4, <1>9, <1>13, <1>14, <1>16, <1>17 DEF NameStep
<1>21. \A q \in Member : flight'[q] # None => Like(flight'[q].f)
  BY <1>14, FlightsRest
<1>22. \A q \in Member : beacon'[q] # None /\ beacon'[q].step = "deletes" => beacon'[q].del # None
  BY <1>1, <1>6, <1>9, <1>17 DEF RoundInv
<1>23. now <= now'
  BY <1>14, GoodIs
<1>24. QED
  BY <1>14, <1>18, <1>19, <1>20, <1>21, <1>22, <1>23, RestStep

\* What a round may name.
LEMMA RoundIs ==
    ASSUME Good, NEW m \in Member, beacon[m] # None
    PROVE  /\ beacon[m] \in Round
           /\ beacon[m].step = "deletes" =>
                /\ beacon[m].del.v \in Version \cup {None} /\ beacon[m].del.ts \in Nat
                /\ Grouped /\ beacon[m].del.v # None => Undone(beacon[m].del.v, undone)
           /\ beacon[m].named \in Version \cup {None} /\ beacon[m].tomb \in Nat
           /\ Grouped /\ beacon[m].named # None => Undone(beacon[m].named, undone)
<1>1. beacon[m] \in Round /\ RoundInv(m)
  BY GoodIs, MindIs DEF MemberInv
<1>2. PICK d : d = beacon[m].del
  OBVIOUS
<1>3. d \in Delete \cup {None} /\ beacon[m].named \in Version \cup {None} /\ beacon[m].tomb \in Nat
  BY <1>1, <1>2 DEF Round
<1>4. Grouped => Names(d, undone) /\ (beacon[m].named # None => Undone(beacon[m].named, undone))
  BY <1>2, GoodIs DEF SpareInv, NamesInv
<1>5. beacon[m].step = "deletes" => d # None
  BY <1>1, <1>2 DEF RoundInv
<1>6. d # None => d.v \in Version \cup {None} /\ d.ts \in Nat
  BY <1>3 DEF Delete
<1>7. Grouped /\ d # None /\ d.v # None => Undone(d.v, undone)
  BY <1>4 DEF Names
<1>8. QED
  BY <1>1, <1>2, <1>3, <1>4, <1>5, <1>6, <1>7

LEMMA ApplyDeleteKeeps == ASSUME Good, NEW m \in Member, ApplyDelete(m) PROVE Good'
<1>1. PICK p : p = other(m)
  OBVIOUS
<1>2. p \in Member /\ p # m
  BY <1>1, OtherIs
<1>3. PICK v : v = beacon[m].del.v
  OBVIOUS
<1>4. PICK ts : ts = beacon[m].del.ts
  OBVIOUS
<1>5. PICK goes \in BOOLEAN :
        goes = (disk[p] # None /\ ~ disk[p].fresh /\ v # None /\ DeleteAllowed(disk[p], v, ts))
  OBVIOUS
<1>6. /\ beacon[m] # None /\ beacon[m].step = "deletes"
      /\ beacon' = [beacon EXCEPT ![m].step = "snapshot"]
      /\ UNCHANGED <<up, flight, now, written, undone, events>>
  BY DEF ApplyDelete
<1>7. /\ TypeOK /\ live[p] \in Live /\ beacon[m] \in Round /\ v \in Version \cup {None} /\ ts \in Nat
      /\ Grouped => (v # None => Undone(v, undone))
  BY <1>2, <1>3, <1>4, <1>6, GoodIs, MindIs, RoundIs
<1>8. Rounds
  <2>1. PICK r : r = [beacon[m] EXCEPT !.step = "snapshot"]
    OBVIOUS
  <2>2. r \in Round /\ r.del = beacon[m].del /\ r.named = beacon[m].named /\ r.step = "snapshot"
    BY <1>7, <2>1 DEF Round
  <2>3. beacon' = [beacon EXCEPT ![m] = r]
    BY <1>6, <1>7, <2>1 DEF TypeOK
  <2>4. QED
    BY <1>6, <1>7, <2>2, <2>3 DEF TypeOK, Rounds
<1>9. CASE goes
  <2>1. PICK M \in SUBSET Version : M = {}
    OBVIOUS
  <2>2. Sweep(p, v, ts, M) /\ live' = [live EXCEPT ![p] = Swept(live[p])]
    BY <1>1, <1>3, <1>4, <1>5, <1>9, <2>1 DEF ApplyDelete
  <2>3. PICK l : l = Swept(live[p])
    OBVIOUS
  <2>4. l \in Live /\ l.inbound = {} /\ l.pending = live[p].pending /\ l.missed = live[p].missed
    BY <1>7, <2>3, SweptIs
  <2>5. /\ live' \in [Member -> Live] /\ live'[p] = l
        /\ \A q \in Member : q # p => live'[q] = live[q]
    BY <1>2, <1>7, <2>2, <2>3, <2>4 DEF TypeOK
  <2>6. MindsKept
    BY <2>4, <2>5 DEF MindsKept
  <2>7. disk[p] # None /\ v \in Version /\ DeleteAllowed(disk[p], v, ts)
    BY <1>5, <1>7, <1>9
  <2>8. Grouped => Undone(v, undone)
    BY <1>5, <1>7, <1>9
  <2>9. live'[p].inbound = {} /\ \A q \in Member : q # p => live'[q].inbound = live[q].inbound
    BY <2>4, <2>5
  <2>10. QED
    BY <1>2, <1>6, <1>7, <1>8, <2>1, <2>2, <2>6, <2>7, <2>8, <2>9, SweepStep
<1>10. CASE ~ goes
  <2>1. /\ saved' \in {saved, [saved EXCEPT ![p] = Tombstoned(saved[p], v, ts)]}
        /\ UNCHANGED <<disk, history, live, swept>>
    BY <1>1, <1>3, <1>4, <1>5, <1>10 DEF ApplyDelete
  <2>2. MindsKept
    BY <1>7, <2>1 DEF MindsKept, TypeOK
  <2>3. \A q \in Member : live'[q].inbound = live[q].inbound
    BY <2>1
  <2>4. QED
    BY <1>2, <1>6, <1>7, <1>8, <2>1, <2>2, <2>3, SpareStep
<1>11. QED
  BY <1>9, <1>10

\* A round is over: the member may forget the delete it brought.
LEMMA ToldKept ==
    ASSUME Good, NEW m \in Member, NEW p \in Member, p # m, NEW l \in Live,
           l.pending = live[p].pending, l.missed = live[p].missed,
           live' = [live EXCEPT ![p] = l, ![m] = Told(m)]
    PROVE  /\ MindsKept /\ live'[p].inbound = l.inbound
           /\ \A q \in Member : q # p => live'[q].inbound = live[q].inbound
<1>1. TypeOK
  BY GoodIs
<1>2. PICK t : t = Told(m)
  OBVIOUS
<1>3. /\ t \in Live /\ t.inbound = live[m].inbound
      /\ t.pending \in {live[m].pending, None} /\ t.missed = live[m].missed
  BY <1>1, <1>2, ToldIs
<1>4. live' = [live EXCEPT ![p] = l, ![m] = t]
  BY <1>2
<1>5. /\ live' \in [Member -> Live] /\ live'[p] = l /\ live'[m] = t
      /\ \A q \in Member : q # p /\ q # m => live'[q] = live[q]
  BY <1>1, <1>3, <1>4 DEF TypeOK
<1>6. QED
  BY <1>3, <1>5 DEF MindsKept

LEMMA ReconcileKeeps == ASSUME Good, NEW m \in Member, Reconcile(m) PROVE Good'
<1>1. PICK p : p = other(m)
  OBVIOUS
<1>2. p \in Member /\ p # m
  BY <1>1, OtherIs
<1>3. PICK r : r = beacon[m]
  OBVIOUS
<1>4. PICK v : v = r.named
  OBVIOUS
<1>5. PICK ts : ts = r.tomb
  OBVIOUS
<1>6. r # None /\ Over(m) /\ UNCHANGED <<up, flight, now, written, undone, events>>
  BY <1>3 DEF Reconcile
<1>7. /\ TypeOK /\ live[p] \in Live /\ v \in Version \cup {None} /\ ts \in Nat
      /\ Grouped => (v # None => Undone(v, undone))
  BY <1>2, <1>3, <1>4, <1>5, <1>6, GoodIs, MindIs, RoundIs
<1>8. Rounds
  BY <1>6, OverIs
<1>9. CASE Plan(p, r) = "delete"
  <2>1. disk[p] # None /\ v # None /\ DeleteAllowed(disk[p], v, ts)
    <3>1. disk[p] # None
      BY <1>9 DEF Plan
    <3>2. disk[p].fresh \in BOOLEAN /\ disk[p].at \in Nat
      BY <1>2, <1>7, <3>1, FileIs DEF File
    <3>3. ~ disk[p].fresh /\ ts > disk[p].at
      BY <1>5, <1>7, <1>9, <3>1, <3>2 DEF Plan
    <3>4. ~ (v # None /\ ~ DeleteAllowed(disk[p], v, ts)) /\ v # None
      BY <1>4, <1>5, <1>9, <3>1, <3>3 DEF Plan
    <3>5. QED
      BY <3>1, <3>4
  <2>2. PICK M : M = saved[p].manifest
    OBVIOUS
  <2>3. M \in SUBSET Version
    BY <1>2, <1>7, <2>2, MindIs
  <2>4. Sweep(p, v, ts, M) /\ live' = [live EXCEPT ![p] = Swept(live[p]), ![m] = Told(m)]
    BY <1>1, <1>3, <1>4, <1>5, <1>9, <2>2 DEF Reconcile
  <2>5. PICK l : l = Swept(live[p])
    OBVIOUS
  <2>6. l \in Live /\ l.inbound = {} /\ l.pending = live[p].pending /\ l.missed = live[p].missed
    BY <1>7, <2>5, SweptIs
  <2>7. live' = [live EXCEPT ![p] = l, ![m] = Told(m)]
    BY <2>4, <2>5
  <2>8. /\ MindsKept /\ live'[p].inbound = {}
        /\ \A q \in Member : q # p => live'[q].inbound = live[q].inbound
    <3>1. p \in Member /\ p # m
      BY <1>2
    <3>2. l \in Live
      BY <2>6
    <3>3. l.pending = live[p].pending
      BY <2>6
    <3>4. l.missed = live[p].missed
      BY <2>6
    <3>5. /\ MindsKept /\ live'[p].inbound = l.inbound
          /\ \A q \in Member : q # p => live'[q].inbound = live[q].inbound
      BY <2>7, <3>1, <3>2, <3>3, <3>4, ToldKept
    <3>6. l.inbound = {}
      BY <2>6
    <3>7. QED
      BY <3>5, <3>6
  <2>9. v \in Version /\ (Grouped => Undone(v, undone))
    BY <1>7, <2>1
  <2>10. QED
    BY <1>2, <1>6, <1>7, <1>8, <2>1, <2>2, <2>3, <2>4, <2>8, <2>9, SweepStep
<1>10. CASE Plan(p, r) # "delete"
  <2>1. saved' \in {saved, [saved EXCEPT ![p] = Tombstoned(saved[p], v, ts)]}
    BY <1>1, <1>3, <1>4, <1>5, <1>10 DEF Reconcile
  <2>2. PICK b \in BOOLEAN : b = (live[p].queued \/
          (Plan(p, r) = "push" /\ Sig(disk[p]) \notin saved[p].skipped))
    OBVIOUS
  <2>3. PICK l : l = [live[p] EXCEPT !.queued = b]
    OBVIOUS
  <2>4. /\ l \in Live /\ l.inbound = live[p].inbound
        /\ l.pending = live[p].pending /\ l.missed = live[p].missed
    BY <1>7, <2>3 DEF Live
  <2>5. UNCHANGED <<disk, history, swept>> /\ live' = [live EXCEPT ![m] = Told(m), ![p] = l]
    BY <1>1, <1>3, <1>10, <2>2, <2>3 DEF Reconcile
  <2>6. live' = [live EXCEPT ![p] = l, ![m] = Told(m)]
    BY <1>2, <2>5
  <2>7. /\ MindsKept /\ live'[p].inbound = l.inbound
        /\ \A q \in Member : q # p => live'[q].inbound = live[q].inbound
    <3>1. p \in Member /\ p # m
      BY <1>2
    <3>2. l \in Live
      BY <2>4
    <3>3. l.pending = live[p].pending
      BY <2>4
    <3>4. l.missed = live[p].missed
      BY <2>4
    <3>5. QED
      BY <2>6, <3>1, <3>2, <3>3, <3>4, ToldKept
  <2>8. \A q \in Member : live'[q].inbound = live[q].inbound
    BY <2>4, <2>7
  <2>9. QED
    BY <1>2, <1>6, <1>7, <1>8, <2>1, <2>5, <2>7, <2>8, SpareStep
<1>11. QED
  BY <1>9, <1>10

LEMMA BeaconLostKeeps == ASSUME Good, NEW m \in Member, BeaconLost(m) PROVE Good'
<1>1. /\ Over(m) /\ (events' = events \/ Event)
      /\ UNCHANGED <<disk, history, up, saved, flight, now, written, undone, swept>>
      /\ live' = live \/ live' = [live EXCEPT ![m] = Told(m)]
  BY DEF BeaconLost, Upset
<1>2. TypeOK /\ now \in Nat
  BY GoodIs
<1>3. PICK l : l \in {live[m], Told(m)} /\ live' = [live EXCEPT ![m] = l]
  <2>1. live = [live EXCEPT ![m] = live[m]]
    BY <1>2 DEF TypeOK
  <2>2. QED
    BY <1>1, <2>1
<1>4. /\ l \in Live /\ l.inbound = live[m].inbound
      /\ l.pending \in {live[m].pending, None} /\ l.missed = live[m].missed
  BY <1>2, <1>3, MindIs, ToldIs
<1>5. Around
  <2>1. events' \in 0 .. MaxEvents /\ now' \in Nat /\ now <= now'
    BY <1>1, <1>2, EventIs DEF TypeOK
  <2>2. /\ beacon' \in [Member -> Round \cup {None}]
        /\ \A q \in Member : beacon'[q] = beacon[q] \/ beacon'[q] = None
    BY <1>1, <1>2 DEF TypeOK, Over
  <2>3. QED
    BY <1>1, <1>2, <2>1, <2>2 DEF TypeOK, Around
<1>6. Names(None, undone)
  BY DEF Names
<1>7. QED
  BY <1>1, <1>3, <1>4, <1>5, <1>6, MemoryStep

(***************************************************************************)
(* Time.                                                                   *)
(***************************************************************************)
LEMMA PassKeeps == ASSUME Good, Pass PROVE Good'
<1>1. TypeOK /\ now \in Nat /\ \A q \in Member : RoundInv(q)
  BY GoodIs DEF MemberInv
<1>2. /\ disk' = [q \in Member |-> IF disk[q] = None THEN None ELSE [disk[q] EXCEPT !.fresh = FALSE]]
      /\ live' = [q \in Member |-> [live[q] EXCEPT !.guard = FALSE]]
      /\ UNCHANGED <<history, up, saved, flight, beacon, now, written, undone, swept, events>>
  BY DEF Pass
<1>3. ASSUME NEW q \in Member
      PROVE  /\ disk'[q] \in File \cup {None} /\ (disk[q] = None => disk'[q] = None)
             /\ disk[q] # None => disk'[q] # None /\ disk'[q].c = disk[q].c /\ disk'[q].mt = disk[q].mt
  <2>1. CASE disk[q] = None
    BY <1>2, <2>1
  <2>2. CASE disk[q] # None
    <3>1. disk[q] \in File
      BY <1>1, <2>2, FileIs
    <3>2. PICK e : e = [disk[q] EXCEPT !.fresh = FALSE]
      OBVIOUS
    <3>3. e \in File
      BY <3>1, <3>2 DEF File
    <3>4. e.c = disk[q].c /\ e.mt = disk[q].mt
      BY <3>1, <3>2 DEF File
    <3>5. disk'[q] = e /\ e # None
      BY <1>2, <2>2, <3>2, <3>3, NoneAssumption
    <3>6. QED
      BY <2>2, <3>3, <3>4, <3>5
  <2>3. QED
    BY <2>1, <2>2
<1>4. ASSUME NEW q \in Member
      PROVE  /\ live'[q] \in Live /\ live'[q].inbound = live[q].inbound
             /\ live'[q].pending = live[q].pending /\ live'[q].missed = live[q].missed
  <2>1. live[q] \in Live
    BY <1>1, MindIs
  <2>2. PICK l : l = [live[q] EXCEPT !.guard = FALSE]
    OBVIOUS
  <2>3. l \in Live /\ l.inbound = live[q].inbound /\ l.pending = live[q].pending /\ l.missed = live[q].missed
    BY <2>1, <2>2 DEF Live
  <2>4. live'[q] = l
    BY <1>2, <2>2
  <2>5. QED
    BY <2>3, <2>4
<1>5. disk' \in [Member -> File \cup {None}] /\ live' \in [Member -> Live]
  <2>1. disk' = [q \in Member |-> disk'[q]] /\ live' = [q \in Member |-> live'[q]]
    BY <1>2
  <2>2. QED
    BY <1>3, <1>4, <2>1
<1>6. TypeOK'
  BY <1>1, <1>2, <1>5 DEF TypeOK
<1>7. \A q \in Member : DiskStep(q) /\ MindStep(q) /\ history[q] \subseteq history'[q]
  BY <1>1, <1>2, <1>3, <1>4 DEF DiskStep, MindStep, RoundInv
<1>8. \A q \in Member : FileStep(q)
  <2>1. ASSUME NEW q \in Member, disk'[q] # None PROVE Like(disk'[q])
    <3>1. disk[q] # None /\ disk[q] \in Files
      BY <1>1, <1>3, <2>1, FilesAre
    <3>2. disk'[q].c = disk[q].c /\ disk'[q].mt = disk[q].mt
      BY <1>3, <3>1
    <3>3. QED
      BY <3>1, <3>2 DEF Like
  <2>2. \A q \in Member : flight'[q] # None => Like(flight'[q].f)
    BY <1>2, FlightsRest
  <2>3. QED
    BY <2>1, <2>2 DEF FileStep
<1>9. \A q \in Member : KnowStep(q)
  BY <1>2, <1>3, <1>4 DEF KnowStep, FileStays, Sig
<1>10. \A q \in Member : NameStep(q)
  BY <1>2, <1>4 DEF NameStep
<1>11. now <= now' /\ SweptStep /\ undone \subseteq undone' /\ \A c \in written' : c \in written
  BY <1>1, <1>2 DEF SweptStep
<1>12. QED
  BY <1>6, <1>7, <1>8, <1>9, <1>10, <1>11, GoodSteps

LEMMA WaitKeeps == ASSUME Good, Wait PROVE Good'
<1>1. TypeOK /\ now \in Nat /\ \A q \in Member : RoundInv(q)
  BY GoodIs DEF MemberInv
<1>2. /\ now' = now + Slack /\ Event
      /\ UNCHANGED <<disk, history, up, live, saved, flight, beacon, written, undone, swept>>
  BY DEF Wait, Upset
<1>3. now' \in Nat /\ now <= now'
  BY <1>1, <1>2, BoundAssumption
<1>4. TypeOK'
  BY <1>1, <1>2, <1>3, EventIs DEF TypeOK
<1>5. \A q \in Member : LearnStep(q) /\ NameStep(q) /\ history[q] \subseteq history'[q]
  BY <1>2 DEF LearnStep, NameStep
<1>6. \A q \in Member : flight'[q] # None => Like(flight'[q].f)
  BY <1>2, FlightsRest
<1>7. \A q \in Member : beacon'[q] # None /\ beacon'[q].step = "deletes" => beacon'[q].del # None
  BY <1>1, <1>2 DEF RoundInv
<1>8. QED
  BY <1>2, <1>3, <1>4, <1>5, <1>6, <1>7, RestStep

LEMMA StutterKeeps == ASSUME Good, UNCHANGED vars PROVE Good'
<1>1. TypeOK /\ now \in Nat /\ \A q \in Member : RoundInv(q)
  BY GoodIs DEF MemberInv
<1>2. UNCHANGED <<disk, history, up, live, saved, flight, beacon, now, written, undone, swept, events>>
  BY DEF vars
<1>3. TypeOK'
  BY <1>1, <1>2 DEF TypeOK
<1>4. \A q \in Member : LearnStep(q) /\ NameStep(q) /\ history[q] \subseteq history'[q]
  BY <1>2 DEF LearnStep, NameStep
<1>5. \A q \in Member : flight'[q] # None => Like(flight'[q].f)
  BY <1>2, FlightsRest
<1>6. \A q \in Member : beacon'[q] # None /\ beacon'[q].step = "deletes" => beacon'[q].del # None
  BY <1>1, <1>2 DEF RoundInv
<1>7. now <= now'
  BY <1>1, <1>2
<1>8. QED
  BY <1>2, <1>3, <1>4, <1>5, <1>6, <1>7, RestStep

(***************************************************************************)
(* The invariant and the theorems.                                         *)
(***************************************************************************)
LEMMA MembersExist == \E m \in Member : TRUE
<1> SUFFICES ASSUME Member = {} PROVE FALSE
  OBVIOUS
<1>1. Cardinality({}) = 0
  BY FS_EmptySet
<1>2. QED
  BY <1>1, MemberAssumption

LEMMA GoodInit == Init => Good
<1> SUFFICES ASSUME Init PROVE Good
  OBVIOUS
<1>1. PICK f \in {None} \cup {[c |-> Shared, mt |-> 2, at |-> 2, fresh |-> FALSE]} :
        /\ f = None <=> Shared = None
        /\ disk = [m \in Member |-> f]
        /\ live = [m \in Member |-> Fresh(IF f = None THEN {} ELSE {Sig(f)})]
        /\ saved = [m \in Member |->
             [manifest |-> IF f = None THEN {} ELSE {Sig(f)}, tomb |-> 0, tombVer |-> None,
              deleted |-> {}, skipped |-> {}, seen |-> 3]]
  BY DEF Init
<1>1a. PICK known : known = IF f = None THEN {} ELSE {Sig(f)}
  OBVIOUS
<1>2. /\ history = [m \in Member |-> {}] /\ up = [m \in Member |-> TRUE]
      /\ flight = [m \in Member |-> None] /\ beacon = [m \in Member |-> None]
      /\ now = 2 /\ written = {Shared} \ {None} /\ undone = {} /\ swept = {} /\ events = 0
  BY DEF Init
<1>3. f # None => f \in File /\ f.c = Shared /\ f.mt = 2 /\ Shared \in Content
  <2>1. ASSUME f # None PROVE Shared \in Content
    BY <1>1, <2>1, ContentAssumption
  <2>2. ASSUME f # None PROVE f \in File
    <3>1. f = [c |-> Shared, mt |-> 2, at |-> 2, fresh |-> FALSE] /\ Shared \in Content
      BY <1>1, <2>1, <2>2
    <3>2. QED
      BY <3>1 DEF File
  <2>3. ASSUME f # None PROVE f.c = Shared /\ f.mt = 2
    BY <1>1, <2>3
  <2>4. QED
    BY <2>1, <2>2, <2>3
<1>4. known \in SUBSET Version /\ HasNewest(known) /\ KnownAt(known, f, undone)
  <2>1. CASE f = None
    BY <1>1a, <2>1, NoVersions, KnownNone
  <2>2. CASE f # None
    <3>1. known = {Sig(f)} /\ Sig(f) \in Version
      BY <1>1a, <1>3, <2>2, SigIs
    <3>2. Sig(f)[2] <= Sig(f)[2]
      BY <3>1, VersionIs
    <3>3. QED
      BY <2>2, <3>1, <3>2 DEF HasNewest, KnownAt
  <2>3. QED
    BY <2>1, <2>2
<1>5. PICK l : l = Fresh(known)
  OBVIOUS
<1>6. l \in Live /\ l.inbound = known /\ l.pending = None /\ l.missed = None
  BY <1>4, <1>5 DEF Live, Fresh
<1>7. PICK s : s = [manifest |-> known, tomb |-> 0, tombVer |-> None,
                    deleted |-> {}, skipped |-> {}, seen |-> 3]
  OBVIOUS
<1>8. s \in Saved /\ s.manifest = known /\ s.tombVer = None
  BY <1>4, <1>7 DEF Saved
<1>9. live = [m \in Member |-> l] /\ saved = [m \in Member |-> s]
  BY <1>1a, <1>1, <1>5, <1>7
<1>10. TypeOK
  <2>1. disk \in [Member -> File \cup {None}] /\ written \subseteq Content
    BY <1>1, <1>2, <1>3
  <2>2. now \in Nat /\ events \in 0 .. MaxEvents
    BY <1>2, BoundAssumption
  <2>3. live \in [Member -> Live] /\ saved \in [Member -> Saved]
    BY <1>6, <1>8, <1>9
  <2>4. QED
    BY <1>2, <2>1, <2>2, <2>3 DEF TypeOK
<1>11. NothingLost
  BY <1>1, <1>2, <1>3, MembersExist DEF NothingLost
<1>12. \A m \in Member : MemberInv(m)
  BY <1>2, <1>4, <1>6, <1>8, <1>9 DEF MemberInv, RoundInv
<1>13. TimeInv
  <2>1. \A g \in Files : f # None /\ g = f
    <3>1. \A g \in Files : g # None
      BY NoneAssumption DEF Files
    <3>2. QED
      BY <1>1, <1>2, <3>1 DEF Files
  <2>2. QED
    BY <1>2, <1>3, <2>1 DEF TimeInv, Timed
<1>14. DeleteSparesEdits
  BY <1>2 DEF DeleteSparesEdits
<1>15. \A m \in Member : NamesInv(m)
  BY <1>2, <1>6, <1>8, <1>9 DEF NamesInv, Names
<1>16. \A m \in Member : KnownInv(m)
  BY <1>1, <1>4, <1>6, <1>8, <1>9 DEF KnownInv
<1>17. QED
  BY <1>10, <1>11, <1>12, <1>13, <1>14, <1>15, <1>16 DEF Good, FolderInv, SpareInv

LEMMA GoodStep == Good /\ [Next]_vars => Good'
<1> SUFFICES ASSUME Good, [Next]_vars PROVE Good'
  OBVIOUS
<1>1. ASSUME NEW m \in Member, Watcher(m) \/ Startup(m) PROVE Good'
  BY <1>1, QueueKeeps, OwnRemovalKeeps, DeletedKeeps, OpenKeeps, FirstScanKeeps, SecondScanKeeps
     DEF Watcher, Startup
<1>2. ASSUME NEW m \in Member, Sender(m) \/ Control(m) PROVE Good'
  BY <1>2, StartSendKeeps, SettleKeeps, BeaconKeeps, ApplyDeleteKeeps, ReconcileKeeps
     DEF Sender, Control
<1>3. ASSUME NEW m \in Member, Write(m) \/ UserDelete(m) PROVE Good'
  BY <1>3, WriteKeeps, UserDeleteKeeps
<1>4. ASSUME NEW m \in Member, Land(m) \/ LandFails(m) \/ SendLost(m) \/ BeaconLost(m) PROVE Good'
  BY <1>4, LandKeeps, LandFailsKeeps, SendLostKeeps, BeaconLostKeeps
<1>5. ASSUME NEW m \in Member, GuardEnds(m) \/ Overflow(m) \/ Close(m) PROVE Good'
  BY <1>5, GuardEndsKeeps, OverflowKeeps, CloseKeeps
<1>6. CASE Pass \/ Wait
  BY <1>6, PassKeeps, WaitKeeps
<1>7. CASE UNCHANGED vars
  BY <1>7, StutterKeeps
<1>8. QED
  BY <1>1, <1>2, <1>3, <1>4, <1>5, <1>6, <1>7 DEF Next

LEMMA GoodAlways == Spec => []Good
<1>1. Init => Good
  BY GoodInit
<1>2. Good /\ [Next]_vars => Good'
  BY GoodStep
<1>3. QED
  BY <1>1, <1>2, PTL DEF Spec

\* What a member has on disk, in memory, in files and under way keeps its form
\* through every step, upset and restart; a closed app has nothing under way.
THEOREM TypeCorrect == Spec => []TypeOK
<1>1. Good => TypeOK
  BY GoodIs
<1>2. QED
  BY <1>1, GoodAlways, PTL

\* Syncing loses nothing a user wrote: whatever the order of edits, deletes, crossing
\* sends, lost exchanges, restarts and failed writes, the content is on a disk, in a
\* history archive, or a user removed or replaced it himself.
THEOREM NothingLostAlways == Spec => []NothingLost
<1>1. Good => NothingLost
  BY DEF Good, FolderInv
<1>2. QED
  BY <1>1, GoodAlways, PTL

\* In a folder with a group id, where every write gets an mtime of its own, a delete
\* removes at the other member only a file of a size that some user did away with.
THEOREM DeleteSparesEditsAlways ==
    ASSUME Group, ~ SameSecond PROVE Spec => []DeleteSparesEdits
<1>1. Good => DeleteSparesEdits
  BY DEF Good, SpareInv
<1>2. QED
  BY <1>1, GoodAlways, PTL

=============================================================================
