--------------------------- MODULE SharedFolder ---------------------------
(***************************************************************************)
(* One file name of a mirror folder shared by two members (sync.rs).       *)
(*                                                                         *)
(* A member has the folder on disk, a loop-guard manifest of the versions  *)
(* it has sent or received, a tombstone for a name that was deleted (with  *)
(* the version it names), the versions deleted here, and in memory a send  *)
(* queue, a pending delete and the guard that hides its own removals from  *)
(* its watcher.  Members exchange files, deletes and full snapshots; each  *)
(* exchange is in flight while the folders change, can be lost, and is     *)
(* repeated.                                                               *)
(*                                                                         *)
(* A version is (size, mtime); `at` is the placement version of a copy     *)
(* (the latest of mtime, ctime and birth time).  Clocks agree.  The clock  *)
(* moves by 2 with everything that gets a timestamp of its own, so that a  *)
(* snapshot taken in between (`seen`) is stamped with an odd number.       *)
(* Other files are in the folder throughout (the scan for closed-app       *)
(* deletes distrusts an empty folder); renames, directories, read-only     *)
(* members and pausing are left out.                                       *)
(***************************************************************************)
EXTENDS Naturals, FiniteSets

CONSTANTS
  Member,       \* the two members of the folder
  Content,      \* contents users write, each once; ordered like their hashes
  Size,         \* size of each content
  Shared,       \* the content both hold at the start, or None
  Group,        \* TRUE: a folder with a group id; FALSE: a classic 1:1 mirror
  Slack,        \* the 10 minutes delete_allowed grants a late copy
  SameSecond,   \* TRUE: a write may get the mtime of the write before it
  Upsets,       \* the upsets that may happen
  MaxEvents,    \* bound: edits and deletes by users, and upsets, together
  None          \* no file, no version, nothing in flight

ASSUME MemberAssumption == Cardinality(Member) = 2
ASSUME ContentAssumption ==
  /\ Content \subseteq Nat
  /\ Size \in [Content -> Nat]
  /\ Shared \in Content \cup {None}
ASSUME BoundAssumption ==
  /\ Group \in BOOLEAN /\ SameSecond \in BOOLEAN
  /\ Slack \in Nat /\ MaxEvents \in Nat
  /\ Upsets \subseteq {"close", "lost", "disk", "overflow", "wait"}

VARIABLES
  disk,      \* the file on each member's disk, or None
  history,   \* contents in each folder's history archive
  up,        \* is the member's app running?
  live,      \* what a running app keeps in memory
  saved,     \* what it keeps in files
  flight,    \* the file a member is sending, and what became of it
  beacon,    \* the control round a member is in
  now,       \* the clock
  written,   \* contents users have written
  undone,    \* <<m, c>>: the user of m removed or overwrote content c
  swept,     \* contents removed by a peer's delete
  events     \* edits by users and upsets so far

vars == <<disk, history, up, live, saved, flight, beacon, now,
          written, undone, swept, events>>

other(m) == CHOOSE p \in Member : p # m

Version == {Size[c] : c \in Content} \X Nat
File == [c : Content, mt : Nat, at : Nat, fresh : BOOLEAN]

(* A delete, of a version or of whatever had the name; what a member keeps *)
(* in memory and in files; a file and a control round under way.           *)
Delete == [v : Version \cup {None}, ts : Nat]
DeletedVersion == [v : Version, ts : Nat]
Live == [inbound : SUBSET Version, queued : BOOLEAN, pending : Delete \cup {None},
         guard : BOOLEAN, event : BOOLEAN, missed : Delete \cup {None}]
Saved == [manifest : SUBSET Version, tomb : Nat, tombVer : DeletedVersion \cup {None},
          deleted : SUBSET DeletedVersion, skipped : SUBSET Version, seen : Nat]
Flight == [f : File, end : {"open", "landed", "kept", "failed"}]
Round == [del : Delete \cup {None}, file : Version \cup {None}, tomb : Nat,
          named : Version \cup {None}, step : {"deletes", "snapshot"}]

ASSUME NoneAssumption ==
  None \notin Content \cup File \cup Version \cup Delete \cup Flight \cup Round

(* Mistake: the parts of a version are swapped. *)
SigSwapped(f) == <<f.mt, Size[f.c]>>

(* file_sig / version_of: what tells two versions of the name apart. *)
Sig(f) == <<Size[f.c], f.mt>>

Newest(sigs) == CHOOSE s \in sigs : \A t \in sigs : t[2] <= s[2]

(* What is in memory when the app starts; the manifest is read back. *)
Fresh(manifest) ==
  [inbound |-> manifest, queued |-> FALSE, pending |-> None,
   guard |-> FALSE, event |-> FALSE, missed |-> None]

(* note_tombstone: the newest time a name was deleted. *)
NoteTombstone(s, ts) == IF ts > s.tomb THEN [s EXCEPT !.tomb = ts] ELSE s

(* note_tomb_version: the version the newest such delete named. *)
NoteTombVersion(s, v, ts) ==
  IF s.tombVer = None \/ ts >= s.tombVer.ts
  THEN [s EXCEPT !.tombVer = [v |-> v, ts |-> ts]] ELSE s

Named(s) == IF s.tombVer = None THEN None ELSE s.tombVer.v

(* A delete of version v (None: unknown) at ts, as every path records it. *)
Tombstoned(s, v, ts) ==
  IF v = None THEN NoteTombstone(s, ts)
  ELSE NoteTombVersion(NoteTombstone(s, ts), v, ts)

(* record_deleted_versions_at: versions deleted here, each at the time of  *)
(* its delete.                                                             *)
RecordDeleted(s, sigs, ts) ==
  [s EXCEPT !.deleted = s.deleted \cup {[v |-> v, ts |-> ts] : v \in sigs}]

(* deleted_version_at, with the versions a scan for missed deletes holds:  *)
(* was version v deleted here after a copy placed at `at`?                 *)
DeletedAfter(m, v, at) ==
  \/ \E d \in saved[m].deleted : d.v = v /\ at < d.ts
  \/ /\ ~\E d \in saved[m].deleted : d.v = v
     /\ live[m].missed # None
     /\ live[m].missed.v = v
     /\ at < live[m].missed.ts

(* Mistake: any copy older than the delete goes. *)
DeleteAllowedByTime(f, v, ts) == f.at <= ts + Slack

(* delete_allowed: may a delete of version v at ts remove file f? *)
DeleteAllowed(f, v, ts) ==
  IF v # None /\ v[2] = f.mt
    THEN v[1] = Size[f.c] /\ f.at <= ts + Slack
    ELSE (v # None => v[1] = Size[f.c]) /\ ts > f.at

---------------------------------------------------------------------------

(* The members start with the same file, written at time 2, or with none. *)
Init ==
  \E f \in {None} \cup {[c |-> Shared, mt |-> 2, at |-> 2, fresh |-> FALSE]} :
    LET known == IF f = None THEN {} ELSE {Sig(f)} IN
    /\ f = None <=> Shared = None
    /\ disk = [m \in Member |-> f]
    /\ live = [m \in Member |-> Fresh(known)]
    /\ saved = [m \in Member |->
         [manifest |-> known, tomb |-> 0, tombVer |-> None,
          deleted |-> {}, skipped |-> {}, seen |-> 3]]
    /\ history = [m \in Member |-> {}]
    /\ up = [m \in Member |-> TRUE]
    /\ flight = [m \in Member |-> None]
    /\ beacon = [m \in Member |-> None]
    /\ now = 2
    /\ written = {Shared} \ {None}
    /\ undone = {}
    /\ swept = {}
    /\ events = 0

Event == events < MaxEvents /\ events' = events + 1

Upset(kind) ==
  /\ kind \in Upsets
  /\ Event

(* A user's change of the file, and the content it does away with. *)
Edit(m) ==
  /\ Event
  /\ undone' = undone \cup {<<m, f.c>> : f \in {disk[m]} \ {None}}
  /\ live' = [live EXCEPT ![m].event = up[m]]

---------------------------------------------------------------------------
(* Users *)

(* A user writes a new content, over what the name held here. *)
Write(m) ==
  \E c \in Content \ written, mt \in {now + 2} \cup {t \in {now} : SameSecond} :
    /\ \A d \in Content \ written : c <= d
    /\ now' = now + 2
    /\ disk' = [disk EXCEPT ![m] = [c |-> c, mt |-> mt, at |-> now', fresh |-> TRUE]]
    /\ written' = written \cup {c}
    /\ Edit(m)
    /\ UNCHANGED <<history, up, saved, flight, beacon, swept>>

UserDelete(m) ==
  /\ disk[m] # None
  /\ disk' = [disk EXCEPT ![m] = None]
  /\ Edit(m)
  /\ UNCHANGED <<history, up, saved, flight, beacon, now, written, swept>>

---------------------------------------------------------------------------
(* The watcher and the scan of the folder *)

(* is_sendable_candidate: a version neither sent nor received yet. *)
Candidate(m) == disk[m] # None /\ Sig(disk[m]) \notin live[m].inbound

(* The watcher, or the sender's periodic scan, finds a file to send. *)
Queue(m) ==
  /\ up[m]
  /\ disk[m] # None
  /\ live[m].event \/ (Candidate(m) /\ ~live[m].queued)
  /\ live' = [live EXCEPT ![m] = [live[m] EXCEPT !.event = FALSE,
                                    !.queued = live[m].queued \/ Candidate(m)]]
  /\ UNCHANGED <<disk, history, up, saved, flight, beacon, now,
                 written, undone, swept, events>>

(* The file is gone by our own hand: the loop guard hides it. *)
OwnRemoval(m) ==
  /\ up[m]
  /\ live[m].event
  /\ disk[m] = None
  /\ live[m].guard
  /\ live' = [live EXCEPT ![m] = [live[m] EXCEPT !.event = FALSE, !.guard = FALSE]]
  /\ UNCHANGED <<disk, history, up, saved, flight, beacon, now,
                 written, undone, swept, events>>

(* A delete is kept for the beacon unless one of the name is waiting. *)
Pend(l, v, ts) ==
  IF l.pending = None THEN [l EXCEPT !.pending = [v |-> v, ts |-> ts]] ELSE l

(* The file is still gone after the settle time: a user deleted it. *)
Deleted(m) ==
  LET known == live[m].inbound
      v == IF known = {} THEN None ELSE Newest(known)
  IN /\ up[m]
     /\ live[m].event
     /\ disk[m] = None
     /\ ~live[m].guard
     /\ now' = now + 2
     /\ saved' = [saved EXCEPT ![m] =
          RecordDeleted(Tombstoned(saved[m], v, now'), known, now')]
     /\ live' = [live EXCEPT ![m] =
          [Pend(live[m], v, now') EXCEPT !.event = FALSE, !.inbound = {}]]
     /\ UNCHANGED <<disk, history, up, flight, beacon, written, undone, swept, events>>

(* missed_deletes, tombstone_covers: the newest version we know is gone    *)
(* and no tombstone accounts for it.                                       *)
Missing(m) ==
  LET v == Newest(live[m].inbound)
      s == saved[m]
      covered == s.tomb # 0 /\ IF s.tombVer # None THEN s.tombVer.v = v
                                                   ELSE s.tomb >= v[2]
  IN IF live[m].inbound = {} \/ disk[m] # None \/ covered THEN None ELSE v

(* propagate_missed_deletes, first scan: hold the version while waiting. *)
FirstScan(m) ==
  /\ up[m]
  /\ live[m].missed # None
  /\ live[m].missed.v = None
  /\ live' = [live EXCEPT ![m].missed =
       IF Missing(m) = None THEN None ELSE [v |-> Missing(m), ts |-> live[m].missed.ts]]
  /\ UNCHANGED <<disk, history, up, saved, flight, beacon, now,
                 written, undone, swept, events>>

(* Second scan: what is still missing was deleted unseen. *)
SecondScan(m) ==
  LET v == live[m].missed.v
      ts == live[m].missed.ts
  IN /\ up[m]
     /\ live[m].missed # None
     /\ v # None
     /\ IF Missing(m) # v
          THEN /\ live' = [live EXCEPT ![m].missed = None]
               /\ UNCHANGED saved
          ELSE /\ live' = [live EXCEPT ![m] =
                    [Pend(live[m], v, ts) EXCEPT !.missed = None, !.inbound = {}]]
               /\ saved' = [saved EXCEPT ![m] =
                    [RecordDeleted(Tombstoned(saved[m], v, ts), {v}, ts)
                       EXCEPT !.manifest = {}]]
     /\ UNCHANGED <<disk, history, up, flight, beacon, now,
                    written, undone, swept, events>>

---------------------------------------------------------------------------
(* Sending a file *)

(* The sender takes the file as it is now, or drops a name that is gone. *)
StartSend(m) ==
  /\ up[m]
  /\ live[m].queued
  /\ flight[m] = None
  /\ IF disk[m] = None
       THEN /\ live' = [live EXCEPT ![m].queued = FALSE]
            /\ UNCHANGED flight
       ELSE /\ up[other(m)]
            /\ flight' = [flight EXCEPT ![m] = [f |-> disk[m], end |-> "open"]]
            /\ UNCHANGED live
  /\ UNCHANGED <<disk, history, up, saved, beacon, now, written, undone, swept, events>>

(* Mistake: each member keeps its own. *)
WinsNever(f, g) == FALSE

(* Which of two versions every member of a group keeps. *)
Wins(f, g) == f.mt > g.mt \/ (f.mt = g.mt /\ f.c > g.c)

Ends(m, end) == flight' = [flight EXCEPT ![m].end = end]

(* Mistake: what is replaced is not archived. *)
PlaceOver(p, f, kept) ==
  /\ now' = now + 2
  /\ disk' = [disk EXCEPT ![p] = [f EXCEPT !.at = now', !.fresh = TRUE]]
  /\ UNCHANGED history
  /\ live' = [live EXCEPT ![p].inbound = live[p].inbound \cup {Sig(f)}]
  /\ saved' = [saved EXCEPT ![p].manifest = live[p].inbound \cup {Sig(f)}]

(* move_staged_into_folder at p: f becomes the file; `kept` is archived. *)
Place(p, f, kept) ==
  /\ now' = now + 2
  /\ disk' = [disk EXCEPT ![p] = [f EXCEPT !.at = now', !.fresh = TRUE]]
  /\ history' = [history EXCEPT ![p] = history[p] \cup kept]
  /\ \E g \in {live[p].guard} \cup {kept # {}} :
       live' = [live EXCEPT ![p] = [live[p] EXCEPT
                  !.inbound = live[p].inbound \cup {Sig(f)}, !.guard = g]]
  /\ saved' = [saved EXCEPT ![p].manifest = live[p].inbound \cup {Sig(f)}]

(* ingest_iroh_folder_files: member m's file reaches the peer. *)
Land(m) ==
  LET p == other(m)
      f == flight[m].f
      here == disk[p]
  IN /\ flight[m] # None
     /\ flight[m].end = "open"
     /\ up[p]
     /\ \/ /\ here = None
           /\ DeletedAfter(p, Sig(f), f.at)
           /\ Ends(m, "kept")
           /\ UNCHANGED <<disk, history, live, saved, now>>
        \/ /\ here = None
           /\ ~DeletedAfter(p, Sig(f), f.at)
           /\ Place(p, f, {})
           /\ Ends(m, "landed")
        \/ /\ here # None
           /\ here.c = f.c
           /\ live' = [live EXCEPT ![p].inbound = live[p].inbound \cup {Sig(here)}]
           /\ Ends(m, "landed")
           /\ UNCHANGED <<disk, history, saved, now>>
        \/ /\ here # None
           /\ here.c # f.c
           /\ Group => Wins(f, here)
           /\ Place(p, f, {here.c})
           /\ Ends(m, "landed")
        \/ /\ here # None
           /\ here.c # f.c
           /\ Group
           /\ ~Wins(f, here)
           /\ history' = [history EXCEPT ![p] = history[p] \cup {f.c}]
           /\ Ends(m, "kept")
           /\ UNCHANGED <<disk, live, saved, now>>
     /\ UNCHANGED <<up, beacon, written, undone, swept, events>>

(* The peer cannot archive or write: nothing is replaced. *)
LandFails(m) ==
  /\ flight[m] # None
  /\ flight[m].end = "open"
  /\ Upset("disk")
  /\ Ends(m, "failed")
  /\ UNCHANGED <<disk, history, up, live, saved, beacon, now, written, undone, swept>>

(* The transfer or its answer is lost; so it is when the peer goes away. *)
SendLost(m) ==
  /\ flight[m] # None
  /\ \/ ~up[other(m)] /\ flight[m].end = "open" /\ UNCHANGED events
     \/ flight[m].end # "failed" /\ Upset("lost")
  /\ Ends(m, "failed")
  /\ UNCHANGED <<disk, history, up, live, saved, beacon, now, written, undone, swept>>

(* settle_batch: only a file that did not change meanwhile is settled. *)
Settle(m) ==
  LET f == flight[m].f
      end == flight[m].end
      v == Sig(disk[m])
      settled == disk[m] # None /\ v = Sig(f) /\ end \in {"landed", "kept"}
      known == IF settled THEN live[m].inbound \cup {v} ELSE live[m].inbound
  IN /\ up[m]
     /\ flight[m] # None
     /\ end # "open"
     /\ flight' = [flight EXCEPT ![m] = None]
     /\ live' = [live EXCEPT ![m] = [live[m] EXCEPT
          !.queued = disk[m] # None /\ ~settled, !.inbound = known]]
     /\ saved' = [saved EXCEPT ![m] = [saved[m] EXCEPT
          !.manifest = IF end = "failed" THEN saved[m].manifest ELSE known,
          !.skipped = CASE ~settled -> saved[m].skipped
                        [] settled /\ end = "kept" -> saved[m].skipped \cup {v}
                        [] settled /\ end = "landed" -> saved[m].skipped \ {v}]]
     /\ UNCHANGED <<disk, history, up, beacon, now, written, undone, swept, events>>

---------------------------------------------------------------------------
(* The control beacon *)

(* spawn_control_sender: the round's deletes and snapshot are taken at its *)
(* start; the time of the snapshot is remembered.                          *)
Beacon(m) ==
  LET keep == IF disk[m] = None THEN {} ELSE {Sig(disk[m])}
  IN /\ up[m]
     /\ beacon[m] = None
     /\ beacon' = [beacon EXCEPT ![m] =
          [del |-> live[m].pending,
           file |-> IF disk[m] = None THEN None ELSE Sig(disk[m]),
           tomb |-> saved[m].tomb, named |-> Named(saved[m]),
           step |-> IF live[m].pending = None THEN "snapshot" ELSE "deletes"]]
     /\ saved' = [saved EXCEPT ![m] = [saved[m] EXCEPT
          !.seen = now + 1, !.skipped = saved[m].skipped \cap keep]]
     /\ UNCHANGED <<disk, history, up, live, flight, now, written, undone, swept, events>>

(* apply_remote_delete: the file goes to the history archive, and the name *)
(* is forgotten in the manifest.                                           *)
Swept(l) == [l EXCEPT !.guard = TRUE, !.event = TRUE, !.inbound = {}]

Sweep(p, v, ts, manifest) ==
  /\ disk' = [disk EXCEPT ![p] = None]
  /\ history' = [history EXCEPT ![p] = history[p] \cup {disk[p].c}]
  /\ swept' = swept \cup {disk[p].c}
  /\ saved' = [saved EXCEPT ![p] =
       [RecordDeleted(Tombstoned(saved[p], v, ts), {Sig(disk[p])}, ts)
          EXCEPT !.manifest = manifest]]

(* apply_remote_control with deletes: the peer applies the round's delete; *)
(* a file it spares is not tombstoned.                                     *)
ApplyDelete(m) ==
  LET p == other(m)
      d == beacon[m].del
      f == disk[p]
      goes == f # None /\ ~f.fresh /\ d.v # None /\ DeleteAllowed(f, d.v, d.ts)
  IN /\ beacon[m] # None
     /\ beacon[m].step = "deletes"
     /\ up[p]
     /\ \/ /\ goes
           /\ Sweep(p, d.v, d.ts, {})
           /\ live' = [live EXCEPT ![p] = Swept(live[p])]
        \/ /\ f = None
           /\ saved' = [saved EXCEPT ![p] = Tombstoned(saved[p], d.v, d.ts)]
           /\ UNCHANGED <<disk, history, live, swept>>
        \/ /\ f # None /\ ~goes
           /\ UNCHANGED <<disk, history, live, saved, swept>>
     /\ beacon' = [beacon EXCEPT ![m].step = "snapshot"]
     /\ UNCHANGED <<up, flight, now, written, undone, events>>

(* reconcile_plan: what member p does about m's snapshot r. *)
Plan(p, r) ==
  LET f == disk[p]
      spared == r.named # None /\ ~DeleteAllowed(f, r.named, r.tomb)
  IN IF f = None THEN "nothing"
     ELSE CASE f.fresh -> "nothing"
            [] ~f.fresh /\ r.tomb > f.at ->
                 IF spared THEN (IF r.file = None THEN "push" ELSE "nothing")
                 ELSE IF r.named = None THEN "nothing" ELSE "delete"
            [] ~f.fresh /\ r.tomb <= f.at ->
                 IF /\ saved[p].tomb <= f.at
                    /\ \/ r.file = None
                       \/ r.file[1] # Size[f.c] /\ f.mt > r.file[2]
                   THEN "push" ELSE "nothing"

(* A tombstone is adopted unless the file here outlives it. *)
Adopts(p, r) ==
  /\ r.tomb # 0
  /\ disk[p] # None => ~disk[p].fresh /\ DeleteAllowed(disk[p], r.named, r.tomb)

(* The deletes a round carried are no longer pending when it is over. *)
Told(m) ==
  IF live[m].pending = beacon[m].del THEN [live[m] EXCEPT !.pending = None] ELSE live[m]

Over(m) == beacon' = [beacon EXCEPT ![m] = None]

(* reconcile_apply: the peer heals its folder from the snapshot. *)
Reconcile(m) ==
  LET p == other(m)
      r == beacon[m]
      plan == Plan(p, r)
  IN /\ r # None
     /\ r.step = "snapshot"
     /\ up[p]
     /\ \/ /\ plan = "delete"
           /\ Sweep(p, r.named, r.tomb, saved[p].manifest)
           /\ live' = [live EXCEPT ![p] = Swept(live[p]), ![m] = Told(m)]
        \/ /\ plan # "delete"
           /\ saved' = IF Adopts(p, r)
                THEN [saved EXCEPT ![p] = Tombstoned(saved[p], r.named, r.tomb)] ELSE saved
           /\ live' = [live EXCEPT ![m] = Told(m),
                ![p] = [live[p] EXCEPT !.queued = live[p].queued \/
                          (plan = "push" /\ Sig(disk[p]) \notin saved[p].skipped)]]
           /\ UNCHANGED <<disk, history, swept>>
     /\ Over(m)
     /\ UNCHANGED <<up, flight, now, written, undone, events>>

(* The round is lost, with the answer to its deletes or without (they stay *)
(* pending), or only its snapshot is.                                      *)
BeaconLost(m) ==
  /\ beacon[m] # None
  /\ \/ ~up[other(m)] /\ UNCHANGED events
     \/ Upset("lost")
  /\ \/ UNCHANGED live
     \/ beacon[m].step = "snapshot" /\ live' = [live EXCEPT ![m] = Told(m)]
  /\ Over(m)
  /\ UNCHANGED <<disk, history, up, saved, flight, now, written, undone, swept>>

---------------------------------------------------------------------------
(* Time and faults *)

(* Two minutes pass: no file is fresh and no loop guard is left.  The      *)
(* watcher, which waits five seconds, has long dealt with what it saw.     *)
Pass ==
  /\ \A m \in Member : ~live[m].event
  /\ \E m \in Member : (disk[m] # None /\ disk[m].fresh) \/ live[m].guard
  /\ disk' = [m \in Member |->
       IF disk[m] = None THEN None ELSE [disk[m] EXCEPT !.fresh = FALSE]]
  /\ live' = [m \in Member |-> [live[m] EXCEPT !.guard = FALSE]]
  /\ UNCHANGED <<history, up, saved, flight, beacon, now, written, undone, swept, events>>

(* The loop guard forgets after half a minute. *)
GuardEnds(m) ==
  /\ live[m].guard
  /\ ~live[m].event
  /\ live' = [live EXCEPT ![m].guard = FALSE]
  /\ UNCHANGED <<disk, history, up, saved, flight, beacon, now,
                 written, undone, swept, events>>

(* Ten minutes pass. *)
Wait ==
  /\ \A m \in Member : ~live[m].event
  /\ Upset("wait")
  /\ now' = now + Slack
  /\ UNCHANGED <<disk, history, up, live, saved, flight, beacon, written, undone, swept>>

(* The watcher lost events: the folder is compared with what we know. *)
Overflow(m) ==
  /\ up[m]
  /\ live[m].missed = None
  /\ Upset("overflow")
  /\ live' = [live EXCEPT ![m] = [live[m] EXCEPT
                            !.event = FALSE, !.missed = [v |-> None, ts |-> now + 1]]]
  /\ UNCHANGED <<disk, history, up, saved, flight, beacon, now, written, undone, swept>>

(* The app is closed or dies: memory and what was being sent are gone. *)
Close(m) ==
  /\ up[m]
  /\ Upset("close")
  /\ up' = [up EXCEPT ![m] = FALSE]
  /\ live' = [live EXCEPT ![m] = Fresh({})]
  /\ flight' = [flight EXCEPT ![m] = None]
  /\ beacon' = [beacon EXCEPT ![m] = None]
  /\ UNCHANGED <<disk, history, saved, now, written, undone, swept>>

(* It starts again, and looks for deletes it missed, dated by its last     *)
(* snapshot.                                                               *)
Open(m) ==
  /\ ~up[m]
  /\ up' = [up EXCEPT ![m] = TRUE]
  /\ live' = [live EXCEPT ![m] = [Fresh(saved[m].manifest) EXCEPT !.missed =
       [v |-> None, ts |-> saved[m].seen]]]
  /\ UNCHANGED <<disk, history, saved, flight, beacon, now,
                 written, undone, swept, events>>

---------------------------------------------------------------------------

Watcher(m) == Queue(m) \/ OwnRemoval(m) \/ Deleted(m)
Startup(m) == Open(m) \/ FirstScan(m) \/ SecondScan(m)
Sender(m) == StartSend(m) \/ Settle(m)
Control(m) == Beacon(m) \/ ApplyDelete(m) \/ Reconcile(m)

Next ==
  \/ \E m \in Member :
       \/ Write(m) \/ UserDelete(m)
       \/ Watcher(m) \/ Startup(m) \/ Sender(m) \/ Control(m)
       \/ Land(m) \/ LandFails(m) \/ SendLost(m) \/ BeaconLost(m)
       \/ GuardEnds(m) \/ Overflow(m) \/ Close(m)
  \/ Pass \/ Wait

Spec == Init /\ [][Next]_vars

(* Each task of a running app goes on, what was sent arrives or is noticed *)
(* to be lost, time passes, and a closed app is opened again.              *)
Fairness ==
  /\ \A m \in Member :
       /\ WF_vars(Watcher(m)) /\ WF_vars(Startup(m)) /\ WF_vars(Sender(m))
       /\ WF_vars(Control(m)) /\ WF_vars(Land(m))
       /\ WF_vars(~up[other(m)] /\ (SendLost(m) \/ BeaconLost(m)))
  /\ WF_vars(Pass)

FairSpec == Spec /\ Fairness

---------------------------------------------------------------------------
(* Properties *)

(* Types; and a closed app has nothing under way. *)
TypeOK ==
  /\ disk \in [Member -> File \cup {None}]
  /\ history \in [Member -> SUBSET Content]
  /\ up \in [Member -> BOOLEAN]
  /\ live \in [Member -> Live] /\ saved \in [Member -> Saved]
  /\ flight \in [Member -> Flight \cup {None}] /\ beacon \in [Member -> Round \cup {None}]
  /\ \A m \in Member : ~up[m] => flight[m] = None /\ beacon[m] = None
  /\ now \in Nat /\ events \in 0 .. MaxEvents
  /\ written \subseteq Content /\ swept \subseteq Content
  /\ undone \subseteq Member \X Content

(* Nothing a user wrote is lost by syncing: it is on a disk, in a history  *)
(* archive, or a user removed or replaced it himself.                      *)
NothingLost ==
  \A c \in written :
    \/ \E m \in Member : disk[m] # None /\ disk[m].c = c
    \/ \E m \in Member : c \in history[m]
    \/ \E m \in Member : <<m, c>> \in undone

(* A delete removes at the other member only a file of the size that was   *)
(* deleted: never an edit the deleter had not seen, unless sizes agree.    *)
DeleteSparesEdits ==
  \A s \in swept : \E u \in undone : Size[u[2]] = Size[s]

Holds(m) == IF disk[m] = None THEN None ELSE disk[m].c

(* A recorded delete that no second removal by a user met (elsewhere, or   *)
(* of another content) is carried out: nobody holds what was deleted.      *)
DeleteCarriedOut ==
  (\E m \in Member : saved[m].tomb # 0) /\ Cardinality(undone) = 1
    => \A m \in Member, u \in undone : Holds(m) # u[2]

(* Once users stop, through conflicting edits, lost exchanges, restarts    *)
(* and lost watcher events, both folders come to hold the same, and a      *)
(* delete has reached both.                                                *)
Converges ==
  <>[](DeleteCarriedOut /\ \A m \in Member : Holds(m) = Holds(other(m)))

===========================================================================
