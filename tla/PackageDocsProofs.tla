-------------------------- MODULE PackageDocsProofs --------------------------
(* What TLAPS proves of PackageDocs, for any number of documents, contents *)
(* and processes, and however many take over a stale lock at a time.        *)
EXTENDS PackageDocs, TLAPS

-----------------------------------------------------------------------------
(* The inductive invariant: what holds of the lock whatever happens to it, and *)
(* what holds of everything until a lock is taken from a live process.        *)

Holding == Body \cup {"returned"}
Handing == {"own", "rmdir", "releaseLock"}

\* Who has the lock unless it was taken from him, whose stale lock is taken over,
\* and how many may do that at a time when they cannot take it from a live one.
ExclusionInv ==
  /\ \A p \in Procs \ robbed : proc[p].pc \in Holding => lock = p
  /\ \A p \in Procs : proc[p].pc \in {"claim", "unlink"} =>
       proc[p].seen \in Procs /\ At(proc[p].seen, "exited")
  /\ lock \in Procs => ~At(lock, "unused")
  /\ ~overlapped =>
       /\ \A p \in Procs : At(p, "unlink") => lock = proc[p].seen
       /\ \A p, q \in Procs : At(p, "unlink") /\ At(q, "unlink") => p = q
  /\ robbed # {} => overlapped

\* Who has the lock, who is about to take or give it, and from whom it is taken
\* over.
LockInv ==
  /\ \A p \in Procs : proc[p].pc \in Holding => lock = p
  /\ \A p \in Procs : proc[p].pc \in Handing => lock = Unowned
  /\ \A p, q \in Procs : proc[p].pc \in Handing /\ proc[q].pc \in Handing => p = q
  /\ \A p \in Procs : proc[p].pc \in {"claim", "unlink"} =>
       proc[p].seen \in Procs /\ At(proc[p].seen, "exited")
  /\ lock \in Procs => ~At(lock, "unused")
  /\ lock # Free => stateRoot

\* A document is moved aside by p, which has not put the new one in its place.
Aside(p, t) == At(p, "place") /\ proc[p].moved # Missing /\ proc[p].i = t

\* The manifest on disk.
ManifestInv ==
  manifest # NoManifest =>
    /\ manifest.phase # "none"
    /\ \A t \in Targets : /\ manifest.sourceHash[t] \in Canonical
                          /\ manifest.prepared[t] \in {Missing, manifest.sourceHash[t]}

Copying == {"copy", "displace", "place", "drop"}
Recording == {"record", "finish", "rename"}

\* The manifest on disk is the one that p has, but for what p has not yet
\* written of it.
Extends(m) ==
  /\ manifest # NoManifest
  /\ m.original = manifest.original /\ m.sourceHash = manifest.sourceHash
  /\ m.phase # "none"

\* What a prepare that p runs has done so far.
PrepareInv(p) ==
  LET m == proc[p].m
  IN /\ m.owner = p /\ m.phase # "none"
     /\ \A t \in Targets :
          /\ m.sourceHash[t] \in Canonical
          /\ m.prepared[t] \in {Missing, m.sourceHash[t]}
          /\ m.prepared[t] # Missing => file[t] = m.sourceHash[t]
          /\ t > proc[p].i => m.prepared[t] = Missing
          /\ t = proc[p].i /\ ~At(p, "drop") => m.prepared[t] = Missing
     /\ proc[p].pc \in {"copy", "displace", "place"} => manifest = m
     /\ proc[p].pc \in {"drop", "record", "finish"} => Extends(m)
     /\ At(p, "rename") /\ manifest # NoManifest => Extends(m)
     /\ At(p, "rename") /\ manifest = NoManifest =>
          m.original = file /\ m.phase = "preparing" /\ m.prepared = Unprepared
     /\ proc[p].pc \in {"displace", "place"} /\ ~Aside(p, proc[p].i) =>
          file[proc[p].i] = m.original[proc[p].i]
     /\ At(p, "drop") \/ Aside(p, proc[p].i) =>
          proc[p].moved = m.original[proc[p].i]

\* What a restore that p runs has done so far.
RestoreInv(p) ==
  /\ \A t \in Targets :
       file[t] \in {manifest.original[t], Missing} \cup Canonical
  /\ proc[p].pc \in {"remove", "rewrite"} =>
       \A t \in Targets : t < proc[p].i => file[t] = manifest.original[t]
  /\ At(p, "rewrite") => file[proc[p].i] = Missing
  /\ At(p, "unlinkManifest") => file = manifest.original

\* What p has in hand at each of its places.
WorkOf(p) ==
  LET pc == proc[p].pc
      op == proc[p].op
  IN /\ pc \in {"verify"} \cup Restoring =>
          manifest # NoManifest /\ proc[p].m = manifest /\ op \in {"prepare", "cleanup"}
     /\ pc = "snapshot" => op = "prepare" /\ manifest = NoManifest
     /\ pc \in Copying => op \in {"prepare", "sync"}
     /\ pc \in Recording => op = "prepare"
     /\ pc \in Copying \cup {"remove", "rewrite"} => proc[p].i \in Targets
     /\ pc \in Recording => proc[p].i \in 1..Entries + 1
     /\ pc \in {"displace", "place"} => proc[p].m.sourceHash[proc[p].i] \in Canonical
     /\ pc \in Copying \cup Recording /\ op = "prepare" => PrepareInv(p)
     /\ pc \in Restoring => RestoreInv(p)
WorkInv == \A p \in Procs : WorkOf(p)

\* What is moved aside is there, and nothing else is, until its process exits.
DisplacedInv ==
  /\ \A p \in Procs : proc[p].pc \notin {"place", "drop", "release", "releaseLock", "releaseRoot"}
       => proc[p].moved = Missing
  /\ \A p \in Procs : At(p, "displace") => file[proc[p].i] # Missing
  /\ \A p \in Procs : At(p, "drop") => proc[p].moved # Missing
  /\ \A p \in Procs : proc[p].pc \in {"place", "drop"} /\ proc[p].moved # Missing
       => <<p, proc[p].moved>> \in displaced[proc[p].i]
  /\ \A p \in Procs, t \in Targets : Aside(p, t) => file[t] = Missing
  /\ \A t \in Targets : \A d \in displaced[t] :
       /\ d[2] # Missing
       /\ ~At(d[1], "exited") => /\ proc[d[1]].pc \in {"place", "drop"}
                                 /\ proc[d[1]].i = t /\ proc[d[1]].moved = d[2]

\* What an edit will write is new.
Seen == {Missing} \cup Canonical \cup 0..edits
FreshInv ==
  /\ \A t \in Targets : file[t] \in Seen /\ manifest.original[t] \in Seen
  /\ \A p \in Procs : proc[p].moved \in Seen
  /\ \A p \in Procs, t \in Targets : proc[p].m.original[t] \in Seen

\* What is the developer's was written by him; a sync drops nothing of it.
OwnedInv ==
  /\ \A t \in Targets : owned[t] \subseteq 0..MaxEdits
  /\ \A p \in Procs : At(p, "drop") /\ proc[p].op = "sync" =>
       proc[p].moved \notin owned[proc[p].i]

\* The content of t that is at its place, or was before it was moved aside.
IsBefore(t, c) ==
  \/ \E p \in Procs : Aside(p, t) /\ c = proc[p].moved
  \/ c = file[t] /\ \A p \in Procs : ~Aside(p, t)

\* A process died after it moved t aside.
Orphaned(t) == \E d \in displaced[t] : At(d[1], "exited")

\* The content that is to be at t is there, or in the manifest.
LeftAt(t, c) ==
  IF manifest = NoManifest THEN left[t] = c
  ELSE \/ left[t] = manifest.original[t]
       \/ left[t] = c /\ c \in 0..MaxEdits
LeftInv ==
  \A t \in Targets :
    \/ Orphaned(t)
    \/ /\ \A c \in Contents : IsBefore(t, c) => LeftAt(t, c)
       /\ \A p \in Procs : proc[p].pc \in Restoring => left[t] = manifest.original[t]

\* A document that the manifest has recorded is as prepared or has been edited.
RecordedInv ==
  \/ disturbed
  \/ \E p \in Procs : proc[p].pc \in Restoring
  \/ manifest = NoManifest
  \/ \A t \in Targets, c \in Contents :
       IsBefore(t, c) /\ manifest.prepared[t] # Missing =>
         c = manifest.sourceHash[t] \/ c # manifest.original[t]

Inv ==
  /\ TypeOK /\ LockInv /\ ManifestInv /\ WorkInv /\ DisplacedInv /\ FreshInv
  /\ OwnedInv /\ NothingLost /\ LeftInv /\ RecordedInv

-----------------------------------------------------------------------------
(* How a process moves                                                     *)

\* Only p goes on, and stays a process.
OnlyMoves(p) ==
  /\ proc' \in [Procs -> Invocations]
  /\ \A q \in Procs \ {p} : proc'[q] = proc[q]

\* p has ended.
Gone(p) ==
  /\ proc'[p].pc = "exited" /\ proc'[p].op = "none" /\ proc'[p].moved = Missing
  /\ proc'[p].m = NoManifest

\* p is at pc, with what it had.
Arrives(p, pc) ==
  /\ proc'[p].pc = pc /\ proc'[p].op = proc[p].op /\ proc'[p].seen = proc[p].seen
  /\ proc'[p].i = proc[p].i /\ proc'[p].moved = proc[p].moved /\ proc'[p].m = proc[p].m

\* The documents, the manifests and the processes that have not started are
\* of their types.
LEMMA InitialTypes ==
  /\ Unprepared \in [Targets -> {Missing} \cup Canonical]
  /\ Unprepared \in [Targets -> Contents]
  /\ NoManifest \in Manifests
  /\ Idle \in Invocations /\ [Idle EXCEPT !.pc = "exited"] \in Invocations
  /\ 1 \in Targets
<1>1. Unprepared \in [Targets -> {Missing} \cup Canonical] /\ Unprepared \in [Targets -> Contents]
  BY DEF Unprepared, Contents
<1>2. NoManifest \in Manifests
  BY <1>1 DEF NoManifest, Manifests
<1>3. Missing \in Contents /\ 0 \in 0..Entries + 1
  BY PackageDocsAssumption DEF Contents
<1>4. Idle \in Invocations /\ [Idle EXCEPT !.pc = "exited"] \in Invocations
  BY <1>2, <1>3 DEF Idle, Invocations, Places, Ended, Free
<1> QED BY <1>1, <1>2, <1>4, PackageDocsAssumption DEF Targets

\* A process whose record changes is the only one that moves.
LEMMA RecordMoves ==
  ASSUME TypeOK, NEW p \in Procs, NEW r \in Invocations, proc' = [proc EXCEPT ![p] = r]
  PROVE  OnlyMoves(p) /\ proc'[p] = r
BY DEF TypeOK, OnlyMoves

LEMMA GoesMoves ==
  ASSUME TypeOK, NEW p \in Procs, NEW pc \in Places, Goes(p, pc)
  PROVE  OnlyMoves(p) /\ Arrives(p, pc)
<1> DEFINE r == [proc[p] EXCEPT !.pc = pc]
<1>1. proc[p] \in Invocations /\ proc \in [Procs -> Invocations]
  BY DEF TypeOK
<1>2. r \in Invocations
  BY <1>1 DEF Invocations
<1>3. proc' = [proc EXCEPT ![p] = r]
  BY <1>1 DEF Goes
<1>4. /\ r.pc = pc /\ r.op = proc[p].op /\ r.seen = proc[p].seen /\ r.i = proc[p].i
      /\ r.moved = proc[p].moved /\ r.m = proc[p].m
  BY <1>1 DEF Invocations
<1> HIDE DEF r
<1> QED BY <1>2, <1>3, <1>4, RecordMoves DEF Arrives

LEMMA ExitsMoves ==
  ASSUME TypeOK, NEW p \in Procs, Exits(p)
  PROVE  OnlyMoves(p) /\ Gone(p)
<1> DEFINE r == [Idle EXCEPT !.pc = "exited"]
<1>1. r \in Invocations
  BY InitialTypes
<1>2. r.pc = "exited" /\ r.op = "none" /\ r.moved = Missing /\ r.m = NoManifest
  BY DEF Idle
<1>3. proc' = [proc EXCEPT ![p] = r]
  BY DEF Exits
<1> HIDE DEF r
<1> QED BY <1>1, <1>2, <1>3, RecordMoves DEF Gone

\* An error ends the process, or sends it to release its lock.
LEMMA ThrowsMoves ==
  ASSUME TypeOK, NEW p \in Procs, Throws(p)
  PROVE  /\ OnlyMoves(p)
         /\ \/ Gone(p)
            \/ /\ Arrives(p, "release") /\ proc[p].pc \in Body \ {"release"}
               /\ proc[p].op # "prepare"
<1>1. CASE proc[p].pc \in Body /\ proc[p].op # "prepare" /\ ~At(p, "release")
  <2>1. Goes(p, "release") /\ "release" \in Places
    BY <1>1 DEF Throws, Places, Body
  <2> QED BY <1>1, <2>1, GoesMoves DEF At
<1>2. CASE ~(proc[p].pc \in Body /\ proc[p].op # "prepare" /\ ~At(p, "release"))
  BY <1>2, ExitsMoves DEF Throws
<1> QED BY <1>1, <1>2


\* The steps at the documents and the manifest.
Working == Body \ {"locked", "release"}

\* p goes on but works on nothing: it is outside of the work on the documents,
\* or gives it up.
Away(p) ==
  /\ OnlyMoves(p)
  /\ ~At(p, "exited") /\ proc'[p].pc \notin Working
  /\ proc'[p].moved \in {Missing, proc[p].moved} /\ proc'[p].m \in {NoManifest, proc[p].m}
  /\ proc'[p].pc \notin {"release", "releaseLock", "releaseRoot"} => proc'[p].moved = Missing
  /\ \/ Gone(p) /\ disturbed' \in BOOLEAN
        /\ (disturbed => disturbed') /\ (HalfDone(p) => disturbed')
     \/ ~HalfDone(p) /\ ~At(p, "drop") /\ disturbed' = disturbed
  /\ UNCHANGED <<disk, manifest, edits, left, owned>>

\* The steps that neither take nor give the lock leave its invariant alone.
LEMMA LockStays ==
  ASSUME LockInv, TypeOK, NEW p \in Procs, OnlyMoves(p), lock' = lock,
         ~At(p, "exited"),
         lock # Free => stateRoot',
         proc'[p].pc \in Holding => proc[p].pc \in Holding,
         proc'[p].pc \notin Handing \cup {"claim", "unlink", "unused"}
  PROVE  LockInv'
<1>0. \A q \in Procs : q # p => proc'[q] = proc[q]
  BY DEF OnlyMoves
<1>1. \A q \in Procs : proc'[q].pc \in Holding => lock' = q
  BY <1>0 DEF LockInv
<1>2. /\ \A q \in Procs : proc'[q].pc \in Handing => lock' = Unowned
      /\ \A q, r \in Procs : proc'[q].pc \in Handing /\ proc'[r].pc \in Handing => q = r
  BY <1>0 DEF LockInv, Handing
<1>3. \A q \in Procs : proc'[q].pc \in {"claim", "unlink"} =>
        proc'[q].seen \in Procs /\ proc'[proc'[q].seen].pc = "exited"
  BY <1>0 DEF LockInv, At
<1>4. lock' \in Procs => proc'[lock'].pc # "unused"
  BY <1>0 DEF LockInv, At
<1>5. lock' # Free => stateRoot'
  OBVIOUS
<1> QED BY <1>1, <1>2, <1>3, <1>4, <1>5 DEF LockInv, At

\* A step that leaves the lock as it is passes on what holds of it in any case.
LEMMA PassesOn ==
  ASSUME TypeOK, ExclusionInv, NEW p \in Procs, OnlyMoves(p), lock' = lock,
         robbed' = robbed, overlapped => overlapped', ~At(p, "exited"),
         proc'[p].pc \in Holding => proc[p].pc \in Holding,
         proc'[p].pc \notin {"claim", "unlink", "unused"}
  PROVE  ExclusionInv'
<1>1. \A q \in Procs : q # p => proc'[q] = proc[q]
  BY DEF OnlyMoves
<1>2. \A q \in Procs \ robbed' : proc'[q].pc \in Holding => lock' = q
  BY <1>1 DEF ExclusionInv
<1>3. \A q \in Procs : proc'[q].pc \in {"claim", "unlink"} =>
        proc'[q].seen \in Procs /\ proc'[proc'[q].seen].pc = "exited"
  BY <1>1 DEF ExclusionInv, At
<1>4. lock' \in Procs => proc'[lock'].pc # "unused"
  BY <1>1 DEF ExclusionInv, At
<1>5. ~overlapped' =>
        /\ \A q \in Procs : proc'[q].pc = "unlink" => lock' = proc'[q].seen
        /\ \A q, r \in Procs : proc'[q].pc = "unlink" /\ proc'[r].pc = "unlink" => q = r
  BY <1>1 DEF ExclusionInv, At
<1>6. robbed' # {} => overlapped'
  BY DEF ExclusionInv
<1> QED BY <1>2, <1>3, <1>4, <1>5, <1>6 DEF ExclusionInv, At

\* So does one that takes a lock that nobody has, or gives its own back.
LEMMA LockChanges ==
  ASSUME TypeOK, ExclusionInv, NEW p \in Procs, OnlyMoves(p),
         lock \notin Procs \/ lock = p, lock' \in {Free, Unowned, p},
         UNCHANGED <<overlapped, robbed>>, ~At(p, "exited"),
         proc'[p].pc \in Holding => lock' = p,
         proc'[p].pc \notin {"claim", "unlink", "unused"}
  PROVE  ExclusionInv'
<1>1. \A q \in Procs : q # p => proc'[q] = proc[q]
  BY DEF OnlyMoves
<1>2. Unowned \notin Procs /\ Free \notin Procs
  BY PackageDocsAssumption DEF Unowned, Procs, Free
<1>3. \A q \in Procs \ robbed' : proc'[q].pc \in Holding => lock' = q
  BY <1>1 DEF ExclusionInv
<1>4. \A q \in Procs : proc'[q].pc \in {"claim", "unlink"} =>
        proc'[q].seen \in Procs /\ proc'[proc'[q].seen].pc = "exited"
  BY <1>1 DEF ExclusionInv, At
<1>5. lock' \in Procs => proc'[lock'].pc # "unused"
  BY <1>2
<1>6. ~overlapped' => \A q \in Procs : proc'[q].pc # "unlink"
  BY <1>1 DEF ExclusionInv, At
<1>7. robbed' # {} => overlapped'
  BY DEF ExclusionInv
<1> QED BY <1>3, <1>4, <1>5, <1>6, <1>7 DEF ExclusionInv, At

\* Whatever only moves a process keeps the types.
LEMMA MovingKeepsTypes ==
  ASSUME TypeOK, NEW p \in Procs, OnlyMoves(p),
         UNCHANGED <<disk, manifest, edits, left, owned>>,
         lock' \in Owners, stateRoot' \in BOOLEAN, manifest # NoManifest => stateRoot',
         temps' \subseteq Procs, kills' \in 0..MaxKills, disturbed' \in BOOLEAN,
         overlapped' \in BOOLEAN, robbed' \subseteq Procs
  PROVE  TypeOK'
BY DEF TypeOK, OnlyMoves, disk

\* Most steps leave what is observed as it is.
LEMMA ObservedStays ==
  ASSUME TypeOK, UNCHANGED observed
  PROVE  /\ UNCHANGED marks /\ UNCHANGED <<left, owned, disturbed>>
         /\ robbed' = robbed /\ robbed' \subseteq Procs
         /\ overlapped' = overlapped /\ overlapped' \in BOOLEAN
BY DEF TypeOK, observed, marks

LEMMA CallStep ==
  ASSUME TypeOK, LockInv, NEW p \in Procs, NEW op \in {"prepare", "cleanup", "sync", "check"},
         Call(p, op)
  PROVE  TypeOK' /\ LockInv' /\ Away(p)
<1> DEFINE pc == IF op = "cleanup" /\ ~stateRoot THEN "exited" ELSE "look"
           r == [Idle EXCEPT !.pc = pc, !.op = op]
<1>1. /\ r \in Invocations /\ r.pc = pc /\ r.op = op /\ r.moved = Missing /\ r.m = NoManifest
  BY ZenonT(120), InitialTypes DEF Idle, Invocations, Places, Ended
<1>2. proc' = [proc EXCEPT ![p] = r]
  BY DEF Call
<1>3. OnlyMoves(p) /\ proc'[p] = r
  <2> HIDE DEF r
  <2> QED BY <1>1, <1>2, RecordMoves
<1>4. At(p, "unused")
  BY DEF Call, IsFree, At
<1>5. /\ UNCHANGED <<disk, lock, manifest, temps, kills, edits, observed>>
      /\ stateRoot' = (stateRoot \/ op # "cleanup") /\ stateRoot' \in BOOLEAN
      /\ stateRoot => stateRoot'
  BY DEF Call, TypeOK
<1>6. pc \in {"exited", "look"}
  OBVIOUS
<1>7. proc'[p].pc \in {"exited", "look"} /\ proc'[p].moved = Missing /\ proc'[p].m = NoManifest
  BY <1>1, <1>3, <1>6
<1> HIDE DEF r, pc
<1>8. TypeOK'
  BY <1>3, <1>5, MovingKeepsTypes, ObservedStays DEF TypeOK, disk
<1>9. LockInv'
  <2>1. lock # Free => stateRoot'
    BY <1>5 DEF LockInv
  <2> QED BY <1>3, <1>4, <1>5, <1>7, <2>1, LockStays DEF Holding, Handing, Body, Restoring, At
<1>10. Away(p)
  BY <1>3, <1>4, <1>5, <1>7, ObservedStays
     DEF Away, At, Working, Body, Restoring, HalfDone, disk, TypeOK
<1> QED BY <1>8, <1>9, <1>10


\* A process that is not at the documents has moved nothing aside; and
\* processes that do not change the disk keep the types.
LEMMA Lingers ==
  ASSUME TypeOK, LockInv, DisplacedInv, NEW p \in Procs, OnlyMoves(p),
         UNCHANGED <<disk, manifest, temps, kills, edits, marks>>,
         overlapped' \in BOOLEAN, robbed' \subseteq Procs,
         lock' \in Owners, stateRoot' \in BOOLEAN, manifest # NoManifest => stateRoot',
         proc[p].pc \notin Working \cup {"exited"},
         \/ Gone(p)
         \/ /\ proc'[p].pc \notin Working
            /\ proc'[p].moved = proc[p].moved /\ proc'[p].m = proc[p].m
            /\ proc[p].pc # "releaseRoot" /\ proc'[p].pc # "release"
            /\ proc[p].pc \in {"release", "releaseLock"} =>
                 proc'[p].pc \in {"releaseLock", "releaseRoot"}
  PROVE  TypeOK' /\ Away(p)
<1>1. TypeOK'
  BY MovingKeepsTypes DEF TypeOK, disk, marks
<1>2. UNCHANGED <<disk, manifest, edits, left, owned, disturbed>>
  BY DEF disk, marks
<1>3. ~HalfDone(p) /\ ~At(p, "drop") /\ ~At(p, "exited") /\ ~At(p, "place")
  BY DEF HalfDone, At, Working, Body, Restoring
<1>4. disturbed' \in BOOLEAN
  BY <1>1 DEF TypeOK
<1>5. CASE Gone(p)
  <2>1. disturbed => disturbed'
    BY <1>2
  <2>2. UNCHANGED <<disk, manifest, edits, left, owned>>
    BY <1>2
  <2> QED BY <1>1, <1>3, <1>4, <1>5, <2>1, <2>2 DEF Away, Gone, Working, Body, Restoring
<1>6. CASE ~Gone(p)
  <2>1. /\ proc'[p].pc \notin Working
        /\ proc'[p].moved = proc[p].moved /\ proc'[p].m = proc[p].m
        /\ proc[p].pc \in {"release", "releaseLock"} => proc'[p].pc \in {"releaseLock", "releaseRoot"}
        /\ proc[p].pc # "releaseRoot"
    BY <1>6
  <2>2. proc'[p].pc \notin {"release", "releaseLock", "releaseRoot"} => proc'[p].moved = Missing
    <3> SUFFICES ASSUME proc'[p].pc \notin {"release", "releaseLock", "releaseRoot"}
                 PROVE  proc[p].moved = Missing
      BY <2>1
    <3>1. proc[p].pc \notin {"release", "releaseLock", "releaseRoot", "place", "drop"}
      BY <2>1, <1>3 DEF At
    <3> QED BY <3>1 DEF DisplacedInv
  <2>3. UNCHANGED <<disk, manifest, edits, left, owned>> /\ disturbed' = disturbed
    BY <1>2
  <2> QED BY <1>1, <1>3, <2>1, <2>2, <2>3 DEF Away
<1> QED BY <1>1, <1>5, <1>6


\* An error outside of the work on the documents ends the process.
LEMMA ThrowsOutside ==
  ASSUME TypeOK, LockInv, DisplacedInv, NEW p \in Procs, Throws(p),
         proc[p].pc \notin Body \cup {"exited"},
         UNCHANGED <<disk, state, kills, edits, marks>>,
         overlapped' \in BOOLEAN, robbed' \subseteq Procs
  PROVE  TypeOK' /\ LockInv' /\ Away(p)
<1>1. OnlyMoves(p) /\ Gone(p)
  BY ThrowsMoves
<1>2. proc'[p].pc = "exited"
  BY <1>1 DEF Gone
<1>3. UNCHANGED <<disk, manifest, temps, kills, edits, marks>>
      /\ lock' = lock /\ stateRoot' = stateRoot
  BY DEF state
<1>4. LockInv'
  BY <1>1, <1>2, <1>3, LockStays DEF LockInv, Holding, Handing, Body, Restoring, At
<1>5. /\ lock' \in Owners /\ stateRoot' \in BOOLEAN /\ (manifest # NoManifest => stateRoot')
      /\ proc[p].pc \notin Working \cup {"exited"}
  BY <1>3 DEF TypeOK, Working
<1> QED BY <1>1, <1>3, <1>4, <1>5, Lingers

LEMMA CallAgainStep ==
  ASSUME TypeOK, LockInv, DisplacedInv, NEW p \in Procs, NEW op \in {"prepare", "cleanup"},
         CallAgain(p, op)
  PROVE  TypeOK' /\ LockInv' /\ Away(p)
<1> DEFINE r == [proc[p] EXCEPT !.pc = "locked", !.op = op]
<1>1. proc[p] \in Invocations /\ proc \in [Procs -> Invocations]
  BY DEF TypeOK
<1>2. /\ r \in Invocations /\ r.pc = "locked" /\ r.moved = proc[p].moved /\ r.m = proc[p].m
  BY <1>1 DEF Invocations, Places, Body
<1>3. proc' = [proc EXCEPT ![p] = r]
  BY <1>1 DEF CallAgain
<1>4. OnlyMoves(p) /\ proc'[p] = r
  <2> HIDE DEF r
  <2> QED BY <1>2, <1>3, RecordMoves
<1>5. /\ UNCHANGED <<disk, manifest, temps, kills, edits, observed>>
      /\ lock' = lock /\ stateRoot' = stateRoot
  BY DEF CallAgain, state
<1>6. /\ UNCHANGED <<disk, manifest, temps, kills, edits, marks>>
      /\ overlapped' \in BOOLEAN /\ robbed' \subseteq Procs
  BY <1>5, ObservedStays
<1>7. proc[p].pc = "returned"
  BY DEF CallAgain, At
<1>8. proc'[p].pc = "locked" /\ proc'[p].moved = proc[p].moved /\ proc'[p].m = proc[p].m
  BY <1>2, <1>4
<1> HIDE DEF r
<1>9. LockInv'
  BY <1>4, <1>5, <1>7, <1>8, LockStays DEF LockInv, Holding, Handing, Body, Restoring, At
<1>10. /\ lock' \in Owners /\ stateRoot' \in BOOLEAN /\ (manifest # NoManifest => stateRoot')
      /\ proc[p].pc \notin Working \cup {"exited", "release", "releaseLock", "releaseRoot"}
      /\ proc'[p].pc \notin Working \cup {"release", "releaseLock", "releaseRoot"}
  BY <1>5, <1>7, <1>8 DEF TypeOK, Working, Body, Restoring
<1> QED BY <1>4, <1>5, <1>8, <1>9, <1>10, <1>6, Lingers

LEMMA ExitStep ==
  ASSUME TypeOK, LockInv, DisplacedInv, NEW p \in Procs, Exit(p)
  PROVE  TypeOK' /\ LockInv' /\ Away(p)
<1>1. proc[p].pc = "returned"
  BY DEF Exit, At
<1>2. proc[p].pc \notin Body \cup {"exited"}
  BY <1>1 DEF Body, Restoring
<1>3. Throws(p) /\ UNCHANGED <<disk, state, kills, edits, observed>>
  BY <1>2 DEF Exit, Throws
<1> QED BY <1>2, <1>3, ObservedStays, ThrowsOutside

\* Who has been looked up as dead stays so.
LEMMA LookStep ==
  ASSUME TypeOK, LockInv, DisplacedInv, NEW p \in Procs, Look(p)
  PROVE  TypeOK' /\ LockInv' /\ Away(p)
<1>1. proc[p].pc = "look" /\ UNCHANGED <<disk, state, kills, edits, observed>>
  BY DEF Look, At
<1>2. /\ UNCHANGED <<disk, manifest, temps, kills, edits, marks>>
      /\ overlapped' \in BOOLEAN /\ robbed' \subseteq Procs
      /\ lock' = lock /\ stateRoot' = stateRoot
  BY <1>1, ObservedStays DEF state
<1>3. /\ lock' \in Owners /\ stateRoot' \in BOOLEAN /\ (manifest # NoManifest => stateRoot')
      /\ proc[p].pc \notin Working \cup Body \cup {"exited", "release", "releaseLock", "releaseRoot"}
  BY <1>1, <1>2 DEF TypeOK, Working, Body, Restoring
<1>4. CASE Throws(p)
  BY <1>1, <1>2, <1>3, <1>4, ThrowsOutside
<1>5. CASE Goes(p, "mkdir")
  <2>1. OnlyMoves(p) /\ Arrives(p, "mkdir")
    BY <1>5, GoesMoves DEF Places
  <2>2. proc'[p].pc = "mkdir" /\ proc'[p].moved = proc[p].moved /\ proc'[p].m = proc[p].m
    BY <2>1 DEF Arrives
  <2>3. LockInv'
    BY <1>1, <1>2, <2>1, <2>2, LockStays DEF LockInv, Holding, Handing, Body, Restoring, At
  <2>4. "mkdir" \notin Working \cup {"release"}
    BY DEF Working, Body, Restoring
  <2> QED BY <1>2, <1>3, <2>1, <2>2, <2>3, <2>4, Lingers
<1>6. CASE /\ lock \in Procs /\ TRUE \in canClaimOwner(lock)
           /\ proc' = [proc EXCEPT ![p].pc = "claim", ![p].seen = lock]
  <2> DEFINE r == [proc[p] EXCEPT !.pc = "claim", !.seen = lock]
  <2>1. proc[p] \in Invocations /\ proc \in [Procs -> Invocations]
    BY DEF TypeOK
  <2>2. /\ r \in Invocations /\ r.pc = "claim" /\ r.moved = proc[p].moved /\ r.m = proc[p].m
        /\ r.seen = lock
    BY <1>6, <2>1 DEF Invocations, Places
  <2>3. proc' = [proc EXCEPT ![p] = r]
    BY <1>6, <2>1
  <2>4. OnlyMoves(p) /\ proc'[p] = r
    <3> HIDE DEF r
    <3> QED BY <2>2, <2>3, RecordMoves
  <2>5. /\ proc'[p].pc = "claim" /\ proc'[p].moved = proc[p].moved /\ proc'[p].m = proc[p].m
        /\ proc'[p].seen = lock
    BY <2>2, <2>4
  <2> HIDE DEF r
  <2>6. lock \notin Alive
    BY <1>6 DEF canClaimOwner
  <2>7. proc[lock].pc = "exited"
    BY <1>6, <2>6 DEF Alive, Ended, LockInv, At
  <2>8. \A q \in Procs : q # p => proc'[q] = proc[q]
    BY <2>4 DEF OnlyMoves
  <2>9. LockInv'
    <3>1. lock # p /\ proc'[lock].pc = "exited"
      BY <1>1, <1>6, <2>7, <2>8
    <3>2. /\ \A q \in Procs : proc'[q].pc \in Holding => lock = q
          /\ \A q \in Procs : proc'[q].pc \in Handing => lock = Unowned
          /\ \A q, s \in Procs : proc'[q].pc \in Handing /\ proc'[s].pc \in Handing => q = s
      BY <1>6, <2>5, <2>8 DEF LockInv, Holding, Handing, Body, Restoring
    <3>3. \A q \in Procs : proc'[q].pc \in {"claim", "unlink"} =>
            proc'[q].seen \in Procs /\ proc'[proc'[q].seen].pc = "exited"
      <4>1. \A q \in Procs : q # p /\ proc[q].pc \in {"claim", "unlink"} =>
              proc[q].seen \in Procs /\ proc[q].seen # p /\ proc[proc[q].seen].pc = "exited"
        BY <1>1 DEF LockInv, At
      <4>2. \A q \in Procs : q # p /\ proc'[q].pc \in {"claim", "unlink"} =>
              proc'[q].seen \in Procs /\ proc'[proc'[q].seen].pc = "exited"
        BY <2>8, <4>1
      <4> QED BY <1>6, <2>5, <3>1, <4>2
    <3>4. lock # Free => stateRoot
      BY DEF LockInv
    <3> QED BY <1>2, <3>1, <3>2, <3>3, <3>4 DEF LockInv, At
  <2>10. "claim" \notin Working \cup {"release"}
    BY DEF Working, Body, Restoring
  <2> QED BY <1>2, <1>3, <2>4, <2>5, <2>9, <2>10, Lingers
<1> QED BY <1>4, <1>5, <1>6 DEF Look


\* A process goes to a place outside of the work on the documents; what that
\* does to the lock is for the caller to say.
LEMMA GoesOutside ==
  ASSUME TypeOK, LockInv, DisplacedInv, NEW p \in Procs, NEW pc, Goes(p, pc),
         \/ /\ proc[p].pc \in {"claim", "unlink", "rmdir", "mkdir", "own"}
            /\ pc \in {"look", "unlink", "rmdir", "own", "locked"}
         \/ proc[p].pc \in {"release", "releaseLock"} /\ pc \in {"releaseLock", "releaseRoot"},
         UNCHANGED <<disk, stateRoot, manifest, temps, kills, edits, marks>>,
         overlapped' \in BOOLEAN, robbed' \subseteq Procs, lock' \in Owners
  PROVE  TypeOK' /\ Away(p) /\ OnlyMoves(p) /\ Arrives(p, pc)
<1>1. pc \in Places
  BY DEF Places, Body
<1>2. OnlyMoves(p) /\ Arrives(p, pc)
  BY <1>1, GoesMoves
<1>3. /\ proc[p].pc \notin Working \cup {"exited", "releaseRoot"} /\ pc \notin Working \cup {"release"}
      /\ proc[p].pc \in {"release", "releaseLock"} => pc \in {"releaseLock", "releaseRoot"}
  BY DEF Working, Body, Restoring
<1>4. stateRoot' \in BOOLEAN /\ (manifest # NoManifest => stateRoot')
  BY DEF TypeOK
<1>5. /\ proc'[p].pc = pc /\ proc'[p].moved = proc[p].moved /\ proc'[p].m = proc[p].m
  BY <1>2 DEF Arrives
<1>6. UNCHANGED <<disk, manifest, temps, kills, edits, marks>>
  OBVIOUS
<1>7. TypeOK' /\ Away(p)
  BY <1>2, <1>3, <1>4, <1>5, <1>6, Lingers
<1> QED BY <1>2, <1>7

LEMMA SameOwnerStep ==
  ASSUME TypeOK, LockInv, DisplacedInv, NEW p \in Procs, SameOwner(p)
  PROVE  TypeOK' /\ LockInv' /\ Away(p)
<1>1. /\ proc[p].pc = "claim" /\ UNCHANGED <<disk, state, kills, edits, marks>>
      /\ overlapped' \in BOOLEAN /\ robbed' \subseteq Procs
  BY DEF SameOwner, At, TypeOK
<1>2. /\ UNCHANGED <<disk, stateRoot, manifest, temps, kills, edits, marks>>
      /\ lock' = lock /\ lock' \in Owners
  BY <1>1 DEF state, TypeOK
<1>3. CASE Throws(p)
  BY <1>1, <1>3, ThrowsOutside DEF Body, Restoring
<1>4. CASE lock = proc[p].seen /\ Goes(p, "unlink")
  <2>1. TypeOK' /\ Away(p) /\ OnlyMoves(p) /\ Arrives(p, "unlink")
    BY <1>1, <1>2, <1>4, GoesOutside
  <2>2. /\ \A q \in Procs : q # p => proc'[q] = proc[q]
        /\ proc'[p].pc = "unlink" /\ proc'[p].seen = proc[p].seen
    BY <2>1 DEF OnlyMoves, Arrives
  <2>3. lock \in Procs /\ proc[lock].pc = "exited" /\ lock # p
    BY <1>1, <1>4 DEF LockInv, At
  <2>4. /\ \A q \in Procs : proc'[q].pc \in Holding => lock = q
        /\ \A q \in Procs : proc'[q].pc \in Handing => lock = Unowned
        /\ \A q, s \in Procs : proc'[q].pc \in Handing /\ proc'[s].pc \in Handing => q = s
    BY <2>2 DEF LockInv, Holding, Handing, Body, Restoring
  <2>5. \A q \in Procs : proc'[q].pc \in {"claim", "unlink"} =>
          proc'[q].seen \in Procs /\ proc'[proc'[q].seen].pc = "exited"
    BY <1>1, <1>4, <2>2, <2>3 DEF LockInv, At
  <2>6. lock # Free => stateRoot
    BY DEF LockInv
  <2>7. LockInv'
    BY <1>2, <2>2, <2>3, <2>4, <2>5, <2>6 DEF LockInv, At
  <2> QED BY <2>1, <2>7
<1> QED BY <1>3, <1>4 DEF SameOwner, StillStale

\* As long as no live process loses its lock, the one removed is the stale one.
LEMMA UnlinkOwnerStep ==
  ASSUME TypeOK, LockInv, DisplacedInv, NEW p \in Procs, UnlinkOwner(p), robbed' = {}
  PROVE  TypeOK' /\ LockInv' /\ Away(p)
<1>1. /\ proc[p].pc = "unlink" /\ proc[p].seen \in Procs /\ proc[proc[p].seen].pc = "exited"
      /\ UNCHANGED <<disk, stateRoot, manifest, temps, kills, edits, marks>>
      /\ overlapped' \in BOOLEAN /\ robbed' \subseteq Procs
  BY DEF UnlinkOwner, LockInv, At, TypeOK
<1>2. CASE lock \notin Procs
  <2>1. lock' = lock /\ Throws(p)
    BY <1>2 DEF UnlinkOwner
  <2>2. UNCHANGED <<disk, state, kills, edits, marks>>
    BY <1>1, <2>1 DEF state
  <2> QED BY <1>1, <2>1, <2>2, ThrowsOutside DEF Body, Restoring
<1>3. CASE lock \in Procs
  <2> DEFINE r == [proc[p] EXCEPT !.pc = "rmdir", !.seen = Free]
  <2>1. lock' = Unowned /\ lock = proc[p].seen
    BY <1>3 DEF UnlinkOwner
  <2>2. proc[p] \in Invocations /\ proc \in [Procs -> Invocations]
    BY DEF TypeOK
  <2>3. r \in Invocations /\ r.pc = "rmdir" /\ r.moved = proc[p].moved /\ r.m = proc[p].m
    BY <2>2 DEF Invocations, Places
  <2>4. proc' = [proc EXCEPT ![p] = r]
    BY <1>3, <2>2 DEF UnlinkOwner
  <2>5. OnlyMoves(p) /\ proc'[p] = r
    <3> HIDE DEF r
    <3> QED BY <2>3, <2>4, RecordMoves
  <2>6. proc'[p].pc = "rmdir" /\ proc'[p].moved = proc[p].moved /\ proc'[p].m = proc[p].m
    BY <2>3, <2>5
  <2> HIDE DEF r
  <2>7. \A q \in Procs : q # p => proc'[q] = proc[q]
    BY <2>5 DEF OnlyMoves
  <2>8. Unowned \notin Procs /\ Unowned # Free
    BY PackageDocsAssumption DEF Unowned, Procs, Free
  <2>9. /\ \A q \in Procs : proc'[q].pc \notin Holding
        /\ \A q \in Procs : proc'[q].pc \in Handing => q = p
    BY <1>1, <1>3, <2>1, <2>6, <2>7, <2>8 DEF LockInv, Holding, Handing, Body, Restoring
  <2>10. \A q \in Procs : proc'[q].pc \in {"claim", "unlink"} =>
           proc'[q].seen \in Procs /\ proc'[proc'[q].seen].pc = "exited"
    BY <1>1, <2>6, <2>7 DEF LockInv, At
  <2>11. stateRoot'
    BY <1>1, <1>3 DEF LockInv, Procs, Free
  <2>12. LockInv'
    BY <2>1, <2>8, <2>9, <2>10, <2>11 DEF LockInv, At
  <2>13. /\ lock' \in Owners /\ stateRoot' \in BOOLEAN /\ (manifest # NoManifest => stateRoot')
         /\ proc[p].pc \notin Working \cup {"exited", "release", "releaseLock", "releaseRoot"}
         /\ proc'[p].pc \notin Working \cup {"release"}
    BY <1>1, <2>1, <2>6, <2>11 DEF Owners, Working, Body, Restoring
  <2>14. UNCHANGED <<disk, manifest, temps, kills, edits, marks>>
    BY <1>1
  <2> QED BY <1>1, <2>5, <2>6, <2>12, <2>13, <2>14, Lingers
<1> QED BY <1>2, <1>3

\* The directory of a lock without an owner is removed, by one that took the
\* lock over or by the owner that gives it back.
LEMMA LockIsFreed ==
  ASSUME TypeOK, LockInv, DisplacedInv, NEW p \in Procs, NEW pc, Goes(p, pc),
         \/ At(p, "rmdir") /\ pc = "look"
         \/ At(p, "releaseLock") /\ pc = "releaseRoot",
         lock = Unowned, lock' = Free,
         UNCHANGED <<disk, stateRoot, manifest, temps, kills, edits, observed>>
  PROVE  TypeOK' /\ LockInv' /\ Away(p)
<1>1. TypeOK' /\ Away(p) /\ OnlyMoves(p) /\ Arrives(p, pc)
  BY GoesOutside, ObservedStays DEF At, Owners
<1>2. /\ \A q \in Procs : q # p => proc'[q] = proc[q]
      /\ proc'[p].pc = pc
  BY <1>1 DEF OnlyMoves, Arrives
<1>3. Unowned \notin Procs /\ Unowned # Free /\ Free \notin Procs
  BY PackageDocsAssumption DEF Unowned, Procs, Free
<1>4. /\ \A q \in Procs : proc'[q].pc \notin Holding
      /\ \A q \in Procs : proc'[q].pc \notin Handing
  BY <1>2, <1>3 DEF LockInv, Holding, Handing, Body, Restoring, At
<1>5. \A q \in Procs : proc'[q].pc \in {"claim", "unlink"} =>
        proc'[q].seen \in Procs /\ proc'[proc'[q].seen].pc = "exited"
  BY <1>2, <1>3 DEF LockInv, At
<1>6. LockInv'
  BY <1>3, <1>4, <1>5 DEF LockInv, At
<1> QED BY <1>1, <1>6

LEMMA RemoveLockStep ==
  ASSUME TypeOK, LockInv, DisplacedInv, NEW p \in Procs, RemoveLock(p)
  PROVE  TypeOK' /\ LockInv' /\ Away(p)
<1>1. lock = Unowned
  BY DEF RemoveLock, LockInv, At, Handing
<1>2. At(p, "rmdir") /\ lock' = Free /\ Goes(p, "look")
      /\ UNCHANGED <<disk, stateRoot, manifest, temps, kills, edits, observed>>
  BY <1>1 DEF RemoveLock
<1> QED BY <1>1, <1>2, LockIsFreed

LEMMA ReleaseLockStep ==
  ASSUME TypeOK, LockInv, DisplacedInv, NEW p \in Procs, ReleaseLock(p)
  PROVE  TypeOK' /\ LockInv' /\ Away(p)
<1>1. lock = Unowned
  BY DEF ReleaseLock, LockInv, At, Handing
<1>2. At(p, "releaseLock") /\ lock' = Free /\ Goes(p, "releaseRoot")
      /\ UNCHANGED <<disk, stateRoot, manifest, temps, kills, edits, observed>>
  BY <1>1 DEF ReleaseLock
<1> QED BY <1>1, <1>2, LockIsFreed


LEMMA MakeLockStep ==
  ASSUME TypeOK, LockInv, DisplacedInv, NEW p \in Procs, MakeLock(p)
  PROVE  TypeOK' /\ LockInv' /\ Away(p)
<1>1. proc[p].pc = "mkdir"
      /\ UNCHANGED <<disk, stateRoot, manifest, temps, kills, edits, observed>>
  BY DEF MakeLock, At
<1>2. Unowned \notin Procs /\ Unowned # Free /\ Free \notin Procs
  BY PackageDocsAssumption DEF Unowned, Procs, Free
<1>3. CASE UNCHANGED lock /\ Throws(p)
  <2>1. UNCHANGED <<disk, state, kills, edits, observed>>
    BY <1>1, <1>3 DEF state
  <2> QED BY <1>1, <1>3, <2>1, ObservedStays, ThrowsOutside DEF Body, Restoring
<1>4. CASE UNCHANGED lock /\ Goes(p, "look")
  <2>1. lock' \in Owners
    BY <1>4 DEF TypeOK
  <2>2. TypeOK' /\ Away(p) /\ OnlyMoves(p) /\ Arrives(p, "look")
    BY <1>1, <1>4, <2>1, ObservedStays, GoesOutside
  <2>3. proc'[p].pc = "look"
    BY <2>2 DEF Arrives
  <2>4. LockInv'
    BY <1>1, <1>4, <2>2, <2>3, LockStays DEF LockInv, Holding, Handing, Body, Restoring, At
  <2> QED BY <2>2, <2>4
<1>5. CASE stateRoot /\ lock = Free /\ lock' = Unowned /\ Goes(p, "own")
  <2>1. TypeOK' /\ Away(p) /\ OnlyMoves(p) /\ Arrives(p, "own")
    BY <1>1, <1>5, ObservedStays, GoesOutside DEF Owners
  <2>2. /\ \A q \in Procs : q # p => proc'[q] = proc[q]
        /\ proc'[p].pc = "own"
    BY <2>1 DEF OnlyMoves, Arrives
  <2>3. /\ \A q \in Procs : proc'[q].pc \notin Holding
        /\ \A q \in Procs : proc'[q].pc \in Handing => q = p
    BY <1>2, <1>5, <2>2 DEF LockInv, Holding, Handing, Body, Restoring
  <2>4. \A q \in Procs : proc'[q].pc \in {"claim", "unlink"} =>
          proc'[q].seen \in Procs /\ proc'[proc'[q].seen].pc = "exited"
    BY <1>1, <1>2, <1>5, <2>2 DEF LockInv, At
  <2>5. stateRoot'
    BY <1>1, <1>5
  <2>6. LockInv'
    BY <1>2, <1>5, <2>3, <2>4, <2>5 DEF LockInv, At
  <2> QED BY <2>1, <2>6
<1> QED BY <1>3, <1>4, <1>5 DEF MakeLock

LEMMA WriteOwnerStep ==
  ASSUME TypeOK, LockInv, DisplacedInv, NEW p \in Procs, WriteOwner(p)
  PROVE  TypeOK' /\ LockInv' /\ Away(p)
<1>1. proc[p].pc = "own" /\ lock = Unowned
  BY DEF WriteOwner, LockInv, At, Handing
<1>2. /\ lock' = p /\ Goes(p, "locked")
      /\ UNCHANGED <<disk, stateRoot, manifest, temps, kills, edits, observed>>
  BY <1>1 DEF WriteOwner
<1>3. Unowned \notin Procs /\ Unowned # Free /\ Free \notin Procs
  BY PackageDocsAssumption DEF Unowned, Procs, Free
<1>4. TypeOK' /\ Away(p) /\ OnlyMoves(p) /\ Arrives(p, "locked")
  BY <1>1, <1>2, ObservedStays, GoesOutside DEF Owners
<1>5. /\ \A q \in Procs : q # p => proc'[q] = proc[q]
      /\ proc'[p].pc = "locked"
  BY <1>4 DEF OnlyMoves, Arrives
<1>6. /\ \A q \in Procs : proc'[q].pc \in Holding => q = p
      /\ \A q \in Procs : proc'[q].pc \notin Handing
  BY <1>1, <1>3, <1>5 DEF LockInv, Holding, Handing, Body, Restoring
<1>7. \A q \in Procs : proc'[q].pc \in {"claim", "unlink"} =>
        proc'[q].seen \in Procs /\ proc'[proc'[q].seen].pc = "exited"
  BY <1>1, <1>3, <1>5 DEF LockInv, At
<1>8. stateRoot'
  BY <1>1, <1>2, <1>3 DEF LockInv
<1>9. LockInv'
  BY <1>2, <1>5, <1>6, <1>7, <1>8 DEF LockInv, At
<1> QED BY <1>4, <1>9

LEMMA ReleaseOwnerStep ==
  ASSUME TypeOK, LockInv, DisplacedInv, NEW p \in Procs, ReleaseOwner(p)
  PROVE  TypeOK' /\ LockInv' /\ Away(p)
<1>1. proc[p].pc = "release" /\ lock = p
  BY DEF ReleaseOwner, LockInv, At, Holding, Body
<1>2. /\ lock' = Unowned /\ Goes(p, "releaseLock")
      /\ UNCHANGED <<disk, stateRoot, manifest, temps, kills, edits, observed>>
  BY <1>1 DEF ReleaseOwner
<1>3. Unowned \notin Procs /\ Unowned # Free /\ Free \notin Procs
  BY PackageDocsAssumption DEF Unowned, Procs, Free
<1>4. TypeOK' /\ Away(p) /\ OnlyMoves(p) /\ Arrives(p, "releaseLock")
  BY <1>1, <1>2, ObservedStays, GoesOutside DEF Owners
<1>5. /\ \A q \in Procs : q # p => proc'[q] = proc[q]
      /\ proc'[p].pc = "releaseLock"
  BY <1>4 DEF OnlyMoves, Arrives
<1>6. /\ \A q \in Procs : proc'[q].pc \notin Holding
      /\ \A q \in Procs : proc'[q].pc \in Handing => q = p
  BY <1>1, <1>3, <1>5 DEF LockInv, Holding, Handing, Body, Restoring
<1>7. \A q \in Procs : proc'[q].pc \in {"claim", "unlink"} =>
        proc'[q].seen \in Procs /\ proc'[proc'[q].seen].pc = "exited"
  BY <1>1, <1>3, <1>5 DEF LockInv, At
<1>8. stateRoot'
  BY <1>1, <1>2, <1>3 DEF LockInv
<1>9. LockInv'
  BY <1>2, <1>3, <1>6, <1>7, <1>8 DEF LockInv, At
<1> QED BY <1>4, <1>9

LEMMA ReleaseRootStep ==
  ASSUME TypeOK, LockInv, DisplacedInv, NEW p \in Procs, ReleaseRoot(p)
  PROVE  TypeOK' /\ LockInv' /\ Away(p)
<1>1. /\ proc[p].pc = "releaseRoot" /\ Exits(p)
      /\ UNCHANGED <<disk, lock, manifest, temps, kills, edits, observed>>
  BY DEF ReleaseRoot, At
<1>2. stateRoot' \in BOOLEAN /\ (lock # Free \/ manifest # NoManifest => (stateRoot => stateRoot'))
  <2>1. stateRoot \in BOOLEAN
    BY DEF TypeOK
  <2>2. CASE stateRoot' = stateRoot
    BY <2>1, <2>2
  <2>3. CASE stateRoot' = (stateRoot /\ ~(lock = Free /\ manifest = NoManifest /\ temps = {}))
    BY <2>1, <2>3
  <2> QED BY <2>2, <2>3 DEF ReleaseRoot
<1>3. OnlyMoves(p) /\ Gone(p)
  BY <1>1, ExitsMoves
<1>4. /\ lock' \in Owners /\ (manifest # NoManifest => stateRoot')
      /\ proc[p].pc \notin Working \cup {"exited"}
  BY <1>1, <1>2 DEF TypeOK, Working, Body, Restoring
<1>5. lock # Free => stateRoot'
  BY <1>2 DEF LockInv
<1>6. LockInv'
  BY <1>1, <1>3, <1>5, LockStays DEF Gone, Holding, Handing, Body, Restoring, At
<1>7. /\ UNCHANGED <<disk, manifest, temps, kills, edits, marks>>
      /\ overlapped' \in BOOLEAN /\ robbed' \subseteq Procs
  BY <1>1, ObservedStays
<1> QED BY <1>2, <1>3, <1>4, <1>6, <1>7, Lingers

\* An error during the work on the documents: nothing of it is half done.
LEMMA ThrowsInside ==
  ASSUME TypeOK, LockInv, DisplacedInv, NEW p \in Procs, Throws(p),
         proc[p].pc \in Body, ~HalfDone(p), ~At(p, "drop"),
         UNCHANGED <<disk, state, kills, edits, observed>>
  PROVE  TypeOK' /\ LockInv' /\ Away(p)
<1>1. /\ OnlyMoves(p)
      /\ Gone(p) \/ Arrives(p, "release")
  BY ThrowsMoves
<1>2. UNCHANGED <<disk, manifest, temps, kills, edits, left, owned, disturbed>>
      /\ lock' = lock /\ stateRoot' = stateRoot
      /\ overlapped' = overlapped /\ robbed' = robbed
  BY DEF state, observed, marks
<1>3. proc'[p].pc \in {"exited", "release"}
  BY <1>1 DEF Gone, Arrives
<1>4. LockInv'
  BY <1>1, <1>2, <1>3, LockStays DEF LockInv, Holding, Handing, Body, Restoring, At
<1>5. TypeOK'
  BY <1>1, <1>2, MovingKeepsTypes DEF TypeOK
<1>6. /\ proc'[p].moved \in {Missing, proc[p].moved} /\ proc'[p].m \in {NoManifest, proc[p].m}
      /\ proc'[p].pc \notin {"release", "releaseLock", "releaseRoot"} => proc'[p].moved = Missing
      /\ proc'[p].pc \notin Working /\ ~At(p, "exited")
  BY <1>1, <1>3 DEF Gone, Arrives, Working, Body, Restoring, At
<1>7. Away(p)
  BY <1>1, <1>2, <1>6 DEF Away
<1> QED BY <1>4, <1>5, <1>7

LEMMA KillStep ==
  ASSUME TypeOK, LockInv, DisplacedInv, NEW p \in Procs, Kill(p)
  PROVE  TypeOK' /\ LockInv' /\ Away(p)
<1>1. /\ Exits(p) /\ ~At(p, "exited") /\ kills' \in 0..MaxKills
      /\ UNCHANGED <<disk, stateRoot, lock, manifest, temps, edits, left, owned, overlapped, robbed>>
  <2>1. Exits(p) /\ p \in Alive /\ kills < MaxKills /\ kills' = kills + 1
        /\ UNCHANGED <<disk, state, edits, left, owned, overlapped, robbed>>
    BY DEF Kill
  <2>2. kills' \in 0..MaxKills
    BY <2>1, PackageDocsAssumption DEF TypeOK
  <2> QED BY <2>1, <2>2 DEF Alive, Ended, At, state
<1>2. /\ disturbed' \in BOOLEAN /\ (disturbed => disturbed') /\ (HalfDone(p) => disturbed')
  BY DEF Kill, TypeOK
<1>3. OnlyMoves(p) /\ Gone(p)
  BY <1>1, ExitsMoves
<1>4. TypeOK'
  BY <1>1, <1>2, <1>3, MovingKeepsTypes DEF TypeOK
<1>5. LockInv'
  BY <1>1, <1>3, LockStays DEF LockInv, Gone, Holding, Handing, Body, Restoring, At
<1>6. Away(p)
  <2>1. proc'[p].pc \notin Working \cup {"release", "releaseLock", "releaseRoot"}
    BY <1>3 DEF Gone, Working, Body, Restoring
  <2> QED BY <1>1, <1>2, <1>3, <2>1 DEF Away, Gone
<1> QED BY <1>4, <1>5, <1>6


-----------------------------------------------------------------------------
(* Steps that work on nothing                                              *)

\* Everybody else's documents and manifest are as they were.
LEMMA AwayKeepsWork ==
  ASSUME Inv, NEW p \in Procs, Away(p)
  PROVE  ManifestInv' /\ WorkInv' /\ FreshInv' /\ OwnedInv' /\ NothingLost'
<1>1. /\ file' = file /\ source' = source /\ displaced' = displaced /\ manifest' = manifest
      /\ edits' = edits /\ left' = left /\ owned' = owned
  BY DEF Away, disk
<1>2. /\ \A q \in Procs : q # p => proc'[q] = proc[q]
      /\ proc'[p].pc \notin Working /\ proc'[p].moved \in {Missing, proc[p].moved}
      /\ proc'[p].m \in {NoManifest, proc[p].m}
  BY DEF Away, OnlyMoves
<1>3. ManifestInv'
  BY <1>1 DEF Inv, ManifestInv
<1>4. WorkInv'
  <2> SUFFICES ASSUME NEW q \in Procs, proc'[q].pc \in Working PROVE WorkOf(q)'
    BY DEF WorkInv, WorkOf, Working, Body, Restoring, Copying, Recording
  <2>1. proc'[q] = proc[q]
    BY <1>2
  <2>2. PrepareInv(q) => PrepareInv(q)'
    BY <1>1, <2>1 DEF PrepareInv, Extends, Aside, At
  <2>3. RestoreInv(q) => RestoreInv(q)'
    BY <1>1, <2>1 DEF RestoreInv, At
  <2> QED BY <1>1, <2>1, <2>2, <2>3 DEF Inv, WorkInv, WorkOf
<1>5. FreshInv'
  <2>1. \A t \in Targets : file'[t] \in Seen /\ manifest'.original[t] \in Seen
    BY <1>1 DEF Inv, FreshInv
  <2>2. \A q \in Procs : proc'[q].moved \in Seen
    BY <1>2 DEF Inv, FreshInv, Seen
  <2>3. \A q \in Procs, t \in Targets : proc'[q].m.original[t] \in Seen
    BY <1>2 DEF Inv, FreshInv, Seen, NoManifest, Unprepared
  <2>4. Seen' = Seen
    BY <1>1 DEF Seen
  <2> QED BY <2>1, <2>2, <2>3, <2>4 DEF FreshInv
<1>6. OwnedInv'
  BY <1>1, <1>2 DEF Inv, OwnedInv, At, Working, Body
<1>7. NothingLost'
  BY <1>1 DEF Inv, NothingLost
<1> QED BY <1>3, <1>4, <1>5, <1>6, <1>7

\* What p has moved aside when it ends is orphaned by that.
LEMMA AwayKeepsDisplaced ==
  ASSUME Inv, NEW p \in Procs, Away(p)
  PROVE  /\ DisplacedInv'
         /\ \A t \in Targets : Orphaned(t) \/ Aside(p, t) => Orphaned(t)'
<1>1. file' = file /\ displaced' = displaced
  BY DEF Away, disk
<1>2. /\ \A q \in Procs : q # p => proc'[q] = proc[q]
      /\ proc'[p].pc \notin Working /\ proc[p].pc # "exited"
      /\ proc'[p].moved \in {Missing, proc[p].moved}
      /\ proc'[p].pc \notin {"release", "releaseLock", "releaseRoot"} => proc'[p].moved = Missing
  BY DEF Away, OnlyMoves, At
<1>3. Gone(p) \/ (~HalfDone(p) /\ ~At(p, "drop"))
  BY DEF Away
<1>4. proc'[p].pc \notin {"place", "drop", "displace"}
  BY <1>2 DEF Working, Body
<1>5. \A t \in Targets : \A d \in displaced[t] :
        /\ d[1] \in Procs /\ d[2] # Missing
        /\ proc[d[1]].pc # "exited" => /\ proc[d[1]].pc \in {"place", "drop"}
                                       /\ proc[d[1]].i = t /\ proc[d[1]].moved = d[2]
  BY DEF Inv, TypeOK, DisplacedInv, At
<1>6. \A t \in Targets : \A d \in displaced[t] : d[1] = p => proc'[p].pc = "exited"
  BY <1>2, <1>3, <1>5 DEF HalfDone, At, Gone
<1>7. DisplacedInv'
  <2>1. /\ \A q \in Procs : proc'[q].pc \notin {"place", "drop", "release", "releaseLock", "releaseRoot"}
             => proc'[q].moved = Missing
        /\ \A q \in Procs : proc'[q].pc = "displace" => file[proc'[q].i] # Missing
        /\ \A q \in Procs : proc'[q].pc = "drop" => proc'[q].moved # Missing
        /\ \A q \in Procs : proc'[q].pc \in {"place", "drop"} /\ proc'[q].moved # Missing
             => <<q, proc'[q].moved>> \in displaced[proc'[q].i]
    BY <1>2, <1>4 DEF Inv, DisplacedInv, At
  <2>2. \A q \in Procs, t \in Targets : Aside(q, t)' => file[t] = Missing
    BY <1>2, <1>4 DEF Inv, DisplacedInv, Aside, At
  <2>3. \A t \in Targets : \A d \in displaced[t] :
          /\ d[2] # Missing
          /\ proc'[d[1]].pc # "exited" => /\ proc'[d[1]].pc \in {"place", "drop"}
                                          /\ proc'[d[1]].i = t /\ proc'[d[1]].moved = d[2]
    BY <1>2, <1>5, <1>6
  <2> QED BY <1>1, <2>1, <2>2, <2>3 DEF DisplacedInv, At
<1>8. ASSUME NEW t \in Targets, Orphaned(t) PROVE Orphaned(t)'
  <2>1. PICK d \in displaced[t] : proc[d[1]].pc = "exited"
    BY <1>8 DEF Orphaned, At
  <2>2. d[1] # p /\ d[1] \in Procs
    BY <1>2, <1>5, <2>1
  <2> QED BY <1>1, <1>2, <2>1, <2>2 DEF Orphaned, At
<1>9. ASSUME NEW t \in Targets, Aside(p, t) PROVE Orphaned(t)'
  <2>1. <<p, proc[p].moved>> \in displaced[t]
    BY <1>9 DEF Inv, DisplacedInv, Aside, At
  <2>2. proc'[p].pc = "exited"
    BY <1>6, <2>1
  <2> QED BY <1>1, <2>1, <2>2 DEF Orphaned, At
<1> QED BY <1>7, <1>8, <1>9

LEMMA AwayKeepsContents ==
  ASSUME Inv, NEW p \in Procs, Away(p)
  PROVE  LeftInv' /\ RecordedInv'
<1>1. file' = file /\ manifest' = manifest /\ left' = left
  BY DEF Away, disk
<1>2. /\ \A q \in Procs : q # p => proc'[q] = proc[q]
      /\ proc'[p].pc \notin Restoring /\ proc'[p].pc # "place"
  BY DEF Away, OnlyMoves, Working, Body, Restoring
<1>3. /\ \A t \in Targets : ~Aside(p, t)'
      /\ \A q \in Procs, t \in Targets : q # p => (Aside(q, t)' <=> Aside(q, t))
  BY <1>2 DEF Aside, At
<1>4. \A t \in Targets, c \in Contents : ~Aside(p, t) /\ IsBefore(t, c)' => IsBefore(t, c)
  BY <1>1, <1>2, <1>3 DEF IsBefore
<1>5. LeftInv'
  <2> SUFFICES ASSUME NEW t \in Targets, ~Orphaned(t)'
               PROVE  /\ \A c \in Contents : IsBefore(t, c)' => LeftAt(t, c)'
                      /\ \A q \in Procs : proc'[q].pc \in Restoring => left'[t] = manifest'.original[t]
    BY DEF LeftInv
  <2>1. ~Orphaned(t) /\ ~Aside(p, t)
    BY AwayKeepsDisplaced
  <2>2. /\ \A c \in Contents : IsBefore(t, c) => LeftAt(t, c)
        /\ \A q \in Procs : proc[q].pc \in Restoring => left[t] = manifest.original[t]
    BY <2>1 DEF Inv, LeftInv
  <2>3. \A c \in Contents : LeftAt(t, c)' <=> LeftAt(t, c)
    BY <1>1 DEF LeftAt
  <2> QED BY <1>1, <1>2, <1>4, <2>1, <2>2, <2>3
<1>6. RecordedInv'
  <2>1. (disturbed => disturbed') /\ (HalfDone(p) => disturbed')
    BY DEF Away
  <2>2. CASE disturbed \/ HalfDone(p)
    BY <2>1, <2>2 DEF RecordedInv
  <2>3. CASE ~disturbed /\ ~HalfDone(p)
    <3>1. \A t \in Targets : ~Aside(p, t)
      BY <2>3 DEF HalfDone, Aside
    <3>2. proc[p].pc \notin Restoring
      BY <2>3 DEF HalfDone
    <3>3. CASE \E q \in Procs : proc[q].pc \in Restoring
      <4>1. PICK q \in Procs : proc[q].pc \in Restoring
        BY <3>3
      <4>2. q # p
        BY <3>2, <4>1
      <4>3. proc'[q].pc \in Restoring
        BY <1>2, <4>1, <4>2
      <4> QED BY <4>3 DEF RecordedInv
    <3>4. CASE manifest = NoManifest
      BY <1>1, <3>4 DEF RecordedInv
    <3>5. CASE \A t \in Targets, c \in Contents :
                 IsBefore(t, c) /\ manifest.prepared[t] # Missing =>
                   c = manifest.sourceHash[t] \/ c # manifest.original[t]
      BY <1>1, <1>4, <3>1, <3>5 DEF RecordedInv
    <3> QED BY <2>3, <3>3, <3>4, <3>5 DEF Inv, RecordedInv
  <2> QED BY <2>2, <2>3
<1> QED BY <1>5, <1>6

LEMMA AwayKeeps ==
  ASSUME Inv, NEW p \in Procs, Away(p), TypeOK', LockInv'
  PROVE  Inv'
BY AwayKeepsWork, AwayKeepsDisplaced, AwayKeepsContents DEF Inv


-----------------------------------------------------------------------------
(* Work on the documents                                                   *)

\* p works, and goes on alone.
Works(p) == proc[p].pc \in Body /\ OnlyMoves(p)

\* Nobody else has the lock, before or after.
LEMMA WorksAlone ==
  ASSUME Inv, NEW p \in Procs, Works(p)
  PROVE  \A q \in Procs : q # p => proc'[q] = proc[q] /\ proc[q].pc \notin Holding
BY DEF Inv, LockInv, Works, OnlyMoves, Holding

\* The content of t before p moved it aside, if p did.
Before(p, t) == IF Aside(p, t) THEN proc[p].moved ELSE file[t]

LEMMA OnlyBefore ==
  ASSUME Inv, NEW p \in Procs, Works(p), NEW t \in Targets, NEW c
  PROVE  /\ IsBefore(t, c) <=> c = Before(p, t)
         /\ IsBefore(t, c)' <=> c = Before(p, t)'
<1>1. \A q \in Procs : q # p => ~Aside(q, t) /\ ~Aside(q, t)'
  BY WorksAlone DEF Aside, At, Holding, Body
<1> QED BY <1>1 DEF IsBefore, Before

LEMMA WorkKeepsLock ==
  ASSUME Inv, NEW p \in Procs, Works(p), lock' = lock, stateRoot' = stateRoot,
         proc'[p].pc \in Body \cup {"returned", "exited"}
  PROVE  LockInv'
BY LockStays DEF Inv, LockInv, Works, Holding, Handing, Body, Restoring, At

LEMMA WorkKeepsWork ==
  ASSUME Inv, NEW p \in Procs, Works(p), WorkOf(p)'
  PROVE  WorkInv'
<1>1. \A q \in Procs : q # p => proc'[q].pc \notin Body
  BY WorksAlone DEF Holding
<1>2. \A q \in Procs : q # p => WorkOf(q)'
  BY <1>1 DEF WorkOf, Body, Restoring, Copying, Recording
<1> QED BY <1>2 DEF WorkInv

\* What p moves aside, puts back or drops is its own.
LEMMA WorkKeepsDisplaced ==
  ASSUME Inv, NEW p \in Procs, Works(p), TypeOK',
         proc'[p].pc \notin {"place", "drop", "release", "releaseLock", "releaseRoot"}
           => proc'[p].moved = Missing,
         proc'[p].pc = "displace" => file'[proc'[p].i] # Missing,
         proc'[p].pc = "drop" => proc'[p].moved # Missing,
         proc'[p].pc \in {"place", "drop"} /\ proc'[p].moved # Missing
           => <<p, proc'[p].moved>> \in displaced'[proc'[p].i],
         \A t \in Targets : Aside(p, t)' => file'[t] = Missing,
         \A t \in Targets : \A d \in displaced'[t] :
           /\ d[1] # p => d \in displaced[t]
           /\ d[1] = p => /\ d[2] # Missing
                          /\ proc'[p].pc # "exited" =>
                               /\ proc'[p].pc \in {"place", "drop"}
                               /\ proc'[p].i = t /\ proc'[p].moved = d[2]
  PROVE  DisplacedInv'
<1>1. \A q \in Procs : q # p =>
        /\ proc'[q] = proc[q]
        /\ proc[q].pc \notin {"place", "drop", "displace"}
  BY WorksAlone DEF Holding, Body
<1>2. \A q \in Procs : proc'[q].pc \notin {"place", "drop", "release", "releaseLock", "releaseRoot"}
        => proc'[q].moved = Missing
  BY <1>1 DEF Inv, DisplacedInv
<1>3. /\ \A q \in Procs : proc'[q].pc = "displace" => file'[proc'[q].i] # Missing
      /\ \A q \in Procs : proc'[q].pc = "drop" => proc'[q].moved # Missing
      /\ \A q \in Procs : proc'[q].pc \in {"place", "drop"} /\ proc'[q].moved # Missing
           => <<q, proc'[q].moved>> \in displaced'[proc'[q].i]
  BY <1>1
<1>4. \A q \in Procs, t \in Targets : Aside(q, t)' => file'[t] = Missing
  BY <1>1 DEF Aside, At
<1>5. \A t \in Targets : \A d \in displaced'[t] :
        /\ d[2] # Missing
        /\ proc'[d[1]].pc # "exited" => /\ proc'[d[1]].pc \in {"place", "drop"}
                                        /\ proc'[d[1]].i = t /\ proc'[d[1]].moved = d[2]
  <2> SUFFICES ASSUME NEW t \in Targets, NEW d \in displaced'[t], d[1] # p
               PROVE  /\ d[2] # Missing
                      /\ proc'[d[1]].pc # "exited" =>
                           /\ proc'[d[1]].pc \in {"place", "drop"}
                           /\ proc'[d[1]].i = t /\ proc'[d[1]].moved = d[2]
    OBVIOUS
  <2>1. d \in displaced[t] /\ d[1] \in Procs
    BY DEF TypeOK
  <2> QED BY <1>1, <2>1 DEF Inv, DisplacedInv, At
<1> QED BY <1>2, <1>3, <1>4, <1>5 DEF DisplacedInv, At

LEMMA WorkKeepsOrphans ==
  ASSUME Inv, NEW p \in Procs, Works(p), NEW t \in Targets,
         \A d \in displaced[t] : d[1] # p => d \in displaced'[t],
         Orphaned(t)
  PROVE  Orphaned(t)'
<1>1. PICK d \in displaced[t] : proc[d[1]].pc = "exited"
  BY DEF Orphaned, At
<1>2. d[1] \in Procs /\ d[1] # p
  BY <1>1 DEF Inv, TypeOK, Works, Body, Restoring
<1>3. proc'[d[1]].pc = "exited"
  BY <1>1, <1>2, WorksAlone
<1> QED BY <1>1, <1>2, <1>3 DEF Orphaned, At

LEMMA WorkKeepsLeft ==
  ASSUME Inv, NEW p \in Procs, Works(p),
         \A t \in Targets : Orphaned(t) => Orphaned(t)',
         \A t \in Targets :
           /\ ~Orphaned(t)
           /\ LeftAt(t, Before(p, t))
           /\ proc[p].pc \in Restoring => left[t] = manifest.original[t]
           => /\ LeftAt(t, Before(p, t))'
              /\ proc'[p].pc \in Restoring => left'[t] = manifest'.original[t]
  PROVE  LeftInv'
<1> SUFFICES ASSUME NEW t \in Targets, ~Orphaned(t)'
             PROVE  /\ \A c \in Contents : IsBefore(t, c)' => LeftAt(t, c)'
                    /\ \A q \in Procs : proc'[q].pc \in Restoring => left'[t] = manifest'.original[t]
  BY DEF LeftInv
<1>1. ~Orphaned(t)
  OBVIOUS
<1>2. /\ \A c \in Contents : IsBefore(t, c) => LeftAt(t, c)
      /\ proc[p].pc \in Restoring => left[t] = manifest.original[t]
  BY <1>1 DEF Inv, LeftInv
<1>3. Before(p, t) \in Contents
  BY DEF Inv, TypeOK, Before, Invocations
<1>4. LeftAt(t, Before(p, t))
  BY <1>2, <1>3, OnlyBefore
<1>5. /\ LeftAt(t, Before(p, t))'
      /\ proc'[p].pc \in Restoring => left'[t] = manifest'.original[t]
  BY <1>1, <1>2, <1>4
<1>6. \A q \in Procs : proc'[q].pc \in Restoring => q = p
  BY WorksAlone DEF Holding, Body
<1>7. ASSUME NEW c \in Contents, IsBefore(t, c)' PROVE LeftAt(t, c)'
  <2>1. c = Before(p, t)'
    BY <1>7, OnlyBefore
  <2> QED BY <1>5, <2>1 DEF LeftAt
<1> QED BY <1>5, <1>6, <1>7


\* RecordedInv, while p works alone.
RecordedBy(p) ==
  \/ disturbed
  \/ proc[p].pc \in Restoring
  \/ manifest = NoManifest
  \/ \A t \in Targets :
       manifest.prepared[t] # Missing =>
         Before(p, t) = manifest.sourceHash[t] \/ Before(p, t) # manifest.original[t]

LEMMA WorkKeepsRecorded ==
  ASSUME Inv, TypeOK', NEW p \in Procs, Works(p)
  PROVE  RecordedBy(p) /\ (RecordedBy(p)' => RecordedInv')
<1>0. /\ \A q \in Procs : q # p => proc[q].pc \notin Restoring /\ proc'[q].pc \notin Restoring
      /\ \A t \in Targets : Before(p, t) \in Contents
  BY WorksAlone DEF Inv, TypeOK, Before, Invocations, Holding, Body
<1>1. RecordedBy(p)
  <2>1. CASE disturbed \/ manifest = NoManifest \/ \E q \in Procs : proc[q].pc \in Restoring
    BY <1>0, <2>1 DEF RecordedBy
  <2>2. CASE \A t \in Targets, c \in Contents :
               IsBefore(t, c) /\ manifest.prepared[t] # Missing =>
                 c = manifest.sourceHash[t] \/ c # manifest.original[t]
    <3>1. \A t \in Targets : IsBefore(t, Before(p, t))
      BY OnlyBefore
    <3> QED BY <1>0, <2>2, <3>1 DEF RecordedBy
  <2> QED BY <2>1, <2>2 DEF Inv, RecordedInv
<1>2. ASSUME RecordedBy(p)' PROVE RecordedInv'
  <2>1. CASE disturbed' \/ manifest' = NoManifest \/ proc'[p].pc \in Restoring
    BY <2>1 DEF RecordedInv
  <2>2. CASE \A t \in Targets :
               manifest'.prepared[t] # Missing =>
                 Before(p, t)' = manifest'.sourceHash[t] \/ Before(p, t)' # manifest'.original[t]
    <3>1. \A t \in Targets, c \in Contents : IsBefore(t, c)' => c = Before(p, t)'
      BY OnlyBefore
    <3>2. \A t \in Targets, c \in Contents :
            IsBefore(t, c)' /\ manifest'.prepared[t] # Missing =>
              c = manifest'.sourceHash[t] \/ c # manifest'.original[t]
      BY <2>2, <3>1
    <3>3. Contents' = Contents
      BY DEF Contents
    <3> QED BY <3>2, <3>3 DEF RecordedInv
  <2> QED BY <1>2, <2>1, <2>2 DEF RecordedBy
<1> QED BY <1>1, <1>2

LEMMA WorkKeepsFresh ==
  ASSUME Inv, NEW p \in Procs, Works(p), edits' = edits,
         \A t \in Targets : file'[t] \in Seen /\ manifest'.original[t] \in Seen,
         proc'[p].moved \in Seen,
         \A t \in Targets : proc'[p].m.original[t] \in Seen
  PROVE  FreshInv'
<1>1. Seen' = Seen
  BY DEF Seen
<1>2. \A q \in Procs : q # p => proc'[q] = proc[q]
  BY WorksAlone
<1> QED BY <1>1, <1>2 DEF Inv, FreshInv

LEMMA WorkKeepsOwned ==
  ASSUME Inv, NEW p \in Procs, Works(p),
         \A t \in Targets : owned'[t] \subseteq owned[t],
         proc'[p].pc = "drop" /\ proc'[p].op = "sync" =>
           proc'[p].moved \notin owned'[proc'[p].i]
  PROVE  OwnedInv'
<1>1. \A q \in Procs : q # p => proc'[q].pc # "drop"
  BY WorksAlone DEF Holding, Body
<1>2. \A t \in Targets : owned'[t] \subseteq 0..MaxEdits
  BY DEF Inv, OwnedInv
<1> QED BY <1>1, <1>2 DEF OwnedInv, At

\* p reads, and changes at most its notes.
LEMMA ReadingKeeps ==
  ASSUME Inv, NEW p \in Procs, Works(p),
         UNCHANGED <<disk, stateRoot, lock, manifest, kills, edits, observed>>,
         temps' \subseteq Procs,
         proc[p].pc \notin {"place", "drop", "release"} \cup Restoring,
         proc'[p].pc \in Body \ {"drop"}, proc'[p].moved = proc[p].moved,
         proc'[p].pc = "displace" => file[proc'[p].i] # Missing,
         \A t \in Targets : proc'[p].m.original[t] \in Seen,
         proc'[p].pc \in Restoring =>
           \A t \in Targets : LeftAt(t, file[t]) => left[t] = manifest.original[t],
         WorkOf(p)'
  PROVE  Inv'
<1>1. /\ file' = file /\ source' = source /\ displaced' = displaced
      /\ manifest' = manifest /\ lock' = lock /\ stateRoot' = stateRoot
      /\ kills' = kills /\ edits' = edits
      /\ left' = left /\ owned' = owned /\ disturbed' = disturbed
      /\ overlapped' = overlapped /\ robbed' = robbed
  BY DEF disk, observed, marks
<1>2. TypeOK'
  BY <1>1, MovingKeepsTypes DEF Inv, TypeOK, Works, disk
<1>3. LockInv'
  BY <1>1, WorkKeepsLock
<1>4. ManifestInv'
  BY <1>1 DEF Inv, ManifestInv
<1>5. WorkInv'
  BY WorkKeepsWork
<1>6. proc[p].moved = Missing
  BY DEF Inv, DisplacedInv, Works, Body, Restoring
<1>7. /\ \A t \in Targets : ~Aside(p, t) /\ ~Aside(p, t)'
      /\ \A t \in Targets : Before(p, t) = file[t] /\ Before(p, t)' = file[t]
  BY <1>1, <1>6 DEF Aside, At, Before
<1>8. \A t \in Targets : \A d \in displaced[t] : d[1] # p
  BY DEF Inv, TypeOK, DisplacedInv, Works, Body, Restoring, At
<1>9. DisplacedInv'
  BY <1>1, <1>2, <1>6, <1>7, <1>8, WorkKeepsDisplaced
<1>10. FreshInv'
  BY <1>1, <1>6, WorkKeepsFresh DEF Inv, FreshInv, Seen
<1>11. OwnedInv'
  BY <1>1, WorkKeepsOwned
<1>12. NothingLost'
  BY <1>1 DEF Inv, NothingLost
<1>13. LeftInv'
  <2>1. \A t \in Targets : Orphaned(t) => Orphaned(t)'
    BY <1>1, WorkKeepsOrphans
  <2>2. \A t \in Targets : LeftAt(t, Before(p, t))' <=> LeftAt(t, Before(p, t))
    BY <1>1, <1>7 DEF LeftAt
  <2>3. \A t \in Targets : LeftAt(t, Before(p, t)) /\ proc'[p].pc \in Restoring
                             => left'[t] = manifest'.original[t]
    BY <1>1, <1>7
  <2> QED BY <2>1, <2>2, <2>3, WorkKeepsLeft
<1>14. RecordedInv'
  <2>1. RecordedBy(p)
    BY <1>2, WorkKeepsRecorded
  <2>2. RecordedBy(p)'
    BY <1>1, <1>7, <2>1 DEF RecordedBy
  <2> QED BY <1>2, <2>2, WorkKeepsRecorded
<1> QED BY <1>2, <1>3, <1>4, <1>5, <1>9, <1>10, <1>11, <1>12, <1>13, <1>14 DEF Inv


LEMMA BeginStep ==
  ASSUME Inv, NEW p \in Procs, Begin(p)
  PROVE  Inv'
<1>0. TypeOK /\ proc[p] \in Invocations /\ proc \in [Procs -> Invocations] /\ At(p, "locked")
  BY DEF Inv, TypeOK, Begin
<1>1. /\ UNCHANGED <<disk, stateRoot, lock, manifest, kills, edits, observed>>
      /\ proc[p].pc = "locked" /\ temps' \subseteq Procs
  BY <1>0 DEF Begin, At, recoverStateWithoutManifest, TypeOK
<1>2. \A t \in Targets : proc[p].m.original[t] \in Seen /\ manifest.original[t] \in Seen
  BY DEF Inv, FreshInv
<1>3. manifest' = manifest
  BY <1>1
<1>4. proc[p].pc \in Body \ ({"place", "drop", "release"} \cup Restoring)
  BY <1>1 DEF Body, Restoring
<1>5. CASE /\ proc[p].op \in {"prepare", "cleanup"} /\ manifest # NoManifest
           /\ proc' = [proc EXCEPT ![p].pc = "verify", ![p].m = manifest]
  <2> DEFINE r == [proc[p] EXCEPT !.pc = "verify", !.m = manifest]
  <2>1. r \in Invocations /\ r.pc = "verify" /\ r.m = manifest /\ r.op = proc[p].op /\ r.moved = proc[p].moved
    BY <1>0 DEF TypeOK, Invocations, Places, Body
  <2>2. proc' = [proc EXCEPT ![p] = r]
    BY <1>0, <1>5
  <2>3. OnlyMoves(p) /\ proc'[p] = r
    <3> HIDE DEF r
    <3> QED BY <1>0, <2>1, <2>2, RecordMoves
  <2>4. /\ OnlyMoves(p) /\ proc'[p].pc = "verify" /\ proc'[p].moved = proc[p].moved
        /\ proc'[p].m = manifest /\ proc'[p].op = proc[p].op
    BY <2>1, <2>3
  <2> HIDE DEF r
  <2>5. WorkOf(p)'
    BY <1>3, <1>5, <2>4 DEF WorkOf, Restoring, Copying, Recording
  <2>6. "verify" \in Body \ ({"drop", "displace"} \cup Restoring)
    BY DEF Body, Restoring
  <2> QED BY <1>1, <1>2, <1>4, <2>4, <2>5, <2>6, ReadingKeeps DEF Works
<1>6. CASE proc[p].op = "prepare" /\ manifest = NoManifest /\ Goes(p, "snapshot")
  <2>1. OnlyMoves(p) /\ Arrives(p, "snapshot")
    BY <1>0, <1>6, GoesMoves DEF Places, Body
  <2>2. WorkOf(p)'
    BY <1>3, <1>6, <2>1 DEF WorkOf, Arrives, Restoring, Copying, Recording
  <2>3. "snapshot" \in Body \ ({"drop", "displace"} \cup Restoring)
    BY DEF Body, Restoring
  <2> QED BY <1>1, <1>2, <1>4, <2>1, <2>2, <2>3, ReadingKeeps DEF Works, Arrives
<1>7. CASE Goes(p, "release")
  <2>1. OnlyMoves(p) /\ Arrives(p, "release")
    BY <1>0, <1>7, GoesMoves DEF Places, Body
  <2>2. WorkOf(p)'
    BY <2>1 DEF WorkOf, Arrives, Restoring, Copying, Recording
  <2>3. "release" \in Body \ ({"drop", "displace"} \cup Restoring)
    BY DEF Body, Restoring
  <2> QED BY <1>1, <1>2, <1>4, <2>1, <2>2, <2>3, ReadingKeeps DEF Works, Arrives
<1>8. CASE proc[p].op = "sync" /\ proc' = [proc EXCEPT ![p].pc = "copy", ![p].i = 1]
  <2> DEFINE r == [proc[p] EXCEPT !.pc = "copy", !.i = 1]
  <2>1. r \in Invocations /\ r.pc = "copy" /\ r.m = proc[p].m /\ r.op = proc[p].op
        /\ r.moved = proc[p].moved /\ r.i = 1
    <3>1. 1 \in 0..Entries + 1
      BY PackageDocsAssumption
    <3> QED BY <1>0, <3>1 DEF Invocations, Places, Body
  <2>2. proc' = [proc EXCEPT ![p] = r]
    BY <1>0, <1>8
  <2>3. OnlyMoves(p) /\ proc'[p] = r
    <3> HIDE DEF r
    <3> QED BY <1>0, <2>1, <2>2, RecordMoves
  <2>4. /\ OnlyMoves(p) /\ proc'[p].pc = "copy" /\ proc'[p].moved = proc[p].moved
        /\ proc'[p].m = proc[p].m /\ proc'[p].op = proc[p].op /\ proc'[p].i = 1
    BY <2>1, <2>3
  <2> HIDE DEF r
  <2>5. WorkOf(p)'
    BY <1>8, <2>4, InitialTypes DEF WorkOf, Restoring, Copying, Recording
  <2>6. "copy" \in Body \ ({"drop", "displace"} \cup Restoring)
    BY DEF Body, Restoring
  <2> QED BY <1>1, <1>2, <1>4, <2>4, <2>5, <2>6, ReadingKeeps DEF Works
<1> QED BY <1>5, <1>6, <1>7, <1>8 DEF Begin

LEMMA VerifyStep ==
  ASSUME Inv, NEW p \in Procs, Verify(p)
  PROVE  Inv'
<1>0. TypeOK /\ LockInv /\ DisplacedInv /\ proc[p] \in Invocations /\ proc \in [Procs -> Invocations]
  BY DEF Inv, TypeOK
<1>1. /\ UNCHANGED <<disk, state, kills, edits, observed>>
      /\ proc[p].pc = "verify" /\ temps' = temps
  BY DEF Verify, At, state
<1>2. proc[p].pc \in Body \ ({"place", "drop", "release"} \cup Restoring)
  BY <1>1 DEF Body, Restoring
<1>3. manifest # NoManifest /\ proc[p].m = manifest /\ proc[p].op \in {"prepare", "cleanup"}
  BY <1>1 DEF Inv, WorkInv, WorkOf
<1>4. CASE Throws(p)
  <2>1. ~HalfDone(p) /\ ~At(p, "drop")
    BY <1>1 DEF HalfDone, At, Restoring
  <2>2. TypeOK' /\ LockInv' /\ Away(p)
    BY <1>0, <1>1, <1>2, <1>4, <2>1, ThrowsInside
  <2> QED BY <2>2, AwayKeeps
<1>5. CASE /\ \A t \in Targets : Restorable(manifest, t)
           /\ proc' = [proc EXCEPT ![p].pc = "remove", ![p].i = 1]
  <2> DEFINE r == [proc[p] EXCEPT !.pc = "remove", !.i = 1]
  <2>1. r \in Invocations /\ r.pc = "remove" /\ r.m = proc[p].m /\ r.op = proc[p].op
        /\ r.moved = proc[p].moved /\ r.i = 1
    <3>1. 1 \in 0..Entries + 1
      BY PackageDocsAssumption
    <3> QED BY <1>0, <3>1 DEF Invocations, Places, Body, Restoring
  <2>2. proc' = [proc EXCEPT ![p] = r]
    BY <1>0, <1>5
  <2>3. OnlyMoves(p) /\ proc'[p] = r
    <3> HIDE DEF r
    <3> QED BY <1>0, <2>1, <2>2, RecordMoves
  <2>4. /\ OnlyMoves(p) /\ proc'[p].pc = "remove" /\ proc'[p].moved = proc[p].moved
        /\ proc'[p].m = proc[p].m /\ proc'[p].op = proc[p].op /\ proc'[p].i = 1
    BY <2>1, <2>3
  <2> HIDE DEF r
  <2>5. \A t \in Targets : file[t] \in {manifest.original[t], Missing} \cup Canonical
    <3> SUFFICES ASSUME NEW t \in Targets
                 PROVE  file[t] \in {manifest.original[t], Missing} \cup Canonical
      OBVIOUS
    <3>1. source[t] \in Canonical /\ manifest.prepared[t] \in {Missing} \cup Canonical
      BY <1>0, <1>3 DEF TypeOK, Inv, ManifestInv
    <3> QED BY <1>5, <3>1 DEF Restorable
  <2>6. file' = file /\ manifest' = manifest
    BY <1>1 DEF disk, state
  <2>7. RestoreInv(p)'
    <3>1. \A t \in Targets : ~(t < 1)
      BY DEF Targets
    <3> QED BY <2>4, <2>5, <2>6, <3>1 DEF RestoreInv, At
  <2>8. WorkOf(p)'
    BY <1>3, <2>4, <2>6, <2>7, InitialTypes DEF WorkOf, Restoring, Copying, Recording
  <2>9. \A t \in Targets : LeftAt(t, file[t]) => left[t] = manifest.original[t]
    <3> SUFFICES ASSUME NEW t \in Targets, LeftAt(t, file[t]) PROVE left[t] = manifest.original[t]
      OBVIOUS
    <3>1. file[t] \in {Missing} \cup Canonical => file[t] \notin 0..MaxEdits
      BY PackageDocsAssumption
    <3> QED BY <1>3, <2>5, <3>1 DEF LeftAt
  <2>10. "remove" \in Body \ {"drop", "displace"}
    BY DEF Body, Restoring
  <2>11. \A t \in Targets : proc[p].m.original[t] \in Seen
    BY DEF Inv, FreshInv
  <2>12. UNCHANGED <<disk, stateRoot, lock, manifest, kills, edits, observed>> /\ temps' \subseteq Procs
    BY <1>0, <1>1 DEF state, TypeOK
  <2> QED BY <1>2, <2>4, <2>8, <2>9, <2>10, <2>11, <2>12, ReadingKeeps DEF Works
<1> QED BY <1>3, <1>4, <1>5 DEF Verify


LEMMA SnapshotStep ==
  ASSUME Inv, NEW p \in Procs, Snapshot(p)
  PROVE  Inv'
<1> DEFINE m == [phase |-> "preparing", owner |-> p, original |-> file,
                 sourceHash |-> source, prepared |-> Unprepared]
           r == [proc[p] EXCEPT !.pc = "rename", !.i = 1, !.m = m]
<1>0. TypeOK /\ proc[p] \in Invocations /\ proc \in [Procs -> Invocations]
  BY DEF Inv, TypeOK
<1>1. /\ UNCHANGED <<disk, stateRoot, lock, manifest, kills, edits, observed>>
      /\ proc[p].pc = "snapshot" /\ temps' \subseteq Procs
      /\ proc' = [proc EXCEPT ![p] = r]
  BY <1>0 DEF Snapshot, At, TypeOK
<1>2. m \in Manifests
  BY <1>0, InitialTypes DEF TypeOK, Manifests
<1>3. /\ m.phase = "preparing" /\ m.owner = p /\ m.original = file /\ m.sourceHash = source
      /\ m.prepared = Unprepared
  OBVIOUS
<1> HIDE DEF m
<1>4. r \in Invocations /\ r.pc = "rename" /\ r.i = 1 /\ r.m = m /\ r.op = proc[p].op
      /\ r.moved = proc[p].moved
  <2>1. 1 \in 0..Entries + 1
    BY PackageDocsAssumption
  <2> QED BY <1>0, <1>2, <2>1 DEF Invocations, Places, Body
<1>5. OnlyMoves(p) /\ proc'[p] = r
  <2> HIDE DEF r
  <2> QED BY <1>0, <1>1, <1>4, RecordMoves
<1>6. /\ proc'[p].pc = "rename" /\ proc'[p].i = 1 /\ proc'[p].m = m /\ proc'[p].op = proc[p].op
      /\ proc'[p].moved = proc[p].moved
  BY <1>4, <1>5
<1> HIDE DEF r
<1>7. manifest = NoManifest /\ proc[p].op = "prepare"
  BY <1>1 DEF Inv, WorkInv, WorkOf
<1>8. file' = file /\ manifest' = manifest
  BY <1>1 DEF disk
<1>9. PrepareInv(p)'
  <2>1. \A t \in Targets : m.sourceHash[t] \in Canonical /\ m.prepared[t] = Missing
    BY <1>0, <1>3 DEF TypeOK, Unprepared
  <2> QED BY <1>3, <1>6, <1>7, <1>8, <2>1 DEF PrepareInv, Aside, At
<1>10. WorkOf(p)'
  <2>1. 1 \in 1..Entries + 1
    BY PackageDocsAssumption
  <2> QED BY <1>6, <1>7, <1>9, <2>1 DEF WorkOf, Restoring, Copying, Recording
<1>11. \A t \in Targets : m.original[t] \in Seen
  BY <1>3 DEF Inv, FreshInv
<1>12. /\ proc[p].pc \in Body \ ({"place", "drop", "release"} \cup Restoring)
       /\ "rename" \in Body \ ({"drop", "displace"} \cup Restoring)
  BY <1>1 DEF Body, Restoring
<1> QED BY <1>1, <1>5, <1>6, <1>10, <1>11, <1>12, ReadingKeeps DEF Works

LEMMA CopyStep ==
  ASSUME Inv, NEW p \in Procs, Copy(p)
  PROVE  Inv'
<1> DEFINE t == proc[p].i
<1>0. /\ TypeOK /\ LockInv /\ DisplacedInv /\ proc[p] \in Invocations
      /\ proc \in [Procs -> Invocations]
  BY DEF Inv, TypeOK
<1>1. /\ UNCHANGED <<disk, state, kills, edits, observed>> /\ proc[p].pc = "copy"
  BY DEF Copy, At
<1>2. proc[p].pc \in Body \ ({"place", "drop", "release"} \cup Restoring)
  BY <1>1 DEF Body, Restoring
<1>3. /\ UNCHANGED <<disk, stateRoot, lock, manifest, kills, edits, observed>> /\ temps' \subseteq Procs
      /\ file' = file /\ manifest' = manifest
  BY <1>0, <1>1 DEF state, disk, TypeOK
<1>4. t \in Targets /\ proc[p].op \in {"prepare", "sync"} /\ proc[p].moved = Missing
  BY <1>1 DEF Inv, WorkInv, WorkOf, DisplacedInv, Copying
<1>5. CASE Throws(p)
  <2>1. ~HalfDone(p) /\ ~At(p, "drop")
    BY <1>1 DEF HalfDone, At, Restoring
  <2>2. TypeOK' /\ LockInv' /\ Away(p)
    BY <1>0, <1>1, <1>2, <1>5, <2>1, ThrowsInside
  <2> QED BY <2>2, AwayKeeps
<1>6. CASE /\ Unchanged(p, t)
           /\ proc' = [proc EXCEPT
                ![p].m.sourceHash[t] = source[t],
                ![p].pc = IF t \in Directories /\ file[t] # Missing THEN "displace" ELSE "place"]
  <2> DEFINE m == [proc[p].m EXCEPT !.sourceHash[t] = source[t]]
             pc == IF t \in Directories /\ file[t] # Missing THEN "displace" ELSE "place"
             r == [proc[p] EXCEPT !.m = m, !.pc = pc]
  <2>1. proc[p].m \in Manifests /\ source[t] \in Canonical
    BY <1>0, <1>4 DEF Invocations, TypeOK
  <2>2. /\ m \in Manifests /\ m.phase = proc[p].m.phase /\ m.owner = proc[p].m.owner
        /\ m.original = proc[p].m.original /\ m.prepared = proc[p].m.prepared
        /\ m.sourceHash = [proc[p].m.sourceHash EXCEPT ![t] = source[t]]
    BY <1>4, <2>1 DEF Manifests
  <2>3. pc \in {"displace", "place"} /\ (pc = "displace" => file[t] # Missing)
    OBVIOUS
  <2>4. proc' = [proc EXCEPT ![p] = r]
    BY <1>0, <1>6 DEF Invocations
  <2>5. m.sourceHash[t] = source[t]
    BY <1>4, <2>1, <2>2 DEF Manifests
  <2>6. proc[p].op = "prepare" => m = proc[p].m
    <3> SUFFICES ASSUME proc[p].op = "prepare" PROVE m = proc[p].m
      OBVIOUS
    <3>1. source[t] = proc[p].m.sourceHash[t]
      BY <1>6 DEF Unchanged
    <3>2. [proc[p].m.sourceHash EXCEPT ![t] = source[t]] = proc[p].m.sourceHash
      BY <2>1, <3>1 DEF Manifests
    <3> QED BY <2>1, <3>2 DEF Manifests
  <2> HIDE DEF m, pc
  <2>7. /\ r \in Invocations /\ r.pc = pc /\ r.m = m /\ r.op = proc[p].op /\ r.i = t
        /\ r.moved = proc[p].moved
    <3>1. pc \in Places
      BY <2>3 DEF Places, Body
    <3> QED BY <1>0, <2>2, <3>1 DEF Invocations
  <2>8. OnlyMoves(p) /\ proc'[p] = r
    <3> HIDE DEF r
    <3> QED BY <1>0, <2>4, <2>7, RecordMoves
  <2>9. /\ proc'[p].pc = pc /\ proc'[p].m = m /\ proc'[p].op = proc[p].op /\ proc'[p].i = t
        /\ proc'[p].moved = Missing
    BY <1>4, <2>7, <2>8
  <2> HIDE DEF r
  <2>10. ASSUME proc[p].op = "prepare" PROVE PrepareInv(p)'
    <3>1. PrepareInv(p) /\ m = proc[p].m /\ file[t] = m.original[t]
      BY <1>1, <1>6, <2>6, <2>10 DEF Inv, WorkInv, WorkOf, Copying, Unchanged
    <3> HIDE DEF t
    <3> QED BY <1>1, <1>3, <2>3, <2>9, <3>1 DEF PrepareInv, Extends, Aside, At, t
  <2>11. WorkOf(p)'
    BY <1>4, <2>1, <2>3, <2>5, <2>9, <2>10 DEF WorkOf, Restoring, Copying, Recording
  <2>12. \A u \in Targets : m.original[u] \in Seen
    BY <2>2 DEF Inv, FreshInv
  <2>13. pc \in Body \ ({"drop"} \cup Restoring)
    BY <2>3 DEF Body, Restoring
  <2> QED BY <1>2, <1>3, <1>4, <2>3, <2>8, <2>9, <2>11, <2>12, <2>13, ReadingKeeps DEF Works
<1> QED BY <1>5, <1>6 DEF Copy

LEMMA RecordEntryStep ==
  ASSUME Inv, NEW p \in Procs, RecordEntry(p)
  PROVE  Inv'
<1> DEFINE phase == IF At(p, "finish") THEN "prepared" ELSE proc[p].m.phase
           m == [proc[p].m EXCEPT !.phase = phase]
           r == [proc[p] EXCEPT !.pc = "rename", !.m = m]
<1>0. TypeOK /\ proc[p] \in Invocations /\ proc \in [Procs -> Invocations]
  BY DEF Inv, TypeOK
<1>1. /\ UNCHANGED <<disk, stateRoot, lock, manifest, kills, edits, observed>>
      /\ proc[p].pc \in {"record", "finish"} /\ temps' \subseteq Procs
  BY <1>0 DEF RecordEntry, At, TypeOK
<1>2. file' = file /\ manifest' = manifest
  BY <1>1 DEF disk
<1>3. /\ proc[p].op = "prepare" /\ PrepareInv(p) /\ proc[p].i \in 1..Entries + 1
      /\ proc[p].moved = Missing
  BY <1>1 DEF Inv, WorkInv, WorkOf, DisplacedInv, Recording
<1>4. proc[p].m \in Manifests /\ proc[p].m.phase # "none"
  BY <1>0, <1>3 DEF Invocations, PrepareInv
<1>5. phase \in {"preparing", "prepared"}
  BY <1>4 DEF Manifests
<1>6. proc' = [proc EXCEPT ![p] = r]
  BY <1>0 DEF RecordEntry, Invocations
<1> HIDE DEF phase
<1>7. /\ m \in Manifests /\ m.phase = phase /\ m.owner = proc[p].m.owner
      /\ m.original = proc[p].m.original /\ m.prepared = proc[p].m.prepared
      /\ m.sourceHash = proc[p].m.sourceHash
  BY <1>4, <1>5 DEF Manifests
<1> HIDE DEF m
<1>8. /\ r \in Invocations /\ r.pc = "rename" /\ r.m = m /\ r.op = proc[p].op /\ r.i = proc[p].i
      /\ r.moved = proc[p].moved
  BY <1>0, <1>7 DEF Invocations, Places, Body
<1>9. OnlyMoves(p) /\ proc'[p] = r
  <2> HIDE DEF r
  <2> QED BY <1>0, <1>6, <1>8, RecordMoves
<1>10. /\ proc'[p].pc = "rename" /\ proc'[p].m = m /\ proc'[p].op = proc[p].op
       /\ proc'[p].i = proc[p].i /\ proc'[p].moved = proc[p].moved
  BY <1>8, <1>9
<1> HIDE DEF r
<1>11. PrepareInv(p)'
  BY <1>1, <1>2, <1>3, <1>5, <1>7, <1>10 DEF PrepareInv, Extends, Aside, At
<1>12. WorkOf(p)'
  BY <1>3, <1>10, <1>11 DEF WorkOf, Restoring, Copying, Recording
<1>13. \A t \in Targets : m.original[t] \in Seen
  BY <1>7 DEF Inv, FreshInv
<1>14. /\ proc[p].pc \in Body \ ({"place", "drop", "release"} \cup Restoring)
       /\ "rename" \in Body \ ({"drop", "displace"} \cup Restoring)
  BY <1>1 DEF Body, Restoring
<1> QED BY <1>1, <1>3, <1>9, <1>10, <1>12, <1>13, <1>14, ReadingKeeps DEF Works


\* What the developer has written is no content of the repository.
LEMMA WrittenIsNew == \A c \in 0..MaxEdits : c \notin Canonical /\ c # Missing
BY PackageDocsAssumption

\* A process that restores has moved nothing aside.
LEMMA RestoringFacts ==
  ASSUME Inv, NEW p \in Procs, proc[p].pc \in Restoring
  PROVE  /\ manifest # NoManifest /\ proc[p].m = manifest /\ RestoreInv(p)
         /\ proc[p].op \in {"prepare", "cleanup"}
         /\ proc[p].pc \in {"remove", "rewrite"} => proc[p].i \in Targets
         /\ proc[p].moved = Missing
         /\ \A t \in Targets : \A d \in displaced[t] : d[1] # p
         /\ proc[p].pc \in Body \ {"place", "drop", "release"}
<1>1. proc[p].pc \in Body \ {"place", "drop", "release", "releaseLock", "releaseRoot", "exited"}
  BY DEF Body, Restoring
<1>2. /\ proc[p].moved = Missing
      /\ \A t \in Targets : \A d \in displaced[t] : d[1] # p
  BY <1>1 DEF Inv, DisplacedInv, TypeOK, At
<1>3. WorkOf(p)
  BY DEF Inv, WorkInv
<1> QED BY <1>1, <1>2, <1>3 DEF WorkOf

LEMMA RemoveTargetStep ==
  ASSUME Inv, NEW p \in Procs, RemoveTarget(p)
  PROVE  Inv'
<1> DEFINE t == proc[p].i
<1>0. TypeOK /\ proc[p] \in Invocations
  BY DEF Inv, TypeOK
<1>1. /\ proc[p].pc = "remove" /\ Goes(p, "rewrite") /\ file' = [file EXCEPT ![t] = Missing]
      /\ source' = source /\ displaced' = displaced /\ stateRoot' = stateRoot /\ lock' = lock
      /\ manifest' = manifest /\ temps' = temps /\ kills' = kills /\ edits' = edits
      /\ left' = left /\ owned' = owned /\ disturbed' = disturbed
      /\ overlapped' = overlapped /\ robbed' = robbed
  BY DEF RemoveTarget, At, state, observed, marks
<1>2. /\ manifest # NoManifest /\ proc[p].m = manifest /\ RestoreInv(p)
      /\ proc[p].op \in {"prepare", "cleanup"} /\ t \in Targets /\ proc[p].moved = Missing
      /\ \A u \in Targets : \A d \in displaced[u] : d[1] # p
      /\ proc[p].pc \in Body
  BY <1>1, RestoringFacts DEF Restoring
<1>3. OnlyMoves(p) /\ Arrives(p, "rewrite") /\ Works(p)
  BY <1>0, <1>1, <1>2, GoesMoves DEF Places, Body, Restoring, Works
<1>4. /\ proc'[p].pc = "rewrite" /\ proc'[p].op = proc[p].op /\ proc'[p].i = t
      /\ proc'[p].moved = Missing /\ proc'[p].m = manifest
  BY <1>2, <1>3 DEF Arrives
<1>5. /\ file'[t] = Missing
      /\ \A u \in Targets : u # t => file'[u] = file[u]
  BY <1>0, <1>1, <1>2 DEF TypeOK
<1> HIDE DEF t
<1>6. TypeOK'
  <2>1. file' \in [Targets -> Contents]
    BY <1>0, <1>1 DEF TypeOK, Contents
  <2> QED BY <1>0, <1>1, <1>3, <2>1 DEF TypeOK, OnlyMoves
<1>7. LockInv'
  BY <1>1, <1>3, <1>4, WorkKeepsLock DEF Body, Restoring
<1>8. ManifestInv'
  BY <1>1 DEF Inv, ManifestInv
<1>9. WorkInv'
  <2>1. RestoreInv(p)'
    <3>1. \A u \in Targets : file'[u] \in {manifest.original[u], Missing} \cup Canonical
      BY <1>2, <1>5 DEF RestoreInv
    <3>2. \A u \in Targets : u < t => file'[u] = manifest.original[u]
      BY <1>1, <1>2, <1>5 DEF RestoreInv, Targets, t
    <3> QED BY <1>1, <1>4, <1>5, <3>1, <3>2 DEF RestoreInv, At
  <2>2. WorkOf(p)'
    BY <1>1, <1>2, <1>4, <2>1 DEF WorkOf, Restoring, Copying, Recording
  <2> QED BY <1>3, <2>2, WorkKeepsWork
<1>10. DisplacedInv'
  <2>1. \A u \in Targets : ~Aside(p, u)'
    BY <1>4 DEF Aside, At
  <2> QED BY <1>1, <1>2, <1>3, <1>4, <1>6, <2>1, WorkKeepsDisplaced
<1>11. FreshInv'
  BY <1>1, <1>3, <1>4, <1>5, WorkKeepsFresh DEF Inv, FreshInv, Seen
<1>12. OwnedInv'
  BY <1>1, <1>3, <1>4, WorkKeepsOwned
<1>13. NothingLost'
  <2>1. \A u \in Targets : owned[u] \subseteq {file'[u], manifest.original[u]} \cup {d[2] : d \in displaced[u]}
    <3> SUFFICES ASSUME NEW u \in Targets, NEW c \in owned[u]
                 PROVE  c \in {file'[u], manifest.original[u]} \cup {d[2] : d \in displaced[u]}
      OBVIOUS
    <3>1. c \in {file[u], manifest.original[u]} \cup {d[2] : d \in displaced[u]}
      BY DEF Inv, NothingLost
    <3>2. c \notin Canonical \cup {Missing}
      BY WrittenIsNew DEF Inv, OwnedInv
    <3>3. c = file[u] => c = manifest.original[u]
      BY <1>2, <3>2 DEF RestoreInv
    <3> QED BY <3>1, <3>3
  <2> QED BY <1>1, <2>1 DEF NothingLost
<1>14. LeftInv'
  <2>1. \A u \in Targets : Orphaned(u) => Orphaned(u)'
    BY <1>1, <1>3, WorkKeepsOrphans
  <2>2. \A u \in Targets : left[u] = manifest.original[u] => LeftAt(u, Before(p, u))'
    BY <1>1, <1>2 DEF LeftAt
  <2> QED BY <1>1, <1>3, <2>1, <2>2, WorkKeepsLeft DEF Restoring
<1>15. RecordedInv'
  BY <1>3, <1>4, <1>6, WorkKeepsRecorded DEF RecordedBy, Restoring
<1> QED BY <1>6, <1>7, <1>8, <1>9, <1>10, <1>11, <1>12, <1>13, <1>14, <1>15 DEF Inv

LEMMA RewriteTargetStep ==
  ASSUME Inv, NEW p \in Procs, RewriteTarget(p)
  PROVE  Inv'
<1> DEFINE t == proc[p].i
           next == IF t = Entries THEN "unlinkManifest" ELSE "remove"
           r == [proc[p] EXCEPT !.pc = next, !.i = t + 1]
<1>0. TypeOK /\ proc[p] \in Invocations /\ proc \in [Procs -> Invocations]
  BY DEF Inv, TypeOK
<1>1. /\ proc[p].pc = "rewrite"
      /\ source' = source /\ displaced' = displaced /\ stateRoot' = stateRoot /\ lock' = lock
      /\ manifest' = manifest /\ temps' = temps /\ kills' = kills /\ edits' = edits
      /\ left' = left /\ owned' = owned /\ disturbed' = disturbed
      /\ overlapped' = overlapped /\ robbed' = robbed
  BY DEF RewriteTarget, At, state, observed, marks
<1>2. /\ manifest # NoManifest /\ proc[p].m = manifest /\ RestoreInv(p)
      /\ proc[p].op \in {"prepare", "cleanup"} /\ t \in Targets /\ proc[p].moved = Missing
      /\ \A u \in Targets : \A d \in displaced[u] : d[1] # p
      /\ proc[p].pc \in Body
  BY <1>1, RestoringFacts DEF Restoring
<1>3. file[t] = Missing
  BY <1>1, <1>2 DEF RestoreInv, At
<1>4. /\ file' = [file EXCEPT ![t] = manifest.original[t]]
      /\ proc' = [proc EXCEPT ![p] = r]
  BY <1>0, <1>2, <1>3 DEF RewriteTarget
<1>5. /\ file'[t] = manifest.original[t]
      /\ \A u \in Targets : u # t => file'[u] = file[u]
  BY <1>0, <1>2, <1>4 DEF TypeOK
<1>6. /\ next \in {"unlinkManifest", "remove"}
      /\ next = "unlinkManifest" => t = Entries
      /\ next = "remove" => t + 1 \in Targets
      /\ t + 1 \in 0..Entries + 1
  BY <1>2, PackageDocsAssumption DEF Targets
<1> HIDE DEF next
<1>7. /\ r \in Invocations /\ r.pc = next /\ r.i = t + 1 /\ r.m = proc[p].m /\ r.op = proc[p].op
      /\ r.moved = proc[p].moved
  <2>1. next \in Places
    BY <1>6 DEF Places, Body, Restoring
  <2> QED BY <1>0, <1>6, <2>1 DEF Invocations
<1>8. OnlyMoves(p) /\ proc'[p] = r /\ Works(p)
  <2> HIDE DEF r
  <2> QED BY <1>0, <1>2, <1>4, <1>7, RecordMoves DEF Works
<1>9. /\ proc'[p].pc = next /\ proc'[p].op = proc[p].op /\ proc'[p].i = t + 1
      /\ proc'[p].moved = Missing /\ proc'[p].m = manifest
  BY <1>2, <1>7, <1>8
<1> HIDE DEF r, t
<1>10. TypeOK'
  <2>1. file' \in [Targets -> Contents]
    BY <1>0, <1>2, <1>4 DEF TypeOK, Manifests
  <2> QED BY <1>0, <1>1, <1>8, <2>1 DEF TypeOK, OnlyMoves
<1>11. next \in Restoring /\ next \in Body \ {"place", "drop", "displace"}
  BY <1>6 DEF Body, Restoring
<1>12. LockInv'
  BY <1>1, <1>8, <1>9, <1>11, WorkKeepsLock
<1>13. ManifestInv'
  BY <1>1 DEF Inv, ManifestInv
<1>14. WorkInv'
  <2>1. RestoreInv(p)'
    <3>1. \A u \in Targets : file'[u] \in {manifest.original[u], Missing} \cup Canonical
      BY <1>2, <1>5 DEF RestoreInv
    <3>2. \A u \in Targets : u < t + 1 => file'[u] = manifest.original[u]
      <4>1. \A u \in Targets : u < t + 1 => u < t \/ u = t
        BY <1>2 DEF Targets
      <4> QED BY <1>1, <1>2, <1>5, <4>1 DEF RestoreInv, t
    <3>3. next = "unlinkManifest" => file' = manifest.original
      <4> SUFFICES ASSUME next = "unlinkManifest" PROVE file' = manifest.original
        OBVIOUS
      <4>1. \A u \in Targets : u < t + 1
        BY <1>6, PackageDocsAssumption DEF Targets
      <4>2. file' \in [Targets -> Contents] /\ manifest.original \in [Targets -> Contents]
        BY <1>0, <1>10 DEF TypeOK, Manifests
      <4> QED BY <3>2, <4>1, <4>2
    <3> QED BY <1>1, <1>6, <1>9, <3>1, <3>2, <3>3 DEF RestoreInv, At
  <2>2. WorkOf(p)'
    BY <1>1, <1>2, <1>6, <1>9, <1>11, <2>1 DEF WorkOf, Restoring, Copying, Recording
  <2> QED BY <1>8, <2>2, WorkKeepsWork
<1>15. DisplacedInv'
  <2>1. \A u \in Targets : ~Aside(p, u)'
    BY <1>9, <1>11 DEF Aside, At
  <2> QED BY <1>1, <1>2, <1>8, <1>9, <1>10, <1>11, <2>1, WorkKeepsDisplaced
<1>16. FreshInv'
  BY <1>1, <1>5, <1>8, <1>9, WorkKeepsFresh DEF Inv, FreshInv, Seen
<1>17. OwnedInv'
  BY <1>1, <1>8, <1>9, <1>11, WorkKeepsOwned
<1>18. NothingLost'
  <2>1. \A u \in Targets : owned[u] \subseteq {file'[u], manifest.original[u]} \cup {d[2] : d \in displaced[u]}
    <3> SUFFICES ASSUME NEW u \in Targets, NEW c \in owned[u]
                 PROVE  c \in {file'[u], manifest.original[u]} \cup {d[2] : d \in displaced[u]}
      OBVIOUS
    <3>1. c \in {file[u], manifest.original[u]} \cup {d[2] : d \in displaced[u]} /\ c # Missing
      BY WrittenIsNew DEF Inv, NothingLost, OwnedInv
    <3> QED BY <1>3, <1>5, <3>1
  <2> QED BY <1>1, <2>1 DEF NothingLost
<1>19. LeftInv'
  <2>1. \A u \in Targets : Orphaned(u) => Orphaned(u)'
    BY <1>1, <1>8, WorkKeepsOrphans
  <2>2. \A u \in Targets : left[u] = manifest.original[u] => LeftAt(u, Before(p, u))'
    BY <1>1, <1>2 DEF LeftAt
  <2> QED BY <1>1, <1>8, <2>1, <2>2, WorkKeepsLeft DEF Restoring
<1>20. RecordedInv'
  BY <1>8, <1>9, <1>10, <1>11, WorkKeepsRecorded DEF RecordedBy
<1> QED BY <1>10, <1>12, <1>13, <1>14, <1>15, <1>16, <1>17, <1>18, <1>19, <1>20 DEF Inv


LEMMA UnlinkManifestStep ==
  ASSUME Inv, NEW p \in Procs, UnlinkManifest(p)
  PROVE  Inv'
<1> DEFINE next == IF proc[p].op = "prepare" THEN "snapshot" ELSE "release"
           r == [proc[p] EXCEPT !.pc = next, !.m = NoManifest, !.i = 0]
<1>0. TypeOK /\ proc[p] \in Invocations /\ proc \in [Procs -> Invocations]
  BY DEF Inv, TypeOK
<1>1. /\ proc[p].pc = "unlinkManifest"
      /\ file' = file /\ source' = source /\ displaced' = displaced
      /\ stateRoot' = stateRoot /\ lock' = lock
      /\ temps' = temps /\ kills' = kills /\ edits' = edits /\ left' = left /\ owned' = owned
      /\ overlapped' = overlapped /\ robbed' = robbed
  BY DEF UnlinkManifest, At, disk
<1>2. /\ manifest # NoManifest /\ proc[p].m = manifest /\ RestoreInv(p)
      /\ proc[p].op \in {"prepare", "cleanup"} /\ proc[p].moved = Missing
      /\ \A u \in Targets : \A d \in displaced[u] : d[1] # p
      /\ proc[p].pc \in Body
  BY <1>1, RestoringFacts DEF Restoring
<1>3. file = manifest.original
  BY <1>1, <1>2 DEF RestoreInv, At
<1>4. manifest' = NoManifest /\ disturbed' = FALSE /\ proc' = [proc EXCEPT ![p] = r]
  BY <1>0, <1>2 DEF UnlinkManifest
<1>5. /\ next \in {"snapshot", "release"}
      /\ next = "snapshot" => proc[p].op = "prepare"
      /\ next \in Body \ ({"place", "drop", "displace"} \cup Restoring)
  BY DEF Body, Restoring
<1> HIDE DEF next
<1>6. /\ r \in Invocations /\ r.pc = next /\ r.i = 0 /\ r.m = NoManifest /\ r.op = proc[p].op
      /\ r.moved = proc[p].moved
  <2>1. next \in Places /\ 0 \in 0..Entries + 1
    BY <1>5, PackageDocsAssumption DEF Places
  <2> QED BY <1>0, <2>1, InitialTypes DEF Invocations
<1>7. OnlyMoves(p) /\ proc'[p] = r /\ Works(p)
  <2> HIDE DEF r
  <2> QED BY <1>0, <1>2, <1>4, <1>6, RecordMoves DEF Works
<1>8. /\ proc'[p].pc = next /\ proc'[p].op = proc[p].op
      /\ proc'[p].moved = Missing /\ proc'[p].m = NoManifest
  BY <1>2, <1>6, <1>7
<1> HIDE DEF r
<1>9. TypeOK'
  BY <1>0, <1>1, <1>4, <1>7, InitialTypes DEF TypeOK, OnlyMoves
<1>10. LockInv'
  BY <1>1, <1>5, <1>7, <1>8, WorkKeepsLock
<1>11. ManifestInv'
  BY <1>4 DEF ManifestInv
<1>12. WorkInv'
  <2>1. WorkOf(p)'
    BY <1>4, <1>5, <1>8 DEF WorkOf, Restoring, Copying, Recording
  <2> QED BY <1>7, <2>1, WorkKeepsWork
<1>13. \A u \in Targets : ~Aside(p, u) /\ ~Aside(p, u)'
  BY <1>1, <1>5, <1>8 DEF Aside, At
<1>14. DisplacedInv'
  BY <1>1, <1>2, <1>5, <1>7, <1>8, <1>9, <1>13, WorkKeepsDisplaced
<1>15. FreshInv'
  <2>1. \A u \in Targets : NoManifest.original[u] \in Seen
    BY DEF Seen, NoManifest, Unprepared
  <2> QED BY <1>1, <1>4, <1>7, <1>8, <2>1, WorkKeepsFresh DEF Inv, FreshInv, Seen
<1>16. OwnedInv'
  BY <1>1, <1>5, <1>7, <1>8, WorkKeepsOwned
<1>17. NothingLost'
  <2>1. \A u \in Targets : owned[u] \subseteq {file[u], NoManifest.original[u]} \cup {d[2] : d \in displaced[u]}
    BY <1>3 DEF Inv, NothingLost
  <2> QED BY <1>1, <1>4, <2>1 DEF NothingLost
<1>18. LeftInv'
  <2>1. \A u \in Targets : Orphaned(u) => Orphaned(u)'
    BY <1>1, <1>7, WorkKeepsOrphans
  <2>2. \A u \in Targets : left[u] = manifest.original[u] => LeftAt(u, Before(p, u))'
    BY <1>1, <1>3, <1>4, <1>13 DEF LeftAt, Before
  <2> QED BY <1>1, <1>5, <1>7, <1>8, <2>1, <2>2, WorkKeepsLeft DEF Restoring
<1>19. RecordedInv'
  BY <1>4, <1>7, <1>9, WorkKeepsRecorded DEF RecordedBy
<1> QED BY <1>9, <1>10, <1>11, <1>12, <1>14, <1>15, <1>16, <1>17, <1>18, <1>19 DEF Inv

LEMMA RenameManifestStep ==
  ASSUME Inv, NEW p \in Procs, RenameManifest(p)
  PROVE  Inv'
<1> DEFINE m == proc[p].m
           next == CASE m.phase = "prepared" -> "returned"
                     [] m.phase # "prepared" /\ proc[p].i > Entries -> "finish"
                     [] OTHER -> "copy"
<1>0. TypeOK /\ proc[p] \in Invocations
  BY DEF Inv, TypeOK
<1>1. /\ proc[p].pc = "rename" /\ manifest' = m /\ Goes(p, next)
      /\ file' = file /\ source' = source /\ displaced' = displaced
      /\ stateRoot' = stateRoot /\ lock' = lock /\ temps' = temps \ {p}
      /\ kills' = kills /\ edits' = edits
      /\ left' = left /\ owned' = owned /\ disturbed' = disturbed
      /\ overlapped' = overlapped /\ robbed' = robbed
  BY DEF RenameManifest, At, disk, observed, marks
<1>2. /\ proc[p].op = "prepare" /\ proc[p].i \in 1..Entries + 1 /\ PrepareInv(p)
      /\ proc[p].moved = Missing /\ proc[p].pc \in Body /\ lock = p /\ stateRoot
      /\ \A u \in Targets : \A d \in displaced[u] : d[1] # p
  <2>1. proc[p].pc \in Body \ {"place", "drop", "release", "releaseLock", "releaseRoot", "exited"}
    BY <1>1 DEF Body, Restoring
  <2>2. /\ proc[p].moved = Missing
        /\ \A u \in Targets : \A d \in displaced[u] : d[1] # p
    BY <2>1 DEF Inv, DisplacedInv, TypeOK, At
  <2>3. WorkOf(p)
    BY DEF Inv, WorkInv
  <2>4. lock = p /\ lock # Free
    BY <2>1 DEF Inv, LockInv, Holding, Procs, Free
  <2>5. stateRoot
    BY <2>4 DEF Inv, LockInv
  <2> QED BY <1>1, <2>1, <2>2, <2>3, <2>4, <2>5 DEF WorkOf, Recording
<1>3. m.owner = p /\ m.phase # "none" /\ m # NoManifest /\ m \in Manifests
  BY <1>0, <1>2 DEF PrepareInv, NoManifest, Invocations
<1>4. /\ next \in {"returned", "finish", "copy"}
      /\ next = "copy" => proc[p].i \in Targets
  BY <1>2, PackageDocsAssumption DEF Targets
<1> HIDE DEF next
<1>5. OnlyMoves(p) /\ Arrives(p, next) /\ Works(p)
  <2>1. next \in Places
    BY <1>4 DEF Places, Body
  <2> QED BY <1>0, <1>1, <1>2, <2>1, GoesMoves DEF Works
<1>6. /\ proc'[p].pc = next /\ proc'[p].op = "prepare" /\ proc'[p].i = proc[p].i
      /\ proc'[p].moved = Missing /\ proc'[p].m = m
  BY <1>2, <1>5 DEF Arrives
<1>7. \/ manifest = NoManifest /\ m.original = file /\ m.prepared = Unprepared
      \/ /\ manifest # NoManifest /\ m.original = manifest.original
         /\ m.sourceHash = manifest.sourceHash
  BY <1>1, <1>2 DEF PrepareInv, Extends, At
<1> HIDE DEF m
<1>8. TypeOK'
  BY <1>0, <1>1, <1>2, <1>3, <1>5 DEF TypeOK, OnlyMoves
<1>9. LockInv'
  BY <1>1, <1>4, <1>5, <1>6, WorkKeepsLock DEF Body
<1>10. ManifestInv'
  BY <1>1, <1>2, <1>3 DEF ManifestInv, PrepareInv, m
<1>11. WorkInv'
  <2>1. next = "copy" => PrepareInv(p)'
    BY <1>1, <1>2, <1>6 DEF PrepareInv, Extends, Aside, At, m
  <2>2. next = "finish" => PrepareInv(p)'
    BY <1>1, <1>2, <1>3, <1>6 DEF PrepareInv, Extends, Aside, At, m
  <2>3. WorkOf(p)'
    BY <1>2, <1>4, <1>6, <2>1, <2>2 DEF WorkOf, Restoring, Copying, Recording
  <2> QED BY <1>5, <2>3, WorkKeepsWork
<1>12. \A u \in Targets : ~Aside(p, u) /\ ~Aside(p, u)'
  BY <1>1, <1>4, <1>6 DEF Aside, At
<1>13. DisplacedInv'
  BY <1>1, <1>2, <1>4, <1>5, <1>6, <1>8, <1>12, WorkKeepsDisplaced
<1>14. FreshInv'
  <2>1. \A u \in Targets : m.original[u] \in Seen
    BY DEF Inv, FreshInv, m
  <2> QED BY <1>1, <1>5, <1>6, <2>1, WorkKeepsFresh DEF Inv, FreshInv, Seen
<1>15. OwnedInv'
  BY <1>1, <1>4, <1>5, <1>6, WorkKeepsOwned
<1>16. NothingLost'
  <2>1. \A u \in Targets : owned[u] \subseteq {file[u], m.original[u]} \cup {d[2] : d \in displaced[u]}
    <3> SUFFICES ASSUME NEW u \in Targets, NEW c \in owned[u]
                 PROVE  c \in {file[u], m.original[u]} \cup {d[2] : d \in displaced[u]}
      OBVIOUS
    <3>1. c \in {file[u], manifest.original[u]} \cup {d[2] : d \in displaced[u]} /\ c # Missing
      BY WrittenIsNew DEF Inv, NothingLost, OwnedInv
    <3>2. NoManifest.original[u] = Missing
      BY DEF NoManifest, Unprepared
    <3> QED BY <1>7, <3>1, <3>2
  <2> QED BY <1>1, <2>1 DEF NothingLost
<1>17. LeftInv'
  <2>1. \A u \in Targets : Orphaned(u) => Orphaned(u)'
    BY <1>1, <1>5, WorkKeepsOrphans
  <2>2. \A u \in Targets : LeftAt(u, Before(p, u)) => LeftAt(u, Before(p, u))'
    BY <1>1, <1>3, <1>7, <1>12 DEF LeftAt, Before
  <2> QED BY <1>4, <1>5, <1>6, <2>1, <2>2, WorkKeepsLeft DEF Restoring
<1>18. RecordedInv'
  <2>1. \A u \in Targets : m.prepared[u] # Missing => file[u] = m.sourceHash[u]
    BY <1>2 DEF PrepareInv, m
  <2>2. RecordedBy(p)'
    BY <1>1, <1>12, <2>1 DEF RecordedBy, Before
  <2> QED BY <1>5, <1>8, <2>2, WorkKeepsRecorded
<1> QED BY <1>8, <1>9, <1>10, <1>11, <1>13, <1>14, <1>15, <1>16, <1>17, <1>18 DEF Inv


\* What a process that copies has in hand.
LEMMA CopyingFacts ==
  ASSUME Inv, NEW p \in Procs, proc[p].pc \in Copying
  PROVE  /\ proc[p].i \in Targets /\ proc[p].op \in {"prepare", "sync"}
         /\ proc[p].op = "prepare" => PrepareInv(p)
         /\ proc[p].pc \in {"displace", "place"} => proc[p].m.sourceHash[proc[p].i] \in Canonical
         /\ proc[p].pc \in Body /\ proc[p].pc \notin Restoring
         /\ \A t \in Targets : \A d \in displaced[t] : d[1] = p =>
              /\ proc[p].pc \in {"place", "drop"} /\ d[2] = proc[p].moved /\ t = proc[p].i
              /\ d = <<p, proc[p].moved>>
<1>1. WorkOf(p)
  BY DEF Inv, WorkInv
<1>2. proc[p].pc \in Body /\ proc[p].pc \notin Restoring /\ proc[p].pc # "exited"
  BY DEF Body, Restoring, Copying
<1>3. \A t \in Targets : \A d \in displaced[t] : d[1] = p =>
        /\ proc[p].pc \in {"place", "drop"} /\ d[2] = proc[p].moved /\ t = proc[p].i
  BY <1>2 DEF Inv, DisplacedInv, At
<1>4. \A t \in Targets : \A d \in displaced[t] : d = <<d[1], d[2]>>
  BY DEF Inv, TypeOK
<1>5. \A t \in Targets : \A d \in displaced[t] : d[1] = p => d = <<p, proc[p].moved>>
  BY <1>3, <1>4
<1> QED BY <1>1, <1>2, <1>3, <1>5 DEF WorkOf

LEMMA DisplaceStep ==
  ASSUME Inv, NEW p \in Procs, Displace(p)
  PROVE  Inv'
<1> DEFINE t == proc[p].i
           r == [proc[p] EXCEPT !.pc = "place", !.moved = file[t]]
<1>0. TypeOK /\ proc[p] \in Invocations /\ proc \in [Procs -> Invocations]
  BY DEF Inv, TypeOK
<1>1. /\ proc[p].pc = "displace"
      /\ displaced' = [displaced EXCEPT ![t] = @ \cup {<<p, file[t]>>}]
      /\ file' = [file EXCEPT ![t] = Missing]
      /\ source' = source /\ stateRoot' = stateRoot /\ lock' = lock
      /\ manifest' = manifest /\ temps' = temps /\ kills' = kills /\ edits' = edits
      /\ left' = left /\ owned' = owned /\ disturbed' = disturbed
      /\ overlapped' = overlapped /\ robbed' = robbed
      /\ proc' = [proc EXCEPT ![p] = r]
  BY <1>0 DEF Displace, At, state, observed, marks
<1>2. /\ t \in Targets /\ proc[p].op \in {"prepare", "sync"}
      /\ proc[p].op = "prepare" => PrepareInv(p)
      /\ proc[p].m.sourceHash[t] \in Canonical
      /\ proc[p].pc \in Body /\ proc[p].pc \notin Restoring
      /\ \A u \in Targets : \A d \in displaced[u] : d[1] # p
  BY <1>1, CopyingFacts DEF Copying
<1>3. file[t] # Missing /\ file[t] \in Contents /\ file[t] \in Seen
  BY <1>0, <1>1, <1>2 DEF Inv, DisplacedInv, FreshInv, TypeOK, At
<1>4. /\ r \in Invocations /\ r.pc = "place" /\ r.i = t /\ r.m = proc[p].m /\ r.op = proc[p].op
      /\ r.moved = file[t]
  BY <1>0, <1>3 DEF Invocations, Places, Body
<1>5. OnlyMoves(p) /\ proc'[p] = r /\ Works(p)
  <2> HIDE DEF r
  <2> QED BY <1>0, <1>1, <1>2, <1>4, RecordMoves DEF Works
<1>6. /\ proc'[p].pc = "place" /\ proc'[p].op = proc[p].op /\ proc'[p].i = t
      /\ proc'[p].moved = file[t] /\ proc'[p].m = proc[p].m
  BY <1>4, <1>5
<1>7. /\ file'[t] = Missing /\ \A u \in Targets : u # t => file'[u] = file[u]
      /\ displaced'[t] = displaced[t] \cup {<<p, file[t]>>}
      /\ \A u \in Targets : u # t => displaced'[u] = displaced[u]
  BY <1>0, <1>1, <1>2 DEF TypeOK
<1> HIDE DEF r, t
<1>8. TypeOK'
  <2>1. file' \in [Targets -> Contents]
    BY <1>0, <1>1 DEF TypeOK, Contents
  <2>2. displaced' \in [Targets -> SUBSET (Procs \X Contents)]
    BY <1>0, <1>1, <1>2, <1>3 DEF TypeOK
  <2> QED BY <1>0, <1>1, <1>5, <2>1, <2>2 DEF TypeOK, OnlyMoves
<1>9. LockInv'
  BY <1>1, <1>5, <1>6, WorkKeepsLock DEF Body
<1>10. ManifestInv'
  BY <1>1 DEF Inv, ManifestInv
<1>11. \A u \in Targets : ~Aside(p, u) /\ (Aside(p, u)' <=> u = t)
  BY <1>1, <1>3, <1>6 DEF Aside, At
<1>12. WorkInv'
  <2>1. ASSUME proc[p].op = "prepare" PROVE PrepareInv(p)'
    <3>1. PrepareInv(p)
      BY <1>2, <2>1
    <3>2. manifest = proc[p].m /\ file[t] = proc[p].m.original[t] /\ proc[p].m.prepared[t] = Missing
      BY <1>1, <1>2, <1>11, <3>1 DEF PrepareInv, At, t
    <3>3. /\ proc[p].m.owner = p /\ proc[p].m.phase # "none"
          /\ \A u \in Targets :
               /\ proc[p].m.sourceHash[u] \in Canonical
               /\ proc[p].m.prepared[u] \in {Missing, proc[p].m.sourceHash[u]}
               /\ proc[p].m.prepared[u] # Missing => file'[u] = proc[p].m.sourceHash[u]
               /\ u > t => proc[p].m.prepared[u] = Missing
      BY <1>7, <3>1, <3>2 DEF PrepareInv, t
    <3> QED BY ZenonT(120), <1>1, <1>3, <1>6, <3>2, <3>3 DEF PrepareInv, Aside, At
  <2>2. WorkOf(p)'
    BY <1>2, <1>6, <2>1 DEF WorkOf, Restoring, Copying, Recording
  <2> QED BY <1>5, <2>2, WorkKeepsWork
<1>13. DisplacedInv'
  <2>1. \A u \in Targets : Aside(p, u)' => file'[u] = Missing
    BY <1>7, <1>11
  <2>2. <<p, file[t]>> \in displaced'[t]
    BY <1>7
  <2>3. \A u \in Targets : \A d \in displaced'[u] :
          /\ d[1] # p => d \in displaced[u]
          /\ d[1] = p => d[2] = file[t] /\ u = t
    BY <1>2, <1>7
  <2> QED BY <1>3, <1>5, <1>6, <1>8, <2>1, <2>2, <2>3, WorkKeepsDisplaced
<1>14. FreshInv'
  BY <1>1, <1>3, <1>5, <1>6, <1>7, WorkKeepsFresh DEF Inv, FreshInv, Seen
<1>15. OwnedInv'
  BY <1>1, <1>5, <1>6, WorkKeepsOwned
<1>16. NothingLost'
  <2> SUFFICES ASSUME NEW u \in Targets, NEW c \in owned[u]
               PROVE  c \in {file'[u], manifest.original[u]} \cup {d[2] : d \in displaced'[u]}
    BY <1>1 DEF NothingLost
  <2>1. c \in {file[u], manifest.original[u]} \cup {d[2] : d \in displaced[u]}
    BY DEF Inv, NothingLost
  <2>2. CASE u # t
    BY <1>7, <2>1, <2>2
  <2>3. CASE u = t /\ c # file[t]
    BY <1>7, <2>1, <2>3
  <2>4. CASE u = t /\ c = file[t]
    <3>1. <<p, c>> \in displaced'[u] /\ <<p, c>>[2] = c
      BY <1>7, <2>4
    <3> QED BY <3>1
  <2> QED BY <2>2, <2>3, <2>4
<1>17. \A u \in Targets : Before(p, u)' = Before(p, u)
  BY <1>6, <1>7, <1>11 DEF Before
<1>18. LeftInv'
  <2>1. \A u \in Targets : Orphaned(u) => Orphaned(u)'
    BY <1>5, <1>7, WorkKeepsOrphans
  <2>2. \A u \in Targets : LeftAt(u, Before(p, u)) => LeftAt(u, Before(p, u))'
    BY <1>1, <1>17 DEF LeftAt
  <2> QED BY <1>5, <1>6, <2>1, <2>2, WorkKeepsLeft DEF Restoring
<1>19. RecordedInv'
  <2>1. RecordedBy(p)
    BY <1>5, <1>8, WorkKeepsRecorded
  <2>2. RecordedBy(p)'
    BY <1>1, <1>2, <1>17, <2>1 DEF RecordedBy
  <2> QED BY <1>5, <1>8, <2>2, WorkKeepsRecorded
<1> QED BY <1>8, <1>9, <1>10, <1>12, <1>13, <1>14, <1>15, <1>16, <1>18, <1>19 DEF Inv

LEMMA DropDisplacedStep ==
  ASSUME Inv, NEW p \in Procs, DropDisplaced(p)
  PROVE  Inv'
<1> DEFINE t == proc[p].i
           next == AfterEntry(p, t)
           r == [proc[p] EXCEPT !.pc = next, !.i = t + 1, !.moved = Missing]
<1>0. TypeOK /\ proc[p] \in Invocations /\ proc \in [Procs -> Invocations]
  BY DEF Inv, TypeOK
<1>1. /\ proc[p].pc = "drop"
      /\ displaced' = [displaced EXCEPT ![t] = @ \ {<<p, proc[p].moved>>}]
      /\ file' = file /\ source' = source /\ stateRoot' = stateRoot /\ lock' = lock
      /\ manifest' = manifest /\ temps' = temps /\ kills' = kills /\ edits' = edits
      /\ left' = left /\ owned' = owned /\ disturbed' = disturbed
      /\ overlapped' = overlapped /\ robbed' = robbed
      /\ proc' = [proc EXCEPT ![p] = r]
  BY <1>0 DEF DropDisplaced, At, state, observed, marks
<1>2. /\ t \in Targets /\ proc[p].op \in {"prepare", "sync"}
      /\ proc[p].op = "prepare" => PrepareInv(p)
      /\ proc[p].pc \in Body /\ proc[p].pc \notin Restoring
      /\ \A u \in Targets : \A d \in displaced[u] : d[1] = p =>
           d = <<p, proc[p].moved>> /\ u = t
  BY <1>1, CopyingFacts DEF Copying
<1>3. /\ next \in {"record", "release", "copy"}
      /\ next = "record" <=> proc[p].op = "prepare"
      /\ next = "copy" => t + 1 \in Targets
      /\ t + 1 \in 1..Entries + 1 /\ t + 1 \in 0..Entries + 1
  <2>1. t \in 1..Entries /\ Entries \in Nat
    BY <1>2, PackageDocsAssumption DEF Targets
  <2> QED BY <2>1 DEF AfterEntry, Targets
<1> HIDE DEF next
<1>4. /\ r \in Invocations /\ r.pc = next /\ r.i = t + 1 /\ r.m = proc[p].m /\ r.op = proc[p].op
      /\ r.moved = Missing
  <2>1. next \in Places /\ Missing \in Contents
    BY <1>3 DEF Places, Body, Contents
  <2> QED BY <1>0, <1>3, <2>1 DEF Invocations
<1>5. OnlyMoves(p) /\ proc'[p] = r /\ Works(p)
  <2> HIDE DEF r
  <2> QED BY <1>0, <1>1, <1>2, <1>4, RecordMoves DEF Works
<1>6. /\ proc'[p].pc = next /\ proc'[p].op = proc[p].op /\ proc'[p].i = t + 1
      /\ proc'[p].moved = Missing /\ proc'[p].m = proc[p].m
  BY <1>4, <1>5
<1>7. /\ displaced'[t] = displaced[t] \ {<<p, proc[p].moved>>}
      /\ \A u \in Targets : u # t => displaced'[u] = displaced[u]
  BY <1>0, <1>1, <1>2 DEF TypeOK
<1> HIDE DEF r, t
<1>8. TypeOK'
  <2>1. displaced' \in [Targets -> SUBSET (Procs \X Contents)]
    BY <1>0, <1>1, <1>2 DEF TypeOK
  <2> QED BY <1>0, <1>1, <1>5, <2>1 DEF TypeOK, OnlyMoves
<1>9. LockInv'
  BY <1>1, <1>3, <1>5, <1>6, WorkKeepsLock DEF Body
<1>10. ManifestInv'
  BY <1>1 DEF Inv, ManifestInv
<1>11. \A u \in Targets : ~Aside(p, u) /\ ~Aside(p, u)'
  BY <1>1, <1>3, <1>6 DEF Aside, At
<1>12. WorkInv'
  <2>1. ASSUME proc[p].op = "prepare" PROVE PrepareInv(p)'
    <3>1. PrepareInv(p)
      BY <1>2, <2>1
    <3>2. next = "record"
      BY <1>3, <2>1
    <3>3. \A u \in Targets : u >= t + 1 => u > t
      BY <1>2 DEF Targets
    <3>4. \A u \in Targets : u > t + 1 \/ u = t + 1 => proc[p].m.prepared[u] = Missing
      BY <1>2, <3>1, <3>3 DEF PrepareInv, Targets, t
    <3>5. Extends(proc[p].m)' /\ proc[p].m.owner = p /\ proc[p].m.phase # "none"
      BY <1>1, <1>6, <3>1 DEF PrepareInv, Extends, At
    <3> QED BY <1>1, <1>6, <1>11, <3>1, <3>2, <3>4, <3>5 DEF PrepareInv, Extends, Aside, At
  <2>2. WorkOf(p)'
    BY <1>2, <1>3, <1>6, <2>1 DEF WorkOf, Restoring, Copying, Recording
  <2> QED BY <1>5, <2>2, WorkKeepsWork
<1>13. DisplacedInv'
  <2>1. \A u \in Targets : \A d \in displaced'[u] : d[1] # p /\ d \in displaced[u]
    BY <1>2, <1>7
  <2> QED BY <1>3, <1>5, <1>6, <1>8, <1>11, <2>1, WorkKeepsDisplaced
<1>14. FreshInv'
  BY <1>1, <1>5, <1>6, WorkKeepsFresh DEF Inv, FreshInv, Seen
<1>15. OwnedInv'
  BY <1>1, <1>3, <1>5, <1>6, WorkKeepsOwned
<1>16. NothingLost'
  <2> SUFFICES ASSUME NEW u \in Targets, NEW c \in owned[u]
               PROVE  c \in {file[u], manifest.original[u]} \cup {d[2] : d \in displaced'[u]}
    BY <1>1 DEF NothingLost
  <2>1. c \in {file[u], manifest.original[u]} \cup {d[2] : d \in displaced[u]}
    BY DEF Inv, NothingLost
  <2>2. CASE c \in {file[u], manifest.original[u]}
    BY <2>2
  <2>3. CASE c \notin {file[u], manifest.original[u]}
    <3>1. PICK d \in displaced[u] : d[2] = c
      BY <2>1, <2>3
    <3>2. CASE d[1] = p
      <4>1. u = t /\ c = proc[p].moved
        BY <1>2, <3>1, <3>2
      <4>2. CASE proc[p].op = "prepare"
        <5>1. proc[p].moved = manifest.original[t]
          BY <1>1, <1>2, <4>2 DEF PrepareInv, Extends, At, t
        <5> QED BY <2>3, <4>1, <5>1
      <4>3. CASE proc[p].op = "sync"
        BY <1>1, <4>1, <4>3 DEF Inv, OwnedInv, At, t
      <4> QED BY <1>2, <4>2, <4>3
    <3>3. CASE d[1] # p
      <4>1. d \in displaced'[u]
        BY <1>7, <3>1, <3>3
      <4> QED BY <3>1, <4>1
    <3> QED BY <3>2, <3>3
  <2> QED BY <2>2, <2>3
<1>17. \A u \in Targets : Before(p, u)' = Before(p, u)
  BY <1>1, <1>11 DEF Before
<1>18. LeftInv'
  <2>1. \A u \in Targets : \A d \in displaced[u] : d[1] # p => d \in displaced'[u]
    BY <1>7
  <2>2. \A u \in Targets : Orphaned(u) => Orphaned(u)'
    BY <1>5, <2>1, WorkKeepsOrphans
  <2>3. \A u \in Targets : LeftAt(u, Before(p, u)) => LeftAt(u, Before(p, u))'
    BY <1>1, <1>17 DEF LeftAt
  <2> QED BY <1>3, <1>5, <1>6, <2>2, <2>3, WorkKeepsLeft DEF Restoring
<1>19. RecordedInv'
  <2>1. RecordedBy(p)
    BY <1>5, <1>8, WorkKeepsRecorded
  <2>2. RecordedBy(p)'
    BY <1>1, <1>2, <1>17, <2>1 DEF RecordedBy
  <2> QED BY <1>5, <1>8, <2>2, WorkKeepsRecorded
<1> QED BY <1>8, <1>9, <1>10, <1>12, <1>13, <1>14, <1>15, <1>16, <1>18, <1>19 DEF Inv


LEMMA PlaceStep ==
  ASSUME Inv, NEW p \in Procs, Place(p)
  PROVE  Inv'
<1> DEFINE t == proc[p].i
           c == proc[p].m.sourceHash[t]
           moved == proc[p].moved
           prep == IF proc[p].op = "prepare" THEN [proc[p].m.prepared EXCEPT ![t] = c]
                   ELSE proc[p].m.prepared
           m == [proc[p].m EXCEPT !.prepared = prep]
           pc == IF moved # Missing THEN "drop" ELSE AfterEntry(p, t)
           i == IF moved # Missing THEN t ELSE t + 1
           r == [proc[p] EXCEPT !.m = m, !.pc = pc, !.i = i]
<1>0. TypeOK /\ proc[p] \in Invocations /\ proc \in [Procs -> Invocations]
  BY DEF Inv, TypeOK
<1>1. /\ proc[p].pc = "place" /\ file' = [file EXCEPT ![t] = c]
      /\ source' = source /\ displaced' = displaced /\ stateRoot' = stateRoot /\ lock' = lock
      /\ manifest' = manifest /\ temps' = temps /\ kills' = kills /\ edits' = edits
      /\ overlapped' = overlapped /\ robbed' = robbed
  BY DEF Place, At, state
<1>2. /\ t \in Targets /\ proc[p].op \in {"prepare", "sync"}
      /\ proc[p].op = "prepare" => PrepareInv(p)
      /\ c \in Canonical
      /\ proc[p].pc \in Body /\ proc[p].pc \notin Restoring
      /\ \A u \in Targets : \A d \in displaced[u] : d[1] = p => d[2] = moved /\ u = t
  BY <1>1, CopyingFacts DEF Copying
<1>3. /\ proc[p].m \in Manifests /\ moved \in Contents
      /\ proc[p].m.prepared \in [Targets -> {Missing} \cup Canonical]
  BY <1>0 DEF Invocations, Manifests
<1>4. proc' = [proc EXCEPT ![p] = r]
  <2>1. CASE proc[p].op = "prepare"
    BY <1>0, <1>3, <2>1 DEF Place, Invocations, Manifests
  <2>2. CASE proc[p].op # "prepare"
    <3>1. [proc[p].m.prepared EXCEPT ![t] = proc[p].m.prepared[t]] = proc[p].m.prepared
      BY <1>2, <1>3
    <3> QED BY <1>0, <1>3, <2>2, <3>1 DEF Place, Invocations, Manifests
  <2> QED BY <2>1, <2>2
<1>5. /\ proc[p].op = "prepare" => left' = left /\ owned' = owned /\ disturbed' = disturbed
      /\ proc[p].op = "sync" =>
           /\ left' = [left EXCEPT ![t] = IF manifest = NoManifest THEN c ELSE manifest.original[t]]
           /\ owned' = [owned EXCEPT ![t] = @ \ {file[t], moved}]
           /\ disturbed' = (disturbed \/ manifest # NoManifest)
  BY DEF Place, observed, marks
<1>6. /\ moved # Missing => pc = "drop" /\ i = t
      /\ moved = Missing => /\ pc \in {"record", "release", "copy"} /\ i = t + 1
                            /\ pc = "record" <=> proc[p].op = "prepare"
                            /\ pc = "copy" => t + 1 \in Targets
      /\ pc \in {"drop", "record", "release", "copy"}
      /\ i \in 1..Entries + 1 /\ i \in 0..Entries + 1
      /\ pc \in {"drop", "copy"} => i \in Targets
  <2>1. t \in 1..Entries /\ Entries \in Nat
    BY <1>2, PackageDocsAssumption DEF Targets
  <2> QED BY <2>1, <1>2 DEF AfterEntry, Targets
<1>7. /\ prep \in [Targets -> {Missing} \cup Canonical]
      /\ proc[p].op = "prepare" =>
           prep[t] = c /\ \A u \in Targets : u # t => prep[u] = proc[p].m.prepared[u]
  BY <1>2, <1>3
<1> HIDE DEF prep, pc, i
<1>8. /\ m \in Manifests /\ m.phase = proc[p].m.phase /\ m.owner = proc[p].m.owner
      /\ m.original = proc[p].m.original /\ m.prepared = prep
      /\ m.sourceHash = proc[p].m.sourceHash
  BY <1>3, <1>7 DEF Manifests
<1> HIDE DEF m
<1>9. /\ r \in Invocations /\ r.pc = pc /\ r.i = i /\ r.m = m /\ r.op = proc[p].op
      /\ r.moved = moved
  <2>1. pc \in Places
    BY <1>6 DEF Places, Body
  <2> QED BY <1>0, <1>6, <1>8, <2>1 DEF Invocations
<1>10. OnlyMoves(p) /\ proc'[p] = r /\ Works(p)
  <2> HIDE DEF r
  <2> QED BY <1>0, <1>2, <1>4, <1>9, RecordMoves DEF Works
<1>11. /\ proc'[p].pc = pc /\ proc'[p].op = proc[p].op /\ proc'[p].i = i
       /\ proc'[p].moved = moved /\ proc'[p].m = m
  BY <1>9, <1>10
<1>12. file'[t] = c /\ \A u \in Targets : u # t => file'[u] = file[u]
  BY <1>0, <1>1, <1>2 DEF TypeOK
<1>13. \A u \in Targets : ~Aside(p, u)' /\ (Aside(p, u) <=> moved # Missing /\ u = t)
  BY <1>1, <1>6, <1>11 DEF Aside, At
<1>14. ASSUME proc[p].op = "prepare"
       PROVE  /\ manifest = proc[p].m /\ manifest # NoManifest
              /\ proc[p].m.prepared[t] = Missing
              /\ moved = Missing => file[t] = manifest.original[t]
              /\ moved # Missing => moved = manifest.original[t] /\ file[t] = Missing
  <2>1. PrepareInv(p)
    BY <1>2, <1>14
  <2>2. /\ manifest = proc[p].m /\ proc[p].m.phase # "none" /\ proc[p].m.prepared[t] = Missing
    BY <1>1, <1>2, <2>1 DEF PrepareInv, At
  <2>3. moved = Missing => file[t] = manifest.original[t]
    BY <1>1, <2>1, <2>2 DEF PrepareInv, Aside
  <2>4. moved # Missing => moved = manifest.original[t] /\ file[t] = Missing
    BY <1>1, <1>2, <2>1, <2>2 DEF PrepareInv, Aside, At, Inv, DisplacedInv
  <2> QED BY <2>2, <2>3, <2>4 DEF NoManifest
<1> HIDE DEF r, t, c, moved
<1>15. TypeOK'
  <2>1. file' \in [Targets -> Contents]
    BY <1>0, <1>1, <1>2 DEF TypeOK, Contents
  <2>2. /\ left' \in [Targets -> Contents] /\ owned' \in [Targets -> SUBSET Contents]
        /\ disturbed' \in BOOLEAN
    <3>1. CASE proc[p].op = "prepare"
      BY <1>0, <1>5, <3>1 DEF TypeOK
    <3>2. CASE proc[p].op = "sync"
      <4>1. (IF manifest = NoManifest THEN c ELSE manifest.original[t]) \in Contents
        BY <1>0, <1>2 DEF TypeOK, Manifests, Contents
      <4>2. left' \in [Targets -> Contents]
        BY <1>0, <1>5, <3>2, <4>1 DEF TypeOK
      <4>3. owned[t] \ {file[t], moved} \in SUBSET Contents
        BY <1>0, <1>2 DEF TypeOK
      <4>4. owned' \in [Targets -> SUBSET Contents]
        BY <1>0, <1>5, <3>2, <4>3 DEF TypeOK
      <4> QED BY <1>0, <1>5, <3>2, <4>2, <4>4 DEF TypeOK
    <3> QED BY <1>2, <3>1, <3>2
  <2> QED BY <1>0, <1>1, <1>10, <2>1, <2>2 DEF TypeOK, OnlyMoves
<1>16. LockInv'
  BY <1>1, <1>6, <1>10, <1>11, WorkKeepsLock DEF Body
<1>17. ManifestInv'
  BY <1>1 DEF Inv, ManifestInv
<1>18. WorkInv'
  <2>1. ASSUME proc[p].op = "prepare" PROVE PrepareInv(p)'
    <3>1. PrepareInv(p)
      BY <1>2, <2>1
    <3>2. \A u \in Targets :
            /\ m.sourceHash[u] \in Canonical
            /\ m.prepared[u] \in {Missing, m.sourceHash[u]}
            /\ m.prepared[u] # Missing => file'[u] = m.sourceHash[u]
      BY <1>2, <1>7, <1>8, <1>12, <2>1, <3>1 DEF PrepareInv, c
    <3>3. \A u \in Targets : u > t => m.prepared[u] = Missing
      BY <1>2, <1>7, <1>8, <2>1, <3>1 DEF PrepareInv, Targets, t
    <3>4. \A u \in Targets : /\ u > i => m.prepared[u] = Missing
                             /\ u = i /\ pc # "drop" => m.prepared[u] = Missing
      <4>1. \A u \in Targets : /\ u > i => u > t
                               /\ u = i /\ pc # "drop" => u > t
        BY <1>2, <1>6 DEF Targets
      <4> QED BY <3>3, <4>1
    <3>5. /\ m.owner = p /\ m.phase # "none" /\ manifest # NoManifest
          /\ m.original = manifest.original /\ m.sourceHash = manifest.sourceHash
      BY <1>8, <1>14, <2>1, <3>1 DEF PrepareInv
    <3>6. pc = "drop" => moved = m.original[i]
      BY <1>6, <1>14, <2>1, <3>5
    <3>7. pc \in {"drop", "record"}
      BY <1>6, <2>1
    <3> QED BY <1>1, <1>11, <1>13, <3>2, <3>4, <3>5, <3>6, <3>7 DEF PrepareInv, Extends, Aside, At
  <2>2. WorkOf(p)'
    BY <1>2, <1>6, <1>11, <2>1 DEF WorkOf, Restoring, Copying, Recording
  <2> QED BY <1>10, <2>2, WorkKeepsWork
<1>19. DisplacedInv'
  <2>1. \A u \in Targets : \A d \in displaced[u] : d[2] # Missing
    BY DEF Inv, DisplacedInv
  <2>2. moved # Missing => <<p, moved>> \in displaced[t]
    BY <1>1 DEF Inv, DisplacedInv, moved, t
  <2>3. \A u \in Targets : \A d \in displaced[u] : d[1] = p => pc = "drop" /\ i = u /\ moved = d[2]
    BY <1>2, <1>6, <2>1
  <2>4. pc = "drop" => moved # Missing /\ i = t
    BY <1>6
  <2> QED BY <1>1, <1>6, <1>10, <1>11, <1>13, <1>15, <2>1, <2>2, <2>3, <2>4, WorkKeepsDisplaced
<1>20. FreshInv'
  <2>1. moved \in Seen /\ \A u \in Targets : m.original[u] \in Seen
    BY <1>8 DEF Inv, FreshInv, moved
  <2>2. c \in Seen
    BY <1>2 DEF Seen
  <2>3. \A u \in Targets : file'[u] \in Seen /\ manifest'.original[u] \in Seen
    BY <1>1, <1>12, <2>2 DEF Inv, FreshInv
  <2> QED BY <1>1, <1>10, <1>11, <2>1, <2>3, WorkKeepsFresh
<1>21. \A u \in Targets : owned'[u] \subseteq owned[u]
  <2>1. CASE proc[p].op = "prepare"
    BY <1>5, <2>1
  <2>2. CASE proc[p].op = "sync"
    BY <1>0, <1>2, <1>5, <2>2 DEF TypeOK
  <2> QED BY <1>2, <2>1, <2>2
<1>22. OwnedInv'
  <2>1. proc[p].op = "sync" => moved \notin owned'[t]
    BY <1>0, <1>2, <1>5 DEF TypeOK
  <2>2. pc = "drop" => i = t
    BY <1>6
  <2> QED BY <1>10, <1>11, <1>21, <2>1, <2>2, WorkKeepsOwned
<1>23. NothingLost'
  <2> SUFFICES ASSUME NEW u \in Targets, NEW x \in owned'[u]
               PROVE  x \in {file'[u], manifest.original[u]} \cup {d[2] : d \in displaced[u]}
    BY <1>1 DEF NothingLost
  <2>1. x \in {file[u], manifest.original[u]} \cup {d[2] : d \in displaced[u]} /\ x # Missing
    BY <1>21, WrittenIsNew DEF Inv, NothingLost, OwnedInv
  <2>2. CASE u # t
    BY <1>12, <2>1, <2>2
  <2>3. CASE u = t /\ proc[p].op = "prepare"
    BY <1>14, <2>1, <2>3
  <2>4. CASE u = t /\ proc[p].op = "sync"
    <3>1. x # file[t]
      BY <1>0, <1>2, <1>5, <2>4 DEF TypeOK
    <3> QED BY <2>1, <2>4, <3>1
  <2> QED BY <1>2, <2>2, <2>3, <2>4
<1>24. \A u \in Targets : Before(p, u)' = file'[u] /\ (u # t => Before(p, u) = file[u])
  BY <1>13 DEF Before
<1>25. LeftInv'
  <2>1. \A u \in Targets : Orphaned(u) => Orphaned(u)'
    BY <1>1, <1>10, WorkKeepsOrphans
  <2>2. ASSUME NEW u \in Targets, LeftAt(u, Before(p, u)) PROVE LeftAt(u, Before(p, u))'
    <3>1. CASE u # t
      <4>1. left'[u] = left[u]
        BY <1>0, <1>2, <1>5, <3>1 DEF TypeOK
      <4>2. Before(p, u)' = Before(p, u)
        BY <1>12, <1>24, <3>1
      <4> QED BY <1>1, <2>2, <4>1, <4>2 DEF LeftAt
    <3>2. CASE u = t /\ proc[p].op = "prepare"
      <4>1. Before(p, t) = manifest.original[t]
        BY <1>13, <1>14, <3>2 DEF Before, moved
      <4>2. left[t] = manifest.original[t]
        BY <1>14, <2>2, <3>2, <4>1 DEF LeftAt
      <4> QED BY <1>1, <1>5, <1>14, <3>2, <4>2 DEF LeftAt
    <3>3. CASE u = t /\ proc[p].op = "sync"
      <4>1. left'[t] = IF manifest = NoManifest THEN c ELSE manifest.original[t]
        BY <1>0, <1>2, <1>5, <3>3 DEF TypeOK
      <4>2. Before(p, u)' = c
        BY <1>12, <1>24, <3>3
      <4> QED BY <1>1, <3>3, <4>1, <4>2 DEF LeftAt
    <3> QED BY <1>2, <3>1, <3>2, <3>3
  <2>3. proc'[p].pc \notin Restoring
    BY <1>6, <1>11 DEF Restoring
  <2> QED BY <1>10, <2>1, <2>2, <2>3, WorkKeepsLeft
<1>26. RecordedInv'
  <2>1. RecordedBy(p)
    BY <1>10, <1>15, WorkKeepsRecorded
  <2>2. CASE proc[p].op = "prepare"
    <3>1. disturbed' = disturbed /\ manifest.prepared[t] = Missing
      BY <1>5, <1>14, <2>2
    <3>2. RecordedBy(p)'
      BY <1>1, <1>2, <1>12, <1>24, <2>1, <3>1 DEF RecordedBy
    <3> QED BY <1>10, <1>15, <3>2, WorkKeepsRecorded
  <2>3. CASE proc[p].op = "sync"
    <3>1. disturbed' = (disturbed \/ manifest # NoManifest)
      BY <1>5, <2>3
    <3>2. disturbed' \/ manifest' = NoManifest
      BY <1>1, <3>1
    <3>3. RecordedBy(p)'
      BY <3>2 DEF RecordedBy
    <3> QED BY <1>10, <1>15, <3>3, WorkKeepsRecorded
  <2> QED BY <1>2, <2>2, <2>3
<1> QED BY <1>15, <1>16, <1>17, <1>18, <1>19, <1>20, <1>22, <1>23, <1>25, <1>26 DEF Inv


LEMMA PlaceFailsStep ==
  ASSUME Inv, NEW p \in Procs, PlaceFails(p)
  PROVE  Inv'
<1> DEFINE t == proc[p].i
           c == proc[p].moved
<1>0. TypeOK /\ proc[p] \in Invocations
  BY DEF Inv, TypeOK
<1>1. /\ proc[p].pc = "place" /\ c # Missing /\ kills < MaxKills /\ kills' = kills + 1
      /\ Throws(p)
      /\ source' = source /\ stateRoot' = stateRoot /\ lock' = lock
      /\ manifest' = manifest /\ temps' = temps /\ edits' = edits
      /\ left' = left /\ owned' = owned /\ disturbed' = disturbed
      /\ overlapped' = overlapped /\ robbed' = robbed
  BY DEF PlaceFails, At, state, observed, marks
<1>2. /\ t \in Targets
      /\ proc[p].pc \in Body /\ proc[p].pc \notin Restoring
      /\ \A u \in Targets : \A d \in displaced[u] : d[1] = p => d = <<p, c>> /\ u = t
  BY <1>1, CopyingFacts DEF Copying
<1>3. Aside(p, t) /\ file[t] = Missing
  BY <1>1, <1>2 DEF Inv, DisplacedInv, Aside, At
<1>4. /\ file' = [file EXCEPT ![t] = c]
      /\ displaced' = [displaced EXCEPT ![t] = @ \ {<<p, c>>}]
  BY <1>3 DEF PlaceFails
<1>5. OnlyMoves(p) /\ (Gone(p) \/ Arrives(p, "release")) /\ Works(p)
  BY <1>0, <1>1, <1>2, ThrowsMoves DEF Works
<1>6. /\ proc'[p].pc \in {"exited", "release"} /\ proc'[p].moved \in {Missing, c}
      /\ proc'[p].m \in {NoManifest, proc[p].m}
      /\ proc'[p].pc = "exited" => proc'[p].moved = Missing
  BY <1>5 DEF Gone, Arrives
<1>7. /\ file'[t] = c /\ \A u \in Targets : u # t => file'[u] = file[u]
      /\ displaced'[t] = displaced[t] \ {<<p, c>>}
      /\ \A u \in Targets : u # t => displaced'[u] = displaced[u]
  BY <1>0, <1>2, <1>4 DEF TypeOK
<1>8. \A u \in Targets : ~Aside(p, u)' /\ (Aside(p, u) <=> u = t)
  BY <1>3, <1>6 DEF Aside, At
<1>9. c \in Contents /\ c \in Seen
  BY <1>0 DEF Invocations, Inv, FreshInv
<1>10. \A u \in Targets : Before(p, u)' = Before(p, u)
  BY <1>7, <1>8 DEF Before
<1> HIDE DEF t, c
<1>11. TypeOK'
  <2>1. file' \in [Targets -> Contents]
    BY <1>0, <1>4, <1>9 DEF TypeOK
  <2>2. displaced' \in [Targets -> SUBSET (Procs \X Contents)]
    BY <1>0, <1>2, <1>4 DEF TypeOK
  <2>3. kills' \in 0..MaxKills
    BY <1>0, <1>1, PackageDocsAssumption DEF TypeOK
  <2> QED BY <1>0, <1>1, <1>5, <2>1, <2>2, <2>3 DEF TypeOK, OnlyMoves
<1>12. LockInv'
  BY <1>1, <1>5, <1>6, WorkKeepsLock DEF Body
<1>13. ManifestInv'
  BY <1>1 DEF Inv, ManifestInv
<1>14. WorkInv'
  <2>1. WorkOf(p)'
    BY <1>6 DEF WorkOf, Restoring, Copying, Recording
  <2> QED BY <1>5, <2>1, WorkKeepsWork
<1>15. DisplacedInv'
  <2>1. \A u \in Targets : \A d \in displaced'[u] : d[1] # p /\ d \in displaced[u]
    BY <1>2, <1>7
  <2> QED BY <1>5, <1>6, <1>8, <1>11, <2>1, WorkKeepsDisplaced
<1>16. FreshInv'
  <2>1. Missing \in Seen /\ \A u \in Targets : NoManifest.original[u] \in Seen
    BY DEF Seen, NoManifest, Unprepared
  <2>2. \A u \in Targets : proc'[p].m.original[u] \in Seen
    BY <1>6, <2>1 DEF Inv, FreshInv
  <2>3. \A u \in Targets : file'[u] \in Seen /\ manifest'.original[u] \in Seen
    BY <1>1, <1>7, <1>9 DEF Inv, FreshInv
  <2> QED BY <1>1, <1>5, <1>6, <1>9, <2>1, <2>2, <2>3, WorkKeepsFresh
<1>17. OwnedInv'
  BY <1>1, <1>5, <1>6, WorkKeepsOwned
<1>18. NothingLost'
  <2> SUFFICES ASSUME NEW u \in Targets, NEW x \in owned[u]
               PROVE  x \in {file'[u], manifest.original[u]} \cup {d[2] : d \in displaced'[u]}
    BY <1>1 DEF NothingLost
  <2>1. x \in {file[u], manifest.original[u]} \cup {d[2] : d \in displaced[u]} /\ x # Missing
    BY WrittenIsNew DEF Inv, NothingLost, OwnedInv
  <2>2. CASE u # t
    BY <1>7, <2>1, <2>2
  <2>3. CASE u = t /\ x \in {file[u], manifest.original[u], c}
    BY <1>3, <1>7, <2>1, <2>3
  <2>4. CASE u = t /\ x \notin {file[u], manifest.original[u], c}
    <3>1. PICK d \in displaced[u] : d[2] = x
      BY <2>1, <2>4
    <3>2. d # <<p, c>>
      BY <2>4, <3>1
    <3> QED BY <1>7, <2>4, <3>1, <3>2
  <2> QED BY <2>2, <2>3, <2>4
<1>19. LeftInv'
  <2>1. \A u \in Targets : \A d \in displaced[u] : d[1] # p => d \in displaced'[u]
    BY <1>7
  <2>2. \A u \in Targets : Orphaned(u) => Orphaned(u)'
    BY <1>5, <2>1, WorkKeepsOrphans
  <2>3. \A u \in Targets : LeftAt(u, Before(p, u)) => LeftAt(u, Before(p, u))'
    BY <1>1, <1>10 DEF LeftAt
  <2> QED BY <1>5, <1>6, <2>2, <2>3, WorkKeepsLeft DEF Restoring
<1>20. RecordedInv'
  <2>1. RecordedBy(p)
    BY <1>5, <1>11, WorkKeepsRecorded
  <2>2. RecordedBy(p)'
    BY <1>1, <1>2, <1>10, <2>1 DEF RecordedBy
  <2> QED BY <1>5, <1>11, <2>2, WorkKeepsRecorded
<1> QED BY <1>11, <1>12, <1>13, <1>14, <1>15, <1>16, <1>17, <1>18, <1>19, <1>20 DEF Inv

-----------------------------------------------------------------------------
(* Edits                                                                   *)

LEMMA EditDocumentStep ==
  ASSUME Inv, NEW t \in Targets, EditDocument(t)
  PROVE  Inv'
<1> DEFINE w == edits + 1
<1>0. TypeOK
  BY DEF Inv
<1>1. /\ \A p \in Procs : proc[p].pc \notin Body
      /\ edits < MaxEdits /\ edits' = w
      /\ file' = [file EXCEPT ![t] = w] /\ left' = [left EXCEPT ![t] = w]
      /\ owned' = [owned EXCEPT ![t] = (@ \ {file[t]}) \cup {w}]
      /\ source' = source /\ displaced' = displaced /\ stateRoot' = stateRoot /\ lock' = lock
      /\ manifest' = manifest /\ temps' = temps /\ proc' = proc /\ kills' = kills
      /\ disturbed' = disturbed /\ overlapped' = overlapped /\ robbed' = robbed
  BY DEF EditDocument, Quiet, Written, state
<1>2. /\ w \in 0..MaxEdits /\ w \in Contents /\ w # Missing
      /\ 0..w = 0..edits \cup {w} /\ w \notin 0..edits /\ w \notin Canonical
  <2>1. edits \in Nat /\ MaxEdits \in Nat /\ w \in Nat /\ w <= MaxEdits
    BY <1>0, <1>1, PackageDocsAssumption DEF TypeOK
  <2>2. w \in 0..MaxEdits
    BY <2>1
  <2>3. 0..w = 0..edits \cup {w} /\ w \notin 0..edits
    BY <2>1
  <2> QED BY <2>2, <2>3, WrittenIsNew DEF Contents, Written
<1> HIDE DEF w
<1>3. /\ file'[t] = w /\ left'[t] = w /\ owned'[t] = (owned[t] \ {file[t]}) \cup {w}
      /\ \A u \in Targets : u # t => file'[u] = file[u] /\ left'[u] = left[u] /\ owned'[u] = owned[u]
  BY <1>0, <1>1 DEF TypeOK
<1>4. Seen' = Seen \cup {w} /\ w \notin Seen
  BY <1>1, <1>2 DEF Seen
<1>5. TypeOK'
  <2>1. file' \in [Targets -> Contents] /\ left' \in [Targets -> Contents]
    BY <1>0, <1>1, <1>2 DEF TypeOK
  <2>2. owned' \in [Targets -> SUBSET Contents]
    <3>1. (owned[t] \ {file[t]}) \cup {w} \in SUBSET Contents
      BY <1>0, <1>2 DEF TypeOK
    <3> QED BY <1>0, <1>1, <3>1 DEF TypeOK
  <2> QED BY <1>0, <1>1, <1>2, <2>1, <2>2 DEF TypeOK
<1>6. LockInv'
  BY <1>1 DEF Inv, LockInv, At
<1>7. ManifestInv'
  BY <1>1 DEF Inv, ManifestInv
<1>8. WorkInv'
  BY <1>1 DEF WorkInv, WorkOf, Body, Restoring, Copying, Recording
<1>9. \A p \in Procs : proc[p].pc \notin {"place", "displace", "drop"} \cup Restoring
  BY <1>1 DEF Body
<1>10. \A p \in Procs, u \in Targets : ~Aside(p, u) /\ ~Aside(p, u)'
  BY <1>1, <1>9 DEF Aside, At
<1>11. DisplacedInv'
  <2>1. /\ \A p \in Procs : proc[p].pc \notin {"place", "drop", "release", "releaseLock", "releaseRoot"}
             => proc[p].moved = Missing
        /\ \A u \in Targets : \A d \in displaced[u] :
             /\ d[2] # Missing
             /\ proc[d[1]].pc # "exited" => /\ proc[d[1]].pc \in {"place", "drop"}
                                            /\ proc[d[1]].i = u /\ proc[d[1]].moved = d[2]
    BY DEF Inv, DisplacedInv, At
  <2> QED BY <1>1, <1>9, <1>10, <2>1 DEF DisplacedInv, At
<1>12. FreshInv'
  BY <1>1, <1>3, <1>4 DEF Inv, FreshInv
<1>13. OwnedInv'
  <2>1. \A u \in Targets : owned'[u] \subseteq 0..MaxEdits
    BY <1>2, <1>3 DEF Inv, OwnedInv
  <2> QED BY <1>1, <1>9, <2>1 DEF OwnedInv, At
<1>14. NothingLost'
  <2> SUFFICES ASSUME NEW u \in Targets, NEW x \in owned'[u]
               PROVE  x \in {file'[u], manifest.original[u]} \cup {d[2] : d \in displaced[u]}
    BY <1>1 DEF NothingLost
  <2>1. owned[u] \subseteq {file[u], manifest.original[u]} \cup {d[2] : d \in displaced[u]}
    BY DEF Inv, NothingLost
  <2> QED BY <1>3, <2>1
<1>15. LeftInv'
  <2> SUFFICES ASSUME NEW u \in Targets, ~Orphaned(u)'
               PROVE  \A c \in Contents : IsBefore(u, c)' => LeftAt(u, c)'
    BY <1>1, <1>9 DEF LeftInv
  <2>1. ~Orphaned(u)
    BY <1>1 DEF Orphaned, At
  <2>2. \A c \in Contents : IsBefore(u, c)' => c = file'[u]
    BY <1>10 DEF IsBefore
  <2>3. LeftAt(u, file[u])
    <3>1. file[u] \in Contents /\ IsBefore(u, file[u])
      BY <1>0, <1>10 DEF TypeOK, IsBefore
    <3> QED BY <2>1, <3>1 DEF Inv, LeftInv
  <2>4. LeftAt(u, file[u])'
    BY <1>1, <1>2, <1>3, <2>3 DEF LeftAt
  <2> QED BY <2>2, <2>4 DEF LeftAt
<1>16. RecordedInv'
  <2>1. CASE disturbed \/ manifest = NoManifest
    BY <1>1, <2>1 DEF RecordedInv
  <2>2. CASE ~disturbed /\ manifest # NoManifest
    <3>1. \A u \in Targets, c \in Contents :
            IsBefore(u, c) /\ manifest.prepared[u] # Missing =>
              c = manifest.sourceHash[u] \/ c # manifest.original[u]
      BY <1>9, <2>2 DEF Inv, RecordedInv
    <3>2. \A u \in Targets, c \in Contents : IsBefore(u, c)' => c = file'[u]
      BY <1>10 DEF IsBefore
    <3>3. \A u \in Targets : IsBefore(u, file[u]) /\ file[u] \in Contents
      BY <1>0, <1>10 DEF IsBefore, TypeOK
    <3>4. w # manifest.original[t]
      BY <1>4 DEF Inv, FreshInv
    <3>5. \A u \in Targets : manifest.prepared[u] # Missing =>
            file'[u] = manifest.sourceHash[u] \/ file'[u] # manifest.original[u]
      BY <1>3, <3>1, <3>3, <3>4
    <3>6. \A u \in Targets, c \in Contents :
            IsBefore(u, c)' /\ manifest.prepared[u] # Missing =>
              c = manifest.sourceHash[u] \/ c # manifest.original[u]
      BY <3>2, <3>5
    <3>7. Contents' = Contents
      BY DEF Contents
    <3> QED BY <1>1, <3>6, <3>7 DEF RecordedInv
  <2> QED BY <2>1, <2>2
<1> QED BY <1>5, <1>6, <1>7, <1>8, <1>11, <1>12, <1>13, <1>14, <1>15, <1>16 DEF Inv

LEMMA EditSourceStep ==
  ASSUME Inv, NEW t \in Targets, NEW c \in Canonical, EditSource(t, c)
  PROVE  Inv'
<1>1. /\ edits < MaxEdits /\ edits' = edits + 1 /\ source' = [source EXCEPT ![t] = c]
      /\ file' = file /\ displaced' = displaced /\ stateRoot' = stateRoot /\ lock' = lock
      /\ manifest' = manifest /\ temps' = temps /\ proc' = proc /\ kills' = kills
      /\ left' = left /\ owned' = owned /\ disturbed' = disturbed
      /\ overlapped' = overlapped /\ robbed' = robbed
  BY DEF EditSource, state, observed, marks
<1>2. edits' \in 0..MaxEdits /\ Seen \subseteq Seen'
  <2>1. edits \in Nat /\ MaxEdits \in Nat
    BY PackageDocsAssumption DEF Inv, TypeOK
  <2>2. 0..edits \subseteq 0..edits'
    BY <1>1, <2>1
  <2>3. edits' \in 0..MaxEdits
    BY <1>1, <2>1
  <2> QED BY <2>2, <2>3 DEF Seen
<1>3. TypeOK'
  BY <1>1, <1>2 DEF Inv, TypeOK
<1>4. LockInv' /\ ManifestInv' /\ OwnedInv' /\ NothingLost'
  BY <1>1 DEF Inv, LockInv, ManifestInv, OwnedInv, NothingLost, At
<1>5. WorkInv'
  BY SMTT(60), <1>1 DEF Inv, WorkInv, WorkOf, PrepareInv, RestoreInv, Extends, Aside, At
<1>6. DisplacedInv'
  BY <1>1 DEF Inv, DisplacedInv, Aside, At
<1>7. FreshInv'
  BY <1>1, <1>2 DEF Inv, FreshInv
<1>8. LeftInv'
  BY <1>1 DEF Inv, LeftInv, LeftAt, IsBefore, Orphaned, Aside, At
<1>9. RecordedInv'
  BY <1>1 DEF Inv, RecordedInv, IsBefore, Aside, At
<1> QED BY <1>3, <1>4, <1>5, <1>6, <1>7, <1>8, <1>9 DEF Inv


-----------------------------------------------------------------------------
(* Every step, until a lock is taken from a live process                   *)

LEMMA InitInv == Init => Inv
<1> SUFFICES ASSUME Init PROVE Inv
  OBVIOUS
<1>1. /\ file \in [Targets -> {Missing, Written(0)}]
      /\ \E c \in Canonical : source = [t \in Targets |-> c]
      /\ displaced = [t \in Targets |-> {}]
      /\ stateRoot = FALSE /\ lock = Free /\ manifest = NoManifest /\ temps = {}
      /\ proc = [p \in Procs |-> Idle]
      /\ kills = 0 /\ edits = 0 /\ left = file
      /\ owned = [t \in Targets |-> {file[t]} \ {Missing}]
      /\ disturbed = FALSE /\ overlapped = FALSE /\ robbed = {}
  BY DEF Init
<1>2. 0 \in 0..MaxEdits /\ 0 \in 0..MaxKills /\ Free \notin Procs /\ 0 \in 0..0
  BY PackageDocsAssumption DEF Free, Procs
<1>3. {Missing, Written(0)} \subseteq Contents /\ {Missing, Written(0)} \subseteq Seen
  BY <1>1, <1>2 DEF Contents, Seen, Written
<1>4. \A p \in Procs : /\ proc[p] = Idle /\ proc[p].pc = "unused" /\ proc[p].moved = Missing
                       /\ proc[p].m = NoManifest
  BY <1>1 DEF Idle
<1>5. file \in [Targets -> Contents]
  BY <1>1, <1>3
<1>6. source \in [Targets -> Canonical]
  BY <1>1
<1>7. owned \in [Targets -> SUBSET Contents]
  BY <1>1, <1>5
<1>8. displaced \in [Targets -> SUBSET (Procs \X Contents)]
  BY <1>1
<1>9. TypeOK
  BY <1>1, <1>2, <1>5, <1>6, <1>7, <1>8, InitialTypes DEF TypeOK, Owners
<1>10. LockInv
  BY <1>1, <1>2, <1>4 DEF LockInv, Holding, Handing, Body, Restoring, At
<1>11. ManifestInv
  BY <1>1 DEF ManifestInv
<1>12. WorkInv
  BY <1>4 DEF WorkInv, WorkOf, Restoring, Copying, Recording
<1>13. DisplacedInv
  BY <1>1, <1>4 DEF DisplacedInv, Aside, At
<1>14. FreshInv
  <2>1. \A t \in Targets : NoManifest.original[t] = Missing
    BY DEF NoManifest, Unprepared
  <2> QED BY <1>1, <1>3, <1>4, <2>1 DEF FreshInv, Seen
<1>15. OwnedInv
  BY <1>1, <1>2, <1>4 DEF OwnedInv, At, Written
<1>16. NothingLost
  BY <1>1 DEF NothingLost
<1>17. \A p \in Procs, t \in Targets : ~Aside(p, t)
  BY <1>4 DEF Aside, At
<1>18. LeftInv
  BY <1>1, <1>4, <1>17 DEF LeftInv, LeftAt, IsBefore, Restoring
<1>19. RecordedInv
  BY <1>1 DEF RecordedInv
<1> QED BY <1>9, <1>10, <1>11, <1>12, <1>13, <1>14, <1>15, <1>16, <1>18, <1>19 DEF Inv

\* Nobody who lost his lock gets it back.
LEMMA RobbedStays ==
  ASSUME TypeOK, NEW p \in Procs, Step(p)
  PROVE  robbed \subseteq robbed' /\ (WorkStep(p) => robbed' = robbed)
<1>1. LockStep(p) => robbed \subseteq robbed'
  BY DEF LockStep, Call, CallAgain, Exit, Look, SameOwner, UnlinkOwner, RemoveLock, MakeLock,
         WriteOwner, ReleaseOwner, ReleaseLock, ReleaseRoot, EndsUnfollowed, Kill, observed
<1>2. WorkStep(p) => robbed' = robbed
  BY DEF WorkStep, Begin, Verify, RemoveTarget, RewriteTarget, UnlinkManifest, Snapshot,
         RenameManifest, Copy, Displace, Place, PlaceFails, DropDisplaced, RecordEntry, observed
<1> QED BY <1>1, <1>2 DEF Step

LEMMA StepInv ==
  ASSUME Inv, NEW p \in Procs, Step(p), robbed' = {}
  PROVE  Inv'
<1>0. TypeOK /\ LockInv /\ DisplacedInv /\ ~EndsUnfollowed(p)
  BY RobbedStays DEF Inv, EndsUnfollowed
<1>1. ASSUME NEW op \in {"prepare", "cleanup", "sync", "check"}, Call(p, op) PROVE Inv'
  BY <1>0, <1>1, CallStep, AwayKeeps
<1>2. ASSUME NEW op \in {"prepare", "cleanup"}, CallAgain(p, op) PROVE Inv'
  BY <1>0, <1>2, CallAgainStep, AwayKeeps
<1>3. CASE Exit(p)
  BY <1>0, <1>3, ExitStep, AwayKeeps
<1>4. CASE Look(p)
  BY <1>0, <1>4, LookStep, AwayKeeps
<1>5. CASE SameOwner(p)
  BY <1>0, <1>5, SameOwnerStep, AwayKeeps
<1>6. CASE UnlinkOwner(p)
  BY <1>0, <1>6, UnlinkOwnerStep, AwayKeeps
<1>7. CASE RemoveLock(p)
  BY <1>0, <1>7, RemoveLockStep, AwayKeeps
<1>8. CASE MakeLock(p)
  BY <1>0, <1>8, MakeLockStep, AwayKeeps
<1>9. CASE WriteOwner(p)
  BY <1>0, <1>9, WriteOwnerStep, AwayKeeps
<1>10. CASE ReleaseOwner(p)
  BY <1>0, <1>10, ReleaseOwnerStep, AwayKeeps
<1>11. CASE ReleaseLock(p)
  BY <1>0, <1>11, ReleaseLockStep, AwayKeeps
<1>12. CASE ReleaseRoot(p)
  BY <1>0, <1>12, ReleaseRootStep, AwayKeeps
<1>13. CASE Begin(p)
  BY <1>13, BeginStep
<1>14. CASE Verify(p)
  BY <1>14, VerifyStep
<1>15. CASE RemoveTarget(p)
  BY <1>15, RemoveTargetStep
<1>16. CASE RewriteTarget(p)
  BY <1>16, RewriteTargetStep
<1>17. CASE UnlinkManifest(p)
  BY <1>17, UnlinkManifestStep
<1>18. CASE Snapshot(p)
  BY <1>18, SnapshotStep
<1>19. CASE RenameManifest(p)
  BY <1>19, RenameManifestStep
<1>20. CASE Copy(p)
  BY <1>20, CopyStep
<1>21. CASE Displace(p)
  BY <1>21, DisplaceStep
<1>22. CASE Place(p)
  BY <1>22, PlaceStep
<1>23. CASE PlaceFails(p)
  BY <1>23, PlaceFailsStep
<1>24. CASE DropDisplaced(p)
  BY <1>24, DropDisplacedStep
<1>25. CASE RecordEntry(p)
  BY <1>25, RecordEntryStep
<1>26. CASE Kill(p)
  BY <1>0, <1>26, KillStep, AwayKeeps
<1>27. CASE LockStep(p)
  BY <1>0, <1>1, <1>2, <1>3, <1>4, <1>5, <1>6, <1>7, <1>8, <1>9, <1>10, <1>11, <1>12, <1>26, <1>27
     DEF LockStep
<1>28. CASE WorkStep(p)
  BY <1>13, <1>14, <1>15, <1>16, <1>17, <1>18, <1>19, <1>20, <1>21, <1>22, <1>23, <1>24, <1>25,
     <1>28 DEF WorkStep
<1> QED BY <1>27, <1>28 DEF Step

LEMMA StutterInv ==
  ASSUME Inv, UNCHANGED vars
  PROVE  Inv'
<1>1. /\ file' = file /\ source' = source /\ displaced' = displaced
      /\ stateRoot' = stateRoot /\ lock' = lock /\ manifest' = manifest /\ temps' = temps
      /\ proc' = proc /\ kills' = kills /\ edits' = edits
      /\ left' = left /\ owned' = owned /\ disturbed' = disturbed
      /\ overlapped' = overlapped /\ robbed' = robbed
  BY DEF vars, disk, state, observed, marks
<1>2. TypeOK' /\ LockInv' /\ ManifestInv' /\ OwnedInv' /\ NothingLost'
  BY <1>1 DEF Inv, TypeOK, LockInv, ManifestInv, OwnedInv, NothingLost, At
<1>3. WorkInv'
  BY SMTT(60), <1>1 DEF Inv, WorkInv, WorkOf, PrepareInv, RestoreInv, Extends, Aside, At
<1>4. DisplacedInv' /\ FreshInv'
  BY <1>1 DEF Inv, DisplacedInv, FreshInv, Seen, Aside, At
<1>5. LeftInv' /\ RecordedInv'
  BY <1>1 DEF Inv, LeftInv, RecordedInv, LeftAt, IsBefore, Orphaned, Aside, At
<1> QED BY <1>2, <1>3, <1>4, <1>5 DEF Inv

-----------------------------------------------------------------------------
(* What holds of the lock although a live process may lose it              *)

\* An error, or a place outside of the lock's taking over, passes it on.
LEMMA ThrowsPasses ==
  ASSUME TypeOK, ExclusionInv, NEW p \in Procs, Throws(p), ~At(p, "exited"), lock' = lock,
         robbed' = robbed, overlapped => overlapped'
  PROVE  ExclusionInv' /\ OnlyMoves(p)
<1>1. OnlyMoves(p) /\ (Gone(p) \/ (Arrives(p, "release") /\ proc[p].pc \in Body))
  BY ThrowsMoves
<1>2. /\ proc'[p].pc \in {"exited", "release"}
      /\ proc'[p].pc = "release" => proc[p].pc \in Holding
  BY <1>1 DEF Gone, Arrives, Holding
<1>3. proc'[p].pc \in Holding => proc[p].pc \in Holding
  BY <1>2 DEF Holding, Body, Restoring
<1>4. proc'[p].pc \notin {"claim", "unlink", "unused"}
  BY <1>2
<1>5. ExclusionInv'
  BY <1>1, <1>3, <1>4, PassesOn
<1> QED BY <1>1, <1>5

\* The types after a step at the lock.
LEMMA LockingTypes ==
  ASSUME TypeOK, NEW p \in Procs, OnlyMoves(p), lock' \in Owners,
         UNCHANGED <<disk, stateRoot, manifest, temps, kills, edits, marks>>,
         overlapped' \in BOOLEAN, robbed' \subseteq Procs
  PROVE  TypeOK'
<1>1. /\ UNCHANGED <<disk, manifest, edits, left, owned>> /\ disturbed' = disturbed
      /\ temps' = temps /\ kills' = kills /\ stateRoot' = stateRoot
  BY DEF marks
<1>2. /\ stateRoot' \in BOOLEAN /\ (manifest # NoManifest => stateRoot')
      /\ temps' \subseteq Procs /\ kills' \in 0..MaxKills /\ disturbed' \in BOOLEAN
  BY <1>1 DEF TypeOK
<1> QED BY <1>1, <1>2, MovingKeepsTypes

LEMMA CallExcludes ==
  ASSUME TypeOK, ExclusionInv, NEW p \in Procs,
         NEW op \in {"prepare", "cleanup", "sync", "check"}, Call(p, op)
  PROVE  TypeOK' /\ ExclusionInv'
<1> DEFINE pc == IF op = "cleanup" /\ ~stateRoot THEN "exited" ELSE "look"
           r == [Idle EXCEPT !.pc = pc, !.op = op]
<1>1. /\ r \in Invocations /\ r.pc = pc
  BY ZenonT(120), InitialTypes DEF Idle, Invocations, Places, Ended
<1>2. proc' = [proc EXCEPT ![p] = r]
  BY DEF Call
<1>3. OnlyMoves(p) /\ proc'[p] = r
  <2> HIDE DEF r
  <2> QED BY <1>1, <1>2, RecordMoves
<1>4. proc'[p].pc \in {"exited", "look"}
  BY <1>1, <1>3
<1> HIDE DEF r, pc
<1>5. At(p, "unused") /\ UNCHANGED <<disk, lock, manifest, temps, kills, edits, observed>>
      /\ stateRoot' = (stateRoot \/ op # "cleanup")
  BY DEF Call, IsFree, At
<1>6. stateRoot' \in BOOLEAN /\ (stateRoot => stateRoot')
  BY <1>5 DEF TypeOK
<1>7. TypeOK'
  BY <1>3, <1>5, <1>6, MovingKeepsTypes, ObservedStays DEF TypeOK, disk
<1>8. ExclusionInv'
  BY <1>3, <1>4, <1>5, PassesOn, ObservedStays DEF Holding, Body, Restoring, At
<1> QED BY <1>7, <1>8

LEMMA CallAgainExcludes ==
  ASSUME TypeOK, ExclusionInv, NEW p \in Procs, NEW op \in {"prepare", "cleanup"},
         CallAgain(p, op)
  PROVE  TypeOK' /\ ExclusionInv'
<1> DEFINE r == [proc[p] EXCEPT !.pc = "locked", !.op = op]
<1>1. proc[p] \in Invocations /\ proc \in [Procs -> Invocations]
  BY DEF TypeOK
<1>2. /\ r \in Invocations /\ r.pc = "locked"
  BY <1>1 DEF Invocations, Places, Body
<1>3. proc' = [proc EXCEPT ![p] = r]
  BY <1>1 DEF CallAgain
<1>4. OnlyMoves(p) /\ proc'[p].pc = "locked"
  <2> HIDE DEF r
  <2> QED BY <1>2, <1>3, RecordMoves
<1> HIDE DEF r
<1>5. /\ UNCHANGED <<disk, stateRoot, manifest, temps, kills, edits, observed>>
      /\ lock' = lock /\ proc[p].pc = "returned"
  BY DEF CallAgain, state, At
<1>6. lock' \in Owners
  BY <1>5 DEF TypeOK
<1>7. TypeOK'
  BY <1>4, <1>5, <1>6, LockingTypes, ObservedStays
<1>8. ExclusionInv'
  BY <1>4, <1>5, PassesOn, ObservedStays DEF Holding, At
<1> QED BY <1>7, <1>8

\* Who is looked up as dead stays so.
LEMMA LookExcludes ==
  ASSUME TypeOK, ExclusionInv, NEW p \in Procs, Look(p)
  PROVE  TypeOK' /\ ExclusionInv'
<1>1. /\ proc[p].pc = "look" /\ lock' = lock /\ lock' \in Owners
      /\ UNCHANGED <<disk, stateRoot, manifest, temps, kills, edits, observed>>
  BY DEF Look, At, state, TypeOK
<1>2. CASE Throws(p)
  BY <1>1, <1>2, ThrowsPasses, LockingTypes, ObservedStays DEF At
<1>3. CASE Goes(p, "mkdir")
  <2>1. OnlyMoves(p) /\ proc'[p].pc = "mkdir"
    BY <1>3, GoesMoves DEF Places, Arrives
  <2>2. TypeOK'
    BY <1>1, <2>1, LockingTypes, ObservedStays
  <2>3. ExclusionInv'
    BY <1>1, <2>1, PassesOn, ObservedStays DEF Holding, Body, Restoring, At
  <2> QED BY <2>2, <2>3
<1>4. CASE /\ lock \in Procs /\ TRUE \in canClaimOwner(lock)
           /\ proc' = [proc EXCEPT ![p].pc = "claim", ![p].seen = lock]
  <2> DEFINE r == [proc[p] EXCEPT !.pc = "claim", !.seen = lock]
  <2>1. proc[p] \in Invocations /\ proc \in [Procs -> Invocations]
    BY DEF TypeOK
  <2>2. r \in Invocations /\ r.pc = "claim" /\ r.seen = lock
    BY <1>4, <2>1 DEF Invocations, Places
  <2>3. proc' = [proc EXCEPT ![p] = r]
    BY <1>4, <2>1
  <2>4. OnlyMoves(p) /\ proc'[p].pc = "claim" /\ proc'[p].seen = lock
    <3> HIDE DEF r
    <3> QED BY <2>2, <2>3, RecordMoves
  <2> HIDE DEF r
  <2>5. \A q \in Procs : q # p => proc'[q] = proc[q]
    BY <2>4 DEF OnlyMoves
  <2>6. lock \notin Alive
    BY <1>4 DEF canClaimOwner
  <2>7. proc[lock].pc = "exited" /\ lock # p /\ proc'[lock].pc = "exited"
    BY <1>1, <1>4, <2>5, <2>6 DEF Alive, Ended, ExclusionInv, At
  <2>8. TypeOK'
    BY <1>1, <2>4, LockingTypes, ObservedStays
  <2>9. robbed' = robbed /\ overlapped' = overlapped
    BY <1>1, ObservedStays
  <2>10. \A q \in Procs \ robbed' : proc'[q].pc \in Holding => lock' = q
    BY <1>1, <2>4, <2>5, <2>9 DEF ExclusionInv, Holding, Body, Restoring
  <2>11. \A q \in Procs : proc'[q].pc \in {"claim", "unlink"} =>
           proc'[q].seen \in Procs /\ proc'[proc'[q].seen].pc = "exited"
    <3>1. \A q \in Procs : q # p /\ proc[q].pc \in {"claim", "unlink"} =>
            proc[q].seen \in Procs /\ proc[q].seen # p /\ proc[proc[q].seen].pc = "exited"
      BY <1>1 DEF ExclusionInv, At
    <3>2. \A q \in Procs : q # p /\ proc'[q].pc \in {"claim", "unlink"} =>
            proc'[q].seen \in Procs /\ proc'[proc'[q].seen].pc = "exited"
      BY <2>5, <3>1
    <3> QED BY <1>4, <2>4, <2>7, <3>2
  <2>12. ~overlapped' =>
           /\ \A q \in Procs : proc'[q].pc = "unlink" => lock' = proc'[q].seen
           /\ \A q, s \in Procs : proc'[q].pc = "unlink" /\ proc'[s].pc = "unlink" => q = s
    BY <1>1, <2>4, <2>5, <2>9 DEF ExclusionInv, At
  <2>13. robbed' # {} => overlapped'
    BY <2>9 DEF ExclusionInv
  <2>14. ExclusionInv'
    BY <1>1, <2>7, <2>10, <2>11, <2>12, <2>13 DEF ExclusionInv, At
  <2> QED BY <2>8, <2>14
<1> QED BY <1>2, <1>3, <1>4 DEF Look

\* Two that read the same stale owner are noted before either of them removes it.
LEMMA SameOwnerExcludes ==
  ASSUME TypeOK, ExclusionInv, NEW p \in Procs, SameOwner(p)
  PROVE  TypeOK' /\ ExclusionInv'
<1>1. /\ proc[p].pc = "claim" /\ lock' = lock /\ lock' \in Owners /\ robbed' = robbed
      /\ robbed' \subseteq Procs
      /\ UNCHANGED <<disk, stateRoot, manifest, temps, kills, edits, marks>>
      /\ overlapped' \in BOOLEAN /\ (overlapped => overlapped')
  BY DEF SameOwner, At, state, TypeOK
<1>2. CASE Throws(p)
  BY <1>1, <1>2, ThrowsPasses, LockingTypes DEF At
<1>3. CASE lock = proc[p].seen /\ Goes(p, "unlink")
  <2>1. OnlyMoves(p) /\ proc'[p].pc = "unlink" /\ proc'[p].seen = proc[p].seen
    BY <1>3, GoesMoves DEF Places, Arrives
  <2>2. \A q \in Procs : q # p => proc'[q] = proc[q]
    BY <2>1 DEF OnlyMoves
  <2>3. lock \in Procs /\ proc[lock].pc = "exited" /\ lock # p
    BY <1>1, <1>3 DEF ExclusionInv, At
  <2>4. TypeOK'
    BY <1>1, <2>1, LockingTypes
  <2>5. \A q \in Procs \ robbed' : proc'[q].pc \in Holding => lock' = q
    BY <1>1, <2>1, <2>2 DEF ExclusionInv, Holding, Body, Restoring
  <2>6. \A q \in Procs : proc'[q].pc \in {"claim", "unlink"} =>
          proc'[q].seen \in Procs /\ proc'[proc'[q].seen].pc = "exited"
    BY <1>1, <1>3, <2>1, <2>2, <2>3 DEF ExclusionInv, At
  <2>7. ~overlapped' => ~overlapped /\ \A q \in Procs : ~(At(q, "unlink") /\ proc[q].seen = lock)
    BY <1>3 DEF SameOwner
  <2>8. ~overlapped' => \A q \in Procs : ~At(q, "unlink")
    BY <2>7 DEF ExclusionInv
  <2>9. ~overlapped' =>
          /\ \A q \in Procs : proc'[q].pc = "unlink" => lock' = proc'[q].seen
          /\ \A q, s \in Procs : proc'[q].pc = "unlink" /\ proc'[s].pc = "unlink" => q = s
    BY <1>1, <1>3, <2>1, <2>2, <2>8 DEF At
  <2>10. lock' \in Procs => proc'[lock'].pc # "unused"
    BY <1>1, <2>2, <2>3
  <2>11. robbed' # {} => overlapped'
    BY <1>1 DEF ExclusionInv
  <2>12. ExclusionInv'
    BY <2>5, <2>6, <2>9, <2>10, <2>11 DEF ExclusionInv, At
  <2> QED BY <2>4, <2>12
<1> QED BY <1>2, <1>3 DEF SameOwner, StillStale

\* Only one of two that were about to remove the same stale lock removes another.
LEMMA UnlinkOwnerExcludes ==
  ASSUME TypeOK, ExclusionInv, NEW p \in Procs, UnlinkOwner(p)
  PROVE  TypeOK' /\ ExclusionInv'
<1>1. /\ proc[p].pc = "unlink" /\ proc[p].seen \in Procs /\ proc[proc[p].seen].pc = "exited"
      /\ UNCHANGED <<disk, stateRoot, manifest, temps, kills, edits, marks>>
      /\ overlapped' = overlapped /\ overlapped' \in BOOLEAN
  BY DEF UnlinkOwner, ExclusionInv, At, TypeOK
<1>2. CASE lock \notin Procs
  <2>1. lock' = lock /\ robbed' = robbed /\ Throws(p) /\ lock' \in Owners /\ robbed' \subseteq Procs
    BY <1>2 DEF UnlinkOwner, TypeOK
  <2> QED BY <1>1, <2>1, ThrowsPasses, LockingTypes DEF At
<1>3. CASE lock \in Procs
  <2> DEFINE r == [proc[p] EXCEPT !.pc = "rmdir", !.seen = Free]
  <2>1. lock' = Unowned /\ robbed' = robbed \cup ({lock} \ {proc[p].seen})
    BY <1>3 DEF UnlinkOwner
  <2>2. proc[p] \in Invocations /\ proc \in [Procs -> Invocations]
    BY DEF TypeOK
  <2>3. r \in Invocations /\ r.pc = "rmdir"
    BY <2>2 DEF Invocations, Places
  <2>4. proc' = [proc EXCEPT ![p] = r]
    BY <1>3, <2>2 DEF UnlinkOwner
  <2>5. OnlyMoves(p) /\ proc'[p].pc = "rmdir"
    <3> HIDE DEF r
    <3> QED BY <2>3, <2>4, RecordMoves
  <2> HIDE DEF r
  <2>6. \A q \in Procs : q # p => proc'[q] = proc[q]
    BY <2>5 DEF OnlyMoves
  <2>7. TypeOK'
    <3>1. robbed' \subseteq Procs /\ lock' \in Owners
      BY <1>3, <2>1 DEF TypeOK, Owners
    <3> QED BY <1>1, <2>5, <3>1, LockingTypes
  <2>8. Unowned \notin Procs
    BY PackageDocsAssumption DEF Unowned, Procs
  <2>9. \A q \in Procs \ robbed' : proc'[q].pc \notin Holding
    <3> SUFFICES ASSUME NEW q \in Procs \ robbed', proc'[q].pc \in Holding PROVE FALSE
      OBVIOUS
    <3>1. proc[q].pc \in Holding /\ q \notin robbed
      BY <2>1, <2>5, <2>6 DEF Holding, Body, Restoring
    <3>2. lock = q
      BY <3>1 DEF ExclusionInv
    <3>3. q = proc[p].seen
      BY <2>1, <3>2
    <3> QED BY <1>1, <3>1, <3>3 DEF Holding, Body, Restoring
  <2>10. \A q \in Procs : proc'[q].pc \in {"claim", "unlink"} =>
           proc'[q].seen \in Procs /\ proc'[proc'[q].seen].pc = "exited"
    BY <1>1, <2>5, <2>6 DEF ExclusionInv, At
  <2>11. ~overlapped' => \A q \in Procs : proc'[q].pc # "unlink"
    BY <1>1, <2>5, <2>6 DEF ExclusionInv, At
  <2>12. robbed' # {} => overlapped'
    BY <1>1, <2>1 DEF ExclusionInv, At
  <2>13. ExclusionInv'
    BY <2>1, <2>8, <2>9, <2>10, <2>11, <2>12 DEF ExclusionInv, At
  <2> QED BY <2>7, <2>13
<1> QED BY <1>2, <1>3

\* The other steps that change the lock find nobody's or the process's own.
LEMMA LockingExcludes ==
  ASSUME TypeOK, ExclusionInv, NEW p \in Procs,
         \/ RemoveLock(p) \/ MakeLock(p) \/ WriteOwner(p) \/ ReleaseOwner(p) \/ ReleaseLock(p)
  PROVE  TypeOK' /\ ExclusionInv'
<1> DEFINE At1 == {"rmdir", "mkdir", "own", "release", "releaseLock"}
           At2 == {"look", "own", "locked", "releaseLock", "releaseRoot"}
<1>1. /\ proc[p].pc \in At1
      /\ UNCHANGED <<disk, stateRoot, manifest, temps, kills, edits, observed>>
  BY DEF RemoveLock, MakeLock, WriteOwner, ReleaseOwner, ReleaseLock, At
<1>2. \/ lock' = lock /\ (Throws(p) \/ Exits(p) \/ Goes(p, "look"))
      \/ /\ lock \notin Procs \/ lock = p
         /\ \/ lock' \in {Free, Unowned} /\ \E pc \in At2 \ {"locked"} : Goes(p, pc)
            \/ lock' = p /\ Goes(p, "locked")
  <2>1. Unowned \notin Procs /\ Free \notin Procs
    BY PackageDocsAssumption DEF Unowned, Procs, Free
  <2>2. CASE RemoveLock(p)
    BY <2>1, <2>2 DEF RemoveLock
  <2>3. CASE MakeLock(p)
    BY <2>1, <2>3 DEF MakeLock
  <2>4. CASE WriteOwner(p)
    BY <2>1, <2>4 DEF WriteOwner
  <2>5. CASE ReleaseOwner(p)
    BY <2>5 DEF ReleaseOwner
  <2>6. CASE ReleaseLock(p)
    BY <2>1, <2>6 DEF ReleaseLock
  <2> QED BY <2>2, <2>3, <2>4, <2>5, <2>6
<1>3. At2 \subseteq Places
  BY DEF Places, Body
<1>4. ~At(p, "exited") /\ lock \in Owners /\ p \in Owners /\ {Free, Unowned} \subseteq Owners
  BY <1>1 DEF At, TypeOK, Owners
<1>5. CASE lock' = lock /\ Throws(p)
  BY <1>1, <1>4, <1>5, ThrowsPasses, LockingTypes, ObservedStays
<1>6. CASE lock' = lock /\ Exits(p)
  <2>1. OnlyMoves(p) /\ proc'[p].pc = "exited"
    BY <1>6, ExitsMoves DEF Gone
  <2>2. ExclusionInv'
    BY <1>1, <1>4, <1>6, <2>1, PassesOn, ObservedStays DEF Holding, Body, Restoring
  <2> QED BY <1>1, <1>4, <1>6, <2>1, <2>2, LockingTypes, ObservedStays
<1>7. CASE lock' = lock /\ Goes(p, "look")
  <2>1. OnlyMoves(p) /\ proc'[p].pc = "look"
    BY <1>3, <1>7, GoesMoves DEF Arrives
  <2>2. ExclusionInv'
    BY <1>1, <1>4, <1>7, <2>1, PassesOn, ObservedStays DEF Holding, Body, Restoring
  <2> QED BY <1>1, <1>4, <1>7, <2>1, <2>2, LockingTypes, ObservedStays
<1>8. CASE /\ lock \notin Procs \/ lock = p
           /\ lock' \in {Free, Unowned} /\ \E pc \in At2 \ {"locked"} : Goes(p, pc)
  <2>1. PICK pc \in At2 \ {"locked"} : Goes(p, pc)
    BY <1>8
  <2>2. OnlyMoves(p) /\ proc'[p].pc = pc
    BY <1>3, <2>1, GoesMoves DEF Arrives
  <2>3. proc'[p].pc \notin Holding /\ proc'[p].pc \notin {"claim", "unlink", "unused"}
    BY <2>2 DEF Holding, Body, Restoring
  <2>4. ExclusionInv'
    BY <1>1, <1>4, <1>8, <2>2, <2>3, LockChanges, ObservedStays
  <2> QED BY <1>1, <1>4, <1>8, <2>2, <2>4, LockingTypes, ObservedStays
<1>9. CASE (lock \notin Procs \/ lock = p) /\ lock' = p /\ Goes(p, "locked")
  <2>1. OnlyMoves(p) /\ proc'[p].pc = "locked"
    BY <1>3, <1>9, GoesMoves DEF Arrives
  <2>2. ExclusionInv'
    BY <1>1, <1>4, <1>9, <2>1, LockChanges, ObservedStays
  <2> QED BY <1>1, <1>4, <1>9, <2>1, <2>2, LockingTypes, ObservedStays
<1> QED BY <1>2, <1>5, <1>6, <1>7, <1>8, <1>9

\* Ending, well, with an error or by being killed, leaves the lock alone.
LEMMA EndingExcludes ==
  ASSUME TypeOK, ExclusionInv, NEW p \in Procs,
         Exit(p) \/ ReleaseRoot(p) \/ EndsUnfollowed(p) \/ Kill(p)
  PROVE  TypeOK' /\ ExclusionInv'
<1>1. CASE Exit(p) \/ EndsUnfollowed(p)
  <2>1. /\ UNCHANGED <<disk, stateRoot, manifest, temps, kills, edits, observed>>
        /\ lock' = lock /\ lock' \in Owners /\ ~At(p, "exited")
    BY <1>1 DEF Exit, EndsUnfollowed, state, At, TypeOK, Body, Restoring
  <2>2. \/ Throws(p) \/ Exits(p)
        \/ Goes(p, "returned") /\ proc[p].pc \in Holding
    BY <1>1 DEF Exit, EndsUnfollowed, Holding
  <2>3. CASE Throws(p)
    BY <2>1, <2>3, ThrowsPasses, LockingTypes, ObservedStays
  <2>4. CASE Exits(p)
    <3>1. OnlyMoves(p) /\ proc'[p].pc = "exited"
      BY <2>4, ExitsMoves DEF Gone
    <3>2. ExclusionInv'
      BY <2>1, <3>1, PassesOn, ObservedStays DEF Holding, Body, Restoring
    <3> QED BY <2>1, <3>1, <3>2, LockingTypes, ObservedStays
  <2>5. CASE Goes(p, "returned") /\ proc[p].pc \in Holding
    <3>1. OnlyMoves(p) /\ proc'[p].pc = "returned"
      BY <2>5, GoesMoves DEF Places, Arrives
    <3>2. ExclusionInv'
      BY <2>1, <2>5, <3>1, PassesOn, ObservedStays
    <3> QED BY <2>1, <3>1, <3>2, LockingTypes, ObservedStays
  <2> QED BY <2>2, <2>3, <2>4, <2>5
<1>2. CASE ReleaseRoot(p)
  <2>1. /\ UNCHANGED <<disk, lock, manifest, temps, kills, edits, observed>>
        /\ ~At(p, "exited") /\ Exits(p)
        /\ \/ stateRoot' = (stateRoot /\ ~(lock = Free /\ manifest = NoManifest /\ temps = {}))
           \/ stateRoot' = stateRoot
    BY <1>2 DEF ReleaseRoot, At
  <2>2. OnlyMoves(p) /\ proc'[p].pc = "exited"
    BY <2>1, ExitsMoves DEF Gone
  <2>3. ExclusionInv'
    BY <2>1, <2>2, PassesOn, ObservedStays DEF Holding, Body, Restoring
  <2>4. stateRoot' \in BOOLEAN /\ (manifest # NoManifest => stateRoot')
    <3>1. stateRoot \in BOOLEAN /\ (manifest # NoManifest => stateRoot)
      BY DEF TypeOK
    <3>2. CASE stateRoot' = stateRoot
      BY <3>1, <3>2
    <3>3. CASE stateRoot' = (stateRoot /\ ~(lock = Free /\ manifest = NoManifest /\ temps = {}))
      BY <3>1, <3>3
    <3> QED BY <2>1, <3>2, <3>3
  <2>5. TypeOK'
    BY <2>1, <2>2, <2>4, MovingKeepsTypes, ObservedStays DEF TypeOK, disk
  <2> QED BY <2>3, <2>5
<1>3. CASE Kill(p)
  <2>1. /\ UNCHANGED <<disk, state, edits, left, owned, overlapped, robbed>>
        /\ ~At(p, "exited") /\ Exits(p) /\ kills < MaxKills /\ kills' = kills + 1
        /\ disturbed' = (disturbed \/ HalfDone(p))
    BY <1>3 DEF Kill, Alive, Ended, At
  <2>2. OnlyMoves(p) /\ proc'[p].pc = "exited"
    BY <2>1, ExitsMoves DEF Gone
  <2>3. lock' = lock /\ stateRoot' = stateRoot /\ manifest' = manifest /\ temps' = temps
    BY <2>1 DEF state
  <2>4. ExclusionInv'
    BY <2>1, <2>2, <2>3, PassesOn DEF Holding, Body, Restoring
  <2>5. kills' \in 0..MaxKills
    BY <2>1, PackageDocsAssumption DEF TypeOK
  <2>6. disturbed' \in BOOLEAN
    BY <2>1 DEF TypeOK
  <2>7. TypeOK'
    BY <2>1, <2>2, <2>3, <2>5, <2>6, MovingKeepsTypes DEF TypeOK
  <2> QED BY <2>4, <2>7
<1> QED BY <1>1, <1>2, <1>3

\* Who works on the documents has the lock before and after.
LEMMA WorkExcludes ==
  ASSUME TypeOK, TypeOK', ExclusionInv, NEW p \in Procs, WorkStep(p)
  PROVE  ExclusionInv'
<1>1. /\ proc[p].pc \in Body /\ lock' = lock /\ robbed' = robbed /\ overlapped' = overlapped
      /\ \A q \in Procs \ {p} : proc'[q] = proc[q]
      /\ proc'[p].pc \in Body \cup {"returned", "exited"}
  <2>1. proc \in [Procs -> Invocations] /\ proc[p] \in Invocations
    BY DEF TypeOK
  <2>2. ASSUME Throws(p)
         PROVE  /\ \A q \in Procs \ {p} : proc'[q] = proc[q]
                /\ proc'[p].pc \in Body \cup {"returned", "exited"}
    BY <2>2, ThrowsMoves DEF OnlyMoves, Gone, Arrives, Body
  <2>3. ASSUME NEW pc \in Body, Goes(p, pc)
         PROVE  /\ \A q \in Procs \ {p} : proc'[q] = proc[q]
                /\ proc'[p].pc \in Body
    BY <2>3, GoesMoves DEF OnlyMoves, Arrives, Places
  <2>4. CASE Begin(p)
    <3>1. /\ proc[p].pc \in Body /\ lock' = lock /\ robbed' = robbed
          /\ overlapped' = overlapped
      BY <2>4 DEF Begin, At, Body, Restoring, state, observed
    <3>2. CASE Throws(p)
      BY <2>2, <3>1, <3>2
    <3>3. CASE \E pc \in Body : Goes(p, pc)
      BY <2>3, <3>1, <3>3
    <3>4. CASE ~Throws(p) /\ ~\E pc \in Body : Goes(p, pc)
      <4>1. {"snapshot", "release"} \subseteq Body
        BY DEF Body
      <4>2. \/ proc' = [proc EXCEPT ![p].pc = "verify", ![p].m = manifest]
            \/ proc' = [proc EXCEPT ![p].pc = "copy", ![p].i = 1]
        BY <2>4, <3>4, <4>1 DEF Begin
      <4>3. /\ \A q \in Procs \ {p} : proc'[q] = proc[q]
            /\ proc'[p].pc \in Body
        <5>1. CASE proc' = [proc EXCEPT ![p].pc = "verify", ![p].m = manifest]
          BY <2>1, <5>1 DEF Body
        <5>2. CASE proc' = [proc EXCEPT ![p].pc = "copy", ![p].i = 1]
          BY <2>1, <5>2 DEF Body
        <5> QED BY <4>2, <5>1, <5>2
      <4> QED BY <3>1, <4>3
    <3> QED BY <3>2, <3>3, <3>4
  <2>5. CASE Verify(p)
    <3>1. /\ proc[p].pc \in Body /\ lock' = lock /\ robbed' = robbed
          /\ overlapped' = overlapped
      BY <2>5 DEF Verify, At, Body, Restoring, state, observed
    <3>2. CASE Throws(p)
      BY <2>2, <3>1, <3>2
    <3>3. CASE \E pc \in Body : Goes(p, pc)
      BY <2>3, <3>1, <3>3
    <3>4. CASE ~Throws(p) /\ ~\E pc \in Body : Goes(p, pc)
      <4>1. proc' = [proc EXCEPT ![p].pc = "remove", ![p].i = 1]
        BY <2>5, <3>4 DEF Verify
      <4>2. /\ \A q \in Procs \ {p} : proc'[q] = proc[q]
            /\ proc'[p].pc \in Body
        BY <2>1, <4>1 DEF Body, Restoring
      <4> QED BY <3>1, <4>2
    <3> QED BY <3>2, <3>3, <3>4
  <2>6. CASE RemoveTarget(p)
    BY <2>1, <2>6 DEF RemoveTarget, Goes, At, Body, Restoring, state, observed
  <2>7. CASE RewriteTarget(p)
    <3>1. /\ proc[p].pc \in Body /\ lock' = lock /\ robbed' = robbed
          /\ overlapped' = overlapped
      BY <2>7 DEF RewriteTarget, At, Body, Restoring, state, observed
    <3>2. CASE Throws(p)
      BY <2>2, <3>1, <3>2
    <3>3. CASE \E pc \in Body : Goes(p, pc)
      BY <2>3, <3>1, <3>3
    <3>4. CASE ~Throws(p) /\ ~\E pc \in Body : Goes(p, pc)
      <4>1. proc' = [proc EXCEPT
               ![p].pc = IF proc[p].i = Entries THEN "unlinkManifest" ELSE "remove",
               ![p].i = proc[p].i + 1]
        BY <2>7, <3>4 DEF RewriteTarget
      <4>2. /\ \A q \in Procs \ {p} : proc'[q] = proc[q]
            /\ proc'[p].pc \in Body
        BY <2>1, <4>1 DEF Body, Restoring
      <4> QED BY <3>1, <4>2
    <3> QED BY <3>2, <3>3, <3>4
  <2>8. CASE UnlinkManifest(p)
    <3>1. /\ proc[p].pc \in Body /\ lock' = lock /\ robbed' = robbed
          /\ overlapped' = overlapped
      BY <2>8 DEF UnlinkManifest, At, Body, Restoring, state, observed
    <3>2. CASE Throws(p)
      BY <2>2, <3>1, <3>2
    <3>3. CASE \E pc \in Body : Goes(p, pc)
      BY <2>3, <3>1, <3>3
    <3>4. CASE ~Throws(p) /\ ~\E pc \in Body : Goes(p, pc)
      <4>1. proc' = [proc EXCEPT
               ![p].pc = IF proc[p].op = "prepare" THEN "snapshot" ELSE "release",
               ![p].m = NoManifest,
               ![p].i = 0]
        BY <2>8, <3>4 DEF UnlinkManifest
      <4>2. /\ \A q \in Procs \ {p} : proc'[q] = proc[q]
            /\ proc'[p].pc \in Body
        BY <2>1, <4>1 DEF Body, Restoring
      <4> QED BY <3>1, <4>2
    <3> QED BY <3>2, <3>3, <3>4
  <2>9. CASE Snapshot(p)
    BY <2>1, <2>9 DEF Snapshot, At, Body, Restoring, state, observed
  <2>10. CASE RenameManifest(p)
    BY <2>1, <2>10 DEF RenameManifest, Goes, At, Body, Restoring, state, observed
  <2>11. CASE Copy(p)
    <3>1. /\ proc[p].pc \in Body /\ lock' = lock /\ robbed' = robbed
          /\ overlapped' = overlapped
      BY <2>11 DEF Copy, At, Body, Restoring, state, observed
    <3>2. CASE Throws(p)
      BY <2>2, <3>1, <3>2
    <3>3. CASE \E pc \in Body : Goes(p, pc)
      BY <2>3, <3>1, <3>3
    <3>4. CASE ~Throws(p) /\ ~\E pc \in Body : Goes(p, pc)
      <4>1. proc' = [proc EXCEPT
               ![p].m.sourceHash[proc[p].i] = source[proc[p].i],
               ![p].pc = IF proc[p].i \in Directories /\ file[proc[p].i] # Missing THEN "displace" ELSE "place"]
        BY <2>11, <3>4 DEF Copy
      <4>2. /\ \A q \in Procs \ {p} : proc'[q] = proc[q]
            /\ proc'[p].pc \in Body
        BY <2>1, <4>1 DEF Body, Restoring
      <4> QED BY <3>1, <4>2
    <3> QED BY <3>2, <3>3, <3>4
  <2>12. CASE Displace(p)
    BY <2>1, <2>12 DEF Displace, At, Body, Restoring, state, observed
  <2>13. CASE Place(p)
    BY <2>1, <2>13 DEF Place, AfterEntry, At, Body, Restoring, state, observed
  <2>14. CASE PlaceFails(p)
    BY <2>1, <2>2, <2>3, <2>14 DEF PlaceFails, At, Body, Restoring, state, observed
  <2>15. CASE DropDisplaced(p)
    BY <2>1, <2>15 DEF DropDisplaced, AfterEntry, At, Body, Restoring, state, observed
  <2>16. CASE RecordEntry(p)
    BY <2>1, <2>16 DEF RecordEntry, At, Body, Restoring, state, observed
  <2> QED BY <2>4, <2>5, <2>6, <2>7, <2>8, <2>9, <2>10, <2>11, <2>12, <2>13, <2>14, <2>15, <2>16 DEF WorkStep
<1>2. OnlyMoves(p)
  BY <1>1 DEF TypeOK, OnlyMoves
<1>3. ~At(p, "exited") /\ proc[p].pc \in Holding
  BY <1>1 DEF Holding, Body, Restoring, At
<1>4. proc'[p].pc \notin {"claim", "unlink", "unused"}
  BY <1>1 DEF Body, Restoring
<1> QED BY <1>1, <1>2, <1>3, <1>4, PassesOn

-----------------------------------------------------------------------------
(* The theorems                                                            *)

\* The lock as it always is, and everything until one is taken from a live process.
Always == TypeOK /\ ExclusionInv /\ (robbed = {} => Inv)

LEMMA InitAlways == Init => Always
<1> SUFFICES ASSUME Init PROVE Always
  OBVIOUS
<1>1. Inv
  BY InitInv
<1>2. /\ proc = [p \in Procs |-> Idle] /\ lock = Free /\ overlapped = FALSE /\ robbed = {}
      /\ Free \notin Procs
  BY PackageDocsAssumption DEF Init, Free, Procs
<1>3. \A p \in Procs : proc[p].pc = "unused"
  BY <1>2 DEF Idle
<1>4. ExclusionInv
  BY <1>2, <1>3 DEF ExclusionInv, Holding, Body, Restoring, At
<1> QED BY <1>1, <1>4 DEF Always, Inv

LEMMA StepAlways ==
  ASSUME Always, NEW p \in Procs, Step(p)
  PROVE  Always'
<1>1. TypeOK /\ ExclusionInv
  BY DEF Always
<1>2. robbed' = {} => Inv'
  <2> SUFFICES ASSUME robbed' = {} PROVE Inv'
    OBVIOUS
  <2>1. robbed = {}
    BY <1>1, RobbedStays
  <2>2. Inv
    BY <2>1 DEF Always
  <2> QED BY <2>2, StepInv
<1>3. CASE LockStep(p)
  <2>1. ASSUME NEW op \in {"prepare", "cleanup", "sync", "check"}, Call(p, op)
        PROVE  TypeOK' /\ ExclusionInv'
    BY <1>1, <2>1, CallExcludes
  <2>2. ASSUME NEW op \in {"prepare", "cleanup"}, CallAgain(p, op)
        PROVE  TypeOK' /\ ExclusionInv'
    BY <1>1, <2>2, CallAgainExcludes
  <2>3. TypeOK' /\ ExclusionInv'
    BY <1>1, <1>3, <2>1, <2>2, LookExcludes, SameOwnerExcludes, UnlinkOwnerExcludes,
       LockingExcludes, EndingExcludes DEF LockStep
  <2> QED BY <1>2, <2>3 DEF Always
<1>4. CASE robbed = {} /\ WorkStep(p)
  <2>1. robbed' = {}
    BY <1>1, <1>4, RobbedStays
  <2>2. TypeOK'
    BY <1>2, <2>1 DEF Inv
  <2> QED BY <1>1, <1>2, <1>4, <2>2, WorkExcludes DEF Always
<1> QED BY <1>3, <1>4 DEF Step

LEMMA NextAlways == Always /\ [Next]_vars => Always'
<1> SUFFICES ASSUME Always, [Next]_vars PROVE Always'
  OBVIOUS
<1>1. CASE \E p \in Procs : Step(p)
  BY <1>1, StepAlways
<1>2. CASE \/ robbed = {} /\ \E t \in Targets : EditDocument(t)
           \/ robbed = {} /\ \E t \in Targets, c \in Canonical : EditSource(t, c)
           \/ UNCHANGED vars
  <2>1. lock' = lock /\ proc' = proc /\ overlapped' = overlapped /\ robbed' = robbed
    BY <1>2 DEF EditDocument, EditSource, vars, state, observed
  <2>2. ExclusionInv'
    BY <2>1 DEF Always, ExclusionInv, At
  <2>3. CASE robbed = {}
    <3>1. Inv
      BY <2>3 DEF Always
    <3>2. Inv'
      BY <1>2, <3>1, EditDocumentStep, EditSourceStep, StutterInv
    <3> QED BY <2>2, <3>2 DEF Always, Inv
  <2>4. CASE robbed # {}
    <3>1. UNCHANGED vars
      BY <1>2, <2>4
    <3>2. TypeOK'
      BY <3>1 DEF Always, TypeOK, vars, disk, state, observed, marks
    <3> QED BY <2>1, <2>2, <2>4, <3>2 DEF Always
  <2> QED BY <2>3, <2>4
<1> QED BY <1>1, <1>2 DEF Next

LEMMA AlwaysHolds == Spec => []Always
BY InitAlways, NextAlways, PTL DEF Spec

\* Two commands never work on the documents at a time, whoever dies, or claims the
\* lock of a dead one, when; unless the lock of one of them was removed in place of
\* the stale one, which takes two that were about to remove the same stale lock.
THEOREM CommandsExclude == Spec => []MutualExclusion
<1>1. Always => MutualExclusion
  <2> SUFFICES ASSUME Always PROVE MutualExclusion
    OBVIOUS
  <2>1. robbed # {} => overlapped
    BY DEF Always, ExclusionInv
  <2>2. ASSUME NEW p \in Procs \ robbed, NEW q \in Procs \ robbed,
               {proc[p].pc, proc[q].pc} \subseteq Body
        PROVE  p = q
    <3>1. proc[p].pc \in Body /\ proc[q].pc \in Body
      BY <2>2
    <3> QED BY <3>1 DEF Always, ExclusionInv, Holding
  <2> QED BY <2>1, <2>2 DEF MutualExclusion
<1> QED BY AlwaysHolds, <1>1, PTL

\* What the developer put into the package is never lost, and a restore that is
\* refused has a reason: for any documents, commands, edits, deaths and failed
\* renames, as long as nobody loses his lock.
THEOREM FilesStaySafe == Spec => []FilesAreSafe
<1>1. Inv => RefusalExplained
  <2> SUFFICES ASSUME Inv, NEW p \in Procs, NEW t \in Targets, At(p, "verify"),
                      manifest = proc[p].m, ~Restorable(manifest, t), ~disturbed,
                      ~Foreign(t)
               PROVE  file[t] # manifest.original[t] /\ source[t] # manifest.sourceHash[t]
    BY DEF RefusalExplained
  <2>1. manifest # NoManifest /\ proc[p].pc \in Body \ {"place"} /\ proc[p].pc \notin Restoring
    BY DEF Inv, WorkInv, WorkOf, At, Body, Restoring
  <2>2. \A q \in Procs : proc[q].pc \in Body => q = p
    BY <2>1 DEF Inv, LockInv, Holding
  <2>3. \A q \in Procs : ~Aside(q, t) /\ proc[q].pc \notin Restoring
    BY <2>1, <2>2 DEF Aside, At, Body
  <2>4. IsBefore(t, file[t]) /\ file[t] \in Contents
    BY <2>3 DEF IsBefore, Inv, TypeOK
  <2>5. manifest.prepared[t] # Missing =>
          file[t] = manifest.sourceHash[t] \/ file[t] # manifest.original[t]
    BY <2>1, <2>3, <2>4 DEF Inv, RecordedInv
  <2>6. manifest.prepared[t] \in {Missing, manifest.sourceHash[t]}
    BY <2>1 DEF Inv, ManifestInv
  <2> QED BY <2>5, <2>6 DEF Restorable, Foreign
<1>2. Always => FilesAreSafe
  BY <1>1 DEF Always, Inv, FilesAreSafe
<1> QED BY AlwaysHolds, <1>2, PTL

\* Without a manifest every document is as it was left, unless one of a sync
\* that died is still moved aside: restoring never stops short unnoticed, as long as
\* nobody loses his lock.
THEOREM RestoringIsComplete == Spec => []CleanMeansRestored
<1>1. Always => CleanMeansRestored
  <2> SUFFICES ASSUME Inv, manifest = NoManifest, NEW t \in Targets, displaced[t] = {}
               PROVE  file[t] = left[t]
    BY DEF CleanMeansRestored, Always
  <2>1. ~Orphaned(t)
    BY DEF Orphaned
  <2>2. \A p \in Procs : ~Aside(p, t)
    BY DEF Inv, DisplacedInv, Aside, At
  <2>3. IsBefore(t, file[t]) /\ file[t] \in Contents
    BY <2>2 DEF IsBefore, Inv, TypeOK
  <2> QED BY <2>1, <2>3 DEF Inv, LeftInv, LeftAt
<1> QED BY AlwaysHolds, <1>1, PTL

=============================================================================
