----------------------------- MODULE PackageDocs -----------------------------
(***************************************************************************)
(* The package documents of a release (scripts/package-doc-lifecycle.js,   *)
(* run by packages/.../scripts/sync-package-docs.js, by the prepack and    *)
(* postpack scripts and by scripts/publish.js).                            *)
(*                                                                         *)
(* prepare replaces the documents of the package by those of the           *)
(* repository and keeps the originals in a manifest; cleanup puts them     *)
(* back; sync replaces them for good; check only compares.  Each runs in   *)
(* a process of its own.  What they share is the file system: the          *)
(* documents, the state directory, its lock and its manifest.  A step is   *)
(* one change of the file system together with the reads before it, so     *)
(* processes interleave, and are killed, between any two changes.          *)
(*                                                                         *)
(* A document is known by its content.  Missing stands for a document that *)
(* is absent or incompletely written, which the hashes tell from any       *)
(* content all the same.  That paths are no symbolic links is not          *)
(* modelled.                                                               *)
(*                                                                         *)
(* Between the check of a stale lock and its removal another process may   *)
(* do the same and take the lock, and then loses it while it works.  From  *)
(* then on two commands may change the documents at once.  The lock is     *)
(* followed further, what the documents become is not.                     *)
(***************************************************************************)
EXTENDS Integers, FiniteSets

CONSTANTS
  Entries,       \* number of documents
  Directories,   \* documents that are directories, which rename cannot replace
  Missing,       \* no content
  Canonical,     \* contents of the repository's documents
  Processes,     \* bound: invocations, in the order they start
  MaxAlive,      \* bound: processes that run at a time
  MaxKills,      \* bound: processes killed and renames that fail
  MaxEdits       \* bound: changes of a document by a developer

ASSUME PackageDocsAssumption ==
  /\ Entries \in Nat \ {0} /\ Directories \subseteq 1..Entries
  /\ Canonical # {}
  /\ Missing \notin Canonical \cup Int /\ Canonical \cap Int = {}
  /\ {Processes, MaxAlive, MaxKills, MaxEdits} \subseteq Nat

Targets == 1..Entries
Procs == 1..Processes

VARIABLES
  file,        \* the package's documents
  source,      \* the repository's
  displaced,   \* directories that were moved aside and are still there, by whom
  stateRoot,   \* .pack-docs-state exists
  lock,        \* Free, Unowned (no owner.json yet, or no more) or its owner
  manifest,    \* manifest.json, or NoManifest
  temps,       \* processes that left a .manifest-*.tmp in the state directory
  proc,        \* the processes
  kills,
  edits,
  (* what is observed of the run *)
  left,        \* what is to be at each document when nothing is prepared
  owned,       \* contents of the developer that nobody but him may destroy
  disturbed,   \* a restore or the replacement of a directory stopped half way,
               \* or a sync came between a prepare and its cleanup
  overlapped,  \* two processes were about to remove the same stale lock
  robbed       \* processes that a take over of somebody else's lock took the lock from

disk     == <<file, source, displaced>>
state    == <<stateRoot, lock, manifest, temps>>
marks    == <<left, owned, disturbed>>
observed == <<marks, overlapped, robbed>>
vars == <<disk, state, proc, kills, edits, observed>>

Free == 0
Unowned == -1
Unprepared == [t \in Targets |-> Missing]
NoManifest == [phase |-> "none", owner |-> 0, original |-> Unprepared,
               sourceHash |-> Unprepared, prepared |-> Unprepared]
Idle == [pc |-> "unused", op |-> "none", seen |-> 0, i |-> 0,
         moved |-> Missing, m |-> NoManifest]
Written(n) == n    \* content the developer writes by his n-th edit

Restoring == {"remove", "rewrite", "unlinkManifest"}
Body == {"locked", "verify", "snapshot", "rename", "copy", "displace",
         "place", "drop", "record", "finish", "release"} \cup Restoring
Ended == {"unused", "exited"}
Alive == {p \in Procs : proc[p].pc \notin Ended}
IsFree(p) == proc[p].pc = "unused" /\ \A q \in 1..p - 1 : proc[q].pc # "unused"

Init ==
  /\ file \in [Targets -> {Missing, Written(0)}]
  /\ \E c \in Canonical : source = [t \in Targets |-> c]
  /\ displaced = [t \in Targets |-> {}]
  /\ stateRoot = FALSE /\ lock = Free /\ manifest = NoManifest /\ temps = {}
  /\ proc = [p \in Procs |-> Idle]
  /\ kills = 0 /\ edits = 0
  /\ left = file
  /\ owned = [t \in Targets |-> {file[t]} \ {Missing}]
  /\ disturbed = FALSE /\ overlapped = FALSE /\ robbed = {}

At(p, pc) == proc[p].pc = pc
Goes(p, pc) == proc' = [proc EXCEPT ![p].pc = pc]
Exits(p) == proc' = [proc EXCEPT ![p] = [Idle EXCEPT !.pc = "exited"]]

\* An error is thrown: prepare keeps the lock and everything else for a later
\* run, while cleanup, sync and check still release the lock they hold.
Throws(p) ==
  IF proc[p].pc \in Body /\ proc[p].op # "prepare" /\ ~At(p, "release")
  THEN Goes(p, "release")
  ELSE Exits(p)

-----------------------------------------------------------------------------
(* The lock                                                                *)

\* prepare, cleanup, sync or check is called in a new process; cleanup returns
\* at once when there is no state, the others create its directory.
Call(p, op) ==
  /\ IsFree(p) /\ Cardinality(Alive) < MaxAlive
  /\ proc' = [proc EXCEPT ![p] =
       [Idle EXCEPT !.pc = IF op = "cleanup" /\ ~stateRoot THEN "exited" ELSE "look",
                    !.op = op]]
  /\ stateRoot' = (stateRoot \/ op # "cleanup")
  /\ UNCHANGED <<disk, lock, manifest, temps, kills, edits, observed>>

\* The process that prepared goes on with the lock it has.
CallAgain(p, op) ==
  /\ At(p, "returned")
  /\ proc' = [proc EXCEPT ![p].pc = "locked", ![p].op = op]
  /\ UNCHANGED <<disk, state, kills, edits, observed>>

Exit(p) ==
  /\ At(p, "returned")
  /\ Exits(p)
  /\ UNCHANGED <<disk, state, kills, edits, observed>>

preparedManifestBelongsTo(o) == manifest.phase = "prepared" /\ manifest.owner = o

\* What canClaimOwner may answer about the owner o: nobody takes the lock of
\* a live process, and what a dead one has prepared is anybody's.  The rest is
\* for the processes that started the two, and for the time, to decide.
canClaimOwner(o) ==
  IF o \in Alive THEN {FALSE}
  ELSE IF robbed = {} /\ preparedManifestBelongsTo(o) THEN {TRUE}
  ELSE BOOLEAN

\* acquireLock looks at the lock it finds.
Look(p) ==
  /\ At(p, "look")
  /\ \/ /\ lock = Free
        /\ Goes(p, "mkdir")
     \/ /\ lock = Unowned
        /\ Throws(p)
     \/ /\ lock \in Procs
        /\ TRUE \in canClaimOwner(lock)
        /\ proc' = [proc EXCEPT ![p].pc = "claim", ![p].seen = lock]
     \/ /\ lock \in Procs
        /\ FALSE \in canClaimOwner(lock)
        /\ Throws(p)
  /\ UNCHANGED <<disk, state, kills, edits, observed>>

StillStale_NotReadAgain(p) == TRUE
StillStale(p) == lock = proc[p].seen

\* removeStaleLock reads the owner again ...
SameOwner(p) ==
  /\ At(p, "claim")
  /\ IF StillStale(p) THEN Goes(p, "unlink") ELSE Throws(p)
  /\ overlapped' = \/ overlapped
                   \/ \E q \in Procs : At(q, "unlink") /\ proc[q].seen = proc[p].seen
  /\ UNCHANGED <<disk, state, kills, edits, marks, robbed>>

\* ... and removes whatever owner there is by now, and the directory.
UnlinkOwner(p) ==
  /\ At(p, "unlink")
  /\ IF lock \in Procs
     THEN /\ lock' = Unowned
          /\ proc' = [proc EXCEPT ![p].pc = "rmdir", ![p].seen = Free]
          /\ robbed' = robbed \cup ({lock} \ {proc[p].seen})
     ELSE UNCHANGED <<lock, robbed>> /\ Throws(p)
  /\ UNCHANGED <<disk, stateRoot, manifest, temps, kills, edits, marks, overlapped>>

RemoveLock(p) ==
  /\ At(p, "rmdir")
  /\ IF lock = Unowned
     THEN lock' = Free /\ Goes(p, "look")
     ELSE UNCHANGED lock /\ Throws(p)
  /\ UNCHANGED <<disk, stateRoot, manifest, temps, kills, edits, observed>>

\* mkdir fails without the state directory, which a release may have removed.
MakeLock(p) ==
  /\ At(p, "mkdir")
  /\ \/ ~stateRoot /\ UNCHANGED lock /\ Throws(p)
     \/ stateRoot /\ lock = Free /\ lock' = Unowned /\ Goes(p, "own")
     \/ stateRoot /\ lock # Free /\ UNCHANGED lock /\ Goes(p, "look")
  /\ UNCHANGED <<disk, stateRoot, manifest, temps, kills, edits, observed>>

WriteOwner(p) ==
  /\ At(p, "own")
  /\ IF lock = Unowned
     THEN lock' = p /\ Goes(p, "locked")
     ELSE UNCHANGED lock /\ Throws(p)
  /\ UNCHANGED <<disk, stateRoot, manifest, temps, kills, edits, observed>>

\* releaseLock: the owner, the directory and, when nothing else is in it, the
\* state directory.  What is in it is not known once a lock was taken.
ReleaseOwner(p) ==
  /\ At(p, "release")
  /\ IF lock = p
     THEN lock' = Unowned /\ Goes(p, "releaseLock")
     ELSE UNCHANGED lock /\ Exits(p)
  /\ UNCHANGED <<disk, stateRoot, manifest, temps, kills, edits, observed>>

ReleaseLock(p) ==
  /\ At(p, "releaseLock")
  /\ IF lock = Unowned
     THEN lock' = Free /\ Goes(p, "releaseRoot")
     ELSE UNCHANGED lock /\ Exits(p)
  /\ UNCHANGED <<disk, stateRoot, manifest, temps, kills, edits, observed>>

ReleaseRoot(p) ==
  /\ At(p, "releaseRoot")
  /\ Exits(p)
  /\ \/ stateRoot' = (stateRoot /\ ~(lock = Free /\ manifest = NoManifest /\ temps = {}))
     \/ robbed # {} /\ UNCHANGED stateRoot
  /\ UNCHANGED <<disk, lock, manifest, temps, kills, edits, observed>>

-----------------------------------------------------------------------------
(* Restoring the originals                                                 *)

\* Temporaries that a crash left before there was a manifest are removed.
recoverStateWithoutManifest == temps' = {}

\* prepare drops such temporaries, cleanup refuses them; both restore a
\* manifest they find.
Begin(p) ==
  /\ At(p, "locked")
  /\ LET op == proc[p].op
     IN \/ /\ op \in {"prepare", "cleanup"} /\ manifest # NoManifest
           /\ proc' = [proc EXCEPT ![p].pc = "verify", ![p].m = manifest]
           /\ UNCHANGED temps
        \/ /\ op = "prepare" /\ manifest = NoManifest
           /\ Goes(p, "snapshot")
           /\ recoverStateWithoutManifest
        \/ /\ op = "cleanup" /\ manifest = NoManifest
           /\ Goes(p, "release")
           /\ UNCHANGED temps
        \/ /\ op = "sync"
           /\ proc' = [proc EXCEPT ![p].pc = "copy", ![p].i = 1]
           /\ UNCHANGED temps
        \/ /\ op = "check"
           /\ Goes(p, "release")
           /\ UNCHANGED temps
  /\ UNCHANGED <<disk, stateRoot, lock, manifest, kills, edits, observed>>

Restorable_Whatever(m, t) == m.prepared[t] = Missing => file[t] # Missing

\* A document that prepare recorded must still be as prepared; one that it had
\* not recorded must be the original or a copy of an unchanged source.
Restorable(m, t) ==
  IF m.prepared[t] = Missing
  THEN \/ file[t] = m.original[t]
       \/ source[t] = m.sourceHash[t] /\ file[t] = source[t]
  ELSE file[t] = m.prepared[t]

\* restoreOriginal checks all of them before it touches the first.
Verify(p) ==
  /\ At(p, "verify")
  /\ \/ /\ manifest # proc[p].m
        /\ Throws(p)
     \/ /\ manifest = proc[p].m
        /\ \A t \in Targets : Restorable(manifest, t)
        /\ proc' = [proc EXCEPT ![p].pc = "remove", ![p].i = 1]
     \/ /\ manifest = proc[p].m
        /\ \E t \in Targets : ~Restorable(manifest, t)
        /\ Throws(p)
  /\ UNCHANGED <<disk, state, kills, edits, observed>>

\* removePath, then writeSnapshot, which overwrites nothing.
RemoveTarget(p) ==
  /\ At(p, "remove")
  /\ file' = [file EXCEPT ![proc[p].i] = Missing]
  /\ Goes(p, "rewrite")
  /\ UNCHANGED <<source, displaced, state, kills, edits, observed>>

RewriteTarget(p) ==
  LET t == proc[p].i
      next == IF t = Entries THEN "unlinkManifest" ELSE "remove"
  IN /\ At(p, "rewrite")
     /\ IF file[t] = Missing
        THEN /\ file' = [file EXCEPT ![t] = proc[p].m.original[t]]
             /\ proc' = [proc EXCEPT ![p].pc = next, ![p].i = t + 1]
        ELSE UNCHANGED file /\ Throws(p)
     /\ UNCHANGED <<source, displaced, state, kills, edits, observed>>

\* removeManifest, unless the manifest is not the one that was read.
UnlinkManifest(p) ==
  /\ At(p, "unlinkManifest")
  /\ IF manifest = proc[p].m
     THEN /\ manifest' = NoManifest
          /\ disturbed' = FALSE
          /\ proc' = [proc EXCEPT ![p].pc = IF proc[p].op = "prepare" THEN "snapshot"
                                            ELSE "release",
                                  ![p].m = NoManifest, ![p].i = 0]
     ELSE UNCHANGED <<manifest, disturbed>> /\ Throws(p)
  /\ UNCHANGED <<disk, stateRoot, lock, temps, kills, edits, left, owned, overlapped, robbed>>

-----------------------------------------------------------------------------
(* Preparing and copying                                                   *)

Snapshot_AfterTheFirst(p) ==
  /\ At(p, "snapshot")
  /\ proc' = [proc EXCEPT ![p].pc = "copy", ![p].i = 1,
       ![p].m = [phase |-> "preparing", owner |-> p, original |-> file,
                 sourceHash |-> source, prepared |-> Unprepared]]
  /\ UNCHANGED <<disk, state, kills, edits, observed>>

\* The originals are known to the manifest before a document is touched.
Snapshot(p) ==
  /\ At(p, "snapshot")
  /\ proc' = [proc EXCEPT ![p].pc = "rename", ![p].i = 1,
       ![p].m = [phase |-> "preparing", owner |-> p, original |-> file,
                 sourceHash |-> source, prepared |-> Unprepared]]
  /\ temps' = temps \cup {p}
  /\ UNCHANGED <<disk, stateRoot, lock, manifest, kills, edits, observed>>

\* atomicWriteJson: the temporary file takes the manifest's place.
RenameManifest(p) ==
  /\ At(p, "rename")
  /\ manifest' = proc[p].m
  /\ temps' = temps \ {p}
  /\ Goes(p, CASE proc[p].m.phase = "prepared" -> "returned"
               [] proc[p].m.phase # "prepared" /\ proc[p].i > Entries -> "finish"
               [] OTHER -> "copy")
  /\ UNCHANGED <<disk, stateRoot, lock, kills, edits, observed>>

\* copyCanonical, or the loop of sync, which compares nothing: the content is
\* read and written to a temporary.
Unchanged(p, t) ==
  proc[p].op = "prepare" =>
    source[t] = proc[p].m.sourceHash[t] /\ file[t] = proc[p].m.original[t]

Copy(p) ==
  LET t == proc[p].i
  IN /\ At(p, "copy")
     /\ IF Unchanged(p, t)
        THEN proc' = [proc EXCEPT
               ![p].m.sourceHash[t] = source[t],
               ![p].pc = IF t \in Directories /\ file[t] # Missing THEN "displace"
                         ELSE "place"]
        ELSE Throws(p)
     /\ UNCHANGED <<disk, state, kills, edits, observed>>

\* replaceTemporary: a directory is moved aside first, to a name of its own, and
\* removed at the end.
Displace(p) ==
  LET t == proc[p].i
  IN /\ At(p, "displace")
     /\ displaced' = [displaced EXCEPT ![t] = @ \cup {<<p, file[t]>>}]
     /\ file' = [file EXCEPT ![t] = Missing]
     /\ proc' = [proc EXCEPT ![p].pc = "place", ![p].moved = file[t]]
     /\ UNCHANGED <<source, state, kills, edits, observed>>

AfterEntry(p, t) == IF proc[p].op = "prepare" THEN "record"
                    ELSE IF t = Entries THEN "release" ELSE "copy"

Place(p) ==
  LET t == proc[p].i
      c == proc[p].m.sourceHash[t]
      moved == proc[p].moved # Missing
  IN /\ At(p, "place")
     /\ file' = [file EXCEPT ![t] = c]
     /\ proc' = [proc EXCEPT
          ![p].m.prepared[t] = IF proc[p].op = "prepare" THEN c ELSE @,
          ![p].pc = IF moved THEN "drop" ELSE AfterEntry(p, t),
          ![p].i = IF moved THEN t ELSE t + 1]
     /\ IF proc[p].op = "sync"
        THEN /\ left' = [left EXCEPT ![t] = IF manifest = NoManifest THEN c
                                              ELSE manifest.original[t]]
             /\ owned' = [owned EXCEPT ![t] = @ \ {file[t], proc[p].moved}]
             /\ disturbed' = (disturbed \/ manifest # NoManifest)
        ELSE UNCHANGED marks
     /\ UNCHANGED <<overlapped, robbed>>
     /\ UNCHANGED <<source, displaced, state, kills, edits>>

\* The second rename fails: the directory is moved back.
PlaceFails(p) ==
  LET t == proc[p].i
      c == proc[p].moved
  IN /\ At(p, "place") /\ c # Missing
     /\ kills < MaxKills /\ kills' = kills + 1
     /\ IF file[t] = Missing
        THEN /\ file' = [file EXCEPT ![t] = c]
             /\ displaced' = [displaced EXCEPT ![t] = @ \ {<<p, c>>}]
        ELSE UNCHANGED <<file, displaced>>
     /\ Throws(p)
     /\ UNCHANGED <<source, state, edits, observed>>

DropDisplaced(p) ==
  LET t == proc[p].i
  IN /\ At(p, "drop")
     /\ displaced' = [displaced EXCEPT ![t] = @ \ {<<p, proc[p].moved>>}]
     /\ proc' = [proc EXCEPT ![p].pc = AfterEntry(p, t), ![p].i = t + 1,
                             ![p].moved = Missing]
     /\ UNCHANGED <<file, source, state, kills, edits, observed>>

\* The manifest learns what was prepared, and at the end that all of it was.
RecordEntry(p) ==
  /\ At(p, "record") \/ At(p, "finish")
  /\ temps' = temps \cup {p}
  /\ proc' = [proc EXCEPT ![p].pc = "rename",
                          ![p].m.phase = IF At(p, "finish") THEN "prepared" ELSE @]
  /\ UNCHANGED <<disk, stateRoot, lock, manifest, kills, edits, observed>>

-----------------------------------------------------------------------------
(* The world around                                                        *)

HalfDone(p) ==
  \/ proc[p].pc \in Restoring
  \/ At(p, "place") /\ proc[p].moved # Missing

Kill(p) ==
  /\ p \in Alive /\ kills < MaxKills
  /\ kills' = kills + 1
  /\ Exits(p)
  /\ disturbed' = (disturbed \/ HalfDone(p))
  /\ UNCHANGED <<disk, state, edits, left, owned, overlapped, robbed>>

\* A developer edits while no process is between two changes of the documents.
Quiet == \A p \in Procs : proc[p].pc \notin Body

EditDocument(t) ==
  /\ Quiet /\ edits < MaxEdits
  /\ edits' = edits + 1
  /\ file' = [file EXCEPT ![t] = Written(edits')]
  /\ left' = [left EXCEPT ![t] = Written(edits')]
  /\ owned' = [owned EXCEPT ![t] = (@ \ {file[t]}) \cup {Written(edits')}]
  /\ UNCHANGED <<source, displaced, state, proc, kills, disturbed, overlapped, robbed>>

EditSource(t, c) ==
  /\ edits < MaxEdits /\ c # source[t]
  /\ edits' = edits + 1
  /\ source' = [source EXCEPT ![t] = c]
  /\ UNCHANGED <<file, displaced, state, proc, kills, observed>>

\* Once a lock was taken from a live process, the work of a command is one step:
\* it ends in one of the ways it may end in, well or with an error.
EndsUnfollowed(p) ==
  /\ robbed # {} /\ proc[p].pc \in Body \ {"release"}
  /\ \/ proc[p].op = "prepare" /\ Goes(p, "returned")
     \/ Throws(p)
  /\ UNCHANGED <<disk, state, kills, edits, observed>>

LockStep(p) ==
  \/ \E op \in {"prepare", "cleanup", "sync", "check"} : Call(p, op)
  \/ \E op \in {"prepare", "cleanup"} : CallAgain(p, op)
  \/ Exit(p) \/ Look(p) \/ SameOwner(p) \/ UnlinkOwner(p) \/ RemoveLock(p)
  \/ MakeLock(p) \/ WriteOwner(p) \/ ReleaseOwner(p) \/ ReleaseLock(p) \/ ReleaseRoot(p)
  \/ EndsUnfollowed(p) \/ Kill(p)

WorkStep(p) ==
  \/ Begin(p) \/ Verify(p) \/ RemoveTarget(p) \/ RewriteTarget(p)
  \/ UnlinkManifest(p) \/ Snapshot(p) \/ RenameManifest(p) \/ Copy(p) \/ Displace(p)
  \/ Place(p) \/ PlaceFails(p) \/ DropDisplaced(p) \/ RecordEntry(p)

Step(p) == LockStep(p) \/ (robbed = {} /\ WorkStep(p))

Next ==
  \/ \E p \in Procs : Step(p)
  \/ robbed = {} /\ \E t \in Targets : EditDocument(t)
  \/ robbed = {} /\ \E t \in Targets, c \in Canonical : EditSource(t, c)

Spec == Init /\ [][Next]_vars

-----------------------------------------------------------------------------
(* What must hold                                                          *)

Contents == {Missing} \cup Canonical \cup {Written(n) : n \in 0..MaxEdits}
Owners == Procs \cup {Free, Unowned}
Manifests ==
  [phase : {"none", "preparing", "prepared"}, owner : Procs \cup {0},
   original : [Targets -> Contents], sourceHash : [Targets -> {Missing} \cup Canonical],
   prepared : [Targets -> {Missing} \cup Canonical]]

Places == Body \cup Ended \cup {"look", "claim", "unlink", "rmdir", "mkdir", "own",
                                 "returned", "releaseLock", "releaseRoot"}
Invocations ==
  [pc : Places, op : {"none", "prepare", "cleanup", "sync", "check"},
   seen : Procs \cup {Free}, i : 0..Entries + 1, moved : Contents, m : Manifests]

\* The types; a manifest on disk always belongs to some prepare, and is only
\* there with the state directory around it.
TypeOK ==
  /\ file \in [Targets -> Contents] /\ source \in [Targets -> Canonical]
  /\ displaced \in [Targets -> SUBSET (Procs \X Contents)]
  /\ stateRoot \in BOOLEAN /\ lock \in Owners /\ temps \subseteq Procs
  /\ manifest \in Manifests
  /\ manifest # NoManifest => stateRoot /\ manifest.owner \in Procs
  /\ proc \in [Procs -> Invocations]
  /\ kills \in 0..MaxKills /\ edits \in 0..MaxEdits /\ disturbed \in BOOLEAN
  /\ left \in [Targets -> Contents] /\ owned \in [Targets -> SUBSET Contents]
  /\ overlapped \in BOOLEAN /\ robbed \subseteq Procs

\* Two processes never work on the documents at a time, unless the lock of one was
\* removed in place of the stale one that somebody had found; and that takes two
\* that were about to remove the same stale lock.
MutualExclusion ==
  /\ \A p, q \in Procs \ robbed : {proc[p].pc, proc[q].pc} \subseteq Body => p = q
  /\ robbed # {} => overlapped

\* Whatever is killed or fails, and whenever: what a developer put into the
\* package is still at its place, in the manifest, or moved aside.
NothingLost ==
  \A t \in Targets :
    owned[t] \subseteq {file[t], manifest.original[t]} \cup {d[2] : d \in displaced[t]}

\* Without a manifest nothing is left to undo: every document is as the
\* developer, or a sync, left it, unless a sync was killed on a directory; a
\* sync that ran while there was a manifest is undone with the rest.
CleanMeansRestored ==
  robbed = {} /\ manifest = NoManifest =>
    \A t \in Targets : displaced[t] = {} => file[t] = left[t]

\* A restore that is refused for a document has a reason: somebody changed the
\* document or its source, an earlier run was stopped half way, or a sync replaced
\* what was prepared.
Foreign(t) == file[t] \notin {manifest.original[t], manifest.sourceHash[t]}
RefusalExplained ==
  \A p \in Procs, t \in Targets :
    At(p, "verify") /\ manifest = proc[p].m /\ ~Restorable(manifest, t) =>
      \/ disturbed
      \/ Foreign(t)
      \/ file[t] # manifest.original[t] /\ source[t] # manifest.sourceHash[t]

\* Nothing of a developer's is lost, and a refusal has a reason: whatever prepares,
\* cleanups, edits and deaths of their processes come between, as long as nobody
\* lost his lock to another.
FilesAreSafe == TypeOK /\ (robbed = {} => NothingLost /\ RefusalExplained)
=============================================================================
