------------------------------ MODULE ReplayLock ------------------------------
(***************************************************************************)
(* The lock that says that the device replays match the program            *)
(* (scripts/check-example-replay-freshness.js), and the command that runs  *)
(* the replays (scripts/run-example-replay.js).                            *)
(*                                                                         *)
(* --refresh reads the coverage manifest, the suites and the sources it    *)
(* names, lists the files of the program, hashes them and writes the lock; *)
(* --check does the same and compares.  A developer may change any file    *)
(* between two of these steps.  A source or suite is known by the features *)
(* whose selectors and assertions it has, any other file by its version;   *)
(* the hash of a list of files is the list with their contents.            *)
(***************************************************************************)
EXTENDS Integers, FiniteSets

CONSTANTS
  Features,     \* features the manifest may list
  MaxVersion,   \* bound: versions of a file, 0 is an absent file
  MaxCommands,  \* bound: commands that are run
  MaxEdits,     \* bound: changes of a file
  MaxFaults     \* bound: calls of git that fail

ReplayLockAssumption ==
  Features # {} /\ {MaxVersion, MaxCommands, MaxEdits, MaxFaults} \subseteq Nat

VARIABLES
  tree,      \* the files
  lock,      \* amplitude-replay-source-lock.json, or NoLock
  kind, pc,  \* the command that runs and its next step
  found,     \* what it has read and hashed so far
  answer,    \* of the last command
  commands, edits, faults,
  (* what is observed of the run *)
  hashed,    \* contents of the files when this command listed and hashed them
  reviewed,  \* the same, of the refresh that wrote the lock
  touched    \* files changed since the last command began

vars == <<tree, lock, kind, pc, found, answer, commands, edits, faults,
          hashed, reviewed, touched>>
bounds == <<commands, edits, faults>>

(* app and suite are the example's source and a replay flow; library stands *)
(* for the sources of the package, generated for a file in their            *)
(* directories that git ignores, tests for what the rules leave out: tests, *)
(* builds and secrets.                                                      *)
Sources == {"app", "library", "generated", "tests"}
Files == Sources \cup {"suite", "manifest"}
GitIgnored == {"generated"}
Absent == 0
NoLock == [of |-> "none"]  \* also: a command that has read nothing
Contents(f) ==
  CASE f \in {"app", "suite"} -> SUBSET Features
    [] f = "manifest" -> [features : SUBSET Features, pending : SUBSET Features]
    [] OTHER -> 0..MaxVersion

Init ==
  /\ tree = [f \in Files |->
       CASE f \in {"app", "suite"} -> Features
         [] f = "manifest" -> [features |-> Features, pending |-> {}]
         [] OTHER -> 1]
  /\ lock = NoLock /\ kind = "none" /\ pc = "idle" /\ found = NoLock /\ answer = "none"
  /\ commands = 0 /\ edits = 0 /\ faults = 0
  /\ hashed = tree /\ reviewed = tree /\ touched = {}

-----------------------------------------------------------------------------
(* readCoverageManifest: each feature is listed once, its selectors are in  *)
(* the source it names and its suite presses and asserts it.                *)
IsListed(m) == m.features # {} /\ m.features \cap m.pending = {}
sourceDeclaresTestId == tree["app"]
IsAsserted_BySource(m) == m.features \subseteq sourceDeclaresTestId
IsAsserted(m) == m.features \subseteq sourceDeclaresTestId \cap tree["suite"]
IsCovered(m) == IsListed(m) /\ IsAsserted(m)

IsPresent(f) == f \in {"library", "generated", "tests"} => tree[f] # Absent
IsRuntimeFile(f) == f \in Sources \ {"tests"}
collectDirectoryFiles == {f \in Sources : IsRuntimeFile(f) /\ IsPresent(f)}

Answered(a) == pc' = "idle" /\ answer' = a /\ found' = NoLock
Throws == Answered("failed") /\ UNCHANGED <<tree, lock, kind, bounds, hashed, reviewed, touched>>
Reads(step, what) ==
  /\ pc' = step /\ found' = what
  /\ UNCHANGED <<tree, lock, kind, answer, commands, edits, reviewed, touched>>

(* run-example-replay.js wants one device, named the way its platform does, *)
(* and a fixture on the local network; it throws before it reads a file.    *)
Options == [platform : {"ios", "android"}, targets : SUBSET {"udid", "serial"},
            fixture : {"local", "remote"}]
TargetOf == [ios |-> "udid", android |-> "serial"]
validateTarget(o) == o.targets = {TargetOf[o.platform]}
isLocalFixtureHost(o) == o.fixture = "local"
parseArgs(o) == validateTarget(o) /\ isLocalFixtureHost(o)

Start(k) ==
  /\ pc = "idle" /\ commands < MaxCommands /\ commands' = commands + 1
  /\ kind' = k /\ touched' = {}
  /\ \E o \in Options :
       IF k = "replay" /\ ~parseArgs(o) THEN pc' = "idle" /\ answer' = "failed"
       ELSE pc' = "read" /\ answer' = "none"
  /\ UNCHANGED <<tree, lock, found, edits, faults, hashed, reviewed>>

ReadManifest ==
  /\ pc = "read"
  /\ \/ /\ IsCovered(tree["manifest"])
        /\ Reads(IF kind = "replay" THEN "run" ELSE "list",
                 [of |-> "found", suites |-> tree["manifest"].features])
        /\ UNCHANGED <<faults, hashed>>
     \/ ~IsCovered(tree["manifest"]) /\ Throws

(* The list of files; git that fails filters nothing.                       *)
withoutGitIgnored(files) == files \ GitIgnored
collectRuntimeFiles ==
  /\ pc = "list"
  /\ \E files \in {collectDirectoryFiles, withoutGitIgnored(collectDirectoryFiles)} :
       /\ Reads("suites", [of |-> "found", suites |-> found.suites, files |-> files])
       /\ UNCHANGED hashed
       /\ IF files = withoutGitIgnored(collectDirectoryFiles) THEN UNCHANGED faults
          ELSE faults < MaxFaults /\ faults' = faults + 1

hashSuites ==
  /\ pc = "suites"
  /\ Reads("hash", [of |-> "found", suites |-> found.suites, files |-> found.files,
                    suiteFiles |-> tree["suite"]])
  /\ hashed' = [hashed EXCEPT !["suite"] = tree["suite"]] /\ UNCHANGED faults

hashFiles(files) == [f \in files |-> tree[f]]
HashRuntime ==
  /\ pc = "hash"
  /\ \/ /\ \A f \in found.files : IsPresent(f)
        /\ Reads(kind,
             [of |-> "lock", suites |-> found.suites, suiteFiles |-> found.suiteFiles,
              runtime |-> hashFiles(found.files), manifest |-> tree["manifest"]])
        /\ hashed' = [f \in Files |-> IF f = "suite" THEN hashed[f]
                                 ELSE IF f \in Sources \ found.files THEN Absent ELSE tree[f]]
        /\ UNCHANGED faults
     \/ ~(\A f \in found.files : IsPresent(f)) /\ Throws

refreshReplayLock ==
  /\ pc = "refresh"
  /\ lock' = found /\ Answered("refreshed")
  /\ reviewed' = hashed
  /\ UNCHANGED <<tree, kind, bounds, hashed, touched>>

IsFresh == lock = found
checkReplayFreshness ==
  /\ pc = "check"
  /\ Answered(IF lock = NoLock THEN "missing" ELSE IF IsFresh THEN "fresh" ELSE "stale")
  /\ UNCHANGED <<tree, lock, kind, bounds, hashed, reviewed, touched>>

(* The replays run, and their status is that of the command.                *)
runExampleReplay ==
  /\ pc = "run"
  /\ \E a \in {"passed", "failed"} : Answered(a)
  /\ UNCHANGED <<tree, lock, kind, bounds, hashed, reviewed, touched>>

Edit(f) == \E v \in Contents(f) \ {tree[f]} :
  /\ edits < MaxEdits /\ edits' = edits + 1
  /\ tree' = [tree EXCEPT ![f] = v]
  /\ touched' = touched \cup {f}
  /\ UNCHANGED <<lock, kind, pc, found, answer, commands, faults, hashed, reviewed>>

Next ==
  \/ \E k \in {"refresh", "check", "replay"} : Start(k)
  \/ ReadManifest \/ collectRuntimeFiles \/ hashSuites \/ HashRuntime
  \/ refreshReplayLock \/ checkReplayFreshness \/ runExampleReplay
  \/ \E f \in Files : Edit(f)

Spec == Init /\ [][Next]_vars

-----------------------------------------------------------------------------
Watched == (Sources \ ({"tests"} \cup GitIgnored)) \cup {"suite", "manifest"}

(* When the check calls the lock fresh, each watched file, present or not,  *)
(* that nobody changed since the check began is what the last refresh had   *)
(* before it, however the refresh interleaved with changes.                 *)
FreshIsReviewed == answer = "fresh" =>
  \A f \in Watched \ touched : tree[f] = reviewed[f]

(* When the check calls the lock fresh, or the replays pass, every feature  *)
(* of the manifest that nobody changed since is declared by the source and  *)
(* asserted by the suite: also when a refresh was overtaken by a change.    *)
FreshIsCovered ==
  answer \in {"fresh", "passed"} /\ touched \cap {"app", "suite", "manifest"} = {}
    => tree["manifest"].features \subseteq (tree["app"] \cap tree["suite"]) \ tree["manifest"].pending

(* The check calls a lock stale only because of a watched file: neither     *)
(* what git ignores nor tests make it fail, unless git failed or the        *)
(* manifest changed between the refresh's two readings of it.               *)
NoFalseAlarm ==
  answer = "stale" /\ faults = 0 /\ lock.suites = lock.manifest.features =>
    \E f \in Watched : f \in touched \/ tree[f] # reviewed[f]
=============================================================================
