------------------------------- MODULE Publish -------------------------------
(***************************************************************************)
(* The release command scripts/publish.js with what it runs: the package   *)
(* document lifecycle, the pack check and npm with its prepack and         *)
(* postpack scripts.                                                       *)
(*                                                                         *)
(* Runs of the command follow one another, each with any set of options.   *)
(* A step is one command it executes together with what it decides on the  *)
(* result.  The documents are prepared and restored up to four times in a  *)
(* run, by different commands that do not know of each other, and any of   *)
(* these may fail; a developer may edit a document while it is prepared,   *)
(* and the run may be killed.  What a document is known by is whether it   *)
(* is the original, the repository's or an edited one; PackageDocs has the *)
(* details of how one becomes the other.                                   *)
(***************************************************************************)
EXTENDS Integers, FiniteSets

CONSTANTS
  MaxRuns,      \* bound: runs of the command
  MaxOptions,   \* bound: options given to a run
  MaxFaults,    \* bound: lifecycle commands that fail for no reason of the documents
  MaxEdits      \* bound: edits of a prepared document

PublishAssumption == {MaxRuns, MaxOptions, MaxFaults, MaxEdits} \subseteq Nat

Options == {"dryRun", "skipChecks", "skipQuality", "yes", "allowDirty",
            "skipPackPreview", "withCoverage", "verifyNpmLifecycle"}
Gates == {"releaseDocs", "unpublished", "tree", "auth", "quality", "coverage",
          "artifacts", "confirmed"}

VARIABLES
  pc,          \* the command that runs next
  options,     \* of this run
  interactive, \* this run has a terminal and is not CI
  docs,        \* the package's documents
  edited,      \* a prepared document was changed
  passed,      \* gates this run has passed
  packed,      \* the documents in the tarball of this run's npm publish
  registry,    \* who published the version: "nobody", "other", or the run
  exit,        \* how the last run ended
  runs, faults, edits

vars == <<pc, options, interactive, docs, edited, passed, packed, registry, exit,
          runs, faults, edits>>
run == <<options, interactive, runs>>
tree == <<docs, edited, faults>>

Running == pc # "idle"
DryRun == "dryRun" \in options
Nobody == 0
Other == -1

Init ==
  /\ pc = "idle" /\ options = {} /\ interactive = FALSE
  /\ docs = "original" /\ edited = FALSE
  /\ passed = {} /\ packed = "none" /\ registry = Nobody
  /\ exit = "none" /\ runs = 0 /\ faults = 0 /\ edits = 0

Exit(code) == pc' = "idle" /\ exit' = code
Goto(step) == pc' = step /\ UNCHANGED exit
(* A gate is passed, or the process exits. *)
Pass(gates, step) == passed' = passed \cup gates /\ Goto(step)
Refuse == UNCHANGED passed /\ Exit("failed")

-----------------------------------------------------------------------------
(* The lifecycle's commands, as PackageDocs promises them: both put the     *)
(* originals back if none of the prepared documents was changed, prepare    *)
(* then replaces them anew; a command that fails leaves what it found.      *)
Restorable_Whatever == TRUE
Restorable == ~edited
Restored == Restorable /\ docs' = "original" /\ UNCHANGED <<edited, faults>>
Prepared == Restorable /\ docs' = "prepared" /\ UNCHANGED <<edited, faults>>
LifecycleFails ==
  /\ UNCHANGED <<docs, edited>>
  /\ \/ ~Restorable /\ UNCHANGED faults
     \/ faults < MaxFaults /\ faults' = faults + 1

Start ==
  /\ ~Running /\ runs < MaxRuns
  /\ options' \in {o \in SUBSET Options : Cardinality(o) <= MaxOptions}
  /\ interactive' \in BOOLEAN
  /\ runs' = runs + 1 /\ passed' = {} /\ packed' = "none"
  /\ IF "skipQuality" \in options' /\ "dryRun" \notin options'
       THEN Exit("failed") ELSE pc' = "recover" /\ exit' = "none"
  /\ UNCHANGED <<tree, registry, edits>>

Recover ==
  /\ pc = "recover"
  /\ \/ Restored /\ Goto("releaseDocs")
     \/ LifecycleFails /\ Exit("failed")
  /\ UNCHANGED <<run, passed, packed, registry, edits>>

assertReleaseDocs ==
  /\ pc = "releaseDocs"
  /\ \/ Pass({"releaseDocs"}, IF "skipChecks" \in options THEN "quality" ELSE "registry")
     \/ Refuse
  /\ UNCHANGED <<run, tree, packed, registry, edits>>

(* npm view: the version is there, it is not, or the lookup fails, which is *)
(* not taken for an absent version.                                         *)
isPackageVersionPublished ==
  /\ pc = "registry"
  /\ \/ registry = Nobody /\ Pass({"unpublished"}, "tree")
     \/ registry # Nobody /\ DryRun /\ Pass({}, "tree")
     \/ registry # Nobody /\ ~DryRun /\ Refuse
     \/ Refuse
  /\ UNCHANGED <<run, tree, packed, registry, edits>>

(* A question is only asked at a terminal; without one the run exits. *)
confirmOrExit(skip, gate, step) ==
  \/ skip /\ Pass({gate}, step)
  \/ ~skip /\ interactive /\ Pass({gate}, step)
  \/ ~skip /\ Refuse

TreeCheck ==
  /\ pc = "tree"
  /\ \/ Pass({"tree"}, "auth")
     \/ confirmOrExit(options \cap {"allowDirty", "yes"} # {}, "tree", "auth")
     \/ Refuse
  /\ UNCHANGED <<run, tree, packed, registry, edits>>

AuthCheck ==
  /\ pc = "auth"
  /\ \/ DryRun /\ Pass({}, "quality")
     \/ ~DryRun /\ Pass({"auth"}, "quality")
     \/ ~DryRun /\ Refuse
  /\ UNCHANGED <<run, tree, packed, registry, edits>>

QualityGate ==
  /\ pc = "quality"
  /\ \/ "skipQuality" \in options /\ Pass({}, "coverage")
     \/ "skipQuality" \notin options /\ Pass({"quality"}, "coverage")
     \/ "skipQuality" \notin options /\ Refuse
  /\ UNCHANGED <<run, tree, packed, registry, edits>>

CoverageGate ==
  /\ pc = "coverage"
  /\ \/ "withCoverage" \notin options /\ Pass({}, "artifacts")
     \/ "withCoverage" \in options /\ Pass({"coverage"}, "artifacts")
     \/ "withCoverage" \in options /\ Refuse
  /\ UNCHANGED <<run, tree, packed, registry, edits>>

(* clean, codegen, build and benchmark, and then the pack check, which      *)
(* prepares the documents, lists what would be packed, and cleans up        *)
(* whatever happened.                                                       *)
Artifacts ==
  /\ pc = "artifacts"
  /\ \/ Goto("checkPack") /\ UNCHANGED passed
     \/ Refuse
  /\ UNCHANGED <<run, tree, packed, registry, edits>>
CheckPackPrepares ==
  /\ pc = "checkPack"
  /\ \/ Prepared /\ Goto("checkPackCleanup")
     \/ LifecycleFails /\ Goto("checkPackFailed")
  /\ UNCHANGED <<run, passed, packed, registry, edits>>
CheckPackCleansUp ==
  /\ pc \in {"checkPackCleanup", "checkPackFailed"}
  /\ \/ Restored /\ pc = "checkPackCleanup"
        /\ Pass({"artifacts"}, IF "skipPackPreview" \in options THEN "confirm" ELSE "preview")
     \/ (Restored \/ LifecycleFails) /\ Refuse
  /\ UNCHANGED <<run, packed, registry, edits>>

(* npm pack --dry-run runs prepack and postpack too; it stops at one that   *)
(* fails, and a failed postpack leaves the documents prepared.              *)
PreviewPrepack ==
  /\ pc = "preview"
  /\ \/ Prepared /\ Goto("previewPostpack")
     \/ LifecycleFails /\ Exit("failed")
  /\ UNCHANGED <<run, passed, packed, registry, edits>>
getPackSummary ==
  /\ pc = "previewPostpack"
  /\ \/ Restored /\ Goto("confirm")
     \/ (Restored \/ LifecycleFails \/ UNCHANGED tree) /\ Exit("failed")
  /\ UNCHANGED <<run, passed, packed, registry, edits>>

Confirm ==
  /\ pc = "confirm"
  /\ \/ DryRun /\ Pass({}, "prepare")
     \/ ~DryRun /\ confirmOrExit("yes" \in options, "confirmed", "prepare")
  /\ UNCHANGED <<run, tree, packed, registry, edits>>

-----------------------------------------------------------------------------
(* runPackageCommandWithDocs: prepare, the command, and cleanup in the      *)
(* finally, whose failure hides what the command returned.                  *)
preparePackageDocs ==
  /\ pc = "prepare"
  /\ \/ Prepared /\ Goto("command")
     \/ LifecycleFails /\ Goto("cleanupFailed")
  /\ UNCHANGED <<run, passed, packed, registry, edits>>

RunsScripts == ~DryRun \/ "verifyNpmLifecycle" \in options
CommandStarts ==
  /\ pc = "command"
  /\ \/ Goto(IF RunsScripts THEN "prepack" ELSE "cleanupDone")
     \/ Goto("cleanupFailed")
  /\ UNCHANGED <<run, tree, passed, packed, registry, edits>>
Prepack ==
  /\ pc = "prepack"
  /\ \/ Prepared /\ Goto("pack")
     \/ LifecycleFails /\ Goto("cleanupFailed")
  /\ UNCHANGED <<run, passed, packed, registry, edits>>
Pack ==
  /\ pc = "pack" /\ Goto("postpack")
  /\ packed' = IF edited THEN "edited" ELSE docs
  /\ UNCHANGED <<run, tree, passed, registry, edits>>
Postpack ==
  /\ pc = "postpack"
  /\ \/ Restored /\ Goto(IF DryRun THEN "cleanupDone" ELSE "upload")
     \/ LifecycleFails /\ Goto("cleanupFailed")
  /\ UNCHANGED <<run, passed, packed, registry, edits>>
(* The registry takes a version once. *)
Upload ==
  /\ pc = "upload"
  /\ \/ registry = Nobody /\ registry' = runs /\ Goto("cleanupDone")
     \/ UNCHANGED registry /\ Goto("cleanupFailed")
  /\ UNCHANGED <<run, tree, passed, packed, edits>>

cleanupPackageDocs ==
  /\ pc \in {"cleanupDone", "cleanupFailed"}
  /\ \/ Restored /\ Exit(IF pc = "cleanupDone" THEN "ok" ELSE "failed")
     \/ LifecycleFails /\ Exit("unrestored")
  /\ UNCHANGED <<run, passed, packed, registry, edits>>

-----------------------------------------------------------------------------
(* The environment: a developer edits a prepared document, and takes the    *)
(* edit back when a later command has refused to touch it; another release  *)
(* publishes the version; the run is killed.                                *)
Edit ==
  /\ docs = "prepared" /\ ~edited /\ edits < MaxEdits
  /\ edited' = TRUE /\ edits' = edits + 1
  /\ UNCHANGED <<pc, run, docs, faults, passed, packed, registry, exit>>
TakeBack ==
  /\ edited /\ ~Running /\ edited' = FALSE
  /\ UNCHANGED <<pc, run, docs, faults, passed, packed, registry, exit, edits>>
OtherPublishes ==
  /\ registry = Nobody /\ registry' = Other
  /\ UNCHANGED <<pc, run, tree, passed, packed, exit, edits>>
Kill ==
  /\ Running /\ Exit("killed")
  /\ UNCHANGED <<run, tree, passed, packed, registry, edits>>

PackageCommand ==
  \/ preparePackageDocs \/ CommandStarts \/ Prepack \/ Pack \/ Postpack \/ Upload
  \/ cleanupPackageDocs
Preflight ==
  \/ Recover \/ assertReleaseDocs \/ isPackageVersionPublished \/ TreeCheck
  \/ AuthCheck \/ QualityGate \/ CoverageGate \/ Artifacts \/ CheckPackPrepares
  \/ CheckPackCleansUp \/ PreviewPrepack \/ getPackSummary \/ Confirm
Next ==
  \/ Start \/ Preflight \/ PackageCommand
  \/ Edit \/ TakeBack \/ OtherPublishes \/ Kill

Spec == Init /\ [][Next]_vars

-----------------------------------------------------------------------------
Published == registry = runs /\ runs > 0

(* What is uploaded was packed with the repository's documents, whatever    *)
(* failed or was edited before: an edit between prepack and the packing     *)
(* makes postpack refuse, and npm stops before the upload.                  *)
UploadedIsCanonical == Published => packed = "prepared"

(* A run that ends well has put the documents back and, unless it was a dry *)
(* run, has published; one that leaves them prepared says so or was killed  *)
(* or stopped by an earlier command.                                        *)
SuccessIsComplete == exit = "ok" => docs = "original" /\ (DryRun \/ Published)

(* No set of options and no order of failures uploads a version without the *)
(* quality gate, the built artifacts and the confirmation of this run, nor  *)
(* without the checks unless these were given up by name.                   *)
Required == {"releaseDocs", "quality", "artifacts", "confirmed"}
  \cup (IF "skipChecks" \in options THEN {} ELSE {"unpublished", "tree", "auth"})
GatesHeld == Published => ~DryRun /\ Required \subseteq passed
=============================================================================
