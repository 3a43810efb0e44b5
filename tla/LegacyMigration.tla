--------------------------- MODULE LegacyMigration ---------------------------
(***************************************************************************)
(* MigratingStorage (cpp/core/LegacyDiskMigration.hpp): the disk storage   *)
(* that first imports what an earlier version left in the platform's       *)
(* preferences.  One caller, as JavaScript is one thread.  The store below *)
(* is used as DurableMap promises: a call takes effect or fails.  The      *)
(* preferences are changed in memory and reach the disk later (apply() on  *)
(* Android, NSUserDefaults on iOS), and the process may die at any point.  *)
(***************************************************************************)
EXTENDS Naturals

CONSTANTS
  Keys,
  Rejected,   \* keys of legacy entries the store refuses for good: too large
  None,
  MaxCalls,   \* bound: calls
  MaxFaults,  \* bound: failing operations of store and preferences
  MaxDeaths   \* bound: deaths of the process

LegacyMigrationAssumption ==
  /\ Rejected \subseteq Keys /\ {MaxCalls, MaxFaults, MaxDeaths} \subseteq Nat
  /\ None \notin {"legacy", "app"}

VARIABLES
  store,      \* of each key: None, "legacy" or "app"
  legacy,     \* keys in the preferences, as the process sees them
  settled,    \* the same on the disk
  migrated,   \* migrated_
  armed,      \* armed_
  op,         \* the call that runs, [kind, key], or None
  step,       \* where it is: "ensure", "import", "handled", "store", "after"
  entries,    \* entries read and not yet looked at
  handled,    \* handledKeys
  calls, faults, deaths,
  wanted,     \* observed, of each key: "absent", "old", "written", "deleted", "unsure"
  back        \* observed: keys whose removal from the preferences failed or was lost

prefs == <<legacy, settled>>
flags == <<migrated, armed>>
run   == <<op, step, entries, handled>>
vars  == <<store, prefs, flags, run, calls, faults, deaths, wanted, back>>

Init ==
  /\ legacy \in SUBSET Keys /\ settled = legacy
  /\ store = [k \in Keys |-> None]
  /\ migrated = FALSE /\ armed = TRUE
  /\ op = None /\ step = None /\ entries = {} /\ handled = {}
  /\ calls = 0 /\ faults = 0 /\ deaths = 0
  /\ wanted = [k \in Keys |-> IF k \in legacy THEN "old" ELSE "absent"] /\ back = {}

-----------------------------------------------------------------------------
At(s) == op # None /\ step = s
Goes(s) == step' = s /\ UNCHANGED op
Returns == op' = None /\ step' = None
Fault == faults < MaxFaults /\ faults' = faults + 1
NoFault == UNCHANGED faults

Call(kind, k) ==
  /\ op = None /\ calls < MaxCalls
  /\ op' = [kind |-> kind, key |-> k] /\ step' = "ensure" /\ calls' = calls + 1
  /\ UNCHANGED <<store, prefs, flags, entries, handled, faults, deaths, wanted, back>>

(* ensureMigrated: once per process, and again only after a write.          *)
Idle ==
  /\ At("ensure") /\ (migrated \/ ~armed)
  /\ Goes("store")
  /\ UNCHANGED <<store, prefs, flags, entries, handled, calls, faults, deaths, wanted, back>>

ReadEntries ==
  /\ At("ensure") /\ ~migrated /\ armed
  /\ armed' = FALSE /\ entries' = legacy /\ handled' = {}
  /\ Goes("import")
  /\ UNCHANGED <<store, prefs, migrated, calls, faults, deaths, wanted, back>>

ReadFails ==
  /\ At("ensure") /\ ~migrated /\ armed /\ Fault
  /\ armed' = FALSE /\ Goes("store")
  /\ UNCHANGED <<store, prefs, migrated, entries, handled, calls, deaths, wanted, back>>

(* migrateLegacyDiskEntries: the entries come in any order; a key the store *)
(* has is not imported again, a record it rejects is given up, and the      *)
(* first other failure ends the attempt.                                    *)
Imported(k) == IF store[k] # None \/ k \in Rejected THEN store[k] ELSE "legacy"
Import(k) ==
  /\ At("import") /\ k \in entries
  /\ store' = [store EXCEPT ![k] = Imported(k)]
  /\ entries' = entries \ {k} /\ handled' = handled \cup {k}
  /\ UNCHANGED <<prefs, flags, op, step, calls, faults, deaths, wanted, back>>

AfterFailure(k) == UNCHANGED handled
ImportFails(k) ==
  /\ At("import") /\ k \in entries /\ Fault
  /\ AfterFailure(k) /\ Goes("handled")
  /\ UNCHANGED <<store, prefs, flags, entries, calls, deaths, wanted, back>>

(* What was handled goes from the preferences.  A failure is ignored.       *)
Removes(keys) ==
  \/ NoFault /\ legacy' = legacy \ keys /\ UNCHANGED back
  \/ Fault /\ UNCHANGED legacy /\ back' = back \cup (keys \cap legacy)

RemoveHandled ==
  /\ At("handled")
  /\ IF handled = {} THEN UNCHANGED <<legacy, faults, back>> ELSE Removes(handled)
  /\ Goes("store")
  /\ UNCHANGED <<store, settled, flags, entries, handled, calls, deaths, wanted>>

(* clear, which is only called when there were entries.                     *)
Completes ==
  /\ At("import") /\ entries = {}
  /\ \/ NoFault /\ migrated' = TRUE /\ legacy' = {} /\ UNCHANGED back
     \/ handled # {} /\ Fault /\ UNCHANGED <<migrated, legacy>> /\ back' = back \cup legacy
  /\ Goes("store")
  /\ UNCHANGED <<store, settled, armed, entries, handled, calls, deaths, wanted>>

-----------------------------------------------------------------------------
(* The call itself.                                                         *)
setDisk ==
  /\ At("store") /\ op.kind = "set"
  /\ \/ /\ NoFault /\ Goes("after")
        /\ store' = [store EXCEPT ![op.key] = "app"]
        /\ wanted' = [wanted EXCEPT ![op.key] = "written"]
     \/ Fault /\ Returns /\ UNCHANGED <<store, wanted>>
  /\ UNCHANGED <<prefs, flags, entries, handled, calls, deaths, back>>

rearmAfterWrite ==
  /\ At("after") /\ op.kind = "set"
  /\ armed' = TRUE /\ Returns
  /\ UNCHANGED <<store, prefs, migrated, entries, handled, calls, faults, deaths, wanted, back>>

getDisk ==
  /\ At("store") /\ op.kind = "get" /\ Returns
  /\ UNCHANGED <<store, prefs, flags, entries, handled, calls, faults, deaths, wanted, back>>

deleteDisk ==
  /\ At("store") /\ op.kind = "delete"
  /\ \/ /\ NoFault /\ Goes("after")
        /\ store' = [store EXCEPT ![op.key] = None]
        /\ wanted' = [wanted EXCEPT ![op.key] = "unsure"]
     \/ Fault /\ Returns /\ UNCHANGED <<store, wanted>>
  /\ UNCHANGED <<prefs, flags, entries, handled, calls, deaths, back>>

(* forget: nothing is left to remove once everything was imported.          *)
MustForget_OnlyArmed == ~migrated /\ armed
MustForget == ~migrated
forget ==
  /\ At("after") /\ op.kind = "delete"
  /\ IF MustForget THEN Removes({op.key}) ELSE UNCHANGED <<legacy, faults, back>>
  /\ wanted' = [wanted EXCEPT ![op.key] = "deleted"] /\ Returns
  /\ UNCHANGED <<store, settled, flags, entries, handled, calls, deaths>>

-----------------------------------------------------------------------------
(* The preferences reach the disk.                                          *)
Settle ==
  /\ settled # legacy /\ settled' = legacy
  /\ UNCHANGED <<store, legacy, flags, run, calls, faults, deaths, wanted, back>>

(* The process dies and starts again: a new MigratingStorage.               *)
Die ==
  /\ deaths < MaxDeaths /\ deaths' = deaths + 1
  /\ legacy' = settled /\ back' = back \cup (settled \ legacy)
  /\ migrated' = FALSE /\ armed' = TRUE
  /\ Returns /\ entries' = {} /\ handled' = {}
  /\ UNCHANGED <<store, settled, calls, faults, wanted>>

Next ==
  \/ \E k \in Keys : \/ \E kind \in {"set", "get", "delete"} : Call(kind, k)
                     \/ Import(k) \/ ImportFails(k)
  \/ Idle \/ ReadEntries \/ ReadFails \/ RemoveHandled \/ Completes
  \/ setDisk \/ rearmAfterWrite \/ getDisk \/ deleteDisk \/ forget
  \/ Settle \/ Die
Spec == Init /\ [][Next]_vars

-----------------------------------------------------------------------------
(* What the application wrote is never replaced by an imported value.       *)
WrittenStays == \A k \in Keys : wanted[k] = "written" => store[k] = "app"

(* A deleted key is not imported again, though an attempt to import may     *)
(* have stopped before it, unless the platform kept its legacy entry        *)
(* against the removal: the removal failed, or was lost with the process.   *)
DeletedStays == \A k \in Keys : wanted[k] = "deleted" /\ k \notin back => store[k] = None

(* A legacy entry the application has not touched is in the store or still  *)
(* in the preferences, on the disk too.                                     *)
NothingLost ==
  \A k \in Keys \ Rejected :
    wanted[k] = "old" => store[k] = "legacy" \/ k \in legacy \cap settled

(* Imports that stop half way, in any order with writes, deletes and deaths *)
(* of the process, neither replace what the application wrote, nor bring    *)
(* back a key it deleted, nor lose an entry.                                *)
MigrationHolds == WrittenStays /\ DeletedStays /\ NothingLost
=============================================================================
