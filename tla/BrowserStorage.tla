--------------------------- MODULE BrowserStorage ---------------------------
(* The string storage of the web build over window.localStorage:                 *)
(* src/packages/react-native-nitro-amplitude/src/native/browser-string-storage.ts,*)
(* as storage.web.ts and analytics/storage/local-storage.ts use it.              *)
(*                                                                               *)
(* localStorage may be missing, and each of its functions may throw, at any      *)
(* call; the module-level maps make up for that while the page lives.  Several    *)
(* namespaces share the maps, and the prefix of one may begin with another's.    *)
EXTENDS Naturals, FiniteSets, FiniteSetsExt

CONSTANTS
    Keys,        \* full storage keys, all in the outer namespace
    Inner,       \* those that are in the inner namespace too
    Values,
    None,        \* undefined, or no entry in a map
    Deleted,     \* the override that says: deleted
    MaxRevision, \* bound: revisions given out over a behaviour
    MaxReloads   \* bound: reloads of the page

BrowserStorageAssumption ==
    /\ Inner \subseteq Keys
    /\ None # Deleted /\ {None, Deleted} \cap Values = {}

VARIABLES
    stored,          \* what localStorage has
    overrides,       \* per key: None, Deleted or a value
    lastKnownValues,
    keyRevisions,    \* per key: its revision, 0 when it has none
    resetRevisions,  \* per namespace: the revision of its reset, 0 when it has none
    revision,
    expected,        \* what the operations of this page left in each key
    touched,         \* keys this page has written, removed or reset
    reloads

maps == <<overrides, lastKnownValues, keyRevisions, resetRevisions, revision>>
vars == <<stored, maps, expected, touched, reloads>>
Namespaces == {"outer", "inner"}
Covers(ns) == IF ns = "outer" THEN Keys ELSE Inner
Within_Around(ns) == {n \in Namespaces : Covers(ns) \subseteq Covers(n)}
Within(ns) == {n \in Namespaces : Covers(n) \subseteq Covers(ns)}

(* What a call meets: no localStorage, one that works, or one that throws. *)
Access == {"missing", "works", "throws"}

-----------------------------------------------------------------------------
(* Reading *)

resetRevisionForKey(k) ==
    Max({resetRevisions[ns] : ns \in {n \in Namespaces : k \in Covers(n)}})

isHiddenByReset(k) ==
    resetRevisionForKey(k) # 0 /\ keyRevisions[k] <= resetRevisionForKey(k)

Kept(k) == IF overrides[k] = Deleted THEN None ELSE overrides[k]

get(k, access) ==
    IF isHiddenByReset(k) THEN None
    ELSE IF overrides[k] # None THEN Kept(k)
    ELSE IF access = "works" THEN stored[k] ELSE lastKnownValues[k]

-----------------------------------------------------------------------------
(* Writing *)

(* recordKeyRevision: a key is newer than the resets before it. *)
recordKeyRevision(k) ==
    IF resetRevisionForKey(k) = 0
    THEN /\ keyRevisions' = [keyRevisions EXCEPT ![k] = 0]
         /\ UNCHANGED revision
    ELSE /\ revision < MaxRevision
         /\ revision' = revision + 1
         /\ keyRevisions' = [keyRevisions EXCEPT ![k] = revision + 1]

(* set and remove: v is the value, or None.  The override stays only where       *)
(* localStorage did not take the change.                                         *)
OverrideAfter(k, v, access) ==
    IF access = "works" THEN None ELSE IF v = None THEN Deleted ELSE v

Write(k, v, access) ==
    /\ recordKeyRevision(k)
    /\ lastKnownValues' = [lastKnownValues EXCEPT ![k] = v]
    /\ overrides' = [overrides EXCEPT ![k] = OverrideAfter(k, v, access)]
    /\ stored' = IF access = "works" THEN [stored EXCEPT ![k] = v] ELSE stored
    /\ expected' = [expected EXCEPT ![k] = v]
    /\ touched' = touched \cup {k}
    /\ UNCHANGED <<resetRevisions, reloads>>

set(k, v, access) == Write(k, v, access)
remove(k, access) == Write(k, None, access)

(* reset, what it does first and whatever localStorage does. *)
ForgetIn(ns) ==
    /\ revision < MaxRevision
    /\ revision' = revision + 1
    /\ lastKnownValues' = [k \in Keys |-> IF k \in Covers(ns) THEN None ELSE lastKnownValues[k]]
    /\ expected' = [k \in Keys |-> IF k \in Covers(ns) THEN None ELSE expected[k]]
    /\ touched' = touched \cup Covers(ns)
    /\ UNCHANGED reloads

Hides(ns) == [resetRevisions EXCEPT ![ns] = revision + 1]

(* reset without localStorage, or when its keys cannot be listed. *)
resetBlind(ns) ==
    /\ ForgetIn(ns)
    /\ resetRevisions' = Hides(ns)
    /\ overrides' = [k \in Keys |-> IF k \in Covers(ns) /\ overrides[k] # None
                                    THEN Deleted ELSE overrides[k]]
    /\ UNCHANGED <<stored, keyRevisions>>

(* reset over the keys it knows and the keys it lists; removing those in failing *)
(* throws.  When none does, the resets within this one have nothing left to hide. *)
Known(ns) ==
    {k \in Covers(ns) : \/ lastKnownValues[k] # None \/ keyRevisions[k] # 0
                        \/ overrides[k] # None \/ stored[k] # None}

EndsHiding(failing) == failing = {}

reset(ns, failing) ==
    LET removed == Known(ns) \ failing IN
    /\ ForgetIn(ns)
    /\ stored' = [k \in Keys |-> IF k \in removed THEN None ELSE stored[k]]
    /\ overrides' = [k \in Keys |-> IF k \in removed THEN None
                                    ELSE IF k \in failing THEN Deleted ELSE overrides[k]]
    /\ keyRevisions' = [k \in Keys |-> IF k \in removed THEN 0 ELSE keyRevisions[k]]
    /\ resetRevisions' = IF EndsHiding(failing)
                         THEN [n \in Namespaces |-> IF n \in Within(ns) THEN 0 ELSE resetRevisions[n]]
                         ELSE Hides(ns)

(* The page is loaded again: localStorage is all that stays. *)
Reload ==
    /\ reloads < MaxReloads
    /\ reloads' = reloads + 1
    /\ overrides' = [k \in Keys |-> None]
    /\ lastKnownValues' = [k \in Keys |-> None]
    /\ keyRevisions' = [k \in Keys |-> 0]
    /\ resetRevisions' = [ns \in Namespaces |-> 0]
    /\ revision' = 0
    /\ expected' = stored
    /\ touched' = {}
    /\ UNCHANGED stored

Init ==
    /\ stored = [k \in Keys |-> None]
    /\ overrides = [k \in Keys |-> None]
    /\ lastKnownValues = [k \in Keys |-> None]
    /\ keyRevisions = [k \in Keys |-> 0]
    /\ resetRevisions = [ns \in Namespaces |-> 0]
    /\ revision = 0
    /\ expected = [k \in Keys |-> None]
    /\ touched = {}
    /\ reloads = 0

Next ==
    \/ \E k \in Keys, access \in Access :
          (\E v \in Values : set(k, v, access)) \/ remove(k, access)
    \/ \E ns \in Namespaces :
          resetBlind(ns) \/ \E failing \in SUBSET Known(ns) : reset(ns, failing)
    \/ Reload

Spec == Init /\ [][Next]_vars

-----------------------------------------------------------------------------
(* Properties *)

(* While the page lives, a key reads as its operations left it, whether          *)
(* localStorage worked, was missing or threw at any of them and does so now: no  *)
(* value comes back after a remove or a reset, of its own namespace or of one    *)
(* around it.  A key the page has not changed reads as localStorage has it, or   *)
(* as nothing while that cannot be read.                                         *)
ReadsLatest ==
    \A k \in Keys, access \in Access :
        get(k, access) \in IF k \in touched THEN {expected[k]} ELSE {stored[k], None}

(* What is not held back in memory is in localStorage: the next page finds it. *)
DurableUnlessOverridden ==
    \A k \in Keys :
        overrides[k] = None /\ ~isHiddenByReset(k) => stored[k] = expected[k]

(* The maps that hide old values shrink again: after a reset of everything that   *)
(* worked, nothing is hidden and no override is left.                            *)
CleanAfterReset ==
    [][\A ns \in Namespaces :
          resetRevisions'[ns] = 0 /\ resetRevisions[ns] # 0 /\ reloads' = reloads
              => \A k \in Covers(ns) : overrides'[k] = None /\ keyRevisions'[k] = 0 /\ stored'[k] = None
      ]_vars
=============================================================================
