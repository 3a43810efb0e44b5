---------------------------- MODULE VariantReads ----------------------------
(* What an app reads from an ExperimentClient: variant() and all() in            *)
(* src/packages/react-native-nitro-amplitude/src/experiment/experimentClient.ts, *)
(* the sources they read in their order, and the exposures a read tracks         *)
(* (util/userSessionExposureTracker.ts).                                         *)
(*                                                                               *)
(* The caches of variants and flags are filled by fetches, polls and restarts    *)
(* (modules ExperimentFetch and ExperimentFlags): here they take any content at   *)
(* any time, and so does the identity of the user.                               *)
EXTENDS Naturals, Sequences

CONSTANTS
    Keys,        \* flag keys
    Identities,  \* pairs of a user id and a device id
    None,        \* null or undefined
    MaxReads     \* bound: reads that track an exposure, over a behaviour

(* A variant: its name and whether its metadata says it is the default one. *)
Assigned == {[name |-> "on", default |-> FALSE], [name |-> "off", default |-> TRUE]}
Configured(name) == [name |-> name, default |-> FALSE]

(* A flag configuration: where it is evaluated, and what the engine answers. *)
FlagValues == [mode : {"local"}, evaluates : Assigned \cup {None}]
              \cup [mode : {"remote"}, evaluates : {v \in Assigned : ~v.default}]

(* null is neither a variant nor a name nor a source.                        *)
VariantReadsAssumption ==
    /\ MaxReads \in Nat
    /\ None \notin Assigned \cup {Configured(name) : name \in {"inline", "initial", "fallback"}}
    /\ None \notin FlagValues
    /\ None \notin {"on", "off", "inline", "initial", "fallback", "absent",
                    "initialVariants", "storage", "local-evaluation"}

VARIABLES
    config,    \* source, initialVariants and fallbackVariant of the configuration
    variants,  \* the cache of variants
    flags,     \* the cache of flags
    identity,  \* the user the client evaluates for
    tracker,   \* the tracker's identity, and the variant it tracked per key
    shown,     \* per key: the identity and the variant of the last read that exposes
    sent,      \* per key: the identity and the variant of the last exposure sent
    reads

vars == <<config, variants, flags, identity, tracker, shown, sent, reads>>

-----------------------------------------------------------------------------
(* Reading a variant *)

Found(variant, source, default) ==
    [variant |-> variant, source |-> source, hasDefaultVariant |-> default]
Nothing == Found(None, None, FALSE)

isFallback(source) ==
    source \in {None, "fallback-inline", "fallback-config", "secondary-initial"}

initialVariant(k) == config.initial

(* The tail that every source shares: inline, initial variants, configuration,   *)
(* and the default variant when there is none of them.                           *)
fallbackChain(k, inline, default, withInitial) ==
    IF inline # None
    THEN Found(Configured(inline), "fallback-inline", default.hasDefaultVariant)
    ELSE IF withInitial /\ initialVariant(k) # None
    THEN Found(Configured(initialVariant(k)), "secondary-initial", default.hasDefaultVariant)
    ELSE IF config.fallback # None
    THEN Found(Configured(config.fallback), "fallback-config", default.hasDefaultVariant)
    ELSE default

storedVariant(k) ==
    IF variants[k] = None THEN Nothing
    ELSE Found(variants[k], "storage", variants[k].default)

fromStorage(k, inline, withInitial) ==
    LET stored == storedVariant(k) IN
    IF stored.variant # None /\ ~stored.hasDefaultVariant THEN stored
    ELSE fallbackChain(k, inline, stored, withInitial)

fromInitial(k, inline) ==
    IF initialVariant(k) # None
    THEN Found(Configured(initialVariant(k)), "initial", FALSE)
    ELSE fromStorage(k, inline, FALSE)

fromEvaluation(k, inline) ==
    LET result == flags[k].evaluates
        found == Found(result, "local-evaluation", result # None /\ result.default)
    IN  IF result # None /\ ~result.default THEN found
        ELSE fallbackChain(k, inline, IF result = None THEN Nothing ELSE found, TRUE)

isLocal(k) == flags[k] # None /\ flags[k].mode = "local"

(* variantAndSource: the configured source, unless the flag is evaluated locally  *)
(* or the source has nothing.                                                    *)
Evaluates_OnlyLocal(k, found) == isLocal(k)
Evaluates(k, found) == flags[k] # None /\ (isLocal(k) \/ found.variant = None)

variantAndSource(k, inline) ==
    LET found == IF config.source = "initialVariants" THEN fromInitial(k, inline)
                 ELSE fromStorage(k, inline, TRUE)
    IN  IF Evaluates(k, found) THEN fromEvaluation(k, inline) ELSE found

(* Of several values of a key the first that is there.                           *)
First(candidates) ==
    LET present == {i \in DOMAIN candidates : candidates[i] # None}
    IN  IF present = {} THEN None
        ELSE candidates[CHOOSE i \in present : \A j \in present : i <= j]

(* all(): the local evaluations over the configured source over the other one;    *)
(* the evaluations of other flags are deleted.                                   *)
Kept(k) == isLocal(k)

all(k) ==
    LET stored == variants[k]
        initial == IF initialVariant(k) = None THEN None ELSE Configured(initialVariant(k))
        evaluated == IF Kept(k) THEN flags[k].evaluates ELSE None
    IN  First(IF config.source = "initialVariants" THEN <<evaluated, initial, stored>>
              ELSE <<evaluated, stored, initial>>)

-----------------------------------------------------------------------------
(* Exposures *)

(* exposureInternal: fallbacks that hide no default variant are not tracked; the  *)
(* exposure names a variant unless it is a default or a fallback.                *)
Exposes(found) == isFallback(found.source) => found.hasDefaultVariant
ExposedVariant(found) ==
    IF isFallback(found.source) \/ found.variant = None \/ found.variant.default THEN "absent"
    ELSE found.variant.name

(* UserSessionExposureTracker.track *)
Untracked == [k \in Keys |-> None]
Session == IF tracker.identity = identity THEN tracker.tracked ELSE Untracked
Repeats(k, variant) == Session[k] = variant

(* variant() with automatic tracking, and exposure(), which has no fallback. *)
Read(k, inline) ==
    LET found == variantAndSource(k, inline)
        variant == ExposedVariant(found)
    IN  /\ reads < MaxReads
        /\ Exposes(found)
        /\ reads' = reads + 1
        /\ tracker' = [identity |-> identity, tracked |-> [Session EXCEPT ![k] = variant]]
        /\ shown' = [shown EXCEPT ![k] = <<identity, variant>>]
        /\ sent' = IF Repeats(k, variant) THEN sent
                   ELSE [sent EXCEPT ![k] = <<identity, variant>>]
        /\ UNCHANGED <<config, variants, flags, identity>>

CachesChange(k) ==
    /\ \/ /\ \E v \in Assigned \cup {None} : variants' = [variants EXCEPT ![k] = v]
          /\ UNCHANGED flags
       \/ /\ \E f \in FlagValues \cup {None} : flags' = [flags EXCEPT ![k] = f]
          /\ UNCHANGED variants
    /\ UNCHANGED <<config, identity, tracker, shown, sent, reads>>

(* The user changes, by setUser or through the provider. *)
UserChanges ==
    /\ \E i \in Identities : identity' = i
    /\ UNCHANGED <<config, variants, flags, tracker, shown, sent, reads>>

Init ==
    /\ config \in [source : {"localStorage", "initialVariants"},
                   initial : {None, "initial"}, fallback : {None, "fallback"}]
    /\ variants = [k \in Keys |-> None]
    /\ flags = [k \in Keys |-> None]
    /\ identity \in Identities
    /\ tracker = [identity |-> None, tracked |-> Untracked]
    /\ shown = [k \in Keys |-> None] /\ sent = [k \in Keys |-> None]
    /\ reads = 0

Next ==
    \/ \E k \in Keys, inline \in {None, "inline"} : Read(k, inline)
    \/ \E k \in Keys : CachesChange(k)
    \/ UserChanges

Spec == Init /\ [][Next]_vars

-----------------------------------------------------------------------------
(* Properties *)

(* The order that the comments of the three functions give, as one list per        *)
(* source: the first that is present wins, default variants come last.           *)
NonDefault(v) == IF v # None /\ v.default THEN None ELSE v
Named(name) == IF name = None THEN None ELSE Configured(name)

Documented(k, inline) ==
    LET stored == variants[k]
        evaluated == IF flags[k] = None THEN None ELSE flags[k].evaluates
        initial == Named(initialVariant(k))
        fallback == Named(config.fallback)
    IN  IF isLocal(k)
        THEN First(<<NonDefault(evaluated), Named(inline), initial, fallback, evaluated>>)
        ELSE IF config.source = "localStorage"
        THEN First(<<NonDefault(stored), Named(inline), initial, fallback, stored, evaluated>>)
        ELSE First(<<initial, NonDefault(stored), Named(inline), fallback, stored, evaluated>>)

(* variant() follows the documented order of sources for every configuration,      *)
(* every content of the caches and every inline fallback.                        *)
OrderIsDocumented ==
    \A k \in Keys, inline \in {None, "inline"} :
        variantAndSource(k, inline).variant = Documented(k, inline)

(* all() and variant() agree on every key whose variant is no fallback, except for *)
(* a flag evaluated remotely, which only variant() evaluates.                    *)
AllAgrees ==
    \A k \in Keys :
        LET found == variantAndSource(k, None) IN
        ~isFallback(found.source) /\ (found.source = "local-evaluation" => isLocal(k))
            => all(k) = found.variant

(* The last exposure that was sent for a key says what the app last read for it,   *)
(* and for which user: a variant that changes, or another user, is exposed again. *)
ExposureIsCurrent == sent = shown
=============================================================================
