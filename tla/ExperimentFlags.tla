--------------------------- MODULE ExperimentFlags ---------------------------
(* The lifecycle of an ExperimentClient and the flag configurations it keeps:    *)
(* src/packages/react-native-nitro-amplitude/src/experiment/experimentClient.ts  *)
(* start, stop, doFlags, pollFlags, the cache of flags it fills                  *)
(* (storage/cache.ts), the poller of the user provider                           *)
(* (integration/default.ts) and the identity listener that factory.ts adds.      *)
(*                                                                               *)
(* Every await is a point where other calls run, so a start is a record that     *)
(* goes through asked, answered, storing and ready; stop and a newer start may   *)
(* run between any two of them.  A round of the poller goes through the same     *)
(* steps but the last.  One flag stands for all of them: the interesting one is  *)
(* a flag that initialFlags has and the server may or may not deliver.           *)
EXTENDS Naturals, FiniteSets

CONSTANTS
    Starts,        \* calls of start()
    Rounds,        \* rounds of the flag poller
    InitialFlag,   \* the flag as initialFlags has it
    NoFlag,        \* the flag is not in the cache, or the server does not deliver it
    MaxStops,      \* bound: calls of stop() by the app
    MaxVersions,   \* bound: changes of the flags on the server
    MaxFailures,   \* bound: requests, writes, reads and JSON.parse that fail
    MaxDeaths      \* bound: restarts of the app

ExperimentFlagsAssumption ==
    /\ Starts \cap Rounds = {} /\ IsFiniteSet(Starts)
    /\ {NoFlag, InitialFlag} \cap Nat = {} /\ InitialFlag # NoFlag
    /\ {MaxStops, MaxVersions, MaxFailures, MaxDeaths} \subseteq Nat

VARIABLES
    isRunning,
    lifecycleGeneration,
    poller,         \* the flag poller has its interval
    userPoller,     \* the poller of the user provider has its interval
    listening,      \* the identity listener is registered
    calls,          \* every start and every round: where it is
    loading,        \* the constructor's load of the flags: [step, found]
    flag,           \* the flag in the cache
    disk,           \* the flag in what the storage has
    server,         \* the flags on the server: [version, flag]
    applied,        \* version of the answer the cache was last filled with
    unmerged,       \* the load, or the write of that answer, failed: initialFlags
                    \* were not merged into what the cache has
    stops, failures, deaths

client == <<isRunning, lifecycleGeneration, poller, userPoller, listening, calls>>
cache == <<loading, flag, disk, applied, unmerged>>
vars == <<client, cache, server, stops, failures, deaths>>

ServerFlags == (1 .. MaxVersions) \cup {NoFlag}
Served == [version : 0 .. MaxVersions, flag : ServerFlags]
Calls == Starts \cup Rounds

Steps == {"idle", "asked", "answered", "rejected", "storing", "ready", "done", "failed"}
Idle == [step |-> "idle", generation |-> 0, answer |-> [version |-> 0, flag |-> NoFlag],
         fetching |-> FALSE, stopped |-> FALSE]
NotLoaded == [step |-> "asked", found |-> NoFlag]
InFlight(c) == calls[c].step \in {"asked", "answered", "rejected", "storing"}
Outstanding(c) == InFlight(c) \/ calls[c].step = "ready"

-----------------------------------------------------------------------------
(* The client *)

(* start: what runs before its first await.  A start on a running client         *)
(* returns at once and is no step of this module.                                *)
Asking(generation, fetching) ==
    [Idle EXCEPT !.step = "asked", !.generation = generation, !.fetching = fetching]

Start(c) ==
    /\ ~isRunning
    /\ calls[c].step = "idle"
    /\ isRunning' = TRUE
    /\ lifecycleGeneration' = lifecycleGeneration + 1
    /\ userPoller' = TRUE
    /\ \E fetchOnStart \in BOOLEAN : calls' = [calls EXCEPT ![c] = Asking(lifecycleGeneration', fetchOnStart)]
    /\ UNCHANGED <<poller, listening, cache, server, stops, failures, deaths>>

(* stop, as the app calls it and as a start that failed does *)
Halt ==
    /\ lifecycleGeneration' = lifecycleGeneration + 1
    /\ userPoller' = FALSE
    /\ listening' = FALSE
    /\ poller' = (poller /\ ~isRunning)
    /\ isRunning' = FALSE

Stop ==
    /\ stops < MaxStops
    /\ stops' = stops + 1
    /\ Halt
    /\ calls' = [c \in Calls |-> [calls[c] EXCEPT !.stopped = @ \/ Outstanding(c) \/ calls[c].step = "done"]]
    /\ UNCHANGED <<cache, server, failures, deaths>>

(* The server answers the request for the flags, or the request fails or times   *)
(* out.  The answer is what the server has now; it may be read much later.       *)
Answer(c) ==
    /\ calls[c].step = "asked"
    /\ \/ /\ calls' = [calls EXCEPT ![c].step = "answered", ![c].answer = server]
          /\ UNCHANGED failures
       \/ /\ failures < MaxFailures
          /\ failures' = failures + 1
          /\ calls' = [calls EXCEPT ![c].step = "rejected"]
    /\ UNCHANGED <<isRunning, lifecycleGeneration, poller, userPoller, listening,
                   cache, server, stops, deaths>>

(* doFlags, from its first await to its second: an answer of another generation  *)
(* is dropped, any other replaces the whole cache, also while it is loaded.       *)
IsCurrent_Running(c) == isRunning
IsCurrent(c) == calls[c].generation = lifecycleGeneration /\ isRunning

Dropped(c) ==
    /\ calls[c].step = "answered" /\ ~IsCurrent(c)
    /\ calls' = [calls EXCEPT ![c].step = "ready", ![c].answer = Idle.answer]
    /\ UNCHANGED <<cache>>

Applied(c) ==
    /\ calls[c].step = "answered" /\ IsCurrent(c)
    /\ calls' = [calls EXCEPT ![c].step = "storing"]
    /\ flag' = calls[c].answer.flag
    /\ applied' = calls[c].answer.version
    /\ unmerged' = FALSE
    /\ UNCHANGED <<loading, disk>>

Receive(c) ==
    /\ Dropped(c) \/ Applied(c)
    /\ UNCHANGED <<isRunning, lifecycleGeneration, poller, userPoller, listening,
                   server, stops, failures, deaths>>

(* mergeInitialFlagsWithStorage *)
Merged(c) == IF flag = NoFlag THEN InitialFlag ELSE flag

(* doFlags, after its second await: the write of the flags has ended.  Writes    *)
(* of one cache are chained, so they end in the order they were made in.  What   *)
(* is written is the answer, as it was before the merge.                         *)
Written(c) == calls[c].answer.flag

IsOldest(c) ==
    \A d \in Calls : calls[d].step = "storing" => calls[c].generation <= calls[d].generation

Stored(c) ==
    /\ calls[c].step = "storing" /\ IsOldest(c)
    /\ \/ /\ disk' = Written(c)
          /\ flag' = Merged(c)
          /\ calls' = [calls EXCEPT ![c].step = "ready", ![c].answer = Idle.answer]
          /\ unmerged' = FALSE
          /\ UNCHANGED failures
       \/ /\ failures < MaxFailures
          /\ failures' = failures + 1
          /\ unmerged' = TRUE
          /\ calls' = [calls EXCEPT ![c].step = "rejected", ![c].answer = Idle.answer]
          /\ UNCHANGED <<disk, flag>>
    /\ UNCHANGED <<isRunning, lifecycleGeneration, poller, userPoller, listening,
                   loading, applied, server, stops, deaths>>

(* The fetch a start waits for has ended; it never rejects. *)
Fetched(c) ==
    /\ calls[c].fetching
    /\ calls' = [calls EXCEPT ![c].fetching = FALSE]
    /\ UNCHANGED <<isRunning, lifecycleGeneration, poller, userPoller, listening,
                   cache, server, stops, failures, deaths>>

(* Poller.start: it sets the interval and runs a round at once; Poller.start of  *)
(* a poller that has its interval does nothing.                                  *)
FreeRounds == {r \in Rounds : calls[r].step = "idle"}
Begun == Asking(lifecycleGeneration, FALSE)

(* start, after its awaits *)
MayPoll(c) == IsCurrent(c) /\ ~poller

Resume(c) ==
    /\ calls[c].step = "ready" /\ ~calls[c].fetching
    /\ IF MayPoll(c)
       THEN /\ poller' = TRUE
            /\ \E r \in FreeRounds :
                  calls' = [calls EXCEPT ![c].step = "done", ![r] = Begun]
       ELSE /\ calls' = [calls EXCEPT ![c].step = "done"]
            /\ UNCHANGED poller
    /\ UNCHANGED <<isRunning, lifecycleGeneration, userPoller, listening, cache,
                   server, stops, failures, deaths>>

(* start, its catch: only the start of the current generation stops the client. *)
StopsTheClient(c) == calls[c].generation = lifecycleGeneration

Fail(c) ==
    /\ calls[c].step = "rejected"
    /\ IF StopsTheClient(c)
       THEN Halt
       ELSE UNCHANGED <<isRunning, lifecycleGeneration, poller, userPoller, listening>>
    /\ calls' = [calls EXCEPT ![c].step = "failed", ![c].answer = Idle.answer]
    /\ UNCHANGED <<cache, server, stops, failures, deaths>>

(* The interval of the poller: a round.  Requests time out after 10 s and the    *)
(* interval is 60 s, so the round before it has ended.                           *)
Due(r) == poller /\ \A d \in Rounds : InFlight(d) => calls[d].generation # lifecycleGeneration

Tick(r) ==
    /\ Due(r) /\ r \in FreeRounds
    /\ calls' = [calls EXCEPT ![r] = Begun]
    /\ UNCHANGED <<isRunning, lifecycleGeneration, poller, userPoller, listening,
                   cache, server, stops, failures, deaths>>

(* pollFlags returns, also when doFlags rejected *)
EndsTheRound_OnSuccess(r) == calls[r].step = "ready"
EndsTheRound(r) == calls[r].step \in {"ready", "rejected"}

EndRound(r) ==
    /\ EndsTheRound(r)
    /\ calls' = [calls EXCEPT ![r] = Idle]
    /\ UNCHANGED <<isRunning, lifecycleGeneration, poller, userPoller, listening,
                   cache, server, stops, failures, deaths>>

-----------------------------------------------------------------------------
(* The cache and its surroundings *)

(* LoadStoreCache.load of the flags asks the storage for them.  When that is      *)
(* rejected so is the load, and the cache stays as it is, without initialFlags.  *)
ReadFlags ==
    /\ loading.step = "asked"
    /\ \/ /\ loading' = [step |-> "read", found |-> disk]
          /\ UNCHANGED <<unmerged, failures>>
       \/ /\ failures < MaxFailures
          /\ failures' = failures + 1
          /\ loading' = [step |-> "ended", found |-> NoFlag]
          /\ unmerged' = (unmerged \/ flag = NoFlag)
    /\ UNCHANGED <<client, flag, disk, applied, server, stops, deaths>>

(* When the storage has answered, what it has over initialFlags takes the place  *)
(* of what is in the cache by now; initialFlags alone do when the storage has    *)
(* nothing or cannot be read as JSON.                                            *)
Loaded == IF loading.found = NoFlag THEN InitialFlag ELSE loading.found

Load ==
    /\ loading.step = "read"
    /\ loading' = [step |-> "ended", found |-> NoFlag]
    /\ \/ /\ flag' = Loaded
          /\ UNCHANGED failures
       \/ /\ failures < MaxFailures
          /\ failures' = failures + 1
          /\ flag' = InitialFlag
    /\ unmerged' = FALSE
    /\ UNCHANGED <<client, disk, applied, server, stops, deaths>>

Publish ==
    /\ server.version < MaxVersions
    /\ \E f \in {server.version + 1, NoFlag} :
          server' = [version |-> server.version + 1, flag |-> f]
    /\ UNCHANGED <<client, cache, stops, failures, deaths>>

Init ==
    /\ isRunning = FALSE /\ lifecycleGeneration = 0
    /\ poller = FALSE /\ userPoller = FALSE /\ listening = TRUE
    /\ calls = [c \in Calls |-> Idle]
    /\ loading = NotLoaded /\ flag = NoFlag /\ applied = 0 /\ unmerged = FALSE
    /\ disk = NoFlag
    /\ server = [version |-> 0, flag |-> NoFlag]
    /\ stops = 0 /\ failures = 0 /\ deaths = 0

(* The app dies and starts again with a new client: only the storage stays. *)
Die ==
    /\ deaths < MaxDeaths
    /\ deaths' = deaths + 1
    /\ isRunning' = FALSE /\ lifecycleGeneration' = 0
    /\ poller' = FALSE /\ userPoller' = FALSE /\ listening' = TRUE
    /\ calls' = [c \in Calls |-> Idle]
    /\ loading' = NotLoaded /\ flag' = NoFlag /\ applied' = 0 /\ unmerged' = FALSE
    /\ UNCHANGED <<disk, server, stops, failures>>

StartStep(c) == Start(c) \/ Fetched(c) \/ Resume(c) \/ Fail(c)
RoundStep(r) == Tick(r) \/ EndRound(r)
FlagsStep(c) == Answer(c) \/ Receive(c) \/ Stored(c)

Next ==
    \/ \E c \in Starts : StartStep(c)
    \/ \E r \in Rounds : RoundStep(r)
    \/ \E c \in Calls : FlagsStep(c)
    \/ Stop \/ ReadFlags \/ Load \/ Publish \/ Die

Spec == Init /\ [][Next]_vars

(* A request ends, by its answer or its timeout; promises that are settled run    *)
(* their continuations; an interval fires.                                       *)
Fairness ==
    /\ \A c \in Calls : WF_vars(FlagsStep(c))
    /\ \A c \in Starts : WF_vars(Fetched(c)) /\ WF_vars(Resume(c) \/ Fail(c))
    /\ WF_vars(\E r \in Rounds : Tick(r))
    /\ \A r \in Rounds : WF_vars(EndRound(r))
    /\ WF_vars(ReadFlags \/ Load)
FairSpec == Spec /\ Fairness

-----------------------------------------------------------------------------
(* Properties *)

(* The values the variables take; two rounds are enough, there is always one      *)
(* free when the poller needs it.                                                *)
TypeOK ==
    /\ {isRunning, poller, userPoller, listening, unmerged} \subseteq BOOLEAN
    /\ loading \in [step : {"asked", "read", "ended"}, found : ServerFlags]
    /\ lifecycleGeneration \in 0 .. (MaxStops + 2 * Cardinality(Starts))
    /\ calls \in [Calls -> [step : Steps, generation : Nat, answer : Served,
                            fetching : BOOLEAN, stopped : BOOLEAN]]
    /\ flag \in ServerFlags \cup {InitialFlag} /\ disk \in ServerFlags
    /\ server \in Served /\ applied \in 0 .. MaxVersions

(* Background work runs only while the client runs, whatever order stops,         *)
(* starts and late answers come in.                                              *)
PollersStop == (poller \/ userPoller) => isRunning

(* A client that runs polls, or a start of its generation is still on the way to  *)
(* it: no start ends without its poller and none that failed is left running.    *)
RunningPolls ==
    isRunning => \/ poller
                 \/ \E c \in Starts : Outstanding(c) /\ calls[c].generation = lifecycleGeneration

(* A start that nobody stopped and that did not fail itself keeps the client      *)
(* running: an older start that fails late does not stop it.                     *)
StartHolds ==
    \A c \in Starts :
        (Outstanding(c) \/ calls[c].step = "done") /\ ~calls[c].stopped => isRunning

(* Once the load has ended, a flag of initialFlags is missing from the cache only  *)
(* while the flags are written, or when that write, or the load, failed.         *)
InitialFlagStays ==
    loading.step = "ended" /\ flag = NoFlag => unmerged \/ \E c \in Calls : calls[c].step = "storing"

(* An answer of an earlier start or round that comes late is not applied: no      *)
(* answer replaces a newer one.  (A load that ends late may put what was stored  *)
(* in the place of an answer; that the next round makes good is FlagsCatchUp.)   *)
FlagsNeverGoBack == [][applied' >= applied \/ deaths' # deaths]_vars

(* A client that keeps running has the newest flags of the server in the end, and *)
(* the flags of initialFlags the server does not deliver.                        *)
UpToDate ==
    /\ applied = server.version
    /\ flag = IF server.flag = NoFlag THEN InitialFlag ELSE server.flag
FlagsCatchUp == <>[]isRunning => []<>UpToDate
=============================================================================
