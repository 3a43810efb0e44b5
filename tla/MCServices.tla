----------------------------- MODULE MCServices ------------------------------
(* What must happen in the end, checked in one run: of the segment store, the *)
(* worker, the write-behind buffer, the client of the worker, and the clients *)
(* of one instance name.  They share no variables, so a behaviour is one of   *)
(* one component: the others stay in their initial states and are owed no     *)
(* step.                                                                      *)
EXTENDS Naturals, Sequences

CONSTANTS
  (* SegmentStore *)       StoreKeys, Values, Tombstone, Torn, MergedLine, None, MaxSegmentId,
                           SegmentCapacity, Outage, MaxFaults, MaxRestarts, MaxWipes,
  (* Worker *)             Threads, Ids, Listeners, Sizes, MaxQueued, MaxQueuedBytes,
                           MaxRequests, Nothing,
  (* WriteBehind *)        Stores, Names, MaxWrites, MaxKills,
  (* Transports *)         Requesters, Others, Failures, Refused, MaxEvents, MaxSwitches, MaxClears,
  (* ExperimentFlags *)    Starts, Rounds, InitialFlag, NoFlag, MaxStops, MaxVersions,
                           MaxFlagFailures, MaxDeaths,
  (* AnalyticsLifecycle *) Clients, MaxInits, MaxShutdowns, MaxFailures, MaxToggles

VARIABLES
  part,   \* the component of this behaviour
  segments, directory, index, segmentBytes, segmentDeadBytes, unreadable, partiallyRead,
    active, appendsDisabled, loaded, op, storePc, frame, out, applied, troubled,
    faults, restarts, wipes,
  queue, activeGenerations, cancelled, nextGeneration, running, queueSize,
    pendingBodyBytes, inFlightCount, notifications, stop, threadPc, request, toCall,
    listeners, sent, dropped, cancelledQueued, completed, audience, received,
  pendingDiskWrites, nextDiskWriteGeneration, flushTimer, flushRetryAttempt,
    disk, kills, latest, unsure, mayHold,
  networkEnabled, call, pendingRequests, owed, events, switches, clears,
  client, shut, receiver, identity, owner, online, campaign,
    inits, failures, toggles, last, undisturbed, latestClient,
  isRunning, lifecycleGeneration, poller, userPoller, listening, calls, loading,
    flag, flagOnDisk, flagServer, flagApplied, unmerged, stops, flagFailures, deaths

Store     == INSTANCE SegmentStore WITH
  Keys <- StoreKeys, Merged <- MergedLine, disk <- segments, pc <- storePc
Workers   == INSTANCE Worker WITH pc <- threadPc
Buffer    == INSTANCE WriteBehind
Transport == INSTANCE Transports WITH Calls <- Requesters, Kinds <- Failures
Lifecycle == INSTANCE AnalyticsLifecycle WITH
  MaxSwitches <- MaxToggles, switches <- toggles, latest <- latestClient

Flags     == INSTANCE ExperimentFlags WITH
  disk <- flagOnDisk, server <- flagServer, applied <- flagApplied,
  failures <- flagFailures, MaxFailures <- MaxFlagFailures

ASSUME ServicesAssumption ==
  /\ Buffer!WriteBehindAssumption /\ Transport!TransportsAssumption
  /\ Lifecycle!LifecycleAssumption /\ Flags!ExperimentFlagsAssumption

storing   == <<segments, directory, index, segmentBytes, segmentDeadBytes, unreadable,
               partiallyRead, active, appendsDisabled, loaded, op, storePc, frame, out,
               applied, troubled, faults, restarts, wipes>>
serving   == <<queue, activeGenerations, cancelled, nextGeneration, running, queueSize,
               pendingBodyBytes, inFlightCount, notifications, stop, threadPc, request,
               toCall, listeners, sent, dropped, cancelledQueued, completed, audience,
               received>>
buffering == <<pendingDiskWrites, nextDiskWriteGeneration, flushTimer, flushRetryAttempt,
               disk, kills, latest, unsure, mayHold>>
sending   == <<networkEnabled, call, pendingRequests, owed, events, switches, clears>>
living    == <<client, shut, receiver, identity, owner, online, campaign,
               inits, failures, toggles, last, undisturbed, latestClient>>
polling   == <<isRunning, lifecycleGeneration, poller, userPoller, listening, calls, loading,
               flag, flagOnDisk, flagServer, flagApplied, unmerged, stops, flagFailures, deaths>>
vars == <<part, storing, serving, buffering, sending, living, polling>>

Init ==
  /\ part \in {"store", "worker", "buffer", "transport", "lifecycle", "flags"}
  /\ Store!Init /\ Workers!Init /\ Buffer!Init /\ Transport!Init
  /\ Lifecycle!Init /\ Flags!Init

StoreStep ==
  part = "store" /\ Store!Next /\ UNCHANGED <<part, serving, buffering, sending, living, polling>>
WorkerStep ==
  part = "worker" /\ Workers!Next /\ UNCHANGED <<part, storing, buffering, sending, living, polling>>
BufferStep ==
  part = "buffer" /\ Buffer!Next /\ UNCHANGED <<part, storing, serving, sending, living, polling>>
TransportStep ==
  part = "transport" /\ Transport!Next
    /\ UNCHANGED <<part, storing, serving, buffering, living, polling>>
LifecycleStep ==
  part = "lifecycle" /\ Lifecycle!Next
    /\ UNCHANGED <<part, storing, serving, buffering, sending, polling>>
FlagsStep ==
  part = "flags" /\ Flags!Next
    /\ UNCHANGED <<part, storing, serving, buffering, sending, living>>

Next ==
  StoreStep \/ WorkerStep \/ BufferStep \/ TransportStep \/ LifecycleStep \/ FlagsStep

(* The fairness of each module's FairSpec, for the component that runs. *)
StoreFairness  == WF_storing(part = "store" /\ Store!Step)
WorkerFairness ==
  /\ \A t \in Threads : WF_serving(part = "worker" /\ Workers!ThreadStep(t))
  /\ WF_serving(part = "worker" /\ Workers!NotifyOne)
  /\ WF_serving(part = "worker" /\ Workers!NotifyAll)
  /\ WF_serving(part = "worker" /\ Workers!Joined)
BufferFairness == WF_buffering(part = "buffer" /\ flushTimer /\ Buffer!FlushSucceeds)
TransportFairness == \A c \in Requesters :
  /\ WF_sending(part = "transport" /\ Transport!Complete(c))
  /\ WF_sending(part = "transport" /\ Transport!Return(c))
LifecycleFairness == \A c \in Clients :
  /\ WF_living(part = "lifecycle" /\ Lifecycle!InitStep(c))
  /\ WF_living(part = "lifecycle" /\ Lifecycle!Flush(c))
  /\ \A s \in Lifecycle!Shutdowns :
       WF_living(part = "lifecycle" /\ Lifecycle!shutdownAndFlush(c, s))
FlagsFairness ==
  /\ \A c \in Flags!Calls : WF_polling(part = "flags" /\ Flags!FlagsStep(c))
  /\ \A c \in Starts : /\ WF_polling(part = "flags" /\ Flags!Fetched(c))
                       /\ WF_polling(part = "flags" /\ (Flags!Resume(c) \/ Flags!Fail(c)))
  /\ WF_polling(part = "flags" /\ \E r \in Rounds : Flags!Tick(r))
  /\ \A r \in Rounds : WF_polling(part = "flags" /\ Flags!EndRound(r))
  /\ WF_polling(part = "flags" /\ (Flags!ReadFlags \/ Flags!Load))

Spec == Init /\ [][Next]_vars
FairSpec ==
  /\ Spec
  /\ StoreFairness /\ WorkerFairness /\ BufferFairness
  /\ TransportFairness /\ LifecycleFairness /\ FlagsFairness

-----------------------------------------------------------------------------
(* Every call of the store comes back, whatever the file system does.         *)
CallsReturn == Store!CallsReturn

(* Every listener that stays registered hears of every request that was       *)
(* accepted, also of those that a cancel or a stop drops, and a destructor    *)
(* that begins is over in the end: its threads come home from the queue, from *)
(* an exchange or from a callback.                                            *)
WorkerServes == Workers!EveryListenerHears /\ Workers!StopCompletes

(* A read returns what was last written or removed and a restart finds        *)
(* nothing older than the last completed flush or removal left; the timer is  *)
(* set while there is something to write, and only then.                      *)
BufferHolds ==
  Buffer!TypeOK /\ Buffer!ReadsLatest /\ Buffer!DiskIsRecent /\ Buffer!TimerGuardsPending

(* Unless the storage fails for good, there is again and again a moment at    *)
(* which all writes are durable that were not lost with the process.          *)
EventuallyDurable == Buffer!EventuallyDurable

(* Every send() or request() returns, also one that is answered before        *)
(* enqueue has returned.                                                      *)
EveryCallReturns == Transport!EveryCallReturns

(* A client that keeps running has the newest flags of the server in the end, *)
(* and those of initialFlags that the server does not deliver.                *)
FlagsCatchUp == Flags!FlagsCatchUp

(* An undisturbed init() ends, also when it awaits the flush of an earlier    *)
(* shutdown or, while the network is on, the answer to its campaign event.    *)
InitEnds == Lifecycle!InitEnds
=============================================================================
