------------------------------- MODULE MCParts -------------------------------
(* Safety of the components that are small enough to share one run.  They     *)
(* share no state and do not call each other, so their interleavings show     *)
(* nothing: a behaviour is one of one component, and the others stay in their *)
(* initial states, where the properties hold of them.                         *)
EXTENDS Naturals, Sequences

CONSTANTS
  None, Deleted,
  (* Transports *)         Requesters, Others, Failures, Refused, MaxEvents, MaxToggles,
                           MaxClears,
  (* AnalyticsLifecycle *) Clients, MaxInits, MaxShutdowns, MaxFailures, MaxSwitches,
  (* ExperimentFlags *)    Starts, Rounds, InitialFlag, NoFlag, MaxStops, MaxVersions,
                           MaxFlagFailures, MaxDeaths,
  (* VariantReads *)       FlagKeys, Identities, MaxReads,
  (* BrowserStorage *)     StorageKeys, Inner, Values, MaxRevision, MaxReloads,
  (* Publish *)            MaxPublishes, MaxOptions, MaxLifecycleFaults, MaxDocumentEdits,
  (* ReplayLock *)         Features, MaxFileVersion, MaxCommands, MaxFileEdits, MaxGitFaults,
  (* ExampleLab *)         Buttons, Burst, MaxJobs, MaxLabRuns,
  (* ReplayFixture *)      Connections, MaxBody, MaxStarts,
  (* LegacyMigration *)    LegacyKeys, Rejected, MaxStorageCalls, MaxStorageFaults,
                           MaxStorageDeaths

VARIABLES
  part,   \* the component of this behaviour
  networkEnabled, call, pendingRequests, owed, events, toggles, clears,
  client, shut, receiver, connected, owner, online, campaign,
    inits, failures, switches, last, undisturbed, latest,
  isRunning, lifecycleGeneration, poller, userPoller, listening, calls, loading,
    flag, flagOnDisk, flagServer, applied, unmerged, stops, flagFailures, deaths,
  config, variants, flags, identity, tracker, shown, sent, reads,
  stored, overrides, lastKnownValues, keyRevisions, resetRevisions, revision,
    expected, touched, reloads,
  pc, options, interactive, docs, edited, passed, packed, registry, exit,
    runs, faults, edits,
  tree, lock, kind, step, found, answer, commands, fileEdits, gitFaults,
    hashed, reviewed, changed,
  jobs, records, rows, run, mounted, done,
  server, at, size, timers, answers, starts,
  store, legacy, settled, migrated, armed, op, importStep, entries, handled,
    storageCalls, storageFaults, storageDeaths, wanted, back

Cases == <<"timeout", "diagnostics">>

Transport == INSTANCE Transports WITH
  Calls <- Requesters, Kinds <- Failures,
  MaxSwitches <- MaxToggles, switches <- toggles
Lifecycle == INSTANCE AnalyticsLifecycle WITH identity <- connected
Flags == INSTANCE ExperimentFlags WITH
  disk <- flagOnDisk, server <- flagServer, failures <- flagFailures,
  MaxFailures <- MaxFlagFailures
Reads   == INSTANCE VariantReads WITH Keys <- FlagKeys
Browser == INSTANCE BrowserStorage WITH Keys <- StorageKeys
Release == INSTANCE Publish WITH
  MaxRuns <- MaxPublishes, MaxFaults <- MaxLifecycleFaults, MaxEdits <- MaxDocumentEdits
Replay  == INSTANCE ReplayLock WITH
  pc <- step, edits <- fileEdits, faults <- gitFaults, touched <- changed,
  MaxVersion <- MaxFileVersion, MaxEdits <- MaxFileEdits, MaxFaults <- MaxGitFaults
Lab     == INSTANCE ExampleLab WITH MaxRuns <- MaxLabRuns
Fixture == INSTANCE ReplayFixture WITH Requests <- Connections
Migration == INSTANCE LegacyMigration WITH
  Keys <- LegacyKeys, MaxCalls <- MaxStorageCalls, MaxFaults <- MaxStorageFaults,
  MaxDeaths <- MaxStorageDeaths, step <- importStep, calls <- storageCalls,
  faults <- storageFaults, deaths <- storageDeaths

ASSUME PartsAssumption ==
  /\ Transport!TransportsAssumption /\ Lifecycle!LifecycleAssumption
  /\ Flags!ExperimentFlagsAssumption /\ Reads!VariantReadsAssumption
  /\ Browser!BrowserStorageAssumption /\ Release!PublishAssumption /\ Replay!ReplayLockAssumption
  /\ Lab!ExampleLabAssumption /\ Fixture!ReplayFixtureAssumption
  /\ Migration!LegacyMigrationAssumption

sending   == <<networkEnabled, call, pendingRequests, owed, events, toggles, clears>>
living    == <<client, shut, receiver, connected, owner, online, campaign,
               inits, failures, switches, last, undisturbed, latest>>
polling   == <<isRunning, lifecycleGeneration, poller, userPoller, listening, calls, loading,
               flag, flagOnDisk, flagServer, applied, unmerged, stops, flagFailures, deaths>>
reading   == <<config, variants, flags, identity, tracker, shown, sent, reads>>
browsing  == <<stored, overrides, lastKnownValues, keyRevisions, resetRevisions, revision,
               expected, touched, reloads>>
releasing == <<pc, options, interactive, docs, edited, passed, packed, registry, exit,
               runs, faults, edits>>
replaying == <<tree, lock, kind, step, found, answer, commands, fileEdits, gitFaults,
               hashed, reviewed, changed>>
pressing  == <<jobs, records, rows, run, mounted, done>>
serving   == <<server, at, size, timers, answers, starts>>
importing == <<store, legacy, settled, migrated, armed, op, importStep, entries, handled,
               storageCalls, storageFaults, storageDeaths, wanted, back>>
vars == <<part, sending, living, polling, reading, browsing, releasing, replaying, pressing, serving,
          importing>>

Init ==
  /\ part \in {"transport", "lifecycle", "flags", "reads", "browser", "release",
               "replay", "lab", "fixture", "migration"}
  /\ Transport!Init /\ Lifecycle!Init /\ Flags!Init /\ Reads!Init /\ Browser!Init
  /\ Release!Init /\ Replay!Init /\ Lab!Init /\ Fixture!Init /\ Migration!Init
  /\ part # "reads" => /\ config = [source |-> "localStorage", initial |-> None, fallback |-> None]
                       /\ identity = CHOOSE i \in Identities : TRUE
  /\ part # "migration" => legacy = LegacyKeys

TransportStep ==
  /\ part = "transport" /\ Transport!Next
  /\ UNCHANGED <<part, living, polling, reading, browsing, releasing, replaying,
                 pressing, serving, importing>>
LifecycleStep ==
  /\ part = "lifecycle" /\ Lifecycle!Next
  /\ UNCHANGED <<part, sending, polling, reading, browsing, releasing, replaying,
                 pressing, serving, importing>>
FlagsStep ==
  /\ part = "flags" /\ Flags!Next
  /\ UNCHANGED <<part, sending, living, reading, browsing, releasing, replaying,
                 pressing, serving, importing>>
ReadStep ==
  /\ part = "reads" /\ Reads!Next
  /\ UNCHANGED <<part, sending, living, polling, browsing, releasing, replaying,
                 pressing, serving, importing>>
BrowserStep ==
  /\ part = "browser" /\ Browser!Next
  /\ UNCHANGED <<part, sending, living, polling, reading, releasing, replaying,
                 pressing, serving, importing>>
ReleaseStep ==
  /\ part = "release" /\ Release!Next
  /\ UNCHANGED <<part, sending, living, polling, reading, browsing, replaying,
                 pressing, serving, importing>>
ReplayStep ==
  /\ part = "replay" /\ Replay!Next
  /\ UNCHANGED <<part, sending, living, polling, reading, browsing, releasing,
                 pressing, serving, importing>>
LabStep ==
  /\ part = "lab" /\ Lab!Next
  /\ UNCHANGED <<part, sending, living, polling, reading, browsing, releasing, replaying,
                 serving, importing>>
FixtureStep ==
  /\ part = "fixture" /\ Fixture!Next
  /\ UNCHANGED <<part, sending, living, polling, reading, browsing, releasing, replaying,
                 pressing, importing>>
MigrationStep ==
  /\ part = "migration" /\ Migration!Next
  /\ UNCHANGED <<part, sending, living, polling, reading, browsing, releasing, replaying,
                 pressing, serving>>

Next ==
  \/ TransportStep \/ LifecycleStep \/ FlagsStep \/ ReadStep \/ BrowserStep
  \/ ReleaseStep \/ ReplayStep \/ LabStep \/ FixtureStep \/ MigrationStep
Spec == Init /\ [][Next]_vars

-----------------------------------------------------------------------------
(* The client of the worker keeps exactly the requests that are owed an       *)
(* answer and settles each promise with the answer to its own request, and    *)
(* the failures of a kind are counted without a gap.                          *)
TransportHolds == [](Transport!PendingIsOwed /\ Transport!CountsGoOn) /\ Transport!OwnAnswer

(* The newest client that is up has the connector and the experiment's        *)
(* events whatever an old one's teardown does, and an undisturbed init()      *)
(* that ended leaves its client up.                                           *)
LifecycleHolds == Lifecycle!LatestIsConnected /\ Lifecycle!OwnInitHolds

(* The pollers run only while the client does, a client that runs polls or is *)
(* on the way to it, and a late failure of an old start does not stop a newer *)
(* one; a flag of initialFlags is missing only while the flags are loaded or  *)
(* written, or when that failed, and no answer replaces a newer one.          *)
FlagsHold ==
  /\ [](Flags!TypeOK /\ Flags!PollersStop /\ Flags!RunningPolls)
  /\ [](Flags!StartHolds /\ Flags!InitialFlagStays)
  /\ Flags!FlagsNeverGoBack

(* variant() follows the order its comments give, all() agrees with it, and   *)
(* the last exposure sent for a key is what the app last read for it.         *)
ReadsHold == Reads!OrderIsDocumented /\ Reads!AllAgrees /\ Reads!ExposureIsCurrent

(* A page reads what it last wrote, removed or reset, whatever localStorage   *)
(* did at each call; what is not held back in memory the next page finds; and *)
(* after a reset of everything that worked nothing is hidden any more.        *)
BrowserHolds ==
  /\ [](Browser!ReadsLatest /\ Browser!DurableUnlessOverridden)
  /\ Browser!CleanAfterReset

(* A published version was packed with the repository's documents and passed  *)
(* the gates, and a release that ends well has put the documents back and has *)
(* published, whatever options were given and whatever failed before.         *)
ReleaseHolds == Release!UploadedIsCanonical /\ Release!GatesHeld /\ Release!SuccessIsComplete

(* A lock called fresh is the reviewed one and covers the manifest, and only  *)
(* a watched file makes it stale, however refreshes, checks and edits mix.    *)
ReplayHolds == Replay!FreshIsReviewed /\ Replay!FreshIsCovered /\ Replay!NoFalseAlarm

(* A lab job that ran alone never fails, none is "ok" for the events of       *)
(* another, and the rows of a cancelled run of the page do not mix with those *)
(* of the next.  The fixture server the replays talk to answers each request  *)
(* once, and once off it has no timer and serves nothing, however requests,   *)
(* timers and close() overlap.                                                *)
ExampleHolds ==
  /\ Lab!LoneSucceeds /\ Lab!OkIsDelivered /\ Lab!RowsInOrder
  /\ Fixture!AnsweredOnce /\ Fixture!OffIsQuiet

(* Imports that stop half way, in any order with writes, deletes and deaths   *)
(* of the process, neither replace what the application wrote, nor bring back *)
(* a key it deleted whose legacy entry is gone, nor lose an entry.            *)
MigrationHolds == Migration!MigrationHolds
=============================================================================
