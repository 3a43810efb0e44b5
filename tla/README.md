# A TLA+ model of react-native-nitro-amplitude

`react-native-nitro-amplitude` runs Amplitude's analytics and experiment SDKs on
a native core: a C++ log store, a C++ request queue with its own threads, and
TypeScript clients that keep state in memory and write it behind. Its repository
also has scripts that release the package and replay its example on devices,
with state of their own on the disk. This directory holds TLA+ modules for the
parts where order, failure and concurrency decide, the TLC configurations that
check them, and TLAPS proofs. `PROJECT.json` names the runs, the source lines of
each definition, the hazards and the findings. Paths below are relative to
`packages/react-native-nitro-amplitude/`, or to the repository when they begin
with `scripts/` or `apps/`.

## 1. The system

| Part | State it keeps | Operations | What is hard |
| --- | --- | --- | --- |
| Segment store, `cpp/core/JsonlSegmentStore.cpp` | segment files; index, sizes and dead sizes per segment, active segment, unreadable and partly read segments | setDisk, getDisk, deleteDisk, migrateLegacyEntries; loading, rotation, compaction inside them | failures and death between two file operations, removal of the directory, torn lines, tombstones |
| File adapter, `cpp/core/PosixFileAdapter.hpp` | none | read, append, atomic write, truncate, remove, list | partial writes |
| Legacy migration, `cpp/core/LegacyDiskMigration.hpp` | migrated and armed flags, legacy preferences | ensureMigrated, forget, rearmAfterWrite | partial imports, deletes in between, preferences that reach the disk late |
| HTTP worker, `cpp/bindings/HybridAmplitudeWorker.cpp` | queue, generations of each id, cancel marks, counters, listeners, threads | enqueue, cancel, addOnComplete, unsubscribe, destructor; workerLoop | wake-ups, cancellation races, shutdown |
| Native HTTP client and transports, `src/native/http.ts`, `src/network.ts`, `src/diagnostic-failures.ts` | pending promises, network switch, capped event log | send, request, completion, clear | completion before, after or without its promise |
| Native storage object, `cpp/bindings/HybridAmplitudeStorage.cpp` | disk namespaces | setBatch, removeBatch, getKeysByPrefix | batches that fail half way |
| Write-behind storage, `src/native/storage.ts` | pending writes, flush timer, retry attempt | set, get, remove, reset, flush | failed flushes, removals next to pending writes, death of the process |
| Browser storage, `src/native/browser-string-storage.ts` | overrides, last known values, revisions | get, set, remove, reset | refused accesses, nested namespaces |
| Experiment fetches, `src/experiment/experimentClient.ts`, `util/backoff.ts`, `storage/cache.ts` | user, variants, sequence numbers, generation, in-flight requests, backoffs, pending cache write | fetch, setUser, clear, start, stop; responses, failures, retries | answers out of order, state used after an `await`, late retries |
| Experiment flags and lifecycle, same client | flags, pollers, lifecycle generation, identity listener | start, stop, doFlags, pollFlags | overlapping starts and stops, late answers |
| Variant reads and exposures, same client, `util/userSessionExposureTracker.ts` | caches of variants and flags, tracked exposures | variant, all, exposure | precedence of sources, identity that changes back and forth |
| Analytics flushes, `src/analytics/react-native-client.ts` | flush chain, destination chains, timers, deferred flushes | flush, flushWithResult, shutdownAndFlush | overlapping and failing flushes, timers |
| Analytics session, same file and `src/analytics/config.ts` | session fields in memory and on disk, failed-read flag | init, track, app state, setSessionId, setUserId, setOptOut, reset | a late restore against newer values, session boundaries |
| Analytics lifecycle, same file | ready, plugins, listener, connector ownership | init, shutdown, teardown | calls that overlap, clients of one name |
| Package documents, `scripts/package-doc-lifecycle.js` | documents, manifest, lock with its owner | prepare, sync, cleanup, check | several processes, killed ones, edits |
| Release command, `scripts/publish.js`, `scripts/check-pack-contents.js` of the package | documents, gates, registry | one run with any options | commands that fail and hide the failures of others |
| Replay checks, `scripts/check-example-replay-freshness.js`, `run-example-replay.js`, `example-replay-http-fixture.js` | lock file; connections and timers of the fixture | refresh, check, run; requests, close | edits between two reads; late timers |
| Example labs, `apps/example/components/e2e-lab.tsx`, `lab-runner.tsx` | probe records, rows of a page | buttons, cases | several jobs over one record log |

How they interact: the analytics stores (`storage.ts`) and the experiment cache
call the native storage object, which owns one segment store per namespace,
behind the legacy migration; `http.ts` enqueues in the worker and is called back
as one of its listeners; the experiment client fetches through `http.ts`; the
analytics client flushes events to the transport and pending writes to the
storage, and shares the identity with the experiment client through a connector.
The release command runs the document lifecycle and npm, whose own scripts run
it again. JavaScript runs on one thread and gives it away only at an `await`; the
segment store runs every call under one mutex; the worker is the only component
with threads of its own.

What makes each part correct:

- segment store: an acknowledged write is what a later read and a later process
  find; a refused one has changed nothing; compaction, rotation, recovery and
  tombstone moves do not change the contents. The import of legacy entries
  neither overwrites nor resurrects nor loses one.
- worker: no request is forgotten by sleeping threads, each is answered once to
  each listener, a cancel hits the newest request of its id or nothing, nothing
  accumulates; its client settles each promise once with its own answer.
- storages: reads see the newest write, the disk never goes back behind a
  completed flush or removal, no write is stranded in memory.
- experiment client: what is shown belongs to the current user and comes from
  the newest answer, whatever order answers arrive in; freshness describes it;
  retries do not outlive their user; pollers run exactly while the client does.
- analytics client: one flush at a time, each ends and tells the truth; no event
  is left without a timer; opt-out and identity survive failed reads; sessions
  are cut on time; an `init()` that nobody disturbs leaves the client up.
- scripts: no two processes hold the documents' lock, no edit is destroyed, what
  is published was packed from the repository's documents and passed its gates.

## 2. Modules

| Module | Models | State and steps |
| --- | --- | --- |
| `DurableMap` | what `StorageAdapter` promises: one call at a time, each takes effect at one instant or not at all, failures change nothing | abstract: map, call in progress, its reply |
| `SegmentStore` | `JsonlSegmentStore` over `PosixFileAdapter` | a step is the code between two changes of the disk; `pc` and `frame` are program counter and locals. Variables have the fields' names. Every file operation may fail, appends also in part; `Crash` anywhere; `Wipe` removes the directory |
| `LegacyMigration` | `MigratingStorage`, `LegacyDiskMigrator` | a step is one call of the store or of the preferences; the preferences have a copy in memory and one on the disk (`Settle`); `Die` anywhere |
| `Worker` | `HybridAmplitudeWorker` | a step is one critical section or the code between two; `pc[t]` says where thread t is. `NotifyOne` is a step of its own since `notify_one` runs after the mutex is released; wake-ups may be spurious |
| `Transports` | `NitroHttpClient`, the guarded and timed transports, the diagnostics log | a step is a call up to the end of `enqueue`, a completion of the worker, or the continuation of a settled promise |
| `WriteBehind` | the analytics stores of `native/storage.ts` over the native batch operations | a step is one call: the file has no `await`. A batch that throws has written a prefix (`setBatch`) or removed any part (`removeBatch`) |
| `BrowserStorage` | `BrowserStringStorage` | a step is one call together with what localStorage did at it: missing, working or throwing; `Reload` of the page |
| `ExperimentFetch` | fetching and storing variants | a step is what runs between two `await`s. A fetch is `sent`, then `storing` until the cache's write is done, then `stored` or `failed` until it goes on |
| `ExperimentFlags` | start, stop, flags and pollers | starts and rounds of the poller are records that go through asked, answered, storing and ready; `Stop` and newer starts come between any two. The load of the cache has two steps, the storage's answer (`ReadFlags`) and what is put into the cache (`Load`), and both may come after answers of the server |
| `VariantReads` | `variant`, `all`, exposures and their tracker | a step is a read, with the caches taking any content and the user any identity between reads |
| `AnalyticsFlush` | `enqueueFlush`, `performFlush`, `runDestinationFlush`, deferral, recovery, results | steps are the stretches between two awaits; the destination of the core library (queue, timer, answers) is external, modelled as the client uses it |
| `Session` | `ReactNativeConfig` and the client's session code | a step is one handler with all the writes it makes; the clock advances on its own; reads and writes may fail; the process may stop |
| `AnalyticsLifecycle` | `init`, `shutdown`, `teardown` of clients of one name | a step is what runs between two awaits; `client[c].pc` is where `_init` is |
| `PackageDocs` | the document lifecycle | a step is one change of the file system with the reads before it, of one of several processes; `Kill` anywhere |
| `Publish` | the release command with npm and the pack check | a step is one command and what is decided on its result |
| `ReplayLock` | refresh, check and run of the replays | a step is one read, listing or hash; edits come between |
| `ReplayFixture` | the replays' HTTP server | a step is one callback: data, end, timer, close |
| `ExampleLab` | the lab's buttons and cases, and the page that runs cases | a step is what runs between two awaits of a job; the client's flush is another |

### Composition

`SegmentStore` implements `DurableMap`: `ImplementsDurableMap` is the abstract
specification under the mapping where the abstract map is what replaying all
files on the disk would give (`Contents`). `LegacyMigration` uses its store as
`DurableMap` promises, `Transports` uses what `WorkerServes` says of `Worker`, and
`Publish` uses the documents as `PackageDocs` shows them to be, one level coarser.

`MCSegmentStore`, `MCWorker`, `MCExperimentFetch` and `MCPackageDocs` add the
symmetry sets TLC uses (keys, values, ids, threads, users and contents that no
definition tells apart). `MCPackageDocs` also has the view `Followed`: once a lock
was taken from a live process, states are told apart only by what the steps of the
lock read; no other variable can make a difference any more, to a step or to a
property. Runs with a liveness property use no symmetry.

`MCParts` and `MCServices` put small components into one run each: safety of ten
components, and what six of them owe their callers in the end. These components
share no variable, so interleaving them would multiply states and show nothing:
the variable `part` says which of them a behaviour is of, the others stay in
their initial states, and each component is explored as completely as in a run
of its own. `MCServices` states each component's fairness again, for the
component that runs.

The modules whose names end in `Proofs` (`SegmentStore`, `Worker`, `Session`,
`AnalyticsFlush`, `ExperimentFetch`, `PackageDocs`) extend the module they are about
with its inductive invariant, lemmas and theorems. `PartsProofs` does so for the
composition `MCParts`, component by component: `AnalyticsLifecycle`,
`LegacyMigration`, `Publish`, `ReplayLock`, `VariantReads`, `ExampleLab`,
`ReplayFixture`, `BrowserStorage`, `Transports`, `ExperimentFlags`; `ServicesProofs` for
`WriteBehind` in `MCServices`. They define no behaviour.

Operators whose name has a suffix after an underscore (`Abandon_KeepsSegment`,
`Marked_Oldest`) are deliberately wrong variants of a definition below them; they
are used by nothing and serve to see that a property would notice the mistake.
Variables under "what is observed of the run" record history (what a caller was
told, what the server answered last); guards never read them.

## 3. Abstractions

- `SegmentStore`: a line has length 1 and a segment holds a few lines. The text
  of lines, temporary files and `fsync` are left out, so this is about death of
  the process and failing calls, not power loss. `Load` reads all files in one
  step. A legacy import has one entry. Records that are too large, reserved keys
  and the read-only listings are left out.
- `LegacyMigration`: one caller, since JavaScript is one thread. A value is told
  apart only by who wrote it, the application or the earlier version. All changes
  of the preferences are asynchronous; Android's `commit()` of a removal is a
  special case of that.
- `Worker`: generations of an id are a set whose maximum stands for `back()`. An
  HTTP exchange returns or throws, both in one step. Creation of a thread does
  not fail. The destructor does not run while a caller is inside the object, as
  the reference counts ensure.
- `Transports`: a failure is known by its kind; how text is classified is left
  out. The worker object is never replaced.
- `WriteBehind`: the generation of a write stands for its value. Callers go by
  what they read after a restart.
- `BrowserStorage`: two namespaces, one inside the other.
- `ExperimentFetch`: a variant is the sequence number of the fetch that brought
  it. A server answers a partial request with some of the keys it was asked for.
  Waiting for the user's context and for the server is one wait. `clear()` is called
  after `cacheReady()` (`AwaitsCacheReady`, see the remarks in section 5).
- `ExperimentFlags`: one flag stands for all, the interesting one: `initialFlags`
  has it, the server may not. `pollOnStart` is on. A generation has one round of the
  poller at a time.
- `VariantReads`: a flag has the table of what the evaluation engine would answer.
- `AnalyticsFlush`: lengths of timers are left out: a set timer may fire whenever
  no promise callback is due.
- `Session`: `lastEventId`, the query parameters of the page, cookies of older SDKs
  and the START and END events are left out; the several writes of the
  constructor are one; a write that is lost when the process dies counts as
  failed.
- `AnalyticsLifecycle`: plugins other than the destination are left out.
- `PackageDocs`: a document is its content; that a path is no link and has the
  identity it had before is not modelled. Temporary files of documents that a
  killed process leaves, and the limit of attempts to find a free name, are left
  out. A developer edits documents only while no script writes them (`Quiet`). Between
  the check of a stale lock and its removal another process may remove it and take
  the lock; its owner is then `robbed`, and two commands may write the documents at
  once. From then on only the lock is followed: the rest of a command is one step
  that ends well or throws (`EndsUnfollowed`).
- `Publish`: documents are the originals, the repository's or edited ones.
- `ReplayLock`: hashing a list of files is one step; the lock is written
  atomically. Which files git ignores does not change (`GitIgnored`).
- `AnalyticsLifecycle`: when two shutdowns flush, the first teardown empties the client
  and the second flush has nothing to send: it takes a few promise callbacks. An
  `init()` called among them reads cookies and configuration first, which takes
  longer, so the client becomes ready after that flush has ended (`Emptied`).
- `ExampleLab`: the plugin case's two rounds are one; the cap of the records (500)
  is not reached; cases of the native transport, of shutdown and of the helpers
  are left out.

## 4. Runs

| Run | Question | Bounds |
| --- | --- | --- |
| `StoreFaults` | Do log, index and sizes stay exact and the map durable through faults and a restart? | 2 keys, 1 value, 3 segments of 2 lines, 2 faults, 1 restart |
| `StoreReclaims` | Are overwrites, imports, segments of mere delete markers and a removed directory handled? | 3 keys, 2 values, 3 segments of 2 lines, 1 removal of the directory, 1 restart |
| `WorkerSafety` | Are queue, counters, marks and wake-ups exact in every interleaving? | 2 threads, 2 ids, 3 requests, 2 sizes, queue of 2, byte limit 2 |
| `FetchSafety` | Is the newest variant of the current user shown, stored and described? | 2 users, 2 keys, 4 sequence numbers, 2 requests without an answer, 2 attempts |
| `DocsSafety` | Do lock, manifest and documents survive killed processes and edits? | 2 documents, one a directory, 3 processes, 2 alive, 1 kill, 1 edit |
| `Flush` | Do overlapping and failing flushes end, one at a time, with true results and nothing stranded? | 2 destinations, one guarded, 1 event, 3 operations of which the second is that of a shutdown, 3 timer ids, 1 failure, 1 switch |
| `Session` | Are opt-out, identity and session right through failed reads and restarts? | 1 user, 1 explicit id, clock to 3 with a timeout of 2, 2 failures |
| `Parts` | Safety of ten components | see below |
| `Services` | What must happen in the end, of six components, and the buffer's reads | see below |
| `StoreLossUnnoticed` | Finding 1 | 2 keys, 1 removal, 1 fault |
| `FetchRemovalUndone` | Finding 2 | 1 user, 2 keys, 2 fetches |
| `LifecycleJoins` | Finding 3 | 1 client, 2 calls of `init()`, 1 of `shutdown()` |

`Parts`: 3 calls, 5 events of the log, 2 switches, 1 clear (`Transports`); 2 clients,
2 inits, 3 shutdowns each, 1 failure, 1 switch (`AnalyticsLifecycle`); 2 starts, 2
rounds, 1 stop, 1 version, 1 failure, 1 restart (`ExperimentFlags`); 2 keys, 2
identities, 2 exposing reads (`VariantReads`); 3 keys, 4 revisions, 1 reload
(`BrowserStorage`); 2 runs with up to 2 of 8 options, 2 faults, 1 edit (`Publish`); 1
feature, 3 commands, 2 edits, 1 failing git (`ReplayLock`); 3 jobs, 2 runs of the page
(`ExampleLab`); 3 requests, 2 starts (`ReplayFixture`); 2 keys, one rejected, 3 calls, 2
faults, 1 death (`LegacyMigration`).

`Services`: 1 key, 2 segments, 1 removal, unlimited faults (`SegmentStore`); 2 threads,
1 id, 2 requests, 1 listener (`Worker`); 2 stores of 2 keys, 2 writes, 1 kill
(`WriteBehind`); 2 calls (`Transports`); 2 starts, 2 rounds, 1 stop, 1 version, 1
failure (`ExperimentFlags`); 2 clients, 2 inits, 1 shutdown each, 1 failure
(`AnalyticsLifecycle`).

Why these bounds are enough to be interesting. With three segments of two lines
rotation, compaction in place, tombstones below and above live records, and the
move of tombstones into the active segment all happen between `StoreFaults` and
`StoreReclaims`, and the largest segment id is reached; two faults let a rollback
fail after an append did; three keys are what it takes for a segment of mere
delete markers to lie between a segment with data and the active one without a
fault. Faults and a removed directory are not combined in a passing run, since
together they are finding 1. The worker's queue reaches both limits, a body
larger than the byte limit is let into the empty queue, ids are reused, and both
threads hold requests while another one is queued. Four sequence numbers let a
full and a partial request overlap, be invalidated (which takes a number) and be
followed by a newer one or a retry. Three processes, two of them alive, let two
look at the lock of a killed one, and one of them remove the lock that the other
has taken in its place. The three flush operations are one with a result, the one of
a shutdown and another with a result. They are called in this order, each at any
time: before the one before it has ended or after, the last also after the
teardown. Two destinations of which one is switched off make a flush fail in part.
A timeout of two ticks of three lets a session be kept, cut, and cut by a late
event. Two clients of a name are an old and a new one; with three shutdowns
a client that one of them tore down is shut down again while the flush of another
is still to end. Two runs of the release
command let the second find what the first left. Two calls besides the one that
imports let a key be written, or deleted, while an import is incomplete. Every
action fires in some run.

Alone, the components of `Parts` and `Services` were also explored at larger
bounds with the same result: `WriteBehind` with 3 writes, `VariantReads` with 3
reads, `BrowserStorage` with 5 revisions, `Publish` with every set of options and 2
faults, `ReplayLock` with 2 features, `ExampleLab` with 4 jobs, `ExperimentFlags` with 2
versions and a restart, `AnalyticsLifecycle` with 3 inits and 3 shutdowns each,
`LegacyMigration` with 4 calls, and the liveness of `SegmentStore` with a restart.

Deadlock is checked in `StoreFaults` and `StoreReclaims`, where the system always has
a next step. It is off elsewhere, since clients wait for calls once their bounds
are used up, and scripts and destructors end. The constants that begin with `Max`
only limit what environment and callers do, except `MaxSegmentId`, `MaxQueued`,
`MaxQueuedBytes`, `MaxAttempts`, `MaxEvents` and `MaxBody`, which with `SegmentCapacity` are limits of
the code with small values.

### Fairness

- `SegmentStore`: a thread inside a call keeps running. Nothing is assumed of file
  operations.
- `Worker`: each thread keeps running and so does a caller between its push and
  its `notify_one`; an HTTP exchange ends, since the platform adapters bound it by
  the request's timeout; a destructor that has begun goes on. Nobody has to
  call anything.
- `WriteBehind`: a set timer fires and the storage does not fail at every retry;
  without that a write cannot become durable.
- `Transports`: the worker completes what it took, as `Worker` shows; settled
  promises run their continuations.
- `ExperimentFlags`: requests are answered or fail, promises go on, the interval of
  a poller fires, the storage answers the load of the cache, or rejects it.
- `AnalyticsFlush`: promise callbacks run, and each request of a destination is
  answered in the end (its transport has a timeout). Timers need not fire.
- `AnalyticsLifecycle`: `_init` and the flush of a shutdown go on, and a destination
  that has a timer set flushes.

## 5. What the runs show

The passing properties, by what could go wrong:

- **Segment store.** Torn tails never swallow a line and the next record goes
  above everything on the disk, read or not (`LogIsSound`); the index is what
  replaying the files would give between any two file operations, and the sizes
  that decide on compaction are right (`BookkeepingIsExact`); opening leaves no
  segment of mere tombstones and a write notices a removed directory
  (`ReloadsInTime`); the store implements the durable map (`ImplementsDurableMap`)
  and returns (`CallsReturn`). Imports that stop half way neither overwrite, nor
  resurrect, nor lose (`MigrationHolds`).
- **Worker and its client.** No wake-up is lost (`NoWaiterForgotten`), a cancel stops its
  request while it is queued and drops no other (`CancelsAreExact`), requests and marks
  are kept until the answer, of which each listener hears once (`AnsweredOnce`),
  counters agree with the queue (`CountersAgree`), all hear and a stop
  completes (`WorkerServes`); promises are settled once with their own answer
  (`TransportHolds`, `EveryCallReturns`).
- **Storages.** Reads, disk and timer of the write-behind storage (`BufferHolds`,
  `EventuallyDurable`); a page reads what it last wrote whatever localStorage does
  (`BrowserHolds`).
- **Experiment client.** Responses are stored only for the user and generation
  they were requested in, retries are current, equal requests are joined
  (`FetchesAreCurrent`); the newest answer with a variant is shown and freshness
  follows it (`AnswersInOrder`); clear is final and the disk follows (`CacheIsKept`);
  pollers stop with the client, late failures and answers of old starts change
  nothing (`FlagsHold`), a running client catches up (`FlagsCatchUp`); sources are read
  in the documented order and the last exposure sent is what was last read
  (`ReadsHold`).
- **Analytics client.** One flush operation at a time (`OneOperation`), each settles
  (`EverySettles`) with no request left running, unless the client was torn down
  before it (`SettledIsDone`); no event without a timer or a flush, no timer
  that nobody knows (`NothingStranded`); events are sent once and "ok" is true
  (`ResultsAreTrue`); opt-out is honoured also while it cannot be read
  (`OptOutHonoured`), a late restore keeps what was set since (`SessionIsKept`), sessions
  are cut on time (`CutOnTime`); an undisturbed `init()` ends with the client up and
  connected, whatever an old client's teardown does (`LifecycleHolds`, `InitEnds`).
- **Scripts and example.** Two commands change the documents at once only if the lock
  of one was removed in place of a stale one, which takes two that were about to
  remove the same stale lock (`MutualExclusion`); as long as that has not happened no
  edit is destroyed and no restore refused without a reason (`FilesAreSafe`), and a
  clean state directory means restored documents (`CleanMeansRestored`); releases (`ReleaseHolds`),
  the replay lock (`ReplayHolds`), the labs and their server (`ExampleHolds`).

Findings, each a counterexample of a run:

1. `StoreLossUnnoticed`: a read recreates a removed directory and then one listing
   fails. The next acknowledged write does not notice the loss, and the index keeps
   pointing into files that are gone; a read may return another key's value.
2. `FetchRemovalUndone`: a newer partial response says that a flag has no variant;
   an older full response that comes later brings the variant back.
3. `LifecycleJoins`: `init()`, `shutdown()`, `init()` while the first still runs: the second
   joins it, both resolve, and the teardown leaves the client down.

Remarks, met while modelling and excluded or allowed for in the properties as
said here:

- A `clear()` before `cacheReady()` is undone in memory when the load completes
  (`storage/cache.ts` 214-218). `CacheIsKept` is about callers that await
  `cacheReady()`; set `AwaitsCacheReady` to FALSE to see it.
- A legacy key that was deleted comes back if its removal from the preferences
  failed, or if the process died before the preferences had reached the disk
  (`LegacyDiskMigration.hpp` 86-90; `apply()` and `NSUserDefaults` write late).
- After `stop()` an experiment client no longer hears of identity changes, also
  when it is started again: the listener is registered once, by `factory.ts` 90-99.
- Flags of `initialFlags` are missing from the cache while newer flags are written,
  and until the next round if that write fails, or if the storage rejects the read
  of the cache (`storage/cache.ts` 177): the load is then rejected before it puts
  anything into the cache. A load that ends after the first answer puts what was
  stored in the answer's place, until the next round.
- After a teardown the client has no list of its destinations' flushes: a flush
  operation that comes then does not wait for a request that is still running
  (`react-native-client.ts` 328 and 690-700).
- A variant fetched for the previous user still counts as fresh after `setUser`.
- Shutdown during `init` leaves the listener and the connector's ownership with a
  client that is not ready. The shutdown of an old client between a new one's
  identity sync and its taking ownership clears the identity the new one gave. On
  the web, a shutdown during `init` while the network is off loses the campaign
  event, and that `init` never ends. A failed `init` leaves `isReady` true.
- The comment "session_end should be the last event in a session" does not hold
  for events that carry an earlier `time`.
- The exposure tracker sends again when the identity goes A, B, A.
- Two processes that both claim one stale lock of the documents can end up both
  working under it: the slower one removes the owner file that the faster one has
  written since (`package-doc-lifecycle.js` 953-980). `MutualExclusion` excepts the
  process whose lock was taken; as an invariant without that exception it is violated
  in `DocsSafety`. A killed manifest update leaves a
  file that makes the next cleanup throw "incomplete". A refused cleanup says
  "changed after prepare" also when a killed sync, or a sync that ran while there was
  a manifest, is the cause.
- `runPackageCommandWithDocs` throws from its `finally`, so that a run whose `npm publish`
  succeeded can end with "Publish failed".
- A manifest change during a refresh of the replay lock gives a lock that is
  stale until the next refresh. `close()` of the fixture while `listen()` is starting
  returns before the server begins to listen; its callers do not do that.
- The lab's page keeps `done` and rows of the earlier run when its run key changes.

## 6. Proofs

TLAPS proves these theorems for every value of the constants that satisfies the
module's named assumption: any finite or infinite set of users, keys, listeners
and so on, any number of threads, requests, failures, kills and restarts, any limit.

| Theorem | Property, for every instance |
| --- | --- |
| `SegmentStoreProofs!LogStaysSound` | `LogIsSound`, under `OneTrouble` |
| `SegmentStoreProofs!BookkeepingStaysExact` | `BookkeepingIsExact`, under `OneTrouble` |
| `SegmentStoreProofs!StoreImplementsMap` | `ImplementsDurableMap`, the refinement of `DurableMap`, under `OneTrouble` |
| `SegmentStoreProofs!ReloadsAreInTime` | `ReloadsInTime`, under `NoFaults` |
| `WorkerProofs!TypeCorrect` | `TypeOK`: also that no counter goes below zero |
| `WorkerProofs!NoWakeupLost` | `NoWaiterForgotten` |
| `WorkerProofs!CancelIsExact` | `CancelsAreExact` |
| `WorkerProofs!EachIsAnsweredOnce` | `AnsweredOnce` |
| `WorkerProofs!CountersAreExact` | `CountersAgree`, with the sum of the sizes in the queue |
| `SessionProofs!OptOutIsHonoured` | `OptOutHonoured` |
| `SessionProofs!NothingIsLost` | `SessionIsKept` |
| `SessionProofs!SessionsAreCutOnTime` | `CutOnTime`, an action property, under `DelaysAreShort` |
| `AnalyticsFlushProofs!OperationsRunAlone` | `OneOperation` |
| `AnalyticsFlushProofs!EventsAreScheduled` | `NothingStranded` |
| `AnalyticsFlushProofs!CallersAreToldTheTruth` | `ResultsAreTrue` |
| `AnalyticsFlushProofs!SettlingIsFinal` | `SettledIsDone`, an action property |
| `ExperimentFetchProofs!AnswersComeInOrder` | `AnswersInOrder`, under `AwaitsCacheReady` |
| `ExperimentFetchProofs!TheCacheIsCleared` | `CacheIsKept`, under `AwaitsCacheReady` |
| `ExperimentFetchProofs!FetchesStayCurrent` | `FetchesAreCurrent`, in part an action property, under `AwaitsCacheReady` |
| `PackageDocsProofs!CommandsExclude` | `MutualExclusion` |
| `PackageDocsProofs!FilesStaySafe` | `FilesAreSafe` |
| `PackageDocsProofs!RestoringIsComplete` | `CleanMeansRestored` |
| `PartsProofs!NoEntryIsLost` | `MigrationHolds` |
| `PartsProofs!TheNewestClientIsUp` | `LifecycleHolds` |
| `PartsProofs!ReleasesAreSound` | `ReleaseHolds` |
| `PartsProofs!LocksAreReviewed` | `ReplayHolds` |
| `PartsProofs!ReadsAreAsDocumented` | `ReadsHold` |
| `PartsProofs!StatusesAreEarned` | `ExampleHolds`: the labs and the fixture server |
| `PartsProofs!PagesReadTheirWrites` | `BrowserHolds`, in part an action property |
| `PartsProofs!AnswersAreOwn` | `TransportHolds`, in part an action property |
| `PartsProofs!FlagsStayCurrent` | `FlagsHold`, in part an action property |
| `ServicesProofs!WritesAreBuffered` | `BufferHolds` |

Four hypotheses are more than the modules assume. `NoFaults` says that no file
operation fails; the platform may still remove the store's directory at any moment,
and any number of times. `OneTrouble` is `NoFaults`, or that the platform does not remove
the directory (`NoWipes`); then any file operation may fail. With one failure and one
removal TLC finds `BookkeepingIsExact` and `ImplementsDurableMap` violated, with segments
of three records `LogIsSound` as well, and finding 1 is the same for the second half of
`ReloadsInTime`: what the object remembers of files that are gone stays wrong when the
listing that would tell fails. `DelaysAreShort` says that an
event reaches the client within the session's timeout; an event that is older
than that starts a session in the past, and the one after it is then cut
although somebody was active. `AwaitsCacheReady` is the condition of the first remark
in section 5: without it the properties are false, as TLC shows.

### The inductive invariants

None of the properties is inductive alone. What each proof adds:

- **SegmentStore.** The files are a family of sequences over all segment ids
  (`Files`), each of records with at most a torn line behind them (`LinesInv`). What
  a key's last and live record is (`LastAt`, `LiveAt`) is a relation on that family,
  so that the index can be described without the replay that builds it (`IndexInv`);
  `IndexIsReadIndex` says that there is only one such index. `SizeInv` and `DeadInv`
  tie the counters to the files, `TopInv` says that nothing lies above the active
  segment and that it has no torn line unless it is being probed. `TrimInv`,
  `RotationInv` and `CompactInv` say what a load, a rotation and a compaction rely on
  at the step they have reached, `CallInv` where a call may be. All changes of the
  files are of three kinds, each with its lemmas about what is live afterwards: the
  complete lines stay (`SameRecords`), lines are added above everything (`Extends`),
  or some lines of one file are kept and renumbered (`Thins`). A compaction does the
  last two; it is correct because of each key in the old file it keeps the last
  record, if that is live, or a tombstone, if an older record could come back
  (`KeepsKey`, `CompactionKeepsKeys`).
- **SegmentStore implements DurableMap.** The map's contents are a function of the
  files alone (`ContentsAre`). Every change of the files either means the same
  (`SameMeaning`: trimming, tombstone moves, rewrites, torn lines, restoring a segment)
  or puts one record (`Puts`: the write of a line, also by a process that dies in
  it); the first leaves the contents alone (`ContentsStay`), the second changes one key
  (`ContentsPut`). `AnswerInv` adds what a call knows of its own operation: it
  has been applied exactly when its return, or the compaction after its write, has
  been reached; a migrated key is still unknown when its record is written; and
  before an error is thrown something has gone wrong. With that the write of a line is the map's
  `Apply` and the crash its `Crash`, the steps that reach `pc = "return"` with an
  answer are its `Respond`, and all others are its `Internal` or stutters. There is
  one lemma for each group of actions (`LoadRefines`, `LookupRefines`, `AppendRefines`,
  `CompactRefines`, `CallersRefine`, `CrashRefines`).
- **SegmentStore without its directory.** When the directory is removed the object
  remembers files that are gone until it next loads. `WipeInv` says that nothing has
  failed (`CalmInv`) and that either the invariant above holds, or there are no files
  and what the object believes to be indexed lies in segments that it believes to
  have lines (`GoneInv`, `Believed`). So whatever it still looks for is missing from the
  listing, and it loads again (`LookupMisses`, `AppendMisses`); and it writes nothing before it has done so,
  because the directory is not there. `TrimsAll` and `ReclaimsAll` follow the candidates
  of the compaction after a load. For the refinement, `WipeAnswerInv` takes the place of
  `AnswerInv`: a load in the middle of a call found no files (`ReloadsInv`), and a write
  that fails twice has met a removal during the call (`AttemptInv`). There is again one
  lemma for each group of actions (`LoadMaps`, `GoneAnswers`, `AppendMaps`, `CompactMaps`,
  `WorldMaps`).
- **Worker.** `TypeOK` needs `InFlightExact`, which ties `inFlightCount` to the threads
  inside an exchange. `NoWakeupLost` counts threads; `OneThreadMoves` says how a count
  changes when one thread moves. The cancellation theorems rest on `AnswersInv`:
  generations grow along the queue, what was taken is older than what is queued,
  and two threads hold different requests (`Ordered`); the table names exactly the
  queued and held requests (`TracksUnanswered`); a queued request is marked if and
  only if a caller cancelled it (`MarksExact`). `Ordered` is what makes `back()` of an
  id the newest queued one, so that a cancel aimed at a queued request cannot hit
  one that is in flight (`CancelMarksQueued`). `HeardOnce` adds `CallsInv`: what
  listeners have heard was completed, and no thread holds what another one calls
  listeners for.
- **Worker's counters.** `Bytes` is a recursive function over the queue. `SumsExist`
  and `BytesIsSum` show that the function its equation describes exists, by the least
  natural number at which it would not (`LeastNatural`); `BytesAppended` and
  `BytesTaken` say what a longer and a shorter queue sum to. `QueueCounted` is then a
  statement about one append and one removal.
- **PartsProofs.** `EachPartRuns` states that a behaviour of the composition is a
  behaviour of every component in it, the ones that do not run included. So each
  component has its own invariant, and the theorem for `MCParts` follows.
- **LegacyMigration.** While a call runs, its locals agree with the store and the
  preferences (`CallInv`, `ImportInv`); a deleted key is out of the preferences unless
  its removal did not stay (`GoneInv`); an untouched one has its imported value or
  none (`OldInv`).
- **Session.** The property about late restores says nothing while the session is
  unread. `WishInv` says what a restore would then give, field by field: the settings
  that hold. `TimeInv` does the same for the last activity, and bounds how far a
  session's start lies from its last event; that bound is where `DelaysAreShort`
  is used.
- **AnalyticsFlush.** Operations settle in their order (`OrderInv`), so that at most
  one runs; only the first call of a destination sends, and `flushId` and
  `scheduleId` name the timers that will fire (`DestinationInv`); events are held or
  answered, never both (`EventInv`); what an operation has counted of the
  destinations' chains is all that is in them unless they moved or the client was
  torn down (`WatchInv`), which is why settling leaves nothing running.
- **ExperimentFetch.** The client keeps numbers, not the answers themselves.
  `AnswerInv` relates them to the answers: for each key the stored numbers bound the
  newest answer from both sides. `NumberInv` and `GenerationInv` order numbers and
  generations, `JoinInv` says that the map of requests names exactly the current
  ones, `WriteInv` that a write belongs to one fetch. `FreshnessInv` allows freshness
  to be behind while the newest stored fetch has not settled, the only time it is.
- **AnalyticsLifecycle.** `PromiseInv` says which shutdown a new `init()` would wait for:
  the last one that flushes, or none although one flushes, if the client has been
  torn down. `InitInv` follows an undisturbed `init()`: once it has waited, no
  shutdown of its client is under way, and what it has set up stays. So the
  connected client is `Quiet` (`LatestInv`), and a teardown is another client's, which
  does not own the connector.
- **Publish.** `PassedInv` says which gates lie behind a run at each of its commands,
  by nested sets of commands (`AfterAuth`, `AfterQuality`, `AfterArtifacts`, `Late`), and
  that a run that skips a gate is a dry run; `PackedInv` what is packed on the way to
  the upload, `RunInv` that numbers of runs do not come again.
- **ReplayLock.** A command reads the files one after the other while others change
  them. `ReadInv`, `ListedInv` and `FoundInv` say what it has read, file by file, on
  the condition that nobody has changed that file since (`Untouched`); `LockInv` that
  a lock records what was reviewed. The property needs no condition, because a check
  that compares equal has read what the lock records.
- **VariantReads.** That the code's order of sources is the documented one is not an
  invariant but a fact about the operators, proved by the type of the configuration
  alone (`TheOrderIsDocumented`, `BothReadsAgree`) from what the first member of a
  tuple of candidates is (`FirstIs`). Exposures need `TrackerInv`: the tracker has, per
  key, the variant of the last exposure of its user.
- **ExampleLab, ReplayFixture.** `JobsInv` follows what a job has tracked from its
  client to the records and says that while a job is alone the records are its own;
  `RowsInv` that the case that is run is the one after the last row of its run. The
  list of cases enters only as a nonempty list of different kinds. `FixtureInv` counts
  a request's answers by where the request is.
- **WriteBehind.** `BufferInv`: no key has two pending entries; an entry is what its
  key reads, and without an entry the disk is, unless a removal failed half way
  (`ReadsBack`); and what waits may reach the disk at any flush that fails
  (`PendingMayBeWritten`). Removing the entries of some keys is a recursive function
  over the list; that its equation has a solution, and that the solution keeps just
  the other entries, is shown by the least prefix at which it would not
  (`PrefixesExist`, `PrefixesFilter`).
- **BrowserStorage.** `KeyInv` says for one key where the value is that a read
  gives: nowhere if a reset of a namespace that covers it is newer than its last
  write (`Hides`), else in its override, else in `localStorage`. A key the page has not
  touched was not hidden either.
- **Transports.** `TransportInv`: the map holds the calls that wait, and the worker
  owes each of them exactly one answer. `Log` says of any two failures of a kind with
  none of that kind between them that the later one has the next count; what is
  dropped, the oldest event or all failures, cannot come between two that stay.
- **ExperimentFlags.** `GenerationsHold`: a generation has one start, its poller runs
  only after that start is done, and makes one round at a time; so of one generation
  at most one call is in flight, and the answer it gets is no older than what was
  applied (`AnswersHold`). Calls of older generations are told apart because a start
  that nobody stopped has the current one (`StartsHold`). `GenerationBound` counts the
  starts, failures and stops that made the generations.
- **PackageDocs.** Two layers, joined in `Always`. `ExclusionInv` holds whatever is done
  to the lock: a process that works and was not robbed owns it, and until two have
  been about to remove the same stale lock, at most one is about to remove a lock
  and it is the one it has seen. Nothing but the steps of the lock matters to it (`WorkExcludes` covers the others, among
  them `EndsUnfollowed`). The other conjuncts hold while nobody was robbed; a step that
  robs somebody ends them, and none brings that state back (`RobbedStays`). `LockInv`
  says who has the lock, who is about to take or give it
  up and who takes it over; `WorkOf` what a process has done of its prepare, sync or
  restore at each of its steps, one conjunct for each place; `DisplacedInv` and
  `OwnedInv` where a moved document is and that a sync drops nothing of the
  developer's; `LeftInv` where what is to be restored is: at its place, moved aside
  by a living process, or in the manifest, unless a process died in between;
  `RecordedInv` that what the manifest records as prepared is there or was edited.

TLC checked each of these invariants on the instance of the component's run,
that of `SegmentStore` also with a third segment, `WipeInv` and `WipeAnswerInv` also with three keys and
two removals (656216 states), and those of `ExperimentFetch` and `PackageDocs` on larger ones (5.8 and 8 million
states), before they were proved. Each proof has one lemma for an action, or for
the actions that change the same things in the same way, and one step for a
conjunct that the action can disturb.

### What the proofs changed in the modules

- `PackageDocs`: directories moved aside were kept as a set of contents; two
  processes that move away equal contents are only told apart if each has its own
  name, as in the code (`displaced` now holds who moved what). The condition on
  refusals overlooked a sync that runs while there is a manifest: TLC finds that
  with four processes, two edits and one document, the run's instance does not show it
  (`disturbed`). It now speaks of each document.
- `AnalyticsLifecycle`: it was checked with one shutdown of each client.
  The invariant failed with three: the last, of a client already torn down, ends
  at once and clears the promise an `init()` would wait for, while the second one's
  flush is pending. That flush is too short to matter in the code; the model let
  it take any time. `Emptied` says so now, and the run has three shutdowns.
- `AnalyticsFlush`: `Timers` must have three members, or a destination can be left
  without a number for its next timer. What a settled operation leaves is a property
  of its own (`SettledIsDone`).
- `Session`, `AnalyticsFlush`: definitions by `CASE` with overlapping guards are `IF`
  now, since TLA+ does not say which of two true guards is chosen.
- `Worker`: the sum of the sizes is a recursive function instead of a fold, so that its
  equation can be used. `VariantReads`: the first candidate that is there is chosen by
  its index instead of by filtering the list. `WriteBehind`: so are the entries that a
  removal leaves (`Without`). `Transports`: so is what `clear` leaves (`Timings`).
  `ExampleLab`: what a flush adds to the
  records is one sum instead of two cases.
- `Session`, `LegacyMigration`, `PackageDocs`, `SegmentStore`, `VariantReads`: the
  assumptions say that the value that stands for "nothing" is none of the others; in
  `Transports` that the other clients' requests are not the calls, in `ExperimentFlags`
  that a start is no round of the poller and that the starts are finitely many; in `SegmentStore` also
  that an answer is not the word "pending", and torn and merged lines are no records.

### Only model-checked

- Liveness: TLAPS here does not reason about fairness and ENABLED. That is
  `EveryCallReturns`, `EventuallyDurable`, `CallsReturn`, `WorkerServes`, `FlagsCatchUp`,
  `InitEnds` and `EverySettles`.
- `SegmentStore` when file operations fail and the platform removes the directory: the
  properties are false there (finding 1, and the remark above). That calls return then
  as well is checked (`CallsReturn`, in the run `Services`, which allows both).

## 7. Plan

Done: all modules of section 2 and the theorems of section 6.

### Not modelled

- Platform adapters and the native context: I/O through system interfaces.
- Compression: a pure function of bytes.
- Presets, error mapping, entry points, testing helpers: tables and exports.
- Classification of failures by their text, campaign parsing, cookies of older
  SDKs: conversions no property here is about.
- The evaluation engine, the timeline and the destination's queue: dependencies,
  external where the modules need them.
- The example's remaining screens and the one-shot scripts (`setup.js`,
  `release-docs.js`, `run-example-smoke.js`): they run other tools in a fixed order
  and keep no state that order could break.
