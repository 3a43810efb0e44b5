--------------------------- MODULE ExperimentFetch ---------------------------
(***************************************************************************)
(* The fetches of the experiment client and the variants they store        *)
(* (src/experiment/experimentClient.ts, util/backoff.ts, storage/cache.ts  *)
(* and transport/http.ts).                                                 *)
(*                                                                         *)
(* One JavaScript thread runs everything.  A fetch gives it away while it  *)
(* waits for the server and while it waits for its variants to be stored;  *)
(* a step of the model is what runs between two such points, or one public *)
(* call.  Requests are answered in any order, fail, or are retried by a    *)
(* Backoff while the user changes, the cache is cleared and the client is  *)
(* stopped.                                                                *)
(*                                                                         *)
(* A variant is known by the sequence number of the fetch that brought it, *)
(* 0 for one that an earlier process stored.  The client is configured as  *)
(* by default, with retryFetchOnFailure.                                   *)
(***************************************************************************)
EXTENDS Integers, Sequences, FiniteSets

CONSTANTS Users,             \* values of ExperimentUser that serialize differently
          Keys,              \* flag keys
          Earlier,           \* those that an earlier process stored a variant for
          AwaitsCacheReady,  \* the application calls nothing before cacheReady()
          MaxAttempts,       \* fetchBackoffAttempts
          MaxSequence,       \* bound: the largest fetch sequence number
          MaxInFlight,       \* bound: requests without an answer
          Absent             \* no variant

ASSUME ExperimentFetchAssumption ==
  /\ Earlier \subseteq Keys /\ AwaitsCacheReady \in BOOLEAN
  /\ MaxAttempts \in Nat \ {0}
  /\ MaxSequence \in Nat /\ MaxInFlight \in Nat
  /\ Absent \notin Int

VARIABLES
  user,
  isRunning,
  variants,                         \* the cache: key -> variant
  toLoad,                           \* what load() read and has not put into the cache
  fetchSequenceNumber,
  storedFetchSequenceNumber,
  storedFullFetchSequenceNumber,
  storedKeySequenceNumbers,         \* key -> number, 0 for no entry
  fetchGeneration,
  lastFetchMetadataSequenceNumber,
  lastFetchFailed,                  \* lastFetchFailure is set
  inFlightFetches,                  \* <<user, keys>> -> the fetch that calls join
  retryBackoffs,                    \* the Backoffs that can still be cancelled
  fetches,                          \* number -> invocation of fetchInternal
  pendingStore,                     \* writes of the cache that were not done yet
  disk,                             \* what the storage holds
  (* what is observed of the run *)
  newest,                           \* key -> newest answer since the last invalidation
  settled,                          \* the newest fetch that counts as succeeded or failed
  cleared,                          \* fetchSequenceNumber at the last clear
  putFailed                         \* the last write of the cache failed

stored   == <<storedFetchSequenceNumber, storedFullFetchSequenceNumber,
              storedKeySequenceNumbers>>
metadata == <<lastFetchMetadataSequenceNumber, lastFetchFailed>>
cache    == <<variants, pendingStore>>
requests == <<inFlightFetches, retryBackoffs, fetches>>
identity == <<user, isRunning, fetchGeneration>>
storage  == <<disk, putFailed>>
vars == <<identity, fetchSequenceNumber, stored, metadata, cache, requests, toLoad,
          storage, newest, settled, cleared>>

Numbers == 1..MaxSequence
Options == SUBSET Keys     \* flagKeys; none means all of them
Everything == {}

With(f, x, v) == [y \in DOMAIN f \cup {x} |-> IF y = x THEN v ELSE f[y]]
Without(f, x) == [y \in DOMAIN f \ {x} |-> f[y]]

NoEntries == [x \in {} |-> 0]
NoVariants == [k \in Keys |-> Absent]
NoAnswer == [k \in Keys |-> [number |-> 0, present |-> FALSE]]

Init ==
  /\ user \in Users /\ isRunning = FALSE
  /\ fetchSequenceNumber = 0 /\ fetchGeneration = 0
  /\ storedFetchSequenceNumber = 0 /\ storedFullFetchSequenceNumber = 0
  /\ storedKeySequenceNumbers = [k \in Keys |-> 0]
  /\ lastFetchMetadataSequenceNumber = 0 /\ lastFetchFailed = FALSE
  /\ variants = NoVariants /\ pendingStore = <<>>
  /\ disk = [k \in Keys |-> IF k \in Earlier THEN 0 ELSE Absent]
  /\ toLoad = <<disk>>
  /\ inFlightFetches = NoEntries /\ retryBackoffs = NoEntries /\ fetches = NoEntries
  /\ newest = NoAnswer
  /\ settled = [number |-> 0, failed |-> FALSE]
  /\ cleared = -1
  /\ putFailed = FALSE

-----------------------------------------------------------------------------
(* Invalidation and the public calls                                       *)

MayCall == AwaitsCacheReady => toLoad = <<>>

\* LoadStoreCache.load replaces the cache by what it had read.
LoadCompletes ==
  /\ toLoad # <<>>
  /\ variants' = Head(toLoad)
  /\ toLoad' = <<>>
  /\ UNCHANGED <<identity, fetchSequenceNumber, stored, metadata, pendingStore,
                 requests, storage, newest, settled, cleared>>

\* invalidateFetches, without what it does to the requests: everything that
\* was numbered before is covered.  What is observed starts anew.
Covers(n) ==
  /\ fetchGeneration' = fetchGeneration + 1
  /\ storedFetchSequenceNumber' = n
  /\ storedFullFetchSequenceNumber' = n
  /\ storedKeySequenceNumbers' = [k \in Keys |-> 0]
  /\ newest' = NoAnswer
  /\ settled' = [number |-> lastFetchMetadataSequenceNumber, failed |-> lastFetchFailed]

invalidateFetches ==
  /\ fetchSequenceNumber < MaxSequence
  /\ fetchSequenceNumber' = fetchSequenceNumber + 1
  /\ Covers(fetchSequenceNumber + 1)
  /\ inFlightFetches' = NoEntries
  /\ retryBackoffs' = NoEntries

setUser(u) ==
  /\ MayCall
  /\ u # user
  /\ user' = u
  /\ invalidateFetches
  /\ UNCHANGED <<isRunning, metadata, cache, fetches, toLoad, storage, cleared>>

Request(u, keys, generation, backoff) ==
  [user |-> u, keys |-> keys, generation |-> generation, backoff |-> backoff,
   phase |-> "sent"]

\* The synchronous part of fetch, fetchOrThrow and fetchWithMetadata: set the
\* user, join a request in flight for the same user and keys, or cancel the
\* retries and send a new one.
FetchNow(u, keys) ==
  LET call == <<u, keys>>
      changed == u # user
      next == fetchSequenceNumber + (IF changed THEN 2 ELSE 1)
      request == Request(u, keys, fetchGeneration', 0)
  IN /\ user' = u
     /\ IF changed THEN Covers(next - 1)
        ELSE UNCHANGED <<fetchGeneration, stored, newest, settled>>
     /\ \/ /\ ~changed /\ call \in DOMAIN inFlightFetches
           /\ UNCHANGED <<fetchSequenceNumber, requests>>
        \/ /\ changed \/ call \notin DOMAIN inFlightFetches
           /\ next <= MaxSequence /\ Cardinality(DOMAIN fetches) < MaxInFlight
           /\ fetchSequenceNumber' = next
           /\ inFlightFetches' = With(IF changed THEN NoEntries ELSE inFlightFetches, call, next)
           /\ retryBackoffs' = NoEntries
           /\ fetches' = With(fetches, next, request)
     /\ UNCHANGED <<metadata, cache, toLoad, storage, cleared>>

fetch(u, keys) == MayCall /\ FetchNow(u, keys) /\ UNCHANGED isRunning

\* start, as far as fetches go; fetchOnStart may be turned off.
start ==
  /\ MayCall /\ ~isRunning
  /\ isRunning' = TRUE
  /\ \/ \E u \in Users : FetchNow(u, Everything)
     \/ UNCHANGED <<user, fetchGeneration, fetchSequenceNumber, stored, metadata, cache,
                    requests, toLoad, storage, newest, settled, cleared>>

\* Only a client that was started discards the responses still in flight.
stop ==
  /\ MayCall
  /\ \/ isRunning /\ invalidateFetches
     \/ /\ ~isRunning
        /\ retryBackoffs' = NoEntries
        /\ UNCHANGED <<fetchGeneration, fetchSequenceNumber, stored, inFlightFetches,
                       newest, settled>>
  /\ isRunning' = FALSE
  /\ UNCHANGED <<user, metadata, cache, fetches, toLoad, storage, cleared>>

\* LoadStoreCache.store: the values are taken now and written after the
\* writes before.
Storing(values, by) == pendingStore' = Append(pendingStore, [values |-> values, by |-> by])

clear ==
  /\ MayCall
  /\ invalidateFetches
  /\ variants' = NoVariants
  /\ Storing(NoVariants, 0)
  /\ cleared' = fetchSequenceNumber
  /\ UNCHANGED <<user, isRunning, metadata, fetches, toLoad, storage>>

-----------------------------------------------------------------------------
(* The end of a fetch: its promise is taken out of inFlightFetches, and    *)
(* the Backoff it belongs to, if any, finishes or sets its timer again.    *)

\* Only its own entry is deleted, not that of a newer request.
Forgotten(n) ==
  LET call == <<fetches[n].user, fetches[n].keys>>
  IN IF call \in DOMAIN inFlightFetches /\ inFlightFetches[call] = n
     THEN Without(inFlightFetches, call) ELSE inFlightFetches

TriesAgain(attempt) == attempt + 1 < MaxAttempts

MayRetry_AnyGeneration(n, retriable) == fetches[n].backoff = 0 /\ retriable
MayRetry(n, retriable) ==
  fetches[n].backoff = 0 /\ retriable /\ fetches[n].generation = fetchGeneration

Ends(n) ==
  /\ fetches' = Without(fetches, n)
  /\ inFlightFetches' = IF fetches[n].backoff = 0 THEN Forgotten(n) ELSE inFlightFetches

Returns(n) ==
  /\ Ends(n)
  /\ retryBackoffs' = Without(retryBackoffs, fetches[n].backoff)

\* A cancelled Backoff is not in retryBackoffs any more: it is done.
Throws(n, retriable) ==
  LET f == fetches[n]
      b == f.backoff
  IN /\ Ends(n)
     /\ retryBackoffs' =
          IF MayRetry(n, retriable)
          THEN With(retryBackoffs, n, [user |-> f.user, keys |-> f.keys,
                                       generation |-> f.generation,
                                       attempt |-> 0, timer |-> TRUE])
          ELSE IF b \notin DOMAIN retryBackoffs THEN retryBackoffs
          ELSE IF TriesAgain(retryBackoffs[b].attempt)
          THEN [retryBackoffs EXCEPT ![b].attempt = @ + 1, ![b].timer = TRUE]
          ELSE Without(retryBackoffs, b)

\* What is observed when fetch n, of the current generation, has counted.
Settles(n, failed) ==
  settled' = IF fetches[n].generation = fetchGeneration /\ n > settled.number
             THEN [number |-> n, failed |-> failed] ELSE settled

FailureCounts(n) ==
  n >= storedFetchSequenceNumber /\ n >= lastFetchMetadataSequenceNumber

\* The catch of fetchInternal.
Catches(n, retriable) ==
  /\ IF FailureCounts(n)
     THEN lastFetchMetadataSequenceNumber' = n /\ lastFetchFailed' = TRUE
     ELSE UNCHANGED metadata
  /\ Settles(n, TRUE)
  /\ Throws(n, retriable)

-----------------------------------------------------------------------------
(* The server's answer, and storeVariants                                  *)

Answered(n, keys, present) ==
  newest' = [k \in Keys |->
               IF /\ k \in keys /\ n > newest[k].number
                  /\ fetches[n].generation = fetchGeneration
               THEN [number |-> n, present |-> k \in present] ELSE newest[k]]

\* storeVariants returned false: the response was superseded.
Superseded(n) == Returns(n) /\ UNCHANGED <<stored, cache, settled>>

\* The end of storeVariants: the cache is written, the fetch waits for it.
Stores(n) ==
  /\ storedFetchSequenceNumber' =
       IF n > storedFetchSequenceNumber THEN n ELSE storedFetchSequenceNumber
  /\ Storing(variants', n)
  /\ fetches' = [fetches EXCEPT ![n].phase = "storing"]
  /\ UNCHANGED <<inFlightFetches, retryBackoffs, settled>>

\* Variants that a newer partial response stored survive a full response.
Retained_None(n) == {}
Retained(n) == {k \in Keys : storedKeySequenceNumbers[k] > n /\ variants[k] # Absent}

StoreAll(n, present) ==
  \/ n <= storedFullFetchSequenceNumber /\ Superseded(n)
  \/ /\ n > storedFullFetchSequenceNumber
     /\ storedKeySequenceNumbers' =
          [k \in Keys |-> IF storedKeySequenceNumbers[k] <= n THEN 0
                          ELSE storedKeySequenceNumbers[k]]
     /\ variants' = [k \in Keys |-> IF k \in Retained(n) THEN variants[k]
                                    ELSE IF k \in present THEN n ELSE Absent]
     /\ storedFullFetchSequenceNumber' = n
     /\ Stores(n)

IsCovered(k, n) ==
  n <= storedFullFetchSequenceNumber \/ n <= storedKeySequenceNumbers[k]

StoreSome(n, keys, present) ==
  LET taken == {k \in keys : ~IsCovered(k, n)}
  IN \/ taken = {} /\ Superseded(n)
     \/ /\ taken # {}
        /\ variants' = [k \in Keys |-> IF k \notin taken THEN variants[k]
                                       ELSE IF k \in present THEN n ELSE Absent]
        /\ storedKeySequenceNumbers' =
             [k \in Keys |-> IF k \in taken THEN n ELSE storedKeySequenceNumbers[k]]
        /\ UNCHANGED storedFullFetchSequenceNumber
        /\ Stores(n)

\* The server evaluated the user: it answers for some of the requested keys.
Response(n, present) ==
  LET keys == fetches[n].keys
  IN /\ fetches[n].phase = "sent"
     /\ \/ /\ keys = Everything
           /\ Answered(n, Keys, present)
           /\ StoreAll(n, present)
        \/ /\ keys # Everything /\ present \subseteq keys
           /\ Answered(n, keys, present)
           /\ StoreSome(n, keys, present)
     /\ UNCHANGED <<identity, fetchSequenceNumber, metadata, toLoad, storage, cleared>>

\* The request failed or timed out, or the server refused it; shouldRetryFetch
\* decides by the status.
Failure(n, retriable) ==
  /\ fetches[n].phase = "sent"
  /\ Catches(n, retriable)
  /\ UNCHANGED <<identity, fetchSequenceNumber, stored, cache, toLoad, storage,
                 newest, cleared>>

\* The writes that may be done next: pendingStore is a chain.
NextWrite_Any == DOMAIN pendingStore
NextWrite == {i \in DOMAIN pendingStore : i = 1}

\* A write is done or fails; the fetch behind it will go on.
Put(ok) ==
  \E i \in NextWrite :
    LET write == pendingStore[i]
    IN /\ pendingStore' = SubSeq(pendingStore, 1, i - 1)
                            \o SubSeq(pendingStore, i + 1, Len(pendingStore))
       /\ disk' = IF ok THEN write.values ELSE disk
       /\ putFailed' = ~ok
       /\ fetches' = IF write.by = 0 THEN fetches
                     ELSE [fetches EXCEPT ![write.by].phase = IF ok THEN "stored" ELSE "failed"]
       /\ UNCHANGED <<identity, fetchSequenceNumber, stored, metadata, variants,
                      inFlightFetches, retryBackoffs, toLoad, newest, settled, cleared>>

\* fetchInternal after storeVariants: the freshness is this fetch's unless
\* something was stored or invalidated while it waited.
Stored(n) ==
  /\ fetches[n].phase = "stored"
  /\ IF /\ storedFetchSequenceNumber = n
        /\ n >= lastFetchMetadataSequenceNumber
     THEN lastFetchMetadataSequenceNumber' = n /\ lastFetchFailed' = FALSE
     ELSE UNCHANGED metadata
  /\ Settles(n, FALSE)
  /\ Returns(n)
  /\ UNCHANGED <<identity, fetchSequenceNumber, stored, cache, toLoad, storage,
                 newest, cleared>>

NotStored(n) ==
  /\ fetches[n].phase = "failed"
  /\ Catches(n, TRUE)
  /\ UNCHANGED <<identity, fetchSequenceNumber, stored, cache, toLoad, storage,
                 newest, cleared>>

\* The timer of a Backoff: fetchInternal again, which does not retry by itself.
Retry(b) ==
  LET n == fetchSequenceNumber + 1
      backoff == retryBackoffs[b]
  IN /\ backoff.timer
     /\ n <= MaxSequence /\ Cardinality(DOMAIN fetches) < MaxInFlight
     /\ fetchSequenceNumber' = n
     /\ fetches' = With(fetches, n, Request(backoff.user, backoff.keys, fetchGeneration, b))
     /\ retryBackoffs' = [retryBackoffs EXCEPT ![b].timer = FALSE]
     /\ UNCHANGED <<identity, stored, metadata, cache, inFlightFetches, toLoad, storage,
                    newest, settled, cleared>>

Next ==
  \/ LoadCompletes
  \/ \E u \in Users : setUser(u) \/ \E keys \in Options : fetch(u, keys)
  \/ start \/ stop \/ clear
  \/ \E n \in DOMAIN fetches :
       \/ \E present \in SUBSET Keys : Response(n, present)
       \/ \E retriable \in BOOLEAN : Failure(n, retriable)
       \/ Stored(n) \/ NotStored(n)
  \/ \E ok \in BOOLEAN : Put(ok)
  \/ \E b \in DOMAIN retryBackoffs : Retry(b)

Spec == Init /\ [][Next]_vars

-----------------------------------------------------------------------------
(* Properties                                                              *)

Variants == Numbers \cup {0, Absent}

TypeOK ==
  /\ user \in Users /\ isRunning \in BOOLEAN
  /\ {fetchSequenceNumber, fetchGeneration, storedFetchSequenceNumber,
      storedFullFetchSequenceNumber, lastFetchMetadataSequenceNumber} \subseteq 0..MaxSequence
  /\ storedKeySequenceNumbers \in [Keys -> 0..MaxSequence]
  /\ lastFetchFailed \in BOOLEAN /\ putFailed \in BOOLEAN
  /\ variants \in [Keys -> Variants] /\ disk \in [Keys -> Variants]
  /\ toLoad \in {<<>>} \cup {<<v>> : v \in [Keys -> Variants]}
  /\ pendingStore \in Seq([values : [Keys -> Variants], by : 0..MaxSequence])
  /\ DOMAIN inFlightFetches \subseteq Users \X Options
  /\ \A call \in DOMAIN inFlightFetches : inFlightFetches[call] \in Numbers
  /\ DOMAIN fetches \subseteq Numbers
  /\ \A n \in DOMAIN fetches :
       fetches[n] \in [user : Users, keys : Options, generation : 0..MaxSequence,
                       backoff : 0..MaxSequence,
                       phase : {"sent", "storing", "stored", "failed"}]
  /\ DOMAIN retryBackoffs \subseteq Numbers
  /\ \A b \in DOMAIN retryBackoffs :
       retryBackoffs[b] \in [user : Users, keys : Options, generation : 0..MaxSequence,
                             attempt : 0..(MaxAttempts - 1), timer : BOOLEAN]
  /\ newest \in [Keys -> [number : 0..MaxSequence, present : BOOLEAN]]
  /\ settled \in [number : 0..MaxSequence, failed : BOOLEAN]
  /\ cleared \in -1..MaxSequence

\* A response is stored only for the user it was requested for, and never after
\* the user changed, the cache was cleared or a running client was stopped,
\* whichever of the awaits of the fetch that happened in.
StoredIsCurrent ==
  [][\A k \in Keys :
       variants'[k] # variants[k] /\ variants'[k] \in DOMAIN fetches =>
         /\ fetches[variants'[k]].user = user
         /\ fetches[variants'[k]].generation = fetchGeneration]_vars

\* The newest answer that has a variant for the key is the one that is shown,
\* in whatever order full and partial responses arrive.
NewestIsShown ==
  \A k \in Keys : newest[k].present => variants[k] = newest[k].number

\* The newest answer decides on the key, also when it says that there is no
\* variant for it.
NewestWins ==
  \A k \in Keys :
    newest[k].number # 0 =>
      variants[k] = IF newest[k].present THEN newest[k].number ELSE Absent

\* Freshness follows the newest fetch of the current generation that failed or
\* was stored: an older result that comes late does not change it.
MetadataIsNewest ==
  (\A n \in DOMAIN fetches :
     fetches[n].phase = "sent" \/ fetches[n].generation # fetchGeneration) =>
    /\ lastFetchMetadataSequenceNumber = settled.number
    /\ lastFetchFailed = settled.failed

\* Every retry that is still to come is for the current user and can be
\* cancelled: none survives a user change, a clear or the stop of a running client.
RetriesAreCurrent ==
  \A b \in DOMAIN retryBackoffs :
    /\ retryBackoffs[b].generation = fetchGeneration
    /\ retryBackoffs[b].user = user

\* Two equal requests of one generation are never in flight together, and a
\* call joins only a request whose response may still be stored.
NoDuplicateRequests ==
  /\ \A n, m \in DOMAIN fetches :
       /\ fetches[n].backoff = 0 /\ fetches[m].backoff = 0
       /\ fetches[n].generation = fetches[m].generation
       /\ fetches[n].keys = fetches[m].keys
       => n = m
  /\ \A call \in DOMAIN inFlightFetches :
       /\ inFlightFetches[call] \in DOMAIN fetches
       /\ fetches[inFlightFetches[call]].generation = fetchGeneration

\* After clear nothing is shown that was stored or requested before it.
ClearIsFinal == \A k \in Keys : variants[k] # Absent => variants[k] > cleared

\* When no write is pending and the last one did not fail, a restart finds the
\* variants that are shown; the last pending write holds them otherwise.
DiskFollowsCache ==
  toLoad = <<>> =>
    IF pendingStore = <<>> THEN ~putFailed => disk = variants
    ELSE pendingStore[Len(pendingStore)].values = variants

\* Whatever order the server answers in, the newest answer decides on what is
\* shown and on how fresh it is.
AnswersInOrder == TypeOK /\ NewestIsShown /\ MetadataIsNewest

\* The cache is cleared for good, and the disk keeps up with it.
CacheIsKept == ClearIsFinal /\ DiskFollowsCache

\* Neither a request nor a retry nor a response outlives the generation it was
\* begun for, and no call asks twice.
FetchesAreCurrent == [](RetriesAreCurrent /\ NoDuplicateRequests) /\ StoredIsCurrent
=============================================================================
