------------------------ MODULE ExperimentFetchProofs ------------------------
(* What TLAPS proves of ExperimentFetch, for any users, flag keys, number of *)
(* attempts and of requests in flight, of an application that awaits         *)
(* cacheReady() before its first call.                                       *)
EXTENDS ExperimentFetch, SequenceTheorems, TLAPS

-----------------------------------------------------------------------------
(* The inductive invariant.                                                  *)

IsNow(n) == fetches[n].generation = fetchGeneration

\* Numbers are given out in order, and what is stored or settled has one.
NumberInv ==
  /\ fetchGeneration <= fetchSequenceNumber
  /\ storedFullFetchSequenceNumber <= storedFetchSequenceNumber
  /\ storedFetchSequenceNumber <= fetchSequenceNumber
  /\ lastFetchMetadataSequenceNumber <= settled.number
  /\ settled.number <= fetchSequenceNumber
  /\ cleared < storedFullFetchSequenceNumber
  /\ \A n \in DOMAIN fetches : n <= fetchSequenceNumber
  /\ \A k \in Keys : newest[k].number <= fetchSequenceNumber

\* A fetch of an earlier generation is older than what counts as stored in
\* full; one of this generation is for the user.
GenerationInv ==
  \A n \in DOMAIN fetches :
    /\ fetches[n].generation <= fetchGeneration
    /\ ~IsNow(n) => n < storedFullFetchSequenceNumber
    /\ IsNow(n) => fetches[n].user = user
    /\ IsNow(n) /\ fetches[n].phase # "sent" => n <= storedFetchSequenceNumber

\* The requests of this generation that no Backoff has made are those that
\* calls join.
JoinInv ==
  /\ \A n \in DOMAIN fetches :
       fetches[n].backoff = 0 /\ IsNow(n) =>
         /\ <<fetches[n].user, fetches[n].keys>> \in DOMAIN inFlightFetches
         /\ inFlightFetches[<<fetches[n].user, fetches[n].keys>>] = n
  /\ \A call \in DOMAIN inFlightFetches :
       LET n == inFlightFetches[call] IN
       /\ n \in DOMAIN fetches
       /\ IsNow(n) /\ fetches[n].backoff = 0
       /\ call = <<fetches[n].user, fetches[n].keys>>

\* Each write is awaited by one fetch, or by none.
WriteInv ==
  /\ \A i \in 1..Len(pendingStore) :
       pendingStore[i].by # 0 =>
         /\ pendingStore[i].by \in DOMAIN fetches
         /\ fetches[pendingStore[i].by].phase = "storing"
  /\ \A i, j \in 1..Len(pendingStore) :
       pendingStore[i].by # 0 /\ pendingStore[i].by = pendingStore[j].by => i = j

\* The stored numbers say up to where answers have come: a full one, if the
\* stored number is not that of an invalidation, or one for the key.
AnswerInv ==
  /\ \/ \A n \in DOMAIN fetches : IsNow(n) => n > storedFullFetchSequenceNumber
     \/ \A k \in Keys : newest[k].number >= storedFullFetchSequenceNumber
  /\ \A k \in Keys :
       /\ storedKeySequenceNumbers[k] <= newest[k].number
       /\ \/ newest[k].number <= storedFullFetchSequenceNumber
          \/ newest[k].number <= storedKeySequenceNumbers[k]
       /\ \A n \in DOMAIN fetches : fetches[n].phase = "sent" => newest[k].number # n
  /\ NewestIsShown

\* The newest stored fetch has not settled yet.
IsPending == /\ storedFetchSequenceNumber \in DOMAIN fetches
             /\ IsNow(storedFetchSequenceNumber)
             /\ fetches[storedFetchSequenceNumber].phase # "sent"

\* The freshness is that of the newest fetch that has settled, unless a newer one
\* has stored its variants and will settle.
FreshnessInv ==
  /\ settled.number \notin DOMAIN fetches
  /\ lastFetchMetadataSequenceNumber \notin DOMAIN fetches
  /\ \/ IsPending
     \/ storedFetchSequenceNumber <= settled.number
     \/ \A n \in DOMAIN fetches : IsNow(n) => n > storedFetchSequenceNumber
  /\ \/ /\ lastFetchMetadataSequenceNumber = settled.number
        /\ lastFetchFailed = settled.failed
     \/ IsPending /\ settled.number < storedFetchSequenceNumber

\* Before the cache is ready nothing has been called.
LoadInv ==
  toLoad # <<>> =>
    /\ \A k \in Keys : disk[k] \in {0, Absent}
    /\ toLoad = <<disk>> /\ pendingStore = <<>> /\ fetches = NoEntries
    /\ retryBackoffs = NoEntries /\ cleared = -1 /\ newest = NoAnswer

Inv == /\ TypeOK /\ NumberInv /\ GenerationInv /\ RetriesAreCurrent
       /\ JoinInv /\ NoDuplicateRequests /\ WriteInv /\ AnswerInv /\ FreshnessInv
       /\ LoadInv /\ CacheIsKept

FetchType == [user : Users, keys : Options, generation : 0..MaxSequence,
              backoff : 0..MaxSequence, phase : {"sent", "storing", "stored", "failed"}]
BackoffType == [user : Users, keys : Options, generation : 0..MaxSequence,
                attempt : 0..(MaxAttempts - 1), timer : BOOLEAN]
WriteType == [values : [Keys -> Variants], by : 0..MaxSequence]

\* TypeOK, in the words of the proofs.
LEMMA Types ==
  ASSUME TypeOK
  PROVE  /\ user \in Users /\ isRunning \in BOOLEAN
         /\ fetchSequenceNumber \in 0..MaxSequence /\ fetchGeneration \in 0..MaxSequence
         /\ storedFetchSequenceNumber \in 0..MaxSequence
         /\ storedFullFetchSequenceNumber \in 0..MaxSequence
         /\ lastFetchMetadataSequenceNumber \in 0..MaxSequence
         /\ storedKeySequenceNumbers \in [Keys -> 0..MaxSequence]
         /\ pendingStore \in Seq(WriteType)
         /\ DOMAIN fetches \subseteq Numbers /\ \A n \in DOMAIN fetches : fetches[n] \in FetchType
         /\ DOMAIN retryBackoffs \subseteq Numbers
         /\ \A b \in DOMAIN retryBackoffs : retryBackoffs[b] \in BackoffType
         /\ newest \in [Keys -> [number : 0..MaxSequence, present : BOOLEAN]]
         /\ settled \in [number : 0..MaxSequence, failed : BOOLEAN]
         /\ cleared \in -1..MaxSequence /\ MaxSequence \in Nat
BY ExperimentFetchAssumption DEF TypeOK, FetchType, BackoffType, WriteType

-----------------------------------------------------------------------------
(* Invalidation and the public calls.                                        *)

\* A step that changes none of the variables the invariant speaks of.
LEMMA StutterStep ==
  ASSUME Inv, isRunning' \in BOOLEAN,
         UNCHANGED <<user, fetchGeneration, fetchSequenceNumber, stored, metadata, cache,
                     requests, toLoad, storage, newest, settled, cleared>>
  PROVE  Inv'
<1>1. /\ user' = user /\ fetchGeneration' = fetchGeneration
      /\ fetchSequenceNumber' = fetchSequenceNumber
      /\ storedFetchSequenceNumber' = storedFetchSequenceNumber
      /\ storedFullFetchSequenceNumber' = storedFullFetchSequenceNumber
      /\ storedKeySequenceNumbers' = storedKeySequenceNumbers
      /\ lastFetchMetadataSequenceNumber' = lastFetchMetadataSequenceNumber
      /\ lastFetchFailed' = lastFetchFailed /\ variants' = variants
      /\ pendingStore' = pendingStore /\ toLoad' = toLoad /\ disk' = disk /\ putFailed' = putFailed
      /\ newest' = newest /\ settled' = settled /\ cleared' = cleared
      /\ inFlightFetches' = inFlightFetches /\ retryBackoffs' = retryBackoffs /\ fetches' = fetches
  BY DEF stored, metadata, cache, storage, requests
<1>2. TypeOK' /\ NumberInv' /\ GenerationInv' /\ RetriesAreCurrent' /\ JoinInv'
  BY <1>1 DEF Inv, TypeOK, NumberInv, GenerationInv, RetriesAreCurrent, JoinInv, IsNow
<1>3. NoDuplicateRequests' /\ WriteInv' /\ AnswerInv' /\ FreshnessInv' /\ LoadInv' /\ CacheIsKept'
  BY <1>1 DEF Inv, NoDuplicateRequests, WriteInv, AnswerInv, NewestIsShown, FreshnessInv, IsPending,
              IsNow, LoadInv, CacheIsKept, ClearIsFinal, DiskFollowsCache
<1> QED BY <1>2, <1>3 DEF Inv

\* Nothing that was requested before is of the new generation; a request that is
\* sent at once is.
LEMMA CoversKeeps ==
  ASSUME Inv, NEW n \in 1..MaxSequence, n = fetchSequenceNumber + 1, Covers(n),
         \A m \in DOMAIN fetches' :
            \/ m \in DOMAIN fetches /\ fetches'[m] = fetches[m]
            \/ /\ m \in Nat /\ m > n /\ fetches'[m].generation = fetchGeneration'
               /\ fetches'[m].user = user' /\ fetches'[m].phase = "sent",
         UNCHANGED metadata
  PROVE  /\ GenerationInv' /\ AnswerInv' /\ FreshnessInv'
         /\ fetchGeneration' <= n /\ fetchGeneration' = fetchGeneration + 1
         /\ \A m \in DOMAIN fetches : m < n /\ fetches[m].generation < fetchGeneration'
         /\ storedFetchSequenceNumber' = n /\ storedFullFetchSequenceNumber' = n
         /\ lastFetchMetadataSequenceNumber' = settled'.number
         /\ lastFetchFailed' = settled'.failed
         /\ settled'.number <= fetchSequenceNumber
         /\ settled' \in [number : 0..MaxSequence, failed : BOOLEAN]
         /\ \A k \in Keys : newest'[k] = [number |-> 0, present |-> FALSE]
         /\ newest' \in [Keys -> [number : 0..MaxSequence, present : BOOLEAN]]
         /\ storedKeySequenceNumbers' = [k \in Keys |-> 0]
<1> USE DEF Inv
<1>1. /\ fetchGeneration' = fetchGeneration + 1
      /\ storedFetchSequenceNumber' = n /\ storedFullFetchSequenceNumber' = n
      /\ storedKeySequenceNumbers' = [k \in Keys |-> 0]
      /\ newest' = [k \in Keys |-> [number |-> 0, present |-> FALSE]]
      /\ settled' = [number |-> lastFetchMetadataSequenceNumber, failed |-> lastFetchFailed]
      /\ lastFetchMetadataSequenceNumber' = lastFetchMetadataSequenceNumber
      /\ lastFetchFailed' = lastFetchFailed
  BY DEF Covers, NoAnswer, metadata
<1>2. \A m \in DOMAIN fetches : /\ m \in Nat /\ m >= 1 /\ m < n
                                /\ fetches[m].generation \in Nat
                                /\ fetches[m].generation <= fetchGeneration
  BY Types DEF NumberInv, GenerationInv, FetchType, Numbers
<1>3. \A m \in DOMAIN fetches : fetches[m].generation < fetchGeneration'
  BY SMTT(60), <1>1, <1>2, Types
<1>4. /\ lastFetchMetadataSequenceNumber <= fetchSequenceNumber /\ fetchGeneration' <= n
      /\ lastFetchMetadataSequenceNumber < n
  BY <1>1, Types DEF NumberInv
<1>5. lastFetchFailed \in BOOLEAN
  BY DEF TypeOK
<1>6. GenerationInv'
  <2> SUFFICES ASSUME NEW m \in DOMAIN fetches'
               PROVE  /\ fetches'[m].generation <= fetchGeneration'
                      /\ ~IsNow(m)' => m < n
                      /\ IsNow(m)' => fetches'[m].user = user' /\ fetches'[m].phase = "sent"
    BY <1>1 DEF GenerationInv
  <2>1. CASE m \in DOMAIN fetches /\ fetches'[m] = fetches[m]
    BY SMTT(60), <1>1, <1>2, <1>3, <2>1, Types DEF IsNow
  <2>2. CASE fetches'[m].generation = fetchGeneration' /\ fetches'[m].user = user' /\ fetches'[m].phase = "sent"
    BY <1>1, <2>2, Types DEF IsNow
  <2> QED BY <2>1, <2>2
<1>7. \A m \in DOMAIN fetches' : m # 0 /\ (IsNow(m)' => m > n)
  BY <1>1, <1>2, <1>3, Types DEF IsNow
<1>8. AnswerInv'
  BY <1>1, <1>7 DEF AnswerInv, NewestIsShown
<1>9. lastFetchMetadataSequenceNumber \notin DOMAIN fetches'
  BY <1>4, Types DEF FreshnessInv
<1>10. FreshnessInv'
  BY <1>1, <1>7, <1>9 DEF FreshnessInv
<1>11. /\ settled' \in [number : 0..MaxSequence, failed : BOOLEAN]
      /\ newest' \in [Keys -> [number : 0..MaxSequence, present : BOOLEAN]]
  BY <1>1, <1>5, Types
<1> QED BY <1>1, <1>2, <1>3, <1>4, <1>6, <1>8, <1>10, <1>11

LEMMA InvalidateStep ==
  ASSUME Inv, AwaitsCacheReady, MayCall, invalidateFetches, user' \in Users, isRunning' \in BOOLEAN,
         \/ UNCHANGED <<variants, pendingStore, cleared>>
         \/ variants' = NoVariants /\ Storing(NoVariants, 0) /\ cleared' = fetchSequenceNumber,
         UNCHANGED <<metadata, fetches, toLoad, storage>>
  PROVE  Inv'
<1> USE DEF Inv
<1> DEFINE n == fetchSequenceNumber + 1
<1>1. /\ fetchSequenceNumber' = n /\ Covers(n) /\ n \in 1..MaxSequence
      /\ inFlightFetches' = NoEntries /\ retryBackoffs' = NoEntries
      /\ fetches' = fetches /\ lastFetchMetadataSequenceNumber' = lastFetchMetadataSequenceNumber
      /\ lastFetchFailed' = lastFetchFailed /\ toLoad' = toLoad
      /\ disk' = disk /\ putFailed' = putFailed
  BY Types DEF invalidateFetches, metadata, storage
<1>2. toLoad = <<>>
  BY DEF MayCall
<1>3. /\ GenerationInv' /\ AnswerInv' /\ FreshnessInv'
      /\ fetchGeneration' <= n /\ fetchGeneration' = fetchGeneration + 1
      /\ \A m \in DOMAIN fetches : m < n /\ fetches[m].generation < fetchGeneration'
      /\ storedFetchSequenceNumber' = n /\ storedFullFetchSequenceNumber' = n
      /\ lastFetchMetadataSequenceNumber' = settled'.number
      /\ settled'.number <= fetchSequenceNumber
      /\ settled' \in [number : 0..MaxSequence, failed : BOOLEAN]
      /\ \A k \in Keys : newest'[k] = [number |-> 0, present |-> FALSE]
      /\ newest' \in [Keys -> [number : 0..MaxSequence, present : BOOLEAN]]
      /\ storedKeySequenceNumbers' = [k \in Keys |-> 0]
  BY <1>1, CoversKeeps, Types
<1> HIDE DEF n
<1>4. /\ pendingStore' \in Seq(WriteType)
      /\ variants' \in [Keys -> Variants] /\ cleared' \in -1..MaxSequence
      /\ cleared' <= fetchSequenceNumber
      /\ WriteInv' /\ CacheIsKept'
  <2>1. CASE UNCHANGED <<variants, pendingStore, cleared>>
    <3>1. cleared <= fetchSequenceNumber
      BY Types DEF NumberInv
    <3> QED BY <1>1, <2>1, <3>1, Types
          DEF WriteInv, CacheIsKept, ClearIsFinal, DiskFollowsCache, TypeOK
  <2>2. CASE variants' = NoVariants /\ Storing(NoVariants, 0) /\ cleared' = fetchSequenceNumber
    <3> DEFINE write == [values |-> NoVariants, by |-> 0]
    <3>1. NoVariants \in [Keys -> Variants] /\ write \in WriteType
      BY Types DEF NoVariants, Variants, WriteType
    <3>2. pendingStore' = Append(pendingStore, write) /\ pendingStore \in Seq(WriteType)
      BY <2>2, Types DEF Storing
    <3>3. /\ pendingStore' \in Seq(WriteType) /\ Len(pendingStore) \in Nat
          /\ Len(pendingStore') = Len(pendingStore) + 1 /\ pendingStore' # <<>>
          /\ \A i \in 1..Len(pendingStore) : pendingStore'[i] = pendingStore[i]
          /\ pendingStore'[Len(pendingStore) + 1] = write
      BY <3>1, <3>2, AppendProperties, LenProperties, EmptySeq
    <3>4. WriteInv'
      <4>1. \A i \in 1..Len(pendingStore') :
              i \in 1..Len(pendingStore) \/ pendingStore'[i].by = 0
        BY <3>3
      <4> QED BY <1>1, <3>3, <4>1 DEF WriteInv
    <3>5. CacheIsKept'
      BY <2>2, <3>3 DEF CacheIsKept, ClearIsFinal, DiskFollowsCache, NoVariants
    <3> QED BY <1>1, <2>2, <3>1, <3>3, <3>4, <3>5, Types
  <2> QED BY <2>1, <2>2
<1>5. TypeOK'
  <2>1. /\ fetchSequenceNumber' \in 0..MaxSequence /\ fetchGeneration' \in 0..MaxSequence
        /\ storedFetchSequenceNumber' \in 0..MaxSequence
        /\ storedFullFetchSequenceNumber' \in 0..MaxSequence
        /\ storedKeySequenceNumbers' \in [Keys -> 0..MaxSequence]
    BY <1>1, <1>3, Types
  <2> QED BY <1>1, <1>3, <1>4, <2>1 DEF TypeOK, NoEntries, WriteType
<1>6. NumberInv'
  <2>1. fetchSequenceNumber \in Nat /\ n = fetchSequenceNumber + 1
    BY Types DEF n
  <2>2. /\ \A k \in Keys : newest'[k].number = 0
        /\ cleared' \in Int /\ settled'.number \in Nat
        /\ \A m \in DOMAIN fetches' : m \in Int /\ m < n
    BY <1>1, <1>3, <1>4, Types DEF Numbers
  <2> QED BY <1>1, <1>3, <1>4, <2>1, <2>2 DEF NumberInv
<1>7. RetriesAreCurrent' /\ JoinInv' /\ LoadInv'
  <2>1. \A m \in DOMAIN fetches' : fetches'[m].generation # fetchGeneration'
    BY <1>1, <1>3, Types DEF FetchType
  <2>2. DOMAIN inFlightFetches' = {} /\ DOMAIN retryBackoffs' = {}
    BY <1>1 DEF NoEntries
  <2>3. RetriesAreCurrent' /\ LoadInv'
    BY <1>1, <1>2, <2>2 DEF RetriesAreCurrent, LoadInv
  <2>4. JoinInv'
    BY <2>1, <2>2 DEF JoinInv, IsNow
  <2> QED BY <2>3, <2>4
<1>8. NoDuplicateRequests'
  BY <1>1 DEF NoDuplicateRequests, NoEntries
<1> QED BY <1>3, <1>4, <1>5, <1>6, <1>7, <1>8

\* A request of this generation is sent; by a call, or by a Backoff.
LEMMA SendStep ==
  ASSUME Inv, toLoad = <<>>, NEW n \in 1..MaxSequence, n = fetchSequenceNumber + 1,
         NEW b \in 0..MaxSequence, NEW keys \in Options,
         fetchSequenceNumber' = n, isRunning' \in BOOLEAN,
         fetches' = With(fetches, n, Request(user, keys, fetchGeneration, b)),
         \/ /\ b = 0 /\ <<user, keys>> \notin DOMAIN inFlightFetches
            /\ inFlightFetches' = With(inFlightFetches, <<user, keys>>, n)
            /\ retryBackoffs' = NoEntries
         \/ /\ b # 0 /\ inFlightFetches' = inFlightFetches
            /\ retryBackoffs' = [retryBackoffs EXCEPT ![b].timer = FALSE],
         UNCHANGED <<user, fetchGeneration, stored, metadata, cache, toLoad, storage, newest,
                     settled, cleared>>
  PROVE  Inv'
<1> USE DEF Inv
<1> DEFINE request == [user |-> user, keys |-> keys, generation |-> fetchGeneration,
                       backoff |-> b, phase |-> "sent"]
<1>1. /\ user' = user /\ fetchGeneration' = fetchGeneration
      /\ storedFetchSequenceNumber' = storedFetchSequenceNumber
      /\ storedFullFetchSequenceNumber' = storedFullFetchSequenceNumber
      /\ storedKeySequenceNumbers' = storedKeySequenceNumbers
      /\ lastFetchMetadataSequenceNumber' = lastFetchMetadataSequenceNumber
      /\ lastFetchFailed' = lastFetchFailed /\ variants' = variants
      /\ pendingStore' = pendingStore /\ toLoad' = toLoad /\ disk' = disk /\ putFailed' = putFailed
      /\ newest' = newest /\ settled' = settled /\ cleared' = cleared
  BY DEF stored, metadata, cache, storage
<1>2. /\ DOMAIN fetches' = DOMAIN fetches \cup {n} /\ fetches'[n] = request
      /\ n \notin DOMAIN fetches
      /\ \A m \in DOMAIN fetches : m # n /\ m < n /\ fetches'[m] = fetches[m]
      /\ fetchSequenceNumber \in Nat
  <2>1. \A m \in DOMAIN fetches : m < n
    BY Types DEF NumberInv, Numbers
  <2>2. n \notin DOMAIN fetches
    BY <2>1
  <2>3. /\ DOMAIN fetches' = DOMAIN fetches \cup {n} /\ fetches'[n] = request
        /\ \A m \in DOMAIN fetches : m # n => fetches'[m] = fetches[m]
    BY DEF With, Request
  <2> QED BY <2>1, <2>2, <2>3, Types
<1>3. /\ request \in FetchType /\ request.user = user /\ request.generation = fetchGeneration
      /\ request.backoff = b /\ request.phase = "sent" /\ request.keys = keys
  BY Types DEF FetchType
<1> HIDE DEF request
<1>4. TypeOK'
  <2>1. DOMAIN fetches' \subseteq Numbers /\ \A m \in DOMAIN fetches' : fetches'[m] \in FetchType
    BY <1>2, <1>3, Types DEF Numbers
  <2>2. /\ DOMAIN inFlightFetches' \subseteq Users \X Options
        /\ \A call \in DOMAIN inFlightFetches' : inFlightFetches'[call] \in Numbers
    <3>1. /\ DOMAIN inFlightFetches \subseteq Users \X Options
          /\ \A call \in DOMAIN inFlightFetches : inFlightFetches[call] \in Numbers
          /\ <<user, keys>> \in Users \X Options /\ n \in Numbers
      BY Types DEF TypeOK, Numbers
    <3>2. CASE inFlightFetches' = With(inFlightFetches, <<user, keys>>, n)
      BY <3>1, <3>2 DEF With
    <3>3. CASE inFlightFetches' = inFlightFetches
      BY <3>1, <3>3
    <3> QED BY <3>2, <3>3
  <2>3. /\ DOMAIN retryBackoffs' \subseteq Numbers
        /\ \A c \in DOMAIN retryBackoffs' : retryBackoffs'[c] \in BackoffType
    <3>1. CASE retryBackoffs' = NoEntries
      BY <3>1 DEF NoEntries
    <3>2. CASE retryBackoffs' = [retryBackoffs EXCEPT ![b].timer = FALSE]
      BY ZenonT(120), <3>2, Types DEF BackoffType
    <3> QED BY <3>1, <3>2
  <2>4. fetchSequenceNumber' \in 0..MaxSequence
    OBVIOUS
  <2> QED BY SMTT(60), <1>1, <2>1, <2>2, <2>3, <2>4 DEF TypeOK, FetchType, BackoffType
<1>5. NumberInv'
  <2>1. \A m \in DOMAIN fetches' : m <= n
    BY <1>2
  <2>2. \A k \in Keys : newest'[k].number <= n
    BY SMTT(60), <1>1, <1>2, Types DEF NumberInv
  <2> QED BY <1>1, <1>2, <2>1, <2>2, Types DEF NumberInv
<1>6. GenerationInv'
  <2> SUFFICES ASSUME NEW m \in DOMAIN fetches'
               PROVE  /\ fetches'[m].generation <= fetchGeneration
                      /\ ~IsNow(m)' => m < storedFullFetchSequenceNumber
                      /\ IsNow(m)' => fetches'[m].user = user
                      /\ IsNow(m)' /\ fetches'[m].phase # "sent" => m <= storedFetchSequenceNumber
    BY <1>1 DEF GenerationInv
  <2>1. CASE m = n
    BY <1>1, <1>2, <1>3, <2>1, Types DEF IsNow
  <2>2. CASE m # n
    BY <1>1, <1>2, <2>2 DEF GenerationInv, IsNow
  <2> QED BY <2>1, <2>2
<1>7. RetriesAreCurrent'
  <2>1. CASE retryBackoffs' = NoEntries
    BY <2>1 DEF RetriesAreCurrent, NoEntries
  <2>2. CASE retryBackoffs' = [retryBackoffs EXCEPT ![b].timer = FALSE]
    <3>1. \A c \in DOMAIN retryBackoffs' :
            /\ c \in DOMAIN retryBackoffs
            /\ retryBackoffs'[c].generation = retryBackoffs[c].generation
            /\ retryBackoffs'[c].user = retryBackoffs[c].user
      BY <2>2, Types DEF BackoffType
    <3> QED BY <1>1, <3>1 DEF RetriesAreCurrent
  <2> QED BY <2>1, <2>2
<1>8. JoinInv'
  <2>1. CASE b = 0
    <3>1. /\ inFlightFetches' = With(inFlightFetches, <<user, keys>>, n)
          /\ <<user, keys>> \notin DOMAIN inFlightFetches
      BY <2>1
    <3>2. /\ DOMAIN inFlightFetches' = DOMAIN inFlightFetches \cup {<<user, keys>>}
          /\ inFlightFetches'[<<user, keys>>] = n
          /\ \A call \in DOMAIN inFlightFetches : inFlightFetches'[call] = inFlightFetches[call]
      BY <3>1 DEF With
    <3> QED BY <1>1, <1>2, <1>3, <3>2 DEF JoinInv, IsNow
  <2>2. CASE b # 0
    BY <1>1, <1>2, <1>3, <2>2 DEF JoinInv, IsNow
  <2> QED BY <2>1, <2>2
<1>9. NoDuplicateRequests'
  <2>1. ASSUME NEW m \in DOMAIN fetches, b = 0, fetches[m].backoff = 0,
               fetches[m].generation = fetchGeneration
        PROVE  fetches[m].keys # keys
    <3>1. fetches[m].user = user
      BY <2>1 DEF GenerationInv, IsNow
    <3> QED BY <2>1, <3>1 DEF JoinInv, IsNow
  <2>2. ASSUME NEW m \in DOMAIN fetches', NEW o \in DOMAIN fetches',
               fetches'[m].backoff = 0, fetches'[o].backoff = 0,
               fetches'[m].generation = fetches'[o].generation,
               fetches'[m].keys = fetches'[o].keys
        PROVE  m = o
    <3>1. CASE m # n /\ o # n
      BY <1>2, <2>2, <3>1 DEF NoDuplicateRequests
    <3>2. CASE m = n /\ o # n
      BY <1>2, <1>3, <2>1, <2>2, <3>2
    <3>3. CASE m # n /\ o = n
      BY <1>2, <1>3, <2>1, <2>2, <3>3
    <3> QED BY <3>1, <3>2, <3>3
  <2>3. \A call \in DOMAIN inFlightFetches' :
          /\ inFlightFetches'[call] \in DOMAIN fetches'
          /\ fetches'[inFlightFetches'[call]].generation = fetchGeneration'
    BY <1>8 DEF JoinInv, IsNow
  <2> QED BY <2>2, <2>3 DEF NoDuplicateRequests
<1>10. WriteInv'
  BY <1>1, <1>2 DEF WriteInv
<1>11. AnswerInv'
  <2>1. \A k \in Keys : newest[k].number \in Nat /\ newest[k].number < n
    BY SMTT(60), Types DEF NumberInv
  <2>2. storedFullFetchSequenceNumber < n
    BY Types DEF NumberInv
  <2>3. \/ \A m \in DOMAIN fetches' : IsNow(m)' => m > storedFullFetchSequenceNumber
        \/ \A k \in Keys : newest[k].number >= storedFullFetchSequenceNumber
    BY <1>1, <1>2, <1>3, <2>2, Types DEF AnswerInv, IsNow
  <2>4. \A k \in Keys : \A m \in DOMAIN fetches' :
          fetches'[m].phase = "sent" => newest[k].number # m
    BY <1>2, <1>3, <2>1 DEF AnswerInv
  <2> QED BY <1>1, <2>3, <2>4 DEF AnswerInv, NewestIsShown
<1>12. FreshnessInv'
  <2>1. settled.number # n /\ lastFetchMetadataSequenceNumber # n
    BY Types DEF NumberInv
  <2>2. storedFetchSequenceNumber < n
    BY Types DEF NumberInv
  <2>3. IsPending => IsPending'
    BY <1>1, <1>2 DEF IsPending, IsNow
  <2>4. (\A m \in DOMAIN fetches : IsNow(m) => m > storedFetchSequenceNumber)
        => \A m \in DOMAIN fetches' : IsNow(m)' => m > storedFetchSequenceNumber
    BY <1>1, <1>2, <1>3, <2>2, Types DEF IsNow
  <2> QED BY <1>1, <1>2, <2>1, <2>3, <2>4 DEF FreshnessInv
<1>13. LoadInv'
  BY <1>1 DEF LoadInv
<1>14. CacheIsKept'
  BY <1>1 DEF CacheIsKept, ClearIsFinal, DiskFollowsCache
<1> QED BY <1>4, <1>5, <1>6, <1>7, <1>8, <1>9, <1>10, <1>11, <1>12, <1>13, <1>14

\* The user changes and a request is sent for the new one.
LEMMA ChangeStep ==
  ASSUME Inv, toLoad = <<>>, NEW u \in Users, NEW keys \in Options,
         NEW n \in 1..MaxSequence, n = fetchSequenceNumber + 2,
         user' = u, isRunning' \in BOOLEAN, Covers(n - 1), fetchSequenceNumber' = n,
         inFlightFetches' = With(NoEntries, <<u, keys>>, n), retryBackoffs' = NoEntries,
         fetches' = With(fetches, n, Request(u, keys, fetchGeneration', 0)),
         UNCHANGED <<metadata, cache, toLoad, storage, cleared>>
  PROVE  Inv'
<1> USE DEF Inv
<1> DEFINE request == [user |-> u, keys |-> keys, generation |-> fetchGeneration',
                       backoff |-> 0, phase |-> "sent"]
<1>1. /\ lastFetchMetadataSequenceNumber' = lastFetchMetadataSequenceNumber
      /\ lastFetchFailed' = lastFetchFailed /\ variants' = variants
      /\ pendingStore' = pendingStore /\ toLoad' = toLoad /\ disk' = disk /\ putFailed' = putFailed
      /\ cleared' = cleared
  BY DEF metadata, cache, storage
<1>2. /\ DOMAIN fetches' = DOMAIN fetches \cup {n} /\ fetches'[n] = request
      /\ n \notin DOMAIN fetches
      /\ \A m \in DOMAIN fetches : m # n /\ m < n /\ fetches'[m] = fetches[m]
      /\ fetchSequenceNumber \in Nat /\ n - 1 \in 1..MaxSequence /\ n - 1 = fetchSequenceNumber + 1
  <2>1. \A m \in DOMAIN fetches : m < n
    BY SMTT(60), Types DEF NumberInv, Numbers
  <2>2. n \notin DOMAIN fetches
    BY <2>1
  <2>3. /\ DOMAIN fetches' = DOMAIN fetches \cup {n} /\ fetches'[n] = request
        /\ \A m \in DOMAIN fetches : m # n => fetches'[m] = fetches[m]
    BY DEF With, Request
  <2> QED BY SMTT(60), <2>1, <2>2, <2>3, Types
<1>3. /\ request.user = u /\ request.generation = fetchGeneration'
      /\ request.backoff = 0 /\ request.phase = "sent" /\ request.keys = keys
  OBVIOUS
<1>4. /\ GenerationInv' /\ AnswerInv' /\ FreshnessInv'
      /\ fetchGeneration' <= n - 1 /\ fetchGeneration' = fetchGeneration + 1
      /\ \A m \in DOMAIN fetches : m < n - 1 /\ fetches[m].generation < fetchGeneration'
      /\ storedFetchSequenceNumber' = n - 1 /\ storedFullFetchSequenceNumber' = n - 1
      /\ lastFetchMetadataSequenceNumber' = settled'.number
      /\ settled'.number <= fetchSequenceNumber
      /\ settled' \in [number : 0..MaxSequence, failed : BOOLEAN]
      /\ \A k \in Keys : newest'[k] = [number |-> 0, present |-> FALSE]
      /\ newest' \in [Keys -> [number : 0..MaxSequence, present : BOOLEAN]]
      /\ storedKeySequenceNumbers' = [k \in Keys |-> 0]
  <2>1. \A m \in DOMAIN fetches' :
            \/ m \in DOMAIN fetches /\ fetches'[m] = fetches[m]
            \/ /\ m \in Nat /\ m > n - 1 /\ fetches'[m].generation = fetchGeneration'
               /\ fetches'[m].user = user' /\ fetches'[m].phase = "sent"
    BY <1>2, <1>3
  <2> HIDE DEF request
  <2> QED BY <1>2, <2>1, CoversKeeps
<1>5. /\ fetchGeneration' \in 0..MaxSequence /\ fetchSequenceNumber' \in 0..MaxSequence
       /\ n \in 1..MaxSequence /\ n - 1 \in 0..MaxSequence
  BY <1>2, <1>4, Types
<1>6. request \in FetchType
  <2>1. {"sent"} \subseteq {"sent", "storing", "stored", "failed"} /\ 0 \in 0..MaxSequence
    BY ExperimentFetchAssumption
  <2> QED BY <1>5, <2>1 DEF FetchType
<1> HIDE DEF request
<1>7. /\ DOMAIN inFlightFetches' = {<<u, keys>>} /\ inFlightFetches'[<<u, keys>>] = n
      /\ DOMAIN retryBackoffs' = {}
  BY DEF With, NoEntries
<1>8. TypeOK'
  <2>1. DOMAIN fetches' \subseteq Numbers /\ \A m \in DOMAIN fetches' : fetches'[m] \in FetchType
    BY <1>2, <1>6, Types DEF Numbers
  <2>2. /\ fetchSequenceNumber' \in 0..MaxSequence /\ fetchGeneration' \in 0..MaxSequence
        /\ storedFetchSequenceNumber' \in 0..MaxSequence
        /\ storedFullFetchSequenceNumber' \in 0..MaxSequence
        /\ storedKeySequenceNumbers' \in [Keys -> 0..MaxSequence]
    <3>1. 0 \in 0..MaxSequence
      BY ExperimentFetchAssumption
    <3> QED BY <1>4, <1>5, <3>1
  <2>3. /\ DOMAIN inFlightFetches' \subseteq Users \X Options
        /\ \A call \in DOMAIN inFlightFetches' : inFlightFetches'[call] \in Numbers
    BY <1>7 DEF Numbers
  <2> QED BY <1>1, <1>4, <1>7, <2>1, <2>2, <2>3 DEF TypeOK, FetchType
<1>9. NumberInv'
  <2>1. \A k \in Keys : newest'[k].number = 0
    BY <1>4
  <2>2. \A m \in DOMAIN fetches' : m <= n
    BY <1>2, <1>5
  <2>3. cleared <= fetchSequenceNumber /\ cleared < n - 1
    BY <1>2, Types DEF NumberInv
  <2>4. settled'.number <= n /\ fetchGeneration' <= n /\ n - 1 <= n /\ 0 <= n
    BY SMTT(60), <1>2, <1>4, <1>5, Types
  <2> HIDE DEF Inv
  <2> QED BY <1>1, <1>4, <2>1, <2>2, <2>3, <2>4 DEF NumberInv
<1>10. RetriesAreCurrent' /\ LoadInv'
  BY <1>1, <1>7 DEF RetriesAreCurrent, LoadInv
<1>11. \A m \in DOMAIN fetches' : fetches'[m].generation = fetchGeneration' => m = n
  <2>1. \A m \in DOMAIN fetches : /\ fetches'[m].generation < fetchGeneration'
                                    /\ fetches'[m].generation \in Nat
    BY SMTT(60), <1>2, <1>4, Types DEF FetchType
  <2>2. fetchGeneration' \in Nat
    BY <1>5
  <2> QED BY <1>2, <2>1, <2>2
<1>12. JoinInv'
  BY <1>2, <1>3, <1>7, <1>11 DEF JoinInv, IsNow
<1>13. NoDuplicateRequests'
  <2>1. ASSUME NEW m \in DOMAIN fetches', NEW o \in DOMAIN fetches',
               fetches'[m].backoff = 0, fetches'[o].backoff = 0,
               fetches'[m].generation = fetches'[o].generation,
               fetches'[m].keys = fetches'[o].keys
        PROVE  m = o
    <3>1. CASE m # n /\ o # n
      BY <1>2, <2>1, <3>1 DEF NoDuplicateRequests
    <3>2. CASE m = n \/ o = n
      BY <1>2, <1>3, <1>11, <2>1, <3>2
    <3> QED BY <3>1, <3>2
  <2>2. \A call \in DOMAIN inFlightFetches' :
          /\ inFlightFetches'[call] \in DOMAIN fetches'
          /\ fetches'[inFlightFetches'[call]].generation = fetchGeneration'
    BY <1>12 DEF JoinInv, IsNow
  <2> QED BY <2>1, <2>2 DEF NoDuplicateRequests
<1>14. WriteInv'
  BY <1>1, <1>2 DEF WriteInv
<1>15. CacheIsKept'
  BY <1>1 DEF CacheIsKept, ClearIsFinal, DiskFollowsCache
<1> QED BY <1>4, <1>8, <1>9, <1>10, <1>12, <1>13, <1>14, <1>15

\* fetch() and start(): a request in flight is joined, or one is sent.
LEMMA FetchStep ==
  ASSUME Inv, toLoad = <<>>, NEW u \in Users, NEW keys \in Options, FetchNow(u, keys),
         isRunning' \in BOOLEAN
  PROVE  Inv'
<1> USE DEF Inv
<1> DEFINE next == fetchSequenceNumber + (IF u # user THEN 2 ELSE 1)
<1>1. CASE UNCHANGED <<fetchSequenceNumber, requests>> /\ u = user
  <2>1. UNCHANGED <<user, fetchGeneration, fetchSequenceNumber, stored, metadata, cache, requests,
                    toLoad, storage, newest, settled, cleared>>
    BY <1>1 DEF FetchNow
  <2> QED BY <2>1, StutterStep
<1>2. CASE /\ next <= MaxSequence /\ fetchSequenceNumber' = next /\ u = user
           /\ <<u, keys>> \notin DOMAIN inFlightFetches
           /\ inFlightFetches' = With(inFlightFetches, <<u, keys>>, next)
           /\ retryBackoffs' = NoEntries
           /\ fetches' = With(fetches, next, Request(u, keys, fetchGeneration', 0))
  <2>1. UNCHANGED <<user, fetchGeneration, stored, metadata, cache, toLoad, storage, newest,
                    settled, cleared>>
    BY <1>2 DEF FetchNow
  <2>2. next = fetchSequenceNumber + 1 /\ next \in 1..MaxSequence /\ 0 \in 0..MaxSequence
    BY <1>2, Types
  <2> HIDE DEF next
  <2> QED BY <1>2, <2>1, <2>2, SendStep
<1>3. CASE /\ next <= MaxSequence /\ fetchSequenceNumber' = next /\ u # user
           /\ inFlightFetches' = With(NoEntries, <<u, keys>>, next)
           /\ retryBackoffs' = NoEntries
           /\ fetches' = With(fetches, next, Request(u, keys, fetchGeneration', 0))
  <2>1. /\ user' = u /\ Covers(next - 1)
        /\ UNCHANGED <<metadata, cache, toLoad, storage, cleared>>
    BY <1>3 DEF FetchNow
  <2>2. next = fetchSequenceNumber + 2 /\ next \in 1..MaxSequence
    BY <1>3, Types
  <2> HIDE DEF next
  <2> QED BY <1>3, <2>1, <2>2, ChangeStep
<1> QED BY <1>1, <1>2, <1>3 DEF FetchNow

\* load() ends before anything has been stored.
LEMMA LoadStep ==
  ASSUME Inv, LoadCompletes
  PROVE  Inv'
<1> USE DEF Inv
<1>1. /\ user' = user /\ isRunning' = isRunning /\ fetchGeneration' = fetchGeneration
      /\ fetchSequenceNumber' = fetchSequenceNumber
      /\ storedFetchSequenceNumber' = storedFetchSequenceNumber
      /\ storedFullFetchSequenceNumber' = storedFullFetchSequenceNumber
      /\ storedKeySequenceNumbers' = storedKeySequenceNumbers
      /\ lastFetchMetadataSequenceNumber' = lastFetchMetadataSequenceNumber
      /\ lastFetchFailed' = lastFetchFailed
      /\ pendingStore' = pendingStore /\ disk' = disk /\ putFailed' = putFailed
      /\ newest' = newest /\ settled' = settled /\ cleared' = cleared
      /\ inFlightFetches' = inFlightFetches /\ retryBackoffs' = retryBackoffs /\ fetches' = fetches
  BY DEF LoadCompletes, identity, stored, metadata, storage, requests
<1>2. /\ \A k \in Keys : disk[k] \in {0, Absent}
      /\ toLoad = <<disk>> /\ pendingStore = <<>> /\ cleared = -1 /\ newest = NoAnswer
      /\ variants' = disk /\ toLoad' = <<>> /\ disk \in [Keys -> Variants]
  BY DEF LoadCompletes, LoadInv, TypeOK
<1>3. TypeOK' /\ NumberInv' /\ GenerationInv' /\ RetriesAreCurrent' /\ JoinInv'
  BY <1>1, <1>2 DEF TypeOK, NumberInv, GenerationInv, RetriesAreCurrent, JoinInv, IsNow
<1>4. NoDuplicateRequests' /\ WriteInv' /\ FreshnessInv' /\ LoadInv'
  BY <1>1, <1>2 DEF NoDuplicateRequests, WriteInv, FreshnessInv, IsPending, IsNow, LoadInv
<1>5. AnswerInv'
  <2>1. NewestIsShown'
    BY <1>1, <1>2 DEF NewestIsShown, NoAnswer
  <2> QED BY <1>1, <2>1 DEF AnswerInv, IsNow
<1>6. CacheIsKept'
  BY <1>1, <1>2 DEF CacheIsKept, ClearIsFinal, DiskFollowsCache
<1> QED BY <1>3, <1>4, <1>5, <1>6

\* The public calls of an application that awaits cacheReady().
LEMMA CallStep ==
  ASSUME Inv, AwaitsCacheReady,
         \/ \E u \in Users : setUser(u) \/ \E keys \in Options : fetch(u, keys)
         \/ start \/ stop \/ clear
  PROVE  Inv'
<1> USE DEF Inv
<1>1. toLoad = <<>>
  BY DEF setUser, fetch, start, stop, clear, MayCall
<1>2. user \in Users /\ isRunning \in BOOLEAN
  BY Types
<1>3. ASSUME NEW u \in Users, setUser(u)
      PROVE  Inv'
  <2>1. /\ MayCall /\ invalidateFetches /\ user' = u /\ isRunning' = isRunning
        /\ UNCHANGED <<variants, pendingStore, cleared>>
        /\ UNCHANGED <<metadata, fetches, toLoad, storage>>
    BY <1>3 DEF setUser, cache
  <2> QED BY <1>2, <2>1, InvalidateStep
<1>4. ASSUME NEW u \in Users, NEW keys \in Options, fetch(u, keys)
      PROVE  Inv'
  <2>1. FetchNow(u, keys) /\ isRunning' = isRunning
    BY <1>4 DEF fetch
  <2> QED BY <1>1, <1>2, <2>1, FetchStep
<1>5. CASE start
  <2>1. isRunning' \in BOOLEAN
    BY <1>5 DEF start
  <2>2. ASSUME NEW u \in Users, FetchNow(u, Everything)
        PROVE  Inv'
    <3>1. Everything \in Options
      BY DEF Everything, Options
    <3> QED BY <1>1, <2>1, <2>2, <3>1, FetchStep
  <2>3. CASE UNCHANGED <<user, fetchGeneration, fetchSequenceNumber, stored, metadata, cache,
                         requests, toLoad, storage, newest, settled, cleared>>
    BY <2>1, <2>3, StutterStep
  <2> QED BY <1>5, <2>2, <2>3 DEF start
<1>6. CASE stop /\ isRunning
  <2>1. /\ MayCall /\ invalidateFetches /\ user' = user /\ isRunning' \in BOOLEAN
        /\ UNCHANGED <<variants, pendingStore, cleared>>
        /\ UNCHANGED <<metadata, fetches, toLoad, storage>>
    BY <1>6 DEF stop, cache
  <2> QED BY <1>2, <2>1, InvalidateStep
<1>7. CASE stop /\ ~isRunning
  <2>1. /\ user' = user /\ fetchGeneration' = fetchGeneration /\ isRunning' \in BOOLEAN
        /\ fetchSequenceNumber' = fetchSequenceNumber
        /\ storedFetchSequenceNumber' = storedFetchSequenceNumber
        /\ storedFullFetchSequenceNumber' = storedFullFetchSequenceNumber
        /\ storedKeySequenceNumbers' = storedKeySequenceNumbers
        /\ lastFetchMetadataSequenceNumber' = lastFetchMetadataSequenceNumber
        /\ lastFetchFailed' = lastFetchFailed /\ variants' = variants
        /\ pendingStore' = pendingStore /\ toLoad' = toLoad /\ disk' = disk
        /\ putFailed' = putFailed
        /\ newest' = newest /\ settled' = settled /\ cleared' = cleared
        /\ inFlightFetches' = inFlightFetches /\ fetches' = fetches
        /\ retryBackoffs' = NoEntries /\ DOMAIN retryBackoffs' = {}
    BY <1>7 DEF stop, invalidateFetches, stored, metadata, cache, storage, NoEntries
  <2>2. TypeOK' /\ NumberInv' /\ GenerationInv' /\ RetriesAreCurrent' /\ JoinInv'
    BY <2>1 DEF TypeOK, NumberInv, GenerationInv, RetriesAreCurrent, JoinInv, IsNow
  <2>3. NoDuplicateRequests' /\ WriteInv' /\ AnswerInv' /\ FreshnessInv' /\ LoadInv' /\ CacheIsKept'
    BY <1>1, <2>1 DEF NoDuplicateRequests, WriteInv, AnswerInv, NewestIsShown, FreshnessInv,
                      IsPending, IsNow, LoadInv, CacheIsKept, ClearIsFinal, DiskFollowsCache
  <2> QED BY <2>2, <2>3
<1>8. CASE clear
  <2>1. /\ MayCall /\ invalidateFetches /\ user' = user /\ isRunning' = isRunning
        /\ variants' = NoVariants /\ Storing(NoVariants, 0) /\ cleared' = fetchSequenceNumber
        /\ UNCHANGED <<metadata, fetches, toLoad, storage>>
    BY <1>8 DEF clear
  <2> QED BY <1>2, <2>1, InvalidateStep
<1> QED BY <1>3, <1>4, <1>5, <1>6, <1>7, <1>8

\* The timer of a Backoff.
LEMMA RetryStep ==
  ASSUME Inv, NEW b \in DOMAIN retryBackoffs, Retry(b)
  PROVE  Inv'
<1> USE DEF Inv
<1> DEFINE n == fetchSequenceNumber + 1
           keys == retryBackoffs[b].keys
<1>1. /\ b \in 1..MaxSequence /\ b # 0 /\ b \in 0..MaxSequence
      /\ keys \in Options /\ n \in 1..MaxSequence
      /\ retryBackoffs[b].user = user /\ isRunning \in BOOLEAN
  BY Types DEF Retry, BackoffType, Numbers, RetriesAreCurrent
<1>2. toLoad = <<>>
  BY DEF LoadInv, NoEntries
<1>3. /\ fetchSequenceNumber' = n
      /\ fetches' = With(fetches, n, Request(user, keys, fetchGeneration, b))
      /\ retryBackoffs' = [retryBackoffs EXCEPT ![b].timer = FALSE]
      /\ inFlightFetches' = inFlightFetches /\ isRunning' = isRunning
      /\ UNCHANGED <<user, fetchGeneration, stored, metadata, cache, toLoad, storage, newest,
                     settled, cleared>>
  BY <1>1 DEF Retry, identity
<1>4. n = fetchSequenceNumber + 1
  OBVIOUS
<1> HIDE DEF n, keys
<1> QED BY <1>1, <1>2, <1>3, <1>4, SendStep

-----------------------------------------------------------------------------
(* The end of a fetch.                                                       *)

\* A fetch that ends takes its own entry with it and leaves the others alone.
LEMMA EndsKeep ==
  ASSUME Inv, NEW n \in DOMAIN fetches, Ends(n)
  PROVE  /\ DOMAIN fetches' = DOMAIN fetches \ {n}
         /\ \A m \in DOMAIN fetches' : m \in DOMAIN fetches /\ m # n /\ fetches'[m] = fetches[m]
         /\ DOMAIN inFlightFetches' \subseteq DOMAIN inFlightFetches
         /\ \A call \in DOMAIN inFlightFetches' :
              inFlightFetches'[call] = inFlightFetches[call] /\ inFlightFetches[call] # n
         /\ \A call \in DOMAIN inFlightFetches :
              inFlightFetches[call] # n => call \in DOMAIN inFlightFetches'
<1> USE DEF Inv
<1> DEFINE call == <<fetches[n].user, fetches[n].keys>>
<1>1. /\ DOMAIN fetches' = DOMAIN fetches \ {n}
      /\ \A m \in DOMAIN fetches' : m \in DOMAIN fetches /\ m # n /\ fetches'[m] = fetches[m]
  BY DEF Ends, Without
<1>2. \A c \in DOMAIN inFlightFetches :
        inFlightFetches[c] = n => c = call /\ fetches[n].backoff = 0
  BY DEF JoinInv
<1>3. CASE fetches[n].backoff = 0 /\ call \in DOMAIN inFlightFetches /\ inFlightFetches[call] = n
  <2>1. inFlightFetches' = Without(inFlightFetches, call)
    BY <1>3 DEF Ends, Forgotten
  <2>2. /\ DOMAIN inFlightFetches' = DOMAIN inFlightFetches \ {call}
        /\ \A c \in DOMAIN inFlightFetches' : inFlightFetches'[c] = inFlightFetches[c]
    BY <2>1 DEF Without
  <2> HIDE DEF call
  <2> QED BY <1>1, <1>2, <1>3, <2>2
<1>4. CASE ~(fetches[n].backoff = 0 /\ call \in DOMAIN inFlightFetches /\ inFlightFetches[call] = n)
  <2>1. inFlightFetches' = inFlightFetches
    BY <1>4 DEF Ends, Forgotten
  <2>2. \A c \in DOMAIN inFlightFetches : inFlightFetches[c] # n
    BY <1>2, <1>4
  <2> QED BY <1>1, <2>1, <2>2
<1> QED BY <1>3, <1>4

\* A fetch ends; what it settles keeps the freshness true.
LEMMA EndStep ==
  ASSUME Inv, NEW n \in DOMAIN fetches, Ends(n), fetches[n].phase # "storing",
         RetriesAreCurrent', DOMAIN retryBackoffs' \subseteq Numbers,
         \A b \in DOMAIN retryBackoffs' : retryBackoffs'[b] \in BackoffType,
         FreshnessInv', lastFetchMetadataSequenceNumber' \in 0..MaxSequence,
         lastFetchFailed' \in BOOLEAN, settled' \in [number : 0..MaxSequence, failed : BOOLEAN],
         lastFetchMetadataSequenceNumber' <= settled'.number,
         settled'.number <= fetchSequenceNumber,
         UNCHANGED <<identity, fetchSequenceNumber, stored, cache, toLoad, storage, newest, cleared>>
  PROVE  Inv'
<1> USE DEF Inv
<1>1. /\ user' = user /\ isRunning' = isRunning /\ fetchGeneration' = fetchGeneration
      /\ fetchSequenceNumber' = fetchSequenceNumber
      /\ storedFetchSequenceNumber' = storedFetchSequenceNumber
      /\ storedFullFetchSequenceNumber' = storedFullFetchSequenceNumber
      /\ storedKeySequenceNumbers' = storedKeySequenceNumbers
      /\ variants' = variants /\ pendingStore' = pendingStore /\ toLoad' = toLoad
      /\ disk' = disk /\ putFailed' = putFailed /\ newest' = newest /\ cleared' = cleared
  BY DEF identity, stored, cache, storage
<1>2. /\ DOMAIN fetches' = DOMAIN fetches \ {n}
      /\ \A m \in DOMAIN fetches' : m \in DOMAIN fetches /\ m # n /\ fetches'[m] = fetches[m]
      /\ DOMAIN inFlightFetches' \subseteq DOMAIN inFlightFetches
      /\ \A call \in DOMAIN inFlightFetches' :
           inFlightFetches'[call] = inFlightFetches[call] /\ inFlightFetches[call] # n
      /\ \A call \in DOMAIN inFlightFetches :
           inFlightFetches[call] # n => call \in DOMAIN inFlightFetches'
  BY EndsKeep
<1>3. TypeOK'
  BY SMTT(60), <1>1, <1>2 DEF TypeOK, BackoffType
<1>4. NumberInv' /\ GenerationInv'
  BY <1>1, <1>2 DEF NumberInv, GenerationInv, IsNow
<1>5. JoinInv'
  BY <1>1, <1>2 DEF JoinInv, IsNow
<1>6. NoDuplicateRequests'
  BY <1>1, <1>2, <1>5 DEF NoDuplicateRequests, JoinInv, IsNow
<1>7. WriteInv'
  BY <1>1, <1>2 DEF WriteInv
<1>8. AnswerInv'
  BY <1>1, <1>2 DEF AnswerInv, NewestIsShown, IsNow
<1>9. LoadInv'
  <2>1. toLoad = <<>>
    BY DEF LoadInv, NoEntries
  <2> QED BY <1>1, <2>1 DEF LoadInv
<1>10. CacheIsKept'
  BY <1>1 DEF CacheIsKept, ClearIsFinal, DiskFollowsCache
<1> QED BY <1>3, <1>4, <1>5, <1>6, <1>7, <1>8, <1>9, <1>10

\* What becomes of the Backoffs when a fetch returns.
LEMMA ReturnsKeep ==
  ASSUME Inv, NEW n \in DOMAIN fetches, Returns(n), UNCHANGED identity
  PROVE  /\ RetriesAreCurrent' /\ DOMAIN retryBackoffs' \subseteq Numbers
         /\ \A b \in DOMAIN retryBackoffs' : retryBackoffs'[b] \in BackoffType
<1> USE DEF Inv
<1>1. \A b \in DOMAIN retryBackoffs' :
        b \in DOMAIN retryBackoffs /\ retryBackoffs'[b] = retryBackoffs[b]
  BY DEF Returns, Without
<1> QED BY <1>1, Types DEF RetriesAreCurrent, identity

\* And when it throws.
LEMMA ThrowsKeep ==
  ASSUME Inv, NEW n \in DOMAIN fetches, NEW retriable, Throws(n, retriable), UNCHANGED identity
  PROVE  /\ RetriesAreCurrent' /\ DOMAIN retryBackoffs' \subseteq Numbers
         /\ \A b \in DOMAIN retryBackoffs' : retryBackoffs'[b] \in BackoffType
<1> USE DEF Inv
<1> DEFINE f == fetches[n]
           c == fetches[n].backoff
           new == [user |-> f.user, keys |-> f.keys, generation |-> f.generation,
                   attempt |-> 0, timer |-> TRUE]
<1>1. user' = user /\ fetchGeneration' = fetchGeneration /\ n \in Numbers /\ f \in FetchType
  BY Types DEF identity
<1>2. CASE MayRetry(n, retriable)
  <2>1. retryBackoffs' = With(retryBackoffs, n, new)
    BY <1>2 DEF Throws
  <2>2. new.generation = fetchGeneration /\ new.user = user
    BY <1>2 DEF MayRetry, GenerationInv, IsNow
  <2>3. 0 \in 0..(MaxAttempts - 1)
    BY ExperimentFetchAssumption
  <2>4. new \in BackoffType
    BY <1>1, <2>3 DEF FetchType, BackoffType
  <2> HIDE DEF new
  <2>5. /\ DOMAIN retryBackoffs' = DOMAIN retryBackoffs \cup {n}
        /\ \A b \in DOMAIN retryBackoffs' :
             \/ retryBackoffs'[b] = new
             \/ b \in DOMAIN retryBackoffs /\ retryBackoffs'[b] = retryBackoffs[b]
    BY <2>1 DEF With
  <2> QED BY <1>1, <2>2, <2>4, <2>5, Types DEF RetriesAreCurrent
<1>3. CASE ~MayRetry(n, retriable) /\ c \notin DOMAIN retryBackoffs
  <2>1. retryBackoffs' = retryBackoffs
    BY <1>3 DEF Throws
  <2> QED BY <1>1, <2>1, Types DEF RetriesAreCurrent
<1>4. CASE /\ ~MayRetry(n, retriable) /\ c \in DOMAIN retryBackoffs
           /\ TriesAgain(retryBackoffs[c].attempt)
  <2>1. retryBackoffs' = [retryBackoffs EXCEPT ![c].attempt = @ + 1, ![c].timer = TRUE]
    BY <1>4 DEF Throws
  <2>2. retryBackoffs[c] \in BackoffType
    BY <1>4, Types
  <2>3. /\ DOMAIN retryBackoffs' = DOMAIN retryBackoffs
        /\ retryBackoffs'[c] = [retryBackoffs[c] EXCEPT !.attempt = @ + 1, !.timer = TRUE]
        /\ \A b \in DOMAIN retryBackoffs : b # c => retryBackoffs'[b] = retryBackoffs[b]
    BY <1>4, <2>1, <2>2 DEF BackoffType
  <2>4. retryBackoffs[c].attempt + 1 \in 0..(MaxAttempts - 1)
    BY <1>4, <2>2, ExperimentFetchAssumption DEF TriesAgain, BackoffType
  <2>5. /\ retryBackoffs'[c] \in BackoffType
        /\ retryBackoffs'[c].generation = retryBackoffs[c].generation
        /\ retryBackoffs'[c].user = retryBackoffs[c].user
    BY <2>2, <2>3, <2>4 DEF BackoffType
  <2> QED BY <1>1, <1>4, <2>3, <2>5, Types DEF RetriesAreCurrent
<1>5. CASE /\ ~MayRetry(n, retriable) /\ c \in DOMAIN retryBackoffs
           /\ ~TriesAgain(retryBackoffs[c].attempt)
  <2>1. retryBackoffs' = Without(retryBackoffs, c)
    BY <1>5 DEF Throws
  <2>2. \A b \in DOMAIN retryBackoffs' :
          b \in DOMAIN retryBackoffs /\ retryBackoffs'[b] = retryBackoffs[b]
    BY <2>1 DEF Without
  <2> QED BY <1>1, <2>2, Types DEF RetriesAreCurrent
<1> QED BY <1>2, <1>3, <1>4, <1>5


\* A fetch that fails, or whose variants were stored, settles: the freshness
\* becomes its own exactly when nothing newer was stored or has settled.
LEMMA SettleStep ==
  ASSUME Inv, NEW n \in DOMAIN fetches, NEW failed, failed \in BOOLEAN, Settles(n, failed),
         Ends(n), fetches[n].phase # "storing",
         RetriesAreCurrent', DOMAIN retryBackoffs' \subseteq Numbers,
         \A b \in DOMAIN retryBackoffs' : retryBackoffs'[b] \in BackoffType,
         \/ /\ n >= storedFetchSequenceNumber /\ n >= lastFetchMetadataSequenceNumber
            /\ lastFetchMetadataSequenceNumber' = n /\ lastFetchFailed' = failed
         \/ /\ n < storedFetchSequenceNumber \/ n < lastFetchMetadataSequenceNumber
            /\ UNCHANGED metadata,
         UNCHANGED <<identity, fetchSequenceNumber, stored, cache, toLoad, storage, newest, cleared>>
  PROVE  Inv'
<1> USE DEF Inv
<1>1. /\ fetchGeneration' = fetchGeneration
      /\ storedFetchSequenceNumber' = storedFetchSequenceNumber
  BY DEF identity, stored
<1>2. /\ DOMAIN fetches' = DOMAIN fetches \ {n}
      /\ \A m \in DOMAIN fetches' : m \in DOMAIN fetches /\ m # n /\ fetches'[m] = fetches[m]
  BY EndsKeep
<1>3. /\ n \in Nat /\ n \in 0..MaxSequence /\ n <= fetchSequenceNumber /\ fetchSequenceNumber \in Nat
      /\ storedFetchSequenceNumber \in Nat /\ storedFullFetchSequenceNumber \in Nat
      /\ storedFullFetchSequenceNumber <= storedFetchSequenceNumber
      /\ settled.number \in Nat /\ settled \in [number : 0..MaxSequence, failed : BOOLEAN]
      /\ settled.number <= fetchSequenceNumber
      /\ lastFetchMetadataSequenceNumber \in 0..MaxSequence /\ lastFetchMetadataSequenceNumber \in Nat
      /\ lastFetchMetadataSequenceNumber <= settled.number /\ lastFetchFailed \in BOOLEAN
      /\ settled.number # n
  <2>1. /\ n \in Nat /\ n \in 0..MaxSequence /\ fetchSequenceNumber \in Nat
        /\ storedFetchSequenceNumber \in Nat /\ storedFullFetchSequenceNumber \in Nat
        /\ settled.number \in Nat /\ settled \in [number : 0..MaxSequence, failed : BOOLEAN]
        /\ lastFetchMetadataSequenceNumber \in 0..MaxSequence
        /\ lastFetchMetadataSequenceNumber \in Nat
    BY Types DEF Numbers
  <2>2. lastFetchFailed \in BOOLEAN
    BY DEF TypeOK
  <2>3. settled.number # n
    BY DEF FreshnessInv
  <2> QED BY <2>1, <2>2, <2>3 DEF NumberInv
<1>4. IsPending /\ storedFetchSequenceNumber # n => IsPending'
  BY <1>1, <1>2 DEF IsPending, IsNow
<1>5. (\A m \in DOMAIN fetches : IsNow(m) => m > storedFetchSequenceNumber)
      => \A m \in DOMAIN fetches' : IsNow(m)' => m > storedFetchSequenceNumber
  BY <1>1, <1>2 DEF IsNow
<1>6. CASE /\ n >= storedFetchSequenceNumber /\ n >= lastFetchMetadataSequenceNumber
           /\ lastFetchMetadataSequenceNumber' = n /\ lastFetchFailed' = failed
  <2>1. IsNow(n)
    BY <1>3, <1>6 DEF GenerationInv
  <2>2. n > settled.number
    BY <1>3, <1>6 DEF FreshnessInv
  <2>3. settled' = [number |-> n, failed |-> failed]
    BY <2>1, <2>2 DEF Settles, IsNow
  <2>4. FreshnessInv'
    BY <1>1, <1>2, <1>6, <2>3 DEF FreshnessInv
  <2>5. /\ lastFetchMetadataSequenceNumber' \in 0..MaxSequence /\ lastFetchFailed' \in BOOLEAN
        /\ settled' \in [number : 0..MaxSequence, failed : BOOLEAN]
        /\ lastFetchMetadataSequenceNumber' <= settled'.number
        /\ settled'.number <= fetchSequenceNumber
    BY <1>3, <1>6, <2>3
  <2> QED BY <2>4, <2>5, EndStep
<1>7. CASE /\ n < storedFetchSequenceNumber \/ n < lastFetchMetadataSequenceNumber
           /\ UNCHANGED metadata /\ IsNow(n) /\ n > settled.number
  <2>1. settled' = [number |-> n, failed |-> failed]
    BY <1>7 DEF Settles, IsNow
  <2>2. n < storedFetchSequenceNumber
    BY <1>3, <1>7
  <2>3. IsPending'
    BY <1>3, <1>4, <1>7, <2>2 DEF FreshnessInv
  <2>4. /\ lastFetchMetadataSequenceNumber' = lastFetchMetadataSequenceNumber
        /\ lastFetchFailed' = lastFetchFailed
    BY <1>7 DEF metadata
  <2>5. FreshnessInv'
    BY <1>1, <1>2, <2>1, <2>2, <2>3, <2>4 DEF FreshnessInv
  <2>6. /\ lastFetchMetadataSequenceNumber' \in 0..MaxSequence /\ lastFetchFailed' \in BOOLEAN
        /\ settled' \in [number : 0..MaxSequence, failed : BOOLEAN]
        /\ lastFetchMetadataSequenceNumber' <= settled'.number
        /\ settled'.number <= fetchSequenceNumber
    BY <1>3, <1>7, <2>1, <2>4
  <2> QED BY <2>5, <2>6, EndStep
<1>8. CASE UNCHANGED metadata /\ ~(IsNow(n) /\ n > settled.number)
  <2>1. settled' = settled
    BY <1>8 DEF Settles, IsNow
  <2>2. /\ lastFetchMetadataSequenceNumber' = lastFetchMetadataSequenceNumber
        /\ lastFetchFailed' = lastFetchFailed
    BY <1>8 DEF metadata
  <2>3. IsPending /\ storedFetchSequenceNumber = n => storedFetchSequenceNumber <= settled.number
    BY <1>3, <1>8 DEF IsPending
  <2>4. \/ IsPending'
        \/ storedFetchSequenceNumber <= settled.number
        \/ \A m \in DOMAIN fetches' : IsNow(m)' => m > storedFetchSequenceNumber
    BY <1>4, <1>5, <2>3 DEF FreshnessInv
  <2>5. \/ /\ lastFetchMetadataSequenceNumber = settled.number
           /\ lastFetchFailed = settled.failed
        \/ IsPending' /\ settled.number < storedFetchSequenceNumber
    BY <1>3, <1>4, <2>3 DEF FreshnessInv
  <2>6. FreshnessInv'
    BY <1>1, <1>2, <2>1, <2>2, <2>4, <2>5 DEF FreshnessInv
  <2>7. /\ lastFetchMetadataSequenceNumber' \in 0..MaxSequence /\ lastFetchFailed' \in BOOLEAN
        /\ settled' \in [number : 0..MaxSequence, failed : BOOLEAN]
        /\ lastFetchMetadataSequenceNumber' <= settled'.number
        /\ settled'.number <= fetchSequenceNumber
    BY <1>3, <2>1, <2>2
  <2> QED BY <2>6, <2>7, EndStep
<1> QED BY <1>6, <1>7, <1>8

\* The catch of fetchInternal.
LEMMA CatchStep ==
  ASSUME Inv, NEW n \in DOMAIN fetches, NEW retriable, Catches(n, retriable),
         fetches[n].phase # "storing",
         UNCHANGED <<identity, fetchSequenceNumber, stored, cache, toLoad, storage, newest, cleared>>
  PROVE  Inv'
<1> USE DEF Inv
<1>1. Settles(n, TRUE) /\ Throws(n, retriable) /\ Ends(n)
  BY DEF Catches, Throws
<1>2. /\ n \in Nat /\ storedFetchSequenceNumber \in Nat /\ lastFetchMetadataSequenceNumber \in Nat
  BY Types DEF Numbers
<1>3. \/ /\ n >= storedFetchSequenceNumber /\ n >= lastFetchMetadataSequenceNumber
         /\ lastFetchMetadataSequenceNumber' = n /\ lastFetchFailed' = TRUE
      \/ /\ n < storedFetchSequenceNumber \/ n < lastFetchMetadataSequenceNumber
         /\ UNCHANGED metadata
  BY <1>2 DEF Catches, FailureCounts
<1>4. /\ RetriesAreCurrent' /\ DOMAIN retryBackoffs' \subseteq Numbers
      /\ \A b \in DOMAIN retryBackoffs' : retryBackoffs'[b] \in BackoffType
  BY <1>1, ThrowsKeep
<1>5. TRUE \in BOOLEAN
  OBVIOUS
<1> QED BY <1>1, <1>3, <1>4, <1>5, SettleStep

\* A fetch whose variants were written.
LEMMA StoredStep ==
  ASSUME Inv, NEW n \in DOMAIN fetches, Stored(n)
  PROVE  Inv'
<1> USE DEF Inv
<1>1. /\ Settles(n, FALSE) /\ Returns(n) /\ Ends(n) /\ fetches[n].phase = "stored"
      /\ UNCHANGED <<identity, fetchSequenceNumber, stored, cache, toLoad, storage, newest, cleared>>
  BY DEF Stored, Returns
<1>2. /\ n \in Nat /\ storedFetchSequenceNumber \in Nat /\ lastFetchMetadataSequenceNumber \in Nat
      /\ storedFullFetchSequenceNumber \in Nat
  BY Types DEF Numbers
<1>3. n <= storedFetchSequenceNumber
  BY <1>1, <1>2 DEF GenerationInv, NumberInv
<1>4. \/ /\ n >= storedFetchSequenceNumber /\ n >= lastFetchMetadataSequenceNumber
         /\ lastFetchMetadataSequenceNumber' = n /\ lastFetchFailed' = FALSE
      \/ /\ n < storedFetchSequenceNumber \/ n < lastFetchMetadataSequenceNumber
         /\ UNCHANGED metadata
  BY <1>2, <1>3 DEF Stored
<1>5. /\ RetriesAreCurrent' /\ DOMAIN retryBackoffs' \subseteq Numbers
      /\ \A b \in DOMAIN retryBackoffs' : retryBackoffs'[b] \in BackoffType
  BY <1>1, ReturnsKeep
<1>6. FALSE \in BOOLEAN
  OBVIOUS
<1> QED BY <1>1, <1>4, <1>5, <1>6, SettleStep


-----------------------------------------------------------------------------
(* The server's answer.                                                      *)

\* A superseded response is for a key that has a newer answer already.
LEMMA SupersededStep ==
  ASSUME Inv, NEW n \in DOMAIN fetches, fetches[n].phase = "sent", Superseded(n), newest' = newest,
         UNCHANGED <<identity, fetchSequenceNumber, metadata, toLoad, storage, cleared>>
  PROVE  Inv'
<1> USE DEF Inv
<1>1. Ends(n) /\ Returns(n) /\ UNCHANGED <<stored, cache, settled>>
  BY DEF Superseded, Returns
<1>2. /\ RetriesAreCurrent' /\ DOMAIN retryBackoffs' \subseteq Numbers
      /\ \A b \in DOMAIN retryBackoffs' : retryBackoffs'[b] \in BackoffType
  BY <1>1, ReturnsKeep
<1>3. /\ fetchGeneration' = fetchGeneration /\ settled' = settled
      /\ storedFetchSequenceNumber' = storedFetchSequenceNumber
      /\ lastFetchMetadataSequenceNumber' = lastFetchMetadataSequenceNumber
      /\ lastFetchFailed' = lastFetchFailed
  BY <1>1 DEF identity, stored, metadata
<1>4. /\ DOMAIN fetches' = DOMAIN fetches \ {n}
      /\ \A m \in DOMAIN fetches' : m \in DOMAIN fetches /\ m # n /\ fetches'[m] = fetches[m]
  BY <1>1, EndsKeep
<1>5. IsPending => IsPending'
  BY <1>3, <1>4 DEF IsPending, IsNow
<1>6. FreshnessInv'
  BY <1>3, <1>4, <1>5 DEF FreshnessInv, IsNow
<1>7. /\ lastFetchMetadataSequenceNumber' \in 0..MaxSequence
      /\ lastFetchFailed' \in BOOLEAN /\ settled' \in [number : 0..MaxSequence, failed : BOOLEAN]
      /\ lastFetchMetadataSequenceNumber' <= settled'.number
      /\ settled'.number <= fetchSequenceNumber
  BY <1>3, Types DEF TypeOK, NumberInv
<1> QED BY <1>1, <1>2, <1>6, <1>7, EndStep

\* A response that is stored.
LEMMA StoresStep ==
  ASSUME Inv, NEW n \in DOMAIN fetches, fetches[n].phase = "sent", IsNow(n), Stores(n),
         n > storedFullFetchSequenceNumber,
         storedFullFetchSequenceNumber' \in {storedFullFetchSequenceNumber, n},
         storedKeySequenceNumbers' \in [Keys -> 0..MaxSequence],
         variants' \in [Keys -> Variants],
         \A k \in Keys : variants'[k] \in {variants[k], n, Absent},
         newest' \in [Keys -> [number : 0..MaxSequence, present : BOOLEAN]],
         \A k \in Keys : newest'[k].number \in {newest[k].number, n},
         AnswerInv',
         UNCHANGED <<identity, fetchSequenceNumber, metadata, toLoad, storage, cleared>>
  PROVE  Inv'
<1> USE DEF Inv
<1> DEFINE write == [values |-> variants', by |-> n]
<1>1. /\ user' = user /\ isRunning' = isRunning /\ fetchGeneration' = fetchGeneration
      /\ fetchSequenceNumber' = fetchSequenceNumber
      /\ lastFetchMetadataSequenceNumber' = lastFetchMetadataSequenceNumber
      /\ lastFetchFailed' = lastFetchFailed /\ toLoad' = toLoad
      /\ disk' = disk /\ putFailed' = putFailed /\ cleared' = cleared
      /\ inFlightFetches' = inFlightFetches /\ retryBackoffs' = retryBackoffs /\ settled' = settled
      /\ pendingStore' = Append(pendingStore, write)
      /\ fetches' = [fetches EXCEPT ![n].phase = "storing"]
  BY DEF identity, metadata, storage, Stores, Storing
<1>2. /\ n \in Nat /\ n \in 0..MaxSequence /\ n # 0 /\ n <= fetchSequenceNumber
      /\ fetches[n] \in FetchType /\ toLoad = <<>>
  BY Types DEF Numbers, NumberInv, LoadInv, NoEntries
<1>3. /\ DOMAIN fetches' = DOMAIN fetches
      /\ \A m \in DOMAIN fetches : m # n => fetches'[m] = fetches[m]
      /\ fetches'[n] = [fetches[n] EXCEPT !.phase = "storing"]
  BY <1>1
<1>4. /\ fetches'[n].phase = "storing" /\ fetches'[n] \in FetchType
      /\ fetches'[n].user = fetches[n].user /\ fetches'[n].keys = fetches[n].keys
      /\ fetches'[n].generation = fetches[n].generation
      /\ fetches'[n].backoff = fetches[n].backoff
  BY <1>2, <1>3 DEF FetchType
<1>5. \A m \in DOMAIN fetches :
        /\ fetches'[m].user = fetches[m].user /\ fetches'[m].keys = fetches[m].keys
        /\ fetches'[m].generation = fetches[m].generation
        /\ fetches'[m].backoff = fetches[m].backoff
        /\ IsNow(m)' <=> IsNow(m)
  BY <1>1, <1>3, <1>4 DEF IsNow
<1>6. /\ storedFetchSequenceNumber \in Nat /\ fetchSequenceNumber \in Nat
      /\ storedFullFetchSequenceNumber \in Nat /\ storedFetchSequenceNumber <= fetchSequenceNumber
      /\ storedFullFetchSequenceNumber <= storedFetchSequenceNumber
      /\ storedFetchSequenceNumber' =
           IF n > storedFetchSequenceNumber THEN n ELSE storedFetchSequenceNumber
      /\ settled.number \in Nat
  BY Types DEF NumberInv, Stores
<1>7. /\ storedFetchSequenceNumber' >= n /\ storedFetchSequenceNumber' >= storedFetchSequenceNumber
      /\ storedFetchSequenceNumber' \in {n, storedFetchSequenceNumber}
      /\ storedFetchSequenceNumber' \in Nat /\ storedFullFetchSequenceNumber' \in Nat
      /\ storedFullFetchSequenceNumber' >= storedFullFetchSequenceNumber
      /\ storedFullFetchSequenceNumber' <= storedFetchSequenceNumber'
      /\ storedFetchSequenceNumber' <= fetchSequenceNumber
  BY <1>2, <1>6
<1>8. /\ write \in WriteType /\ write.by = n /\ write.values = variants'
  BY <1>2 DEF WriteType
<1> HIDE DEF write
<1>9. /\ pendingStore' \in Seq(WriteType) /\ Len(pendingStore) \in Nat
      /\ Len(pendingStore') = Len(pendingStore) + 1 /\ pendingStore' # <<>>
      /\ \A i \in 1..Len(pendingStore) : pendingStore'[i] = pendingStore[i]
      /\ pendingStore'[Len(pendingStore) + 1] = write
  <2>1. pendingStore \in Seq(WriteType)
    BY Types
  <2> QED BY <1>1, <1>8, <2>1, AppendProperties, LenProperties, EmptySeq
<1>10. TypeOK'
  <2>1. DOMAIN fetches' \subseteq Numbers /\ \A m \in DOMAIN fetches' : fetches'[m] \in FetchType
    BY <1>3, <1>4, Types
  <2>2. storedFetchSequenceNumber' \in 0..MaxSequence /\ storedFullFetchSequenceNumber' \in 0..MaxSequence
    BY <1>2, <1>7, Types
  <2>3. {fetchSequenceNumber', fetchGeneration', storedFetchSequenceNumber',
         storedFullFetchSequenceNumber', lastFetchMetadataSequenceNumber'} \subseteq 0..MaxSequence
    BY <1>1, <2>2, Types
  <2>4. \A m \in DOMAIN fetches' :
          fetches'[m] \in [user : Users, keys : Options, generation : 0..MaxSequence,
                           backoff : 0..MaxSequence,
                           phase : {"sent", "storing", "stored", "failed"}]
    BY <2>1 DEF FetchType
  <2>5. pendingStore' \in Seq([values : [Keys -> Variants], by : 0..MaxSequence])
    BY <1>9 DEF WriteType
  <2> QED BY <1>1, <2>1, <2>3, <2>4, <2>5 DEF TypeOK
<1>11. NumberInv'
  <2>1. cleared < storedFullFetchSequenceNumber'
    BY <1>6, <1>7, Types DEF NumberInv
  <2>2. \A k \in Keys : newest'[k].number <= fetchSequenceNumber
    BY <1>2 DEF NumberInv
  <2> QED BY <1>1, <1>3, <1>7, <2>1, <2>2 DEF NumberInv
<1>12. GenerationInv'
  <2> SUFFICES ASSUME NEW m \in DOMAIN fetches
               PROVE  /\ fetches'[m].generation <= fetchGeneration
                      /\ ~IsNow(m) => m < storedFullFetchSequenceNumber'
                      /\ IsNow(m) => fetches'[m].user = user
                      /\ IsNow(m) /\ fetches'[m].phase # "sent" => m <= storedFetchSequenceNumber'
    BY <1>1, <1>3, <1>5 DEF GenerationInv
  <2>1. m \in Nat
    BY Types DEF Numbers
  <2>2. ~IsNow(m) => m < storedFullFetchSequenceNumber'
    BY <1>6, <1>7, <2>1 DEF GenerationInv
  <2>3. IsNow(m) /\ fetches'[m].phase # "sent" => m <= storedFetchSequenceNumber'
    BY <1>3, <1>6, <1>7, <2>1 DEF GenerationInv
  <2> QED BY <1>5, <2>2, <2>3 DEF GenerationInv
<1>13. RetriesAreCurrent' /\ JoinInv' /\ NoDuplicateRequests' /\ LoadInv'
  BY <1>1, <1>2, <1>3, <1>5 DEF RetriesAreCurrent, JoinInv, NoDuplicateRequests, LoadInv, IsNow
<1>14. WriteInv'
  <2>1. \A i \in 1..Len(pendingStore) :
          pendingStore'[i].by # n /\ pendingStore'[i] = pendingStore[i]
    BY <1>9, <1>2 DEF WriteInv
  <2>2. \A i \in 1..Len(pendingStore') :
          \/ i \in 1..Len(pendingStore) /\ pendingStore'[i].by # n
          \/ i = Len(pendingStore) + 1 /\ pendingStore'[i].by = n
    BY <1>8, <1>9, <2>1
  <2>3. ASSUME NEW i \in 1..Len(pendingStore'), pendingStore'[i].by # 0
        PROVE  /\ pendingStore'[i].by \in DOMAIN fetches'
               /\ fetches'[pendingStore'[i].by].phase = "storing"
    <3>1. CASE i \in 1..Len(pendingStore) /\ pendingStore'[i].by # n
      BY <1>3, <2>1, <2>3, <3>1 DEF WriteInv
    <3>2. CASE pendingStore'[i].by = n
      BY <1>3, <1>4, <3>2
    <3> QED BY <2>2, <3>1, <3>2
  <2>4. ASSUME NEW i \in 1..Len(pendingStore'), NEW j \in 1..Len(pendingStore'),
               pendingStore'[i].by # 0, pendingStore'[i].by = pendingStore'[j].by
        PROVE  i = j
    <3>1. CASE pendingStore'[i].by = n
      BY <2>2, <2>4, <3>1
    <3>2. CASE pendingStore'[i].by # n
      <4>1. i \in 1..Len(pendingStore) /\ j \in 1..Len(pendingStore)
        BY <2>2, <2>4, <3>2
      <4> QED BY <2>1, <2>4, <4>1 DEF WriteInv
    <3> QED BY <3>1, <3>2
  <2> QED BY <2>3, <2>4 DEF WriteInv
<1>15. FreshnessInv'
  <2>1. CASE n > storedFetchSequenceNumber
    <3>1. storedFetchSequenceNumber' = n
      BY <1>6, <2>1
    <3>2. IsPending'
      BY <1>3, <1>4, <1>5, <3>1 DEF IsPending
    <3>3. settled.number < storedFetchSequenceNumber => settled.number < n
      BY <1>2, <1>6, <2>1
    <3> QED BY <1>1, <1>3, <3>1, <3>2, <3>3 DEF FreshnessInv
  <2>2. CASE ~(n > storedFetchSequenceNumber)
    <3>1. storedFetchSequenceNumber' = storedFetchSequenceNumber
      BY <1>6, <2>2
    <3>2. IsPending => IsPending'
      BY <1>3, <1>4, <1>5, <3>1 DEF IsPending
    <3>3. (\A m \in DOMAIN fetches : IsNow(m) => m > storedFetchSequenceNumber)
          => \A m \in DOMAIN fetches' : IsNow(m)' => m > storedFetchSequenceNumber
      BY <1>3, <1>5
    <3> QED BY <1>1, <1>3, <3>1, <3>2, <3>3 DEF FreshnessInv
  <2> QED BY <2>1, <2>2
<1>16. CacheIsKept'
  <2>1. ASSUME NEW k \in Keys, variants'[k] # Absent
        PROVE  variants'[k] > cleared
    <3>1. n > cleared
      BY <1>2, <1>6, Types DEF NumberInv
    <3> QED BY <2>1, <3>1 DEF CacheIsKept, ClearIsFinal
  <2>2. DiskFollowsCache'
    BY <1>8, <1>9 DEF DiskFollowsCache
  <2> QED BY <1>1, <2>1, <2>2 DEF CacheIsKept, ClearIsFinal
<1> QED BY <1>10, <1>11, <1>12, <1>13, <1>14, <1>15, <1>16


\* No key has a newer answer that the stored numbers do not know of; so the
\* answer of a fetch that is not covered is the newest.
LEMMA ResponseStep ==
  ASSUME Inv, NEW n \in DOMAIN fetches, NEW present, Response(n, present)
  PROVE  Inv'
<1> USE DEF Inv
<1> DEFINE keys == fetches[n].keys
           full == storedFullFetchSequenceNumber
           key(k) == storedKeySequenceNumbers[k]
           last(k) == newest[k].number
<1>1. /\ fetches[n].phase = "sent"
      /\ UNCHANGED <<identity, fetchSequenceNumber, metadata, toLoad, storage, cleared>>
      /\ fetchGeneration' = fetchGeneration
  BY DEF Response, identity
<1>2. /\ n \in Nat /\ n # 0 /\ n \in Numbers /\ n \in 0..MaxSequence /\ full \in Nat
      /\ keys \in Options
      /\ \A k \in Keys : /\ key(k) \in Nat /\ last(k) \in Nat /\ key(k) \in 0..MaxSequence
                         /\ newest[k] \in [number : 0..MaxSequence, present : BOOLEAN]
  BY Types DEF Numbers, FetchType
<1>3. variants \in [Keys -> Variants] /\ n \in Variants /\ Absent \in Variants /\ n # Absent
  BY <1>2, ExperimentFetchAssumption DEF TypeOK, Variants
<1>4. \A k \in Keys :
        /\ key(k) <= last(k) /\ last(k) # n
        /\ last(k) <= full \/ last(k) <= key(k)
        /\ newest[k].present => variants[k] = last(k)
  BY <1>1 DEF AnswerInv, NewestIsShown
<1>5. IsNow(n) /\ n <= full => \A k \in Keys : n < last(k)
  BY <1>2, <1>4 DEF AnswerInv
<1>6. ~IsNow(n) => n < full
  BY DEF GenerationInv
<1>7. ASSUME NEW asked, asked \subseteq Keys, Answered(n, asked, present)
      PROVE  /\ newest' \in [Keys -> [number : 0..MaxSequence, present : BOOLEAN]]
             /\ \A k \in Keys :
                  newest'[k] = IF k \in asked /\ n > last(k) /\ IsNow(n)
                               THEN [number |-> n, present |-> k \in present] ELSE newest[k]
  <2>1. newest' = [k \in Keys |-> IF k \in asked /\ n > last(k) /\ IsNow(n)
                                  THEN [number |-> n, present |-> k \in present] ELSE newest[k]]
    BY <1>7 DEF Answered, IsNow
  <2>2. \A k \in Keys : [number |-> n, present |-> k \in present]
                          \in [number : 0..MaxSequence, present : BOOLEAN]
    BY <1>2
  <2> QED BY <1>2, <2>1, <2>2
<1>8. \A k \in Keys : newest[k] = [number |-> last(k), present |-> newest[k].present]
  BY <1>2
<1> HIDE DEF keys, full, key, last
<1>9. ASSUME Superseded(n), newest' = newest
      PROVE  Inv'
  BY <1>1, <1>9, SupersededStep
<1>10. newest = [k \in Keys |-> newest[k]]
  BY Types
<1>11. CASE /\ Answered(n, Keys, present) /\ StoreAll(n, present)
  <2>1. CASE n <= full /\ Superseded(n)
    <3>1. \A k \in Keys : newest'[k] = newest[k]
      <4>1. \A k \in Keys : newest'[k] = IF k \in Keys /\ n > last(k) /\ IsNow(n)
                                       THEN [number |-> n, present |-> k \in present] ELSE newest[k]
        BY <1>7, <1>11
      <4>2. \A k \in Keys : ~(n > last(k) /\ IsNow(n))
        BY <1>2, <1>5, <2>1
      <4> QED BY <4>1, <4>2
    <3>2. newest' = [k \in Keys |-> newest'[k]]
      BY <1>7, <1>11
    <3>3. newest' = newest
      BY <1>10, <3>1, <3>2
    <3> QED BY <1>9, <2>1, <3>3
  <2>2. CASE ~(n <= full /\ Superseded(n))
    <3>1. /\ n > full
          /\ storedKeySequenceNumbers' = [k \in Keys |-> IF key(k) <= n THEN 0 ELSE key(k)]
          /\ variants' = [k \in Keys |-> IF k \in Retained(n) THEN variants[k]
                                         ELSE IF k \in present THEN n ELSE Absent]
          /\ storedFullFetchSequenceNumber' = n
          /\ Stores(n)
      BY <1>11, <2>2 DEF StoreAll, full, key
    <3>2. IsNow(n)
      BY <1>2, <1>6, <3>1
    <3>3. /\ storedKeySequenceNumbers' \in [Keys -> 0..MaxSequence]
          /\ variants' \in [Keys -> Variants]
          /\ \A k \in Keys : variants'[k] \in {variants[k], n, Absent}
      <4>1. \A k \in Keys : variants'[k] \in {variants[k], n, Absent}
        BY <3>1
      <4>2. variants' \in [Keys -> Variants]
        BY <1>3, <3>1
      <4>3. 0 \in 0..MaxSequence
        BY <1>2, ExperimentFetchAssumption
      <4>4. storedKeySequenceNumbers' \in [Keys -> 0..MaxSequence]
        BY <1>2, <3>1, <4>3
      <4> QED BY <4>1, <4>2, <4>4
    <3>4. /\ newest' \in [Keys -> [number : 0..MaxSequence, present : BOOLEAN]]
          /\ \A k \in Keys :
               newest'[k] = IF n > last(k) THEN [number |-> n, present |-> k \in present]
                            ELSE newest[k]
      BY <1>7, <1>11, <3>2
    <3>5. \A k \in Keys : newest'[k].number = IF n > last(k) THEN n ELSE last(k)
      BY <3>4 DEF last
    <3>6. ASSUME NEW k \in Keys, ~(n > last(k))
          PROVE  last(k) > n /\ key(k) = last(k) /\ newest'[k] = newest[k]
      <4>1. newest'[k] = newest[k]
        BY <3>4, <3>6
      <4>2. last(k) > n
        BY <1>2, <1>4, <3>6
      <4>3. key(k) = last(k)
        BY <1>2, <1>4, <3>1, <4>2
      <4> QED BY <4>1, <4>2, <4>3
    <3>7. ASSUME NEW k \in Keys
          PROVE  /\ newest'[k].number >= n
                 /\ storedKeySequenceNumbers'[k] <= newest'[k].number
                 /\ newest'[k].number <= n \/ newest'[k].number <= storedKeySequenceNumbers'[k]
                 /\ newest'[k].present => variants'[k] = newest'[k].number
      <4>1. CASE n > last(k)
        <5>1. key(k) < n /\ storedKeySequenceNumbers'[k] = 0 /\ k \notin Retained(n)
          BY <1>2, <1>4, <3>1, <4>1 DEF Retained, key
        <5>2. variants'[k] = IF k \in present THEN n ELSE Absent
          BY <3>1, <5>1
        <5>3. newest'[k].number = n /\ (newest'[k].present => k \in present)
          BY <3>4, <4>1
        <5> QED BY <1>2, <5>1, <5>2, <5>3
      <4>2. CASE ~(n > last(k))
        <5>1. last(k) > n /\ key(k) = last(k) /\ newest'[k] = newest[k]
          BY <3>6, <4>2
        <5>2. storedKeySequenceNumbers'[k] = last(k) /\ newest'[k].number = last(k)
          BY <1>2, <3>1, <5>1 DEF last
        <5>3. newest'[k].present => k \in Retained(n)
          BY <1>2, <1>4, <5>1, ExperimentFetchAssumption DEF Retained, key
        <5>4. k \in Retained(n) => variants'[k] = variants[k]
          BY <3>1
        <5> QED BY <1>2, <1>4, <5>1, <5>2, <5>3, <5>4
      <4> QED BY <4>1, <4>2
    <3>8. /\ DOMAIN fetches' = DOMAIN fetches /\ fetches'[n].phase = "storing"
          /\ \A m \in DOMAIN fetches : m # n => fetches'[m] = fetches[m]
      BY <3>1, Types DEF Stores, FetchType
    <3>9. \A k \in Keys : \A m \in DOMAIN fetches' :
            fetches'[m].phase = "sent" => newest'[k].number # m
      BY <3>5, <3>8 DEF AnswerInv, last
    <3>10. AnswerInv'
      BY <3>1, <3>7, <3>9 DEF AnswerInv, NewestIsShown
    <3>11. \A k \in Keys : newest'[k].number \in {newest[k].number, n}
      BY <3>5 DEF last
    <3> QED BY <1>1, <3>1, <3>2, <3>3, <3>4, <3>10, <3>11, StoresStep DEF full
  <2> QED BY <2>1, <2>2
<1>12. CASE /\ Answered(n, keys, present) /\ StoreSome(n, keys, present)
  <2> DEFINE taken == {k \in keys : ~IsCovered(k, n)}
  <2>1. keys \subseteq Keys
    BY <1>2 DEF Options
  <2>2. \A k \in keys : k \in taken <=> n > full /\ n > key(k)
    BY <1>2, <2>1 DEF IsCovered, full, key
  <2>3. taken \subseteq keys
    OBVIOUS
  <2>4. \/ taken = {} /\ Superseded(n)
        \/ /\ taken # {}
           /\ variants' = [k \in Keys |-> IF k \notin taken THEN variants[k]
                                          ELSE IF k \in present THEN n ELSE Absent]
           /\ storedKeySequenceNumbers' = [k \in Keys |-> IF k \in taken THEN n ELSE key(k)]
           /\ storedFullFetchSequenceNumber' = storedFullFetchSequenceNumber
           /\ Stores(n)
    BY <1>12 DEF StoreSome, key
  <2> HIDE DEF taken
  <2>5. \A k \in keys : k \notin taken /\ IsNow(n) => n <= last(k)
    BY <1>2, <1>4, <1>5, <2>1, <2>2
  <2>6. CASE taken = {} /\ Superseded(n)
    <3>1. \A k \in Keys : newest'[k] = newest[k]
      <4>1. \A k \in Keys : newest'[k] = IF k \in keys /\ n > last(k) /\ IsNow(n)
                                       THEN [number |-> n, present |-> k \in present] ELSE newest[k]
        BY <1>7, <1>12, <2>1
      <4>2. \A k \in Keys : ~(k \in keys /\ n > last(k) /\ IsNow(n))
        BY <1>2, <2>5, <2>6
      <4> QED BY <4>1, <4>2
    <3>2. newest' = [k \in Keys |-> newest'[k]]
      BY <1>7, <1>12, <2>1
    <3>3. newest' = newest
      BY <1>10, <3>1, <3>2
    <3> QED BY <1>9, <2>6, <3>3
  <2>7. CASE ~(taken = {} /\ Superseded(n))
    <3>1. /\ taken # {}
          /\ variants' = [k \in Keys |-> IF k \notin taken THEN variants[k]
                                         ELSE IF k \in present THEN n ELSE Absent]
          /\ storedKeySequenceNumbers' = [k \in Keys |-> IF k \in taken THEN n ELSE key(k)]
          /\ storedFullFetchSequenceNumber' = storedFullFetchSequenceNumber
          /\ Stores(n)
      BY <2>4, <2>7
    <3>2. n > full /\ IsNow(n)
      BY <1>2, <1>6, <2>2, <2>3, <3>1
    <3>3. /\ storedKeySequenceNumbers' \in [Keys -> 0..MaxSequence]
          /\ variants' \in [Keys -> Variants]
          /\ \A k \in Keys : variants'[k] \in {variants[k], n, Absent}
      BY <1>2, <1>3, <3>1
    <3>4. \A k \in taken : n > last(k) /\ k \in keys
      BY <1>2, <1>4, <2>1, <2>2, <2>3
    <3>5. /\ newest' \in [Keys -> [number : 0..MaxSequence, present : BOOLEAN]]
          /\ \A k \in Keys :
               newest'[k] = IF k \in taken THEN [number |-> n, present |-> k \in present]
                            ELSE newest[k]
      BY <1>2, <1>7, <1>12, <2>1, <2>5, <3>2, <3>4
    <3>6. \A k \in Keys : newest'[k].number = IF k \in taken THEN n ELSE last(k)
      BY <3>5 DEF last
    <3>7. ASSUME NEW k \in Keys
          PROVE  /\ newest'[k].number >= last(k)
                 /\ storedKeySequenceNumbers'[k] <= newest'[k].number
                 /\ \/ newest'[k].number <= storedFullFetchSequenceNumber
                    \/ newest'[k].number <= storedKeySequenceNumbers'[k]
                 /\ newest'[k].present => variants'[k] = newest'[k].number
      <4>1. CASE k \in taken
        <5>1. newest'[k].number = n /\ (newest'[k].present => k \in present)
          BY <3>5, <4>1
        <5>2. variants'[k] = IF k \in present THEN n ELSE Absent
          BY <3>1, <4>1
        <5> QED BY <1>2, <3>1, <3>4, <4>1, <5>1, <5>2
      <4>2. CASE k \notin taken
        <5>1. newest'[k] = newest[k] /\ variants'[k] = variants[k]
              /\ storedKeySequenceNumbers'[k] = key(k)
          BY <3>1, <3>5, <4>2
        <5> QED BY <1>2, <1>4, <5>1 DEF full, last
      <4> QED BY <4>1, <4>2
    <3>8. /\ DOMAIN fetches' = DOMAIN fetches /\ fetches'[n].phase = "storing"
          /\ \A m \in DOMAIN fetches : /\ m # n => fetches'[m] = fetches[m]
                                       /\ fetches'[m].generation = fetches[m].generation
      BY <3>1, Types DEF Stores, FetchType
    <3>9. \A k \in Keys : \A m \in DOMAIN fetches' :
            fetches'[m].phase = "sent" => newest'[k].number # m
      BY <3>6, <3>8 DEF AnswerInv, last
    <3>10. \/ \A m \in DOMAIN fetches' : IsNow(m)' => m > full
           \/ \A k \in Keys : newest'[k].number >= full
      <4>1. CASE \A m \in DOMAIN fetches : IsNow(m) => m > full
        BY <1>1, <3>8, <4>1 DEF IsNow
      <4>2. CASE \A k \in Keys : last(k) >= full
        BY <1>2, <3>2, <3>6, <4>2
      <4> QED BY <4>1, <4>2 DEF AnswerInv, full, last
    <3>11. AnswerInv'
      BY <3>1, <3>7, <3>9, <3>10 DEF AnswerInv, NewestIsShown, full
    <3>12. \A k \in Keys : newest'[k].number \in {newest[k].number, n}
      BY <3>6 DEF last
    <3> QED BY <1>1, <3>1, <3>2, <3>3, <3>5, <3>11, <3>12, StoresStep DEF full
  <2> QED BY <2>6, <2>7
<1> QED BY <1>11, <1>12 DEF Response, keys


-----------------------------------------------------------------------------
(* The writes of the cache.                                                  *)

\* The first of the pending writes is taken out, the others keep their order.
LEMMA FirstWriteIsTaken ==
  ASSUME NEW S, NEW p \in Seq(S), p # <<>>
  PROVE  LET q == SubSeq(p, 1, 1 - 1) \o SubSeq(p, 1 + 1, Len(p)) IN
         /\ Len(p) \in Nat /\ Len(p) >= 1 /\ p[1] \in S
         /\ q \in Seq(S) /\ Len(q) = Len(p) - 1
         /\ \A i \in 1..Len(q) : q[i] = p[i + 1]
<1> DEFINE a == SubSeq(p, 1, 1 - 1)
           c == SubSeq(p, 1 + 1, Len(p))
<1>1. Len(p) \in Nat /\ Len(p) >= 1 /\ p[1] \in S
  BY EmptySeq, LenProperties, ElementOfSeq
<1>2. a \in Seq(S) /\ Len(a) = 0
  BY <1>1, SubSeqProperties
<1>3. /\ c \in Seq(S) /\ Len(c) = Len(p) - 1
      /\ \A i \in 1..(Len(p) - 1) : c[i] = p[i + 1]
  <2> DEFINE last == Len(p)
             two == 1 + 1
  <2>1. \A i \in two..last : p[i] \in S
    BY <1>1, ElementOfSeq
  <2>2. last \in Int /\ last >= 1 /\ two \in Int /\ two = 2
    BY <1>1
  <2> HIDE DEF last, two
  <2>3. /\ SubSeq(p, two, last) \in Seq(S)
        /\ Len(SubSeq(p, two, last)) = IF two <= last THEN last - two + 1 ELSE 0
        /\ \A i \in 1..(last - two + 1) : SubSeq(p, two, last)[i] = p[two + i - 1]
    BY <2>1, <2>2, SubSeqProperties
  <2>4. Len(SubSeq(p, two, last)) = last - 1
    BY <2>2, <2>3
  <2>5. \A i \in 1..(last - 1) : SubSeq(p, two, last)[i] = p[i + 1]
    <3>1. last - two + 1 = last - 1 /\ \A i \in 1..(last - 1) : two + i - 1 = i + 1
      BY <2>2
    <3> QED BY <2>3, <3>1
  <2> QED BY <2>3, <2>4, <2>5 DEF last, two
<1> HIDE DEF a, c
<1>4. /\ a \o c \in Seq(S) /\ Len(a \o c) = Len(a) + Len(c)
      /\ \A i \in 1..(Len(a) + Len(c)) :
           (a \o c)[i] = IF i <= Len(a) THEN a[i] ELSE c[i - Len(a)]
  BY <1>2, <1>3, ConcatProperties
<1>5. Len(a \o c) = Len(p) - 1 /\ \A i \in 1..Len(a \o c) : (a \o c)[i] = p[i + 1]
  BY <1>1, <1>2, <1>3, <1>4
<1> QED BY <1>1, <1>4, <1>5 DEF a, c

\* What a write that is done, or fails, changes.
LEMMA PutChanges ==
  ASSUME Inv, NEW ok, ok \in BOOLEAN, Put(ok)
  PROVE  /\ pendingStore # <<>>
         /\ pendingStore' = SubSeq(pendingStore, 1, 1 - 1)
                              \o SubSeq(pendingStore, 1 + 1, Len(pendingStore))
         /\ disk' = IF ok THEN pendingStore[1].values ELSE disk
         /\ putFailed' \in BOOLEAN /\ (putFailed' \/ disk' = pendingStore[1].values)
         /\ fetches' = IF pendingStore[1].by = 0 THEN fetches
                       ELSE [fetches EXCEPT ![pendingStore[1].by].phase =
                               IF ok THEN "stored" ELSE "failed"]
         /\ UNCHANGED <<identity, fetchSequenceNumber, stored, metadata, variants,
                        inFlightFetches, retryBackoffs, toLoad, newest, settled, cleared>>
<1> USE DEF Inv
<1>1. PICK i \in NextWrite :
        LET write == pendingStore[i]
        IN /\ pendingStore' = SubSeq(pendingStore, 1, i - 1)
                                \o SubSeq(pendingStore, i + 1, Len(pendingStore))
           /\ disk' = IF ok THEN write.values ELSE disk
           /\ putFailed' = ~ok
           /\ fetches' = IF write.by = 0 THEN fetches
                         ELSE [fetches EXCEPT ![write.by].phase = IF ok THEN "stored" ELSE "failed"]
           /\ UNCHANGED <<identity, fetchSequenceNumber, stored, metadata, variants,
                          inFlightFetches, retryBackoffs, toLoad, newest, settled, cleared>>
  BY DEF Put
<1>2. i = 1 /\ 1 \in DOMAIN pendingStore
  BY DEF NextWrite
<1>3. pendingStore # <<>>
  <2>1. pendingStore \in Seq(WriteType)
    BY Types
  <2>2. pendingStore = <<>> => DOMAIN pendingStore = 1..0
    BY <2>1, LenProperties, EmptySeq
  <2> QED BY <1>2, <2>2
<1>4. CASE ok = TRUE
  BY <1>1, <1>2, <1>3, <1>4
<1>5. CASE ok = FALSE
  BY <1>1, <1>2, <1>3, <1>5
<1> QED BY <1>4, <1>5

\* A write is done or fails; the fetch behind it goes on.
LEMMA PutStep ==
  ASSUME Inv, NEW ok, ok \in BOOLEAN, Put(ok)
  PROVE  Inv'
<1> USE DEF Inv
<1> DEFINE write == pendingStore[1]
           by == pendingStore[1].by
           to == IF ok THEN "stored" ELSE "failed"
<1>1. /\ pendingStore # <<>>
      /\ pendingStore' = SubSeq(pendingStore, 1, 1 - 1)
                           \o SubSeq(pendingStore, 1 + 1, Len(pendingStore))
      /\ disk' = IF ok THEN write.values ELSE disk
      /\ putFailed' \in BOOLEAN /\ (putFailed' \/ disk' = write.values)
      /\ fetches' = IF by = 0 THEN fetches ELSE [fetches EXCEPT ![by].phase = to]
      /\ UNCHANGED <<identity, fetchSequenceNumber, stored, metadata, variants,
                     inFlightFetches, retryBackoffs, toLoad, newest, settled, cleared>>
  BY PutChanges
<1>2. /\ user' = user /\ isRunning' = isRunning /\ fetchGeneration' = fetchGeneration
      /\ fetchSequenceNumber' = fetchSequenceNumber
      /\ storedFetchSequenceNumber' = storedFetchSequenceNumber
      /\ storedFullFetchSequenceNumber' = storedFullFetchSequenceNumber
      /\ storedKeySequenceNumbers' = storedKeySequenceNumbers
      /\ lastFetchMetadataSequenceNumber' = lastFetchMetadataSequenceNumber
      /\ lastFetchFailed' = lastFetchFailed /\ toLoad' = toLoad /\ variants' = variants
      /\ newest' = newest /\ settled' = settled /\ cleared' = cleared
      /\ inFlightFetches' = inFlightFetches /\ retryBackoffs' = retryBackoffs
  BY <1>1 DEF identity, stored, metadata
<1>3. /\ Len(pendingStore) \in Nat /\ Len(pendingStore) >= 1 /\ write \in WriteType
      /\ pendingStore' \in Seq(WriteType) /\ Len(pendingStore') = Len(pendingStore) - 1
      /\ \A i \in 1..Len(pendingStore') : pendingStore'[i] = pendingStore[i + 1]
  <2>1. pendingStore \in Seq(WriteType)
    BY Types
  <2> QED BY <1>1, <2>1, FirstWriteIsTaken
<1>4. toLoad = <<>>
  BY <1>1 DEF LoadInv
<1>5. write.values \in [Keys -> Variants] /\ disk' \in [Keys -> Variants]
  <2>1. disk \in [Keys -> Variants] /\ write.values \in [Keys -> Variants]
    BY <1>3 DEF WriteType, TypeOK
  <2> QED BY <1>1, <2>1
<1>6. to \in {"stored", "failed"} /\ to # "sent" /\ to # "storing"
  OBVIOUS
<1> HIDE DEF write, by, to
<1>7. by # 0 => /\ by \in DOMAIN fetches /\ fetches[by].phase = "storing"
                /\ \A i \in 1..Len(pendingStore') : pendingStore'[i].by # by
  <2> SUFFICES ASSUME by # 0
               PROVE  /\ by \in DOMAIN fetches /\ fetches[by].phase = "storing"
                      /\ \A i \in 1..Len(pendingStore') : pendingStore'[i].by # by
    OBVIOUS
  <2>1. 1 \in 1..Len(pendingStore)
    BY <1>3
  <2>2. \A i \in 1..Len(pendingStore') :
          /\ i + 1 \in 1..Len(pendingStore) /\ i + 1 # 1
          /\ pendingStore'[i].by = pendingStore[i + 1].by
    BY <1>3
  <2> QED BY <2>1, <2>2 DEF WriteInv, by
<1>8. /\ DOMAIN fetches' = DOMAIN fetches
      /\ \A m \in DOMAIN fetches : m # by => fetches'[m] = fetches[m]
      /\ by # 0 => fetches'[by] = [fetches[by] EXCEPT !.phase = to]
  BY <1>1, <1>7
<1>9. \A m \in DOMAIN fetches :
        /\ fetches'[m] \in FetchType
        /\ fetches'[m].user = fetches[m].user /\ fetches'[m].keys = fetches[m].keys
        /\ fetches'[m].generation = fetches[m].generation
        /\ fetches'[m].backoff = fetches[m].backoff
        /\ IsNow(m)' <=> IsNow(m)
        /\ fetches'[m].phase = "sent" <=> fetches[m].phase = "sent"
  <2> SUFFICES ASSUME NEW m \in DOMAIN fetches
               PROVE  /\ fetches'[m] \in FetchType
                      /\ fetches'[m].user = fetches[m].user /\ fetches'[m].keys = fetches[m].keys
                      /\ fetches'[m].generation = fetches[m].generation
                      /\ fetches'[m].backoff = fetches[m].backoff
                      /\ fetches'[m].phase = "sent" <=> fetches[m].phase = "sent"
    BY <1>2 DEF IsNow
  <2>1. fetches[m] \in FetchType /\ m # 0
    BY Types DEF Numbers
  <2>2. CASE m # by
    BY <1>8, <2>1, <2>2
  <2>3. CASE m = by
    BY <1>6, <1>7, <1>8, <2>1, <2>3 DEF FetchType
  <2> QED BY <2>2, <2>3
<1>10. TypeOK'
  <2>1. \A m \in DOMAIN fetches' :
          fetches'[m] \in [user : Users, keys : Options, generation : 0..MaxSequence,
                           backoff : 0..MaxSequence,
                           phase : {"sent", "storing", "stored", "failed"}]
    BY <1>8, <1>9 DEF FetchType
  <2>2. pendingStore' \in Seq([values : [Keys -> Variants], by : 0..MaxSequence])
    BY <1>3 DEF WriteType
  <2>3. variants' \in [Keys -> Variants] /\ toLoad' \in {<<>>} \cup {<<v>> : v \in [Keys -> Variants]}
    BY <1>2 DEF TypeOK
  <2>4. putFailed' \in BOOLEAN
    BY <1>1
  <2>5. /\ DOMAIN fetches' \subseteq Numbers /\ lastFetchFailed' \in BOOLEAN
        /\ user' \in Users /\ isRunning' \in BOOLEAN
        /\ {fetchSequenceNumber', fetchGeneration', storedFetchSequenceNumber',
            storedFullFetchSequenceNumber', lastFetchMetadataSequenceNumber'} \subseteq 0..MaxSequence
    BY <1>2, <1>8 DEF TypeOK
  <2> QED BY <1>2, <1>5, <2>1, <2>2, <2>3, <2>4, <2>5 DEF TypeOK
<1>11. NumberInv' /\ GenerationInv' /\ RetriesAreCurrent' /\ JoinInv' /\ NoDuplicateRequests'
  BY <1>2, <1>8, <1>9 DEF NumberInv, GenerationInv, RetriesAreCurrent, JoinInv,
                          NoDuplicateRequests, IsNow
<1>12. WriteInv'
  <2>1. \A i \in 1..Len(pendingStore') :
          /\ i + 1 \in 1..Len(pendingStore) /\ i \in Int
          /\ pendingStore'[i] = pendingStore[i + 1]
    BY <1>3
  <2>2. ASSUME NEW i \in 1..Len(pendingStore'), pendingStore'[i].by # 0
        PROVE  /\ pendingStore'[i].by \in DOMAIN fetches'
               /\ fetches'[pendingStore'[i].by].phase = "storing"
    <3>1. pendingStore'[i].by # by
      <4>1. CASE by = 0
        BY <2>2, <4>1
      <4>2. CASE by # 0
        BY <1>7, <4>2
      <4> QED BY <4>1, <4>2
    <3> QED BY <1>8, <2>1, <2>2, <3>1 DEF WriteInv
  <2>3. ASSUME NEW i \in 1..Len(pendingStore'), NEW j \in 1..Len(pendingStore'),
               pendingStore'[i].by # 0, pendingStore'[i].by = pendingStore'[j].by
        PROVE  i = j
    <3>1. i + 1 = j + 1
      BY SMTT(60), <2>1, <2>3 DEF WriteInv
    <3> QED BY <2>1, <3>1
  <2> QED BY <2>2, <2>3 DEF WriteInv
<1>13. AnswerInv'
  BY <1>2, <1>8, <1>9 DEF AnswerInv, NewestIsShown
<1>14. FreshnessInv'
  <2>1. IsPending => IsPending'
    BY <1>2, <1>8, <1>9 DEF IsPending
  <2> QED BY <1>2, <1>8, <1>9, <2>1 DEF FreshnessInv
<1>15. LoadInv'
  BY <1>2, <1>4 DEF LoadInv
<1>16. CacheIsKept'
  <2>1. DiskFollowsCache
    BY DEF CacheIsKept
  <2>2. pendingStore[Len(pendingStore)].values = variants
    BY <1>1, <1>4, <2>1 DEF DiskFollowsCache
  <2>3. CASE pendingStore' = <<>>
    <3>1. Len(pendingStore) = 1
      BY <1>3, <2>3, EmptySeq
    <3> QED BY <1>1, <1>2, <2>2, <2>3, <3>1 DEF CacheIsKept, ClearIsFinal, DiskFollowsCache, write
  <2>4. CASE pendingStore' # <<>>
    <3>1. Len(pendingStore') >= 1
      BY <1>3, <2>4, EmptySeq, LenProperties
    <3>2. pendingStore'[Len(pendingStore')] = pendingStore[Len(pendingStore)]
      BY <1>3, <3>1
    <3> QED BY <1>2, <2>2, <2>4, <3>2 DEF CacheIsKept, ClearIsFinal, DiskFollowsCache
  <2> QED BY <2>3, <2>4
<1> QED BY <1>10, <1>11, <1>12, <1>13, <1>14, <1>15, <1>16


-----------------------------------------------------------------------------
(* The theorems.                                                             *)

LEMMA InitInv == Init => Inv
<1> SUFFICES ASSUME Init PROVE Inv
  OBVIOUS
<1>1. /\ DOMAIN NoEntries = {} /\ -1 \in -1..MaxSequence /\ 0 \in 0..MaxSequence
      /\ 0 \in Variants /\ Absent \in Variants
  BY ExperimentFetchAssumption DEF NoEntries, Variants
<1>2. disk \in [Keys -> Variants] /\ NoVariants \in [Keys -> Variants] /\ toLoad = <<disk>>
  BY <1>1 DEF Init, NoVariants
<1>3. /\ user \in Users /\ isRunning = FALSE
      /\ fetchSequenceNumber = 0 /\ fetchGeneration = 0
      /\ storedFetchSequenceNumber = 0 /\ storedFullFetchSequenceNumber = 0
      /\ storedKeySequenceNumbers = [k \in Keys |-> 0]
      /\ lastFetchMetadataSequenceNumber = 0 /\ lastFetchFailed = FALSE
      /\ variants = NoVariants /\ pendingStore = <<>>
      /\ inFlightFetches = NoEntries /\ retryBackoffs = NoEntries /\ fetches = NoEntries
      /\ newest = NoAnswer /\ settled = [number |-> 0, failed |-> FALSE]
      /\ cleared = -1 /\ putFailed = FALSE
  BY DEF Init
<1>4. TypeOK
  <2>1. /\ newest \in [Keys -> [number : 0..MaxSequence, present : BOOLEAN]]
        /\ settled \in [number : 0..MaxSequence, failed : BOOLEAN]
        /\ pendingStore \in Seq([values : [Keys -> Variants], by : 0..MaxSequence])
    BY <1>1, <1>3, EmptySeq DEF NoAnswer
  <2> QED BY <1>1, <1>2, <1>3, <2>1 DEF TypeOK
<1>5. NumberInv /\ GenerationInv /\ RetriesAreCurrent /\ JoinInv /\ NoDuplicateRequests
  BY <1>1, <1>3 DEF NumberInv, GenerationInv, RetriesAreCurrent, JoinInv, NoDuplicateRequests,
                    NoAnswer
<1>6. WriteInv /\ FreshnessInv
  <2>1. Len(pendingStore) = 0 /\ 1..0 = {}
    BY <1>3
  <2>2. WriteInv
    BY <2>1 DEF WriteInv
  <2>3. FreshnessInv
    BY <1>1, <1>3 DEF FreshnessInv
  <2> QED BY <2>2, <2>3
<1>7. AnswerInv
  BY <1>1, <1>3 DEF AnswerInv, NewestIsShown, NoAnswer
<1>8. LoadInv
  BY <1>3, <1>2 DEF LoadInv, Init
<1>9. CacheIsKept
  BY <1>2, <1>3 DEF CacheIsKept, ClearIsFinal, DiskFollowsCache, NoVariants
<1> QED BY <1>4, <1>5, <1>6, <1>7, <1>8, <1>9 DEF Inv

LEMMA NextInv ==
  ASSUME Inv, AwaitsCacheReady, Next
  PROVE  Inv'
<1>1. CASE LoadCompletes
  BY <1>1, LoadStep
<1>2. CASE \/ \E u \in Users : setUser(u) \/ \E keys \in Options : fetch(u, keys)
           \/ start \/ stop \/ clear
  BY <1>2, CallStep
<1>3. ASSUME NEW n \in DOMAIN fetches, NEW present \in SUBSET Keys, Response(n, present)
      PROVE  Inv'
  BY <1>3, ResponseStep
<1>4. ASSUME NEW n \in DOMAIN fetches, NEW retriable \in BOOLEAN, Failure(n, retriable)
      PROVE  Inv'
  <2>1. /\ Catches(n, retriable) /\ fetches[n].phase # "storing"
        /\ UNCHANGED <<identity, fetchSequenceNumber, stored, cache, toLoad, storage, newest, cleared>>
    BY <1>4 DEF Failure
  <2> QED BY <2>1, CatchStep
<1>5. ASSUME NEW n \in DOMAIN fetches, Stored(n)
      PROVE  Inv'
  BY <1>5, StoredStep
<1>6. ASSUME NEW n \in DOMAIN fetches, NotStored(n)
      PROVE  Inv'
  <2>1. /\ Catches(n, TRUE) /\ fetches[n].phase # "storing"
        /\ UNCHANGED <<identity, fetchSequenceNumber, stored, cache, toLoad, storage, newest, cleared>>
    BY <1>6 DEF NotStored
  <2> QED BY <2>1, CatchStep
<1>7. ASSUME NEW ok \in BOOLEAN, Put(ok)
      PROVE  Inv'
  BY <1>7, PutStep
<1>8. ASSUME NEW b \in DOMAIN retryBackoffs, Retry(b)
      PROVE  Inv'
  BY <1>8, RetryStep
<1> QED BY <1>1, <1>2, <1>3, <1>4, <1>5, <1>6, <1>7, <1>8 DEF Next

LEMMA UnchangedInv ==
  ASSUME Inv, UNCHANGED vars
  PROVE  Inv'
<1>1. UNCHANGED <<user, fetchGeneration, fetchSequenceNumber, stored, metadata, cache,
                  requests, toLoad, storage, newest, settled, cleared>> /\ isRunning' = isRunning
  BY DEF vars, identity
<1>2. isRunning' \in BOOLEAN
  BY <1>1 DEF Inv, TypeOK
<1> QED BY <1>1, <1>2, StutterStep

LEMMA Invariant ==
  ASSUME AwaitsCacheReady
  PROVE  Spec => []Inv
<1>1. Inv /\ [Next]_vars => Inv'
  BY NextInv, UnchangedInv
<1> QED BY InitInv, <1>1, PTL DEF Spec

\* When an invariant holds and no request of this generation is still storing or
\* about to settle, the freshness is that of the newest fetch that has settled.
LEMMA FreshnessIsNewest == Inv => MetadataIsNewest
<1> SUFFICES ASSUME Inv,
                    \A n \in DOMAIN fetches :
                      fetches[n].phase = "sent" \/ fetches[n].generation # fetchGeneration
             PROVE  /\ lastFetchMetadataSequenceNumber = settled.number
                    /\ lastFetchFailed = settled.failed
  BY DEF MetadataIsNewest
<1>1. ~IsPending
  BY DEF IsPending, IsNow
<1> QED BY <1>1 DEF Inv, FreshnessInv

\* Whatever order the server answers in, and whatever fails, is retried, is
\* cancelled or overtaken by a change of the user in between: the newest answer
\* that has a variant for a key is shown, and the freshness that the client
\* reports is that of the newest fetch of the generation.
THEOREM AnswersComeInOrder ==
  ASSUME AwaitsCacheReady
  PROVE  Spec => []AnswersInOrder
<1>1. Inv => AnswersInOrder
  BY FreshnessIsNewest DEF Inv, AnswersInOrder, AnswerInv
<1> QED BY <1>1, Invariant, PTL

\* After clear nothing comes back that was stored or requested before it, and
\* the storage ends with the variants that are shown, in whatever order answers,
\* clears and writes meet.
THEOREM TheCacheIsCleared ==
  ASSUME AwaitsCacheReady
  PROVE  Spec => []CacheIsKept
<1>1. Inv => CacheIsKept
  BY DEF Inv
<1> QED BY <1>1, Invariant, PTL

\* What a response puts into the cache is its own number.
LEMMA ResponseStores ==
  ASSUME Inv, NEW n \in DOMAIN fetches, NEW present, Response(n, present),
         NEW k \in Keys, variants'[k] # variants[k], variants'[k] \in DOMAIN fetches
  PROVE  fetches[variants'[k]].user = user /\ IsNow(variants'[k])
<1> USE DEF Inv
<1>1. /\ n \in Nat /\ storedFullFetchSequenceNumber \in Nat /\ fetches[n].keys \in Options
      /\ \A m \in DOMAIN fetches : m # Absent
  <2>1. n \in Nat /\ storedFullFetchSequenceNumber \in Nat
    BY Types DEF Numbers
  <2>2. fetches[n].keys \in Options
    BY Types DEF FetchType
  <2>3. \A m \in DOMAIN fetches : m \in Int
    BY Types DEF Numbers
  <2>4. Absent \notin Int
    BY ExperimentFetchAssumption
  <2> QED BY <2>1, <2>2, <2>3, <2>4
<1>2. \/ Superseded(n) /\ variants' = variants
      \/ /\ n > storedFullFetchSequenceNumber
         /\ variants'[k] \in {variants[k], n, Absent}
  <2>1. CASE StoreAll(n, present)
    BY <2>1 DEF StoreAll, Superseded, cache
  <2>2. CASE StoreSome(n, fetches[n].keys, present)
    <3> DEFINE taken == {j \in fetches[n].keys : ~IsCovered(j, n)}
    <3>1. CASE taken = {} /\ Superseded(n)
      BY <3>1 DEF Superseded, cache
    <3>2. CASE /\ taken # {}
               /\ variants' = [j \in Keys |-> IF j \notin taken THEN variants[j]
                                              ELSE IF j \in present THEN n ELSE Absent]
      <4>1. n > storedFullFetchSequenceNumber
        BY <1>1, <3>2 DEF IsCovered
      <4> QED BY <3>2, <4>1
    <3> QED BY <2>2, <3>1, <3>2 DEF StoreSome
  <2> QED BY <2>1, <2>2 DEF Response
<1>3. variants'[k] = n /\ n > storedFullFetchSequenceNumber
  BY <1>1, <1>2
<1>4. IsNow(n)
  BY <1>1, <1>3 DEF GenerationInv
<1> QED BY <1>3, <1>4 DEF GenerationInv

LEMMA StoringIsCurrent ==
  ASSUME Inv, Next
  PROVE  \A k \in Keys :
           variants'[k] # variants[k] /\ variants'[k] \in DOMAIN fetches =>
             /\ fetches[variants'[k]].user = user
             /\ fetches[variants'[k]].generation = fetchGeneration
<1> USE DEF Inv
<1> SUFFICES ASSUME NEW k \in Keys, variants'[k] # variants[k], variants'[k] \in DOMAIN fetches
             PROVE  fetches[variants'[k]].user = user /\ IsNow(variants'[k])
  BY DEF IsNow
<1>1. CASE LoadCompletes
  BY <1>1 DEF LoadCompletes, LoadInv, NoEntries
<1>2. CASE clear
  <2>1. variants'[k] = Absent
    BY <1>2 DEF clear, NoVariants
  <2> QED BY <2>1, Types, ExperimentFetchAssumption DEF Numbers
<1>3. CASE UNCHANGED variants
  BY <1>3
<1>4. ASSUME NEW n \in DOMAIN fetches, NEW present \in SUBSET Keys, Response(n, present)
      PROVE  fetches[variants'[k]].user = user /\ IsNow(variants'[k])
  BY <1>4, ResponseStores
<1>5. \/ LoadCompletes \/ clear \/ UNCHANGED variants
      \/ \E n \in DOMAIN fetches, present \in SUBSET Keys : Response(n, present)
  BY DEF Next, setUser, fetch, FetchNow, start, stop, cache, Failure, Stored, NotStored, Put, Retry
<1> QED BY <1>1, <1>2, <1>3, <1>4, <1>5

\* Neither a request nor a retry nor a response outlives the generation it was
\* begun for: no two equal requests are in flight, no call joins one that is
\* discarded, and a response changes the cache only for the user it was asked
\* for, whichever await a change of the user, a clear or a stop fell into.
THEOREM FetchesStayCurrent ==
  ASSUME AwaitsCacheReady
  PROVE  Spec => FetchesAreCurrent
<1>1. Inv => RetriesAreCurrent /\ NoDuplicateRequests
  BY DEF Inv
<1>2. Inv /\ [Next]_vars =>
        [\A k \in Keys :
           variants'[k] # variants[k] /\ variants'[k] \in DOMAIN fetches =>
             /\ fetches[variants'[k]].user = user
             /\ fetches[variants'[k]].generation = fetchGeneration]_vars
  BY StoringIsCurrent
<1> QED BY <1>1, <1>2, Invariant, PTL DEF Spec, FetchesAreCurrent, StoredIsCurrent
=============================================================================
