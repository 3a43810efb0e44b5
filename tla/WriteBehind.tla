---------------------------- MODULE WriteBehind ----------------------------
(***************************************************************************)
(* The analytics stores of src/native/storage.ts: a write goes to an       *)
(* in-memory map and reaches the native storage when a timer, a flush of   *)
(* the client or the app going to the background writes the map out.       *)
(*                                                                         *)
(* No function of the file awaits anything, so each call is one step of    *)
(* the JavaScript thread.  What can be seen between the steps of a call is *)
(* how far the native storage got before it threw: setBatch and            *)
(* removeBatch go key by key (cpp/bindings/HybridAmplitudeStorage.cpp),    *)
(* and a call that throws may still have written (SegmentStore).           *)
(*                                                                         *)
(* The generation of a write stands for its value.  A killed process loses *)
(* the map; its counter starts again at zero in the code and goes on here, *)
(* which keeps the values of two processes apart.                          *)
(***************************************************************************)
EXTENDS Integers, Sequences, FiniteSets

CONSTANTS Stores,     \* namespaces: events and session of a client
          Names,      \* keys of a store
          MaxWrites,  \* bound: calls of set
          MaxKills    \* bound: times the process is killed

WriteBehindAssumption == MaxWrites \in Nat /\ MaxKills \in Nat

VARIABLES
  pendingDiskWrites,  \* the entries in the order of the map: [key, generation]
  nextDiskWriteGeneration,
  flushTimer,         \* whether the timer is set
  flushRetryAttempt,
  disk,               \* what the native storage holds: key -> generation, 0 for none
  kills,
  (* what is observed of the run *)
  latest,             \* key -> what the caller last wrote, 0 after a remove
  unsure,             \* keys with a remove that threw since they were last written
  mayHold             \* key -> what the disk may hold for all the callers were told

buffer   == <<pendingDiskWrites, nextDiskWriteGeneration, flushTimer, flushRetryAttempt>>
observed == <<latest, unsure, mayHold>>
vars == <<buffer, disk, kills, observed>>

Keys == Stores \X Names
Generations == 1..MaxWrites

\* PERSIST_FLUSH_RETRY_MAX_MILLIS is reached at the fifth retry in a row: the
\* attempts beyond it make no difference.
LastRetry == 5

Init ==
  /\ pendingDiskWrites = <<>>
  /\ nextDiskWriteGeneration = 0
  /\ flushTimer = FALSE
  /\ flushRetryAttempt = 0
  /\ disk = [k \in Keys |-> 0]
  /\ kills = 0
  /\ latest = [k \in Keys |-> 0]
  /\ unsure = {}
  /\ mayHold = [k \in Keys |-> {0}]

Positions(k) == {i \in 1..Len(pendingDiskWrites) : pendingDiskWrites[i].key = k}

-----------------------------------------------------------------------------
(* Writing and flushing                                                    *)

\* Map.set keeps the place of a key that is already there.
Put(k, g) ==
  IF Positions(k) = {}
  THEN Append(pendingDiskWrites, [key |-> k, generation |-> g])
  ELSE [i \in DOMAIN pendingDiskWrites |->
          IF i \in Positions(k) THEN [key |-> k, generation |-> g] ELSE pendingDiskWrites[i]]

set(k) ==
  LET g == nextDiskWriteGeneration + 1
  IN /\ nextDiskWriteGeneration < MaxWrites
     /\ nextDiskWriteGeneration' = g
     /\ pendingDiskWrites' = Put(k, g)
     /\ flushTimer' = TRUE
     /\ latest' = [latest EXCEPT ![k] = g]
     /\ unsure' = unsure \ {k}
     /\ mayHold' = [mayHold EXCEPT ![k] = @ \cup {g}]
     /\ UNCHANGED <<flushRetryAttempt, disk, kills>>

\* The disk after the first n entries of the map were written.
Written(n) ==
  [k \in Keys |->
     IF \E i \in 1..n : pendingDiskWrites[i].key = k
     THEN pendingDiskWrites[CHOOSE i \in 1..n : pendingDiskWrites[i].key = k].generation
     ELSE disk[k]]

\* setBatch wrote everything.  Nothing ran in between, so every generation is
\* still the one that was written and the second round of the loop finds nothing.
FlushSucceeds ==
  /\ pendingDiskWrites # <<>>
  /\ disk' = Written(Len(pendingDiskWrites))
  /\ pendingDiskWrites' = <<>>
  /\ flushTimer' = FALSE
  /\ flushRetryAttempt' = 0
  /\ mayHold' = [k \in Keys |-> IF Positions(k) = {} THEN mayHold[k] ELSE {disk'[k]}]
  /\ UNCHANGED <<nextDiskWriteGeneration, kills, latest, unsure>>

FlushFails_WithoutRetry(n) ==
  /\ pendingDiskWrites # <<>> /\ n \in 0..Len(pendingDiskWrites)
  /\ disk' = Written(n)
  /\ flushTimer' = FALSE
  /\ UNCHANGED <<pendingDiskWrites, nextDiskWriteGeneration, flushRetryAttempt, kills, observed>>

\* setBatch threw after n entries, or getAmplitudeStorage before the first:
\* everything stays in the map and the timer is set for a retry.
FlushFails(n) ==
  /\ pendingDiskWrites # <<>> /\ n \in 0..Len(pendingDiskWrites)
  /\ disk' = Written(n)
  /\ flushTimer' = TRUE
  /\ flushRetryAttempt' = IF flushRetryAttempt < LastRetry THEN flushRetryAttempt + 1 ELSE LastRetry
  /\ UNCHANGED <<pendingDiskWrites, nextDiskWriteGeneration, kills, observed>>

FlushNothing ==
  /\ pendingDiskWrites = <<>>
  /\ flushTimer' = FALSE
  /\ flushRetryAttempt' = 0
  /\ UNCHANGED <<pendingDiskWrites, nextDiskWriteGeneration, disk, kills, observed>>

FlushOutcome ==
  \/ FlushSucceeds
  \/ \E n \in 0..Len(pendingDiskWrites) : FlushFails(n)
  \/ FlushNothing

\* The callback of setTimeout; the exception is reported and swallowed.
TimerFires == flushTimer /\ FlushOutcome

\* The client's flush and the app leaving the foreground.
flushPendingDiskWrites == FlushOutcome

-----------------------------------------------------------------------------
(* Removing                                                                *)

\* The map without the keys of S, in its order.
Without(S) ==
  LET upTo[n \in 0..Len(pendingDiskWrites)] ==
        IF n = 0 THEN <<>>
        ELSE IF pendingDiskWrites[n].key \in S THEN upTo[n - 1]
        ELSE Append(upTo[n - 1], pendingDiskWrites[n])
  IN upTo[Len(pendingDiskWrites)]

Discard_Nothing(S) == UNCHANGED buffer

\* discardPendingDiskWrite and discardPendingDiskWritesByPrefix.
Discard(S) ==
  /\ pendingDiskWrites' = Without(S)
  /\ flushTimer' = IF Without(S) = <<>> THEN FALSE ELSE flushTimer
  /\ flushRetryAttempt' = IF Without(S) = <<>> THEN 0 ELSE flushRetryAttempt
  /\ UNCHANGED nextDiskWriteGeneration

\* The native storage removed the keys of gone and then returned or threw.
Removed(S, gone, threw) ==
  /\ disk' = [k \in Keys |-> IF k \in gone THEN 0 ELSE disk[k]]
  /\ latest' = [k \in Keys |-> IF k \in S THEN 0 ELSE latest[k]]
  /\ unsure' = IF threw THEN unsure \cup S ELSE unsure \ S
  /\ mayHold' = [k \in Keys |-> IF k \notin S THEN mayHold[k]
                                ELSE IF threw THEN mayHold[k] \cup {0} ELSE {0}]
  /\ UNCHANGED kills

remove(k) ==
  /\ Discard({k})
  /\ \/ Removed({k}, {k}, FALSE)
     \/ \E gone \in SUBSET {k} : Removed({k}, gone, TRUE)

KeysOf(store) == {k \in Keys : k[1] = store}
Stored(store) == {k \in KeysOf(store) : disk[k] # 0}

\* The keys of the store are listed and removed one by one, in the order of
\* the listing, which the storage does not promise.
reset(store) ==
  /\ Discard(KeysOf(store))
  /\ \/ Removed(KeysOf(store), Stored(store), FALSE)
     \/ \E gone \in SUBSET Stored(store) : Removed(KeysOf(store), gone, TRUE)

-----------------------------------------------------------------------------
(* The process is killed and starts again; callers go by what they read.   *)

Kill ==
  /\ kills < MaxKills
  /\ kills' = kills + 1
  /\ pendingDiskWrites' = <<>>
  /\ flushTimer' = FALSE
  /\ flushRetryAttempt' = 0
  /\ latest' = disk
  /\ unsure' = {}
  /\ mayHold' = [k \in Keys |-> {disk[k]}]
  /\ UNCHANGED <<nextDiskWriteGeneration, disk>>

Next ==
  \/ \E k \in Keys : set(k) \/ remove(k)
  \/ \E store \in Stores : reset(store)
  \/ TimerFires
  \/ flushPendingDiskWrites
  \/ Kill

Spec == Init /\ [][Next]_vars

\* Timers fire, and the native storage does not fail at every retry.
Fairness == WF_vars(flushTimer /\ FlushSucceeds)
FairSpec == Spec /\ Fairness

-----------------------------------------------------------------------------
(* Properties                                                              *)

TypeOK ==
  /\ pendingDiskWrites \in Seq([key : Keys, generation : Generations])
  /\ \A k \in Keys : Cardinality(Positions(k)) <= 1
  /\ nextDiskWriteGeneration \in 0..MaxWrites
  /\ flushTimer \in BOOLEAN /\ flushRetryAttempt \in 0..LastRetry
  /\ disk \in [Keys -> 0..MaxWrites] /\ kills \in 0..MaxKills
  /\ latest \in [Keys -> 0..MaxWrites] /\ unsure \subseteq Keys
  /\ mayHold \in [Keys -> SUBSET (0..MaxWrites)]

\* What getRaw returns.
getRaw(k) ==
  IF Positions(k) = {} THEN disk[k]
  ELSE pendingDiskWrites[CHOOSE i \in Positions(k) : TRUE].generation

\* A read returns what was last written or removed, however far the disk is
\* behind and wherever a flush broke off, unless the removal itself threw.
ReadsLatest == \A k \in Keys \ unsure : getRaw(k) = latest[k]

\* A restart finds, of each key, what the last complete flush or removal left
\* or something written later: no flush brings a removed value back, and none
\* undoes what an earlier one made durable.
DiskIsRecent == \A k \in Keys : disk[k] \in mayHold[k]

\* The timer is set exactly while there is something to write: no write is
\* stranded in memory by a failed flush or by a removal next to it, and an idle
\* store wakes nobody and starts the next backoff from the shortest delay.
TimerGuardsPending ==
  /\ flushTimer <=> pendingDiskWrites # <<>>
  /\ pendingDiskWrites = <<>> => flushRetryAttempt = 0

\* Unless the storage fails for good, there is again and again a moment at
\* which everything that was written and not lost with the process is durable,
\* so each write becomes durable or is replaced or removed.
EventuallyDurable == []<>(\A k \in Keys \ unsure : disk[k] = latest[k])
=============================================================================
