---------------------------- MODULE SegmentStore ----------------------------
(***************************************************************************)
(* JsonlSegmentStore: the append-only, segmented log behind every disk     *)
(* namespace (cpp/core/JsonlSegmentStore.cpp), over the file operations    *)
(* of PosixFileAdapter.                                                    *)
(*                                                                         *)
(* Every public operation runs under one mutex, so calls do not            *)
(* interleave with each other.  What they interleave with is the file      *)
(* system: any file operation may fail, the process may die between two    *)
(* of them or inside an append, and the platform may remove the            *)
(* directory.  A step of the model is therefore the code between two       *)
(* changes of the disk; pc says where the code is.                         *)
(*                                                                         *)
(* A line of the log has length 1 and a segment holds SegmentCapacity      *)
(* lines.  A file is the sequence of its lines; Torn is a last line        *)
(* without its newline, and Merged what a line appended behind a torn one  *)
(* becomes.                                                                *)
(***************************************************************************)
EXTENDS Integers, Sequences, FiniteSets, FiniteSetsExt

CONSTANTS Keys, Values,
          Tombstone,        \* the value a delete marker carries
          Torn, Merged,     \* lines that are not records
          None,             \* the answer for a key that is not there
          MaxSegmentId,     \* the largest segment id (2^32 - 1 in the code)
          SegmentCapacity,  \* maxSegmentBytes, in lines
          Outage,           \* any number of file operations may fail
          MaxFaults,        \* bound: how many may fail without an outage
          MaxRestarts,      \* bound: deaths of the process
          MaxWipes          \* bound: removals of the directory

ASSUME SegmentStoreAssumption ==
  /\ Tombstone \notin Values /\ None \notin Values \cup {"ok", "threw"}
  /\ "pending" \notin Values \cup {None}
  /\ Torn # Merged
  /\ {Torn, Merged} \cap [key : Keys, value : Values \cup {Tombstone}] = {}
  /\ MaxSegmentId \in Nat
  /\ SegmentCapacity \in Nat \ {0}
  /\ Outage \in BOOLEAN
  /\ {MaxFaults, MaxRestarts, MaxWipes} \subseteq Nat

Segments == 0..MaxSegmentId
Records == [key : Keys, value : Values \cup {Tombstone}]
Lines == Records \cup {Torn, Merged}
Positions == [seg : Segments, pos : Nat \ {0}]
NoOp == [kind |-> "none"]
Ops == [kind : {"set", "get", "delete", "migrate"}, key : Keys,
        value : Values \cup {None}]

VARIABLES
  (* the disk *)
  disk,              \* segment id -> file, for the files that exist
  directory,         \* the namespace's directory exists
  (* the fields of the store object *)
  index,             \* key -> where its live record is
  segmentBytes,      \* complete lines of each segment; 0 also when unknown
  segmentDeadBytes,  \* how many of them are not live records
  unreadable,        \* unreadableSegments_
  partiallyRead,     \* partiallyReadSegments_
  active,            \* activeSegment_
  appendsDisabled,
  loaded,
  (* the running call: its arguments, program counter, locals, answer *)
  op, pc, frame, out,
  (* what is observed of the run: has the call reached the log, did it meet *)
  (* a failure; and the bounded counters of what the environment did        *)
  applied, troubled, faults, restarts, wipes

files    == <<disk, directory>>
sizes    == <<segmentBytes, segmentDeadBytes>>
quality  == <<unreadable, partiallyRead, appendsDisabled, loaded>>
memory   == <<index, sizes, quality, active>>
call     == <<op, frame, out, applied>>
trouble  == <<troubled, faults>>
counters == <<restarts, wipes>>
vars == <<files, memory, call, pc, trouble, counters>>

-----------------------------------------------------------------------------
(* Files                                                                   *)

IsTorn(file) == file # <<>> /\ file[Len(file)] = Torn

\* CompletePrefixLength: the lines up to the last newline.
CompleteLength(file) == IF IsTorn(file) THEN Len(file) - 1 ELSE Len(file)

\* A line appended behind a torn one has no newline before it.
Appended(file, line) ==
  IF IsTorn(file)
  THEN [file EXCEPT ![Len(file)] = IF line = Torn THEN Torn ELSE Merged]
  ELSE Append(file, line)

FileOf(s) == IF s \in DOMAIN disk THEN disk[s] ELSE <<>>

WithFile(s, file) ==
  [t \in DOMAIN disk \cup {s} |-> IF t = s THEN file ELSE disk[t]]

WithoutFile(s) == [t \in DOMAIN disk \ {s} |-> disk[t]]

IsRecord(line) == line \notin {Torn, Merged}

\* The positions of key k's records, tombstones included, in the segments S.
Occurrences(k, S) ==
  UNION {{[seg |-> s, pos |-> i] :
            i \in {j \in DOMAIN disk[s] : IsRecord(disk[s][j]) /\ disk[s][j].key = k}} :
         s \in S}

\* The last of them, reading the segments in order of id.
LastOf(P) ==
  CHOOSE p \in P : \A q \in P :
    q.seg < p.seg \/ (q.seg = p.seg /\ q.pos <= p.pos)

\* The last record of a key wins; a tombstone erases it.
ReadIndex(S) ==
  LET Last(k) == LastOf(Occurrences(k, S))
      live == {k \in Keys : /\ Occurrences(k, S) # {}
                            /\ disk[Last(k).seg][Last(k).pos].value # Tombstone}
  IN  [k \in live |-> Last(k)]

\* What the next process finds on the disk if it can read all of it.
Contents ==
  [k \in Keys |->
     LET all == Occurrences(k, DOMAIN disk)
         last == LastOf(all)
         value == disk[last.seg][last.pos].value
     IN  IF all = {} \/ value = Tombstone THEN None ELSE value]

LiveIn(s, idx) == {k \in DOMAIN idx : idx[k].seg = s}

\* HasMissingSegment: a segment with committed lines has no file.
HasMissingSegment == \E s \in Segments : segmentBytes[s] > 0 /\ s \notin DOMAIN disk

\* What a listing of the directory is asked after a file could not be opened.
MustReload == HasMissingSegment

\* n file operations that fail, and one that does not.
Break(n) ==
  /\ Outage \/ faults + n <= MaxFaults
  /\ faults' = IF Outage THEN faults ELSE faults + n
  /\ troubled' = (troubled \/ (op # NoOp /\ n > 0))

Breaks == Break(1)

Works == UNCHANGED trouble

-----------------------------------------------------------------------------
(* The store object before Load, and the locals of a call.                 *)

NoLocals ==
  [attempt |-> 0,         \* AppendLineLocked's loop counter
   before |-> 0,          \* segmentBeforeRotation
   retry |-> FALSE,       \* restoring in order to try again
   target |-> 0,          \* the segment being compacted
   afterCompact |-> "",   \* where CompactSegment returns to
   afterLoad |-> "idle",  \* where Load returns to
   trim |-> {},           \* segments Load still has to trim or remove
   untrimmed |-> FALSE,   \* failedToTrimTail
   highest |-> 0,         \* the highest listed segment
   reclaim |-> {}]        \* candidates of ReclaimSegmentsWithoutLiveRecords

NoSizes == [s \in Segments |-> 0]

FreshObject ==
  /\ index' = [k \in {} |-> None]
  /\ segmentBytes' = NoSizes /\ segmentDeadBytes' = NoSizes
  /\ unreadable' = {} /\ partiallyRead' = {}
  /\ active' = 0
  /\ appendsDisabled' = FALSE /\ loaded' = FALSE
  /\ op' = NoOp /\ pc' = "load" /\ frame' = NoLocals /\ out' = "ok"
  /\ applied' = FALSE /\ troubled' = FALSE

Init ==
  /\ disk = [s \in {} |-> <<>>]
  /\ directory = FALSE
  /\ index = [k \in {} |-> None]
  /\ segmentBytes = NoSizes /\ segmentDeadBytes = NoSizes
  /\ unreadable = {} /\ partiallyRead = {}
  /\ active = 0
  /\ appendsDisabled = FALSE /\ loaded = FALSE
  /\ op = NoOp /\ pc = "load" /\ frame = NoLocals /\ out = "ok"
  /\ applied = FALSE /\ troubled = FALSE
  /\ faults = 0 /\ restarts = 0 /\ wipes = 0

-----------------------------------------------------------------------------
(* Load                                                                    *)

\* readDirectory fails, also after ensureDirectory: nothing of the object
\* changes and the caller gives up.
LoadFails ==
  /\ pc = "load"
  /\ Breaks
  /\ directory' \in {directory, TRUE}
  /\ pc' = IF frame.afterLoad = "idle" THEN "idle" ELSE "return"
  /\ out' = IF op = NoOp THEN "ok" ELSE IF op.kind = "get" THEN None ELSE "threw"
  /\ UNCHANGED <<disk, memory, op, frame, applied, counters>>

\* All the files are read, except those in lost, and the object's state is
\* rebuilt from their complete lines.
LoadRead ==
  /\ pc = "load"
  /\ directory' = TRUE
  /\ \E lost \in SUBSET DOMAIN disk :
       LET read == DOMAIN disk \ lost
           bytes == [s \in Segments |-> IF s \in read THEN CompleteLength(disk[s]) ELSE 0]
       IN /\ Break(Cardinality(lost))
          /\ index' = ReadIndex(read)
          /\ segmentBytes' = bytes
          /\ unreadable' = lost
          /\ partiallyRead' =
               lost \cup {s \in read : \E i \in 1..bytes[s] : ~IsRecord(disk[s][i])}
          /\ active' = Max({0} \cup {s \in read : bytes[s] > 0})
          /\ frame' = [frame EXCEPT
                         !.trim = {s \in read : bytes[s] # Len(disk[s]) \/ bytes[s] = 0},
                         !.untrimmed = FALSE,
                         !.highest = Max({0} \cup DOMAIN disk)]
  /\ segmentDeadBytes' = NoSizes
  /\ appendsDisabled' = FALSE
  /\ loaded' = TRUE
  /\ pc' = "trim"
  /\ UNCHANGED <<disk, op, out, applied, counters>>

\* An empty file is removed, a torn one rewritten without its tail.
TrimSegment ==
  /\ pc = "trim" /\ frame.trim # {}
  /\ LET s == Min(frame.trim)
     IN /\ frame' = [frame EXCEPT !.trim = @ \ {s}]
        /\ \/ segmentBytes[s] = 0 /\ disk' = WithoutFile(s)
           \/ /\ segmentBytes[s] > 0 /\ directory
              /\ disk' = WithFile(s, SubSeq(disk[s], 1, segmentBytes[s]))
  /\ Works
  /\ UNCHANGED <<directory, memory, op, pc, out, applied, counters>>

\* It cannot be: a torn tail stays, and nothing may be appended to it.  An
\* empty file that stays does no harm.
TrimFails ==
  /\ pc = "trim" /\ frame.trim # {}
  /\ LET s == Min(frame.trim)
         torn == IsTorn(FileOf(s)) \/ segmentBytes[s] > 0
     IN /\ \/ directory /\ Breaks
           \/ ~directory /\ segmentBytes[s] > 0 /\ Works
        /\ frame' = [frame EXCEPT !.trim = @ \ {s}, !.untrimmed = @ \/ torn]
        /\ partiallyRead' = IF torn THEN partiallyRead \cup {s} ELSE partiallyRead
        /\ active' = Max({active, s})
  /\ UNCHANGED <<files, index, sizes, unreadable, appendsDisabled, loaded,
                 op, pc, out, applied, counters>>

\* The unreadable segments are not all below the highest one that was read.
UnreadableOnTop == unreadable # {} /\ Max(unreadable) >= active

\* New writes go above every segment that was not read and above an untrimmed
\* tail; the remaining sizes follow from the index.
LoadFinish ==
  /\ pc = "trim" /\ frame.trim = {}
  /\ LET blocking == IF frame.untrimmed THEN frame.highest ELSE Max(unreadable)
         skip == frame.untrimmed \/ UnreadableOnTop
         top == IF ~skip THEN active
                ELSE IF blocking < MaxSegmentId THEN blocking + 1
                ELSE IF frame.untrimmed THEN blocking ELSE active
         dead == [s \in Segments |->
                    Max({0, segmentBytes[s] - Cardinality(LiveIn(s, index))})]
     IN /\ active' = top
        /\ appendsDisabled' = (skip /\ blocking = MaxSegmentId)
        /\ segmentDeadBytes' = dead
        /\ frame' = [frame EXCEPT
                       !.reclaim = {s \in Segments \ {top} :
                                      segmentBytes[s] > 0 /\ dead[s] >= segmentBytes[s]}]
  /\ pc' = "reclaim"
  /\ UNCHANGED <<files, index, segmentBytes, unreadable, partiallyRead, loaded,
                 op, out, applied, trouble, counters>>

Reclaim ==
  /\ pc = "reclaim" /\ frame.reclaim # {}
  /\ LET s == Min(frame.reclaim)
     IN frame' = [frame EXCEPT !.reclaim = @ \ {s}, !.target = s,
                               !.afterCompact = "reclaim"]
  /\ pc' = "compact"
  /\ UNCHANGED <<files, memory, op, out, applied, trouble, counters>>

LoadReturns ==
  /\ pc = "reclaim" /\ frame.reclaim = {}
  /\ pc' = frame.afterLoad
  /\ frame' = [frame EXCEPT !.trim = {}, !.untrimmed = FALSE, !.highest = 0,
                            !.target = 0, !.afterCompact = "", !.afterLoad = "idle"]
  /\ UNCHANGED <<files, memory, op, out, applied, trouble, counters>>

-----------------------------------------------------------------------------
(* Calls: EnsureReadyLocked, then the lookup that decides whether the log  *)
(* is written at all.                                                      *)

Invoke(kind, k, v) ==
  /\ pc = "idle"
  /\ op' = [kind |-> kind, key |-> k, value |-> v]
  /\ pc' = IF loaded THEN "lookup" ELSE "load"
  /\ frame' = [NoLocals EXCEPT !.afterLoad = IF loaded THEN "idle" ELSE "lookup"]
  /\ out' = "ok" /\ applied' = FALSE
  /\ UNCHANGED <<files, memory, trouble, counters>>

setDisk(k, v) == Invoke("set", k, v)
getDisk(k) == Invoke("get", k, None)
deleteDisk(k) == Invoke("delete", k, None)
migrateLegacyEntries(k, v) == Invoke("migrate", k, v)

\* Deleting a key that is not indexed, or migrating one that is, does nothing.
NothingToWrite_MigrateOverwrites == op.kind = "delete" /\ op.key \notin DOMAIN index
NothingToWrite ==
  \/ op.kind = "delete" /\ op.key \notin DOMAIN index
  \/ op.kind = "migrate" /\ op.key \in DOMAIN index

LookupWrite ==
  /\ pc = "lookup" /\ op.kind # "get"
  /\ \/ /\ NothingToWrite
        /\ pc' = "return" /\ UNCHANGED out
     \/ /\ ~NothingToWrite /\ appendsDisabled
        /\ pc' = "return" /\ out' = "threw"
     \/ /\ ~NothingToWrite /\ ~appendsDisabled
        /\ pc' = "append" /\ UNCHANGED out
  /\ UNCHANGED <<files, memory, op, frame, applied, trouble, counters>>

\* The line at the indexed position is read back and its value returned,
\* without a look at its key; a line that is not a record has no value, and a
\* key that is not indexed is answered without reading.
LookupRead ==
  /\ pc = "lookup" /\ op.kind = "get"
  /\ \/ op.key \notin DOMAIN index /\ out' = None
     \/ /\ op.key \in DOMAIN index
        /\ LET at == index[op.key]
               file == FileOf(at.seg)
           IN /\ at.pos <= Len(file)
              /\ out' = IF IsRecord(file[at.pos]) THEN file[at.pos].value ELSE None
  /\ pc' = "return"
  /\ UNCHANGED <<files, memory, op, frame, applied, trouble, counters>>

\* readRange fails: the directory is recreated, and when a segment is missing
\* everything is loaded again; the answer is "absent" in any case.
LookupReadFails ==
  /\ pc = "lookup" /\ op.kind = "get" /\ op.key \in DOMAIN index
  /\ \/ Breaks
     \/ index[op.key].pos > Len(FileOf(index[op.key].seg)) /\ Works
  /\ directory' = TRUE
  /\ out' = None
  /\ pc' = IF MustReload THEN "load" ELSE "return"
  /\ frame' = [frame EXCEPT !.afterLoad = IF MustReload THEN "return" ELSE "idle"]
  /\ UNCHANGED <<disk, memory, op, applied, counters>>

Return ==
  /\ pc = "return"
  /\ pc' = "idle"
  /\ op' = NoOp /\ frame' = NoLocals /\ out' = "ok"
  /\ applied' = FALSE /\ troubled' = FALSE
  /\ UNCHANGED <<files, memory, faults, counters>>

-----------------------------------------------------------------------------
(* AppendLineLocked                                                        *)

Throw == pc' = "return" /\ out' = "threw"

HasRoom(s) == segmentBytes[s] + 1 <= SegmentCapacity

\* The part of RotateIfNeeded that opens the next segment.
NextSegment ==
  IF active = MaxSegmentId
  THEN /\ appendsDisabled' = TRUE
       /\ Throw
       /\ UNCHANGED <<active, sizes>>
  ELSE /\ active' = active + 1
       /\ segmentBytes' = [segmentBytes EXCEPT ![active + 1] = 0]
       /\ segmentDeadBytes' = [segmentDeadBytes EXCEPT ![active + 1] = 0]
       /\ pc' = "write"
       /\ UNCHANGED <<appendsDisabled, out>>

\* One turn of the loop: RotateIfNeeded compacts a full active segment that
\* has dead lines before it gives up on it.
AppendLine ==
  /\ pc = "append"
  /\ \/ /\ appendsDisabled
        /\ Throw
        /\ UNCHANGED <<frame, appendsDisabled, active, sizes>>
     \/ /\ ~appendsDisabled
        /\ segmentBytes[active] = 0 \/ HasRoom(active)
        /\ pc' = "write"
        /\ frame' = [frame EXCEPT !.before = active]
        /\ UNCHANGED <<out, appendsDisabled, active, sizes>>
     \/ /\ ~appendsDisabled /\ segmentBytes[active] > 0 /\ ~HasRoom(active)
        /\ segmentDeadBytes[active] > 0
        /\ pc' = "compact"
        /\ frame' = [frame EXCEPT !.before = active, !.target = active,
                                  !.afterCompact = "rotated"]
        /\ UNCHANGED <<out, appendsDisabled, active, sizes>>
     \/ /\ ~appendsDisabled /\ segmentBytes[active] > 0 /\ ~HasRoom(active)
        /\ segmentDeadBytes[active] = 0
        /\ frame' = [frame EXCEPT !.before = active]
        /\ NextSegment
  /\ UNCHANGED <<files, index, unreadable, partiallyRead, loaded,
                 op, applied, trouble, counters>>

AfterRotationCompact ==
  /\ pc = "rotated"
  /\ \/ HasRoom(active) /\ pc' = "write" /\ UNCHANGED <<out, appendsDisabled, active, sizes>>
     \/ ~HasRoom(active) /\ NextSegment
  /\ UNCHANGED <<files, index, unreadable, partiallyRead, loaded,
                 op, frame, applied, trouble, counters>>

\* MaybeCompact: at least half of the segment is dead.
WorthCompacting(s, bytes, dead) == bytes[s] > 0 /\ dead[s] * 2 >= bytes[s]

\* A delete marker is dead as soon as it is written.
MarkerDead ==
  IF op.kind = "delete" THEN [segmentDeadBytes EXCEPT ![active] = @ + 1]
  ELSE segmentDeadBytes

\* The line is on the disk: the rest of SetLocked or of deleteDisk.
Commit ==
  LET k == op.key
      indexed == k \in DOMAIN index
      previous == index[k]
      isDelete == op.kind = "delete"
      bytes == [segmentBytes EXCEPT ![active] = @ + 1]
      dead == IF indexed THEN [MarkerDead EXCEPT ![previous.seg] = @ + 1] ELSE MarkerDead
      compact == /\ indexed
                 /\ isDelete \/ previous.seg # active
                 /\ WorthCompacting(previous.seg, bytes, dead)
  IN /\ segmentBytes' = bytes
     /\ segmentDeadBytes' = dead
     /\ index' = IF isDelete
                 THEN [x \in DOMAIN index \ {k} |-> index[x]]
                 ELSE [x \in DOMAIN index \cup {k} |->
                         IF x = k THEN [seg |-> active, pos |-> segmentBytes[active] + 1]
                         ELSE index[x]]
     /\ applied' = TRUE
     /\ pc' = IF compact THEN "compact" ELSE "return"
     /\ frame' = IF compact
                 THEN [frame EXCEPT !.target = previous.seg, !.afterCompact = "return"]
                 ELSE frame

NewLine == [key |-> op.key,
            value |-> IF op.kind = "delete" THEN Tombstone ELSE op.value]

WriteLine ==
  /\ pc = "write" /\ directory
  /\ disk' = WithFile(active, Appended(FileOf(active), NewLine))
  /\ Commit
  /\ UNCHANGED <<directory, quality, active, op, out, trouble, counters>>

\* appendFile fails: it may have created the file, and may have written a
\* part of the line.
WriteFails ==
  /\ pc = "write"
  /\ \/ /\ directory /\ Breaks
        /\ disk' \in {disk, WithFile(active, FileOf(active)),
                      WithFile(active, Appended(FileOf(active), Torn))}
     \/ ~directory /\ Works /\ UNCHANGED disk
  /\ pc' = "probe"
  /\ UNCHANGED <<directory, memory, op, frame, out, applied, counters>>

\* An empty append tells whether the file can be opened at all.
ProbeOpens ==
  /\ pc = "probe" /\ directory
  /\ disk' = WithFile(active, FileOf(active))
  /\ frame' = [frame EXCEPT !.retry = FALSE]
  /\ pc' = "restore"
  /\ Works
  /\ UNCHANGED <<directory, memory, op, out, applied, counters>>

\* AbandonActiveSegmentAfterAppendFailure
Abandon_KeepsSegment ==
  /\ partiallyRead' = partiallyRead \cup {active}
  /\ UNCHANGED <<active, sizes, appendsDisabled>>
Abandon ==
  /\ partiallyRead' = partiallyRead \cup {active}
  /\ IF active = MaxSegmentId
     THEN appendsDisabled' = TRUE /\ UNCHANGED <<active, sizes>>
     ELSE /\ active' = active + 1
          /\ segmentBytes' = [segmentBytes EXCEPT ![active + 1] = 0]
          /\ segmentDeadBytes' = [segmentDeadBytes EXCEPT ![active + 1] = 0]
          /\ UNCHANGED appendsDisabled

\* It cannot: the directory is recreated and listed.  A missing segment means
\* a new Load and another attempt, committed lines mean that the segment is
\* given up, and an empty one is removed before another attempt.
ProbeFails ==
  /\ pc = "probe"
  /\ \E listed \in BOOLEAN :
       /\ IF directory \/ ~listed THEN Breaks ELSE Works
       /\ directory' \in IF listed THEN {TRUE} ELSE {directory, TRUE}
       /\ \/ /\ listed /\ MustReload
             /\ frame' = [frame EXCEPT
                            !.afterLoad = IF frame.attempt = 0 THEN "append" ELSE "return",
                            !.attempt = 1]
             /\ pc' = "load"
             /\ out' = IF frame.attempt = 0 THEN out ELSE "threw"
             /\ UNCHANGED <<active, sizes, partiallyRead, appendsDisabled>>
          \/ /\ ~(listed /\ MustReload) /\ segmentBytes[active] > 0
             /\ Abandon /\ Throw /\ UNCHANGED frame
          \/ /\ ~(listed /\ MustReload) /\ segmentBytes[active] = 0
             /\ pc' = "restore"
             /\ frame' = [frame EXCEPT !.retry = TRUE]
             /\ UNCHANGED <<active, sizes, partiallyRead, appendsDisabled, out>>
  /\ UNCHANGED <<disk, index, unreadable, loaded, op, applied, counters>>

\* Back to the loop of AppendLineLocked, or out of it.
TryAgainOrThrow_Endless ==
  IF frame.retry
  THEN pc' = "append" /\ UNCHANGED <<frame, out>>
  ELSE Throw /\ UNCHANGED frame
TryAgainOrThrow ==
  IF frame.retry /\ frame.attempt = 0
  THEN pc' = "append" /\ frame' = [frame EXCEPT !.attempt = 1] /\ UNCHANGED out
  ELSE Throw /\ UNCHANGED frame

\* RestoreActiveSegment: cut the file back to its committed lines, or remove
\* it and return to the segment before the rotation.
RestoreActiveSegment ==
  /\ pc = "restore"
  /\ \/ /\ segmentBytes[active] > 0
        /\ CompleteLength(FileOf(active)) >= segmentBytes[active]
        /\ disk' = WithFile(active, SubSeq(FileOf(active), 1, segmentBytes[active]))
        /\ UNCHANGED <<active, sizes>>
     \/ /\ segmentBytes[active] = 0
        /\ disk' = WithoutFile(active)
        /\ active' = frame.before
        /\ IF active # frame.before
           THEN /\ segmentBytes' = [segmentBytes EXCEPT ![active] = 0]
                /\ segmentDeadBytes' = [segmentDeadBytes EXCEPT ![active] = 0]
           ELSE UNCHANGED sizes
  /\ TryAgainOrThrow
  /\ Works
  /\ UNCHANGED <<directory, index, quality, op, applied, counters>>

RestoreFails ==
  /\ pc = "restore"
  /\ \/ active \in DOMAIN disk /\ Breaks
     \/ Works /\ segmentBytes[active] > CompleteLength(FileOf(active))
  /\ Abandon /\ Throw
  /\ UNCHANGED <<files, index, unreadable, loaded, op, frame, applied, counters>>

-----------------------------------------------------------------------------
(* CompactSegment and MoveTombstonesToActiveSegment                        *)

LowerSegmentHasData_Readable(s) == \E t \in Segments : t < s /\ segmentBytes[t] > 0
LowerSegmentHasData(s) ==
  \/ \E u \in unreadable : u < s
  \/ \E t \in Segments : t < s /\ segmentBytes[t] > 0

KeptLive(s) ==
  {i \in 1..CompleteLength(disk[s]) :
     /\ IsRecord(disk[s][i])
     /\ disk[s][i].key \in DOMAIN index
     /\ index[disk[s][i].key] = [seg |-> s, pos |-> i]}

KeptTombstones_None(s) == {}

\* The first tombstone of every key that is not indexed, while a lower
\* segment may still hold the key.
KeptTombstones(s) ==
  LET needed(i) == /\ IsRecord(disk[s][i])
                   /\ disk[s][i].value = Tombstone
                   /\ disk[s][i].key \notin DOMAIN index
  IN {i \in 1..CompleteLength(disk[s]) :
        /\ LowerSegmentHasData(s)
        /\ needed(i)
        /\ \A j \in 1..(i - 1) : ~(needed(j) /\ disk[s][j].key = disk[s][i].key)}

Kept(s) == KeptLive(s) \cup KeptTombstones(s)

\* Where the line at position i goes.
NewPosition(s, i) == Cardinality({j \in Kept(s) : j <= i})

Rebuilt(s) ==
  [n \in 1..Cardinality(Kept(s)) |->
     disk[s][CHOOSE i \in Kept(s) : NewPosition(s, i) = n]]

AllLiveFound(s) ==
  s \in DOMAIN disk /\ Cardinality(KeptLive(s)) = Cardinality(LiveIn(s, index))

CompactReturns == pc' = frame.afterCompact

\* The segment cannot be read, or a live record of it is not found: nothing
\* is changed.
CompactAborts ==
  /\ pc = "compact"
  /\ \/ Breaks
     \/ ~AllLiveFound(frame.target) /\ Works
  /\ CompactReturns
  /\ UNCHANGED <<files, memory, op, frame, out, applied, counters>>

MayMoveTombstones_Never(s) == FALSE

\* A segment that keeps nothing but tombstones hands them to the active one,
\* unless a segment above it was not read completely.
MayMoveTombstones(s) ==
  /\ LiveIn(s, index) = {} /\ Kept(s) # {}
  /\ ~appendsDisabled /\ s < active
  /\ \A p \in partiallyRead : p <= s

\* The active file is used only when it is as long as its committed lines.
MergedActive(s) ==
  IF segmentBytes[active] > 0 THEN disk[active] \o Rebuilt(s) ELSE Rebuilt(s)

ActiveIsExact ==
  segmentBytes[active] > 0 =>
    active \in DOMAIN disk /\ Len(disk[active]) = segmentBytes[active]

CompactMoves ==
  /\ pc = "compact" /\ AllLiveFound(frame.target)
  /\ LET s == frame.target
     IN /\ MayMoveTombstones(s) /\ ActiveIsExact
        /\ directory
        /\ disk' = WithFile(active, MergedActive(s))
        /\ segmentBytes' = [segmentBytes EXCEPT ![active] = Len(MergedActive(s))]
        /\ segmentDeadBytes' = [segmentDeadBytes EXCEPT ![active] = @ + Len(Rebuilt(s))]
  /\ pc' = "moved"
  /\ Works
  /\ UNCHANGED <<directory, index, quality, active, op, frame, out, applied, counters>>

\* The tombstones are in the active segment now; if their old file cannot be
\* removed it is rewritten in place instead.
MovedRemoves ==
  /\ pc = "moved"
  /\ disk' = WithoutFile(frame.target)
  /\ segmentBytes' = [segmentBytes EXCEPT ![frame.target] = 0]
  /\ segmentDeadBytes' = [segmentDeadBytes EXCEPT ![frame.target] = 0]
  /\ CompactReturns
  /\ Works
  /\ UNCHANGED <<directory, index, quality, active, op, frame, out, applied, counters>>

MovedRemoveFails ==
  /\ pc = "moved"
  /\ Breaks
  /\ pc' = "rewrite"
  /\ UNCHANGED <<files, memory, op, frame, out, applied, counters>>

MoveFails ==
  /\ pc = "compact" /\ AllLiveFound(frame.target)
  /\ MayMoveTombstones(frame.target)
  /\ \/ Breaks
     \/ (~directory \/ ~ActiveIsExact) /\ Works
  /\ pc' = "rewrite"
  /\ UNCHANGED <<files, memory, op, frame, out, applied, counters>>

\* The kept lines replace the file, or the file goes; the index follows the
\* records to their new positions.
Rewrite ==
  /\ \/ pc = "rewrite"
     \/ pc = "compact" /\ AllLiveFound(frame.target) /\ ~MayMoveTombstones(frame.target)
  /\ LET s == frame.target
     IN /\ directory
        /\ disk' = IF Kept(s) = {} THEN WithoutFile(s) ELSE WithFile(s, Rebuilt(s))
        /\ index' = [k \in DOMAIN index |->
                       IF index[k].seg = s
                       THEN [seg |-> s, pos |-> NewPosition(s, index[k].pos)]
                       ELSE index[k]]
        /\ segmentBytes' = [segmentBytes EXCEPT ![s] = Cardinality(Kept(s))]
        /\ segmentDeadBytes' = [segmentDeadBytes EXCEPT ![s] = Cardinality(KeptTombstones(s))]
  /\ CompactReturns
  /\ Works
  /\ UNCHANGED <<directory, quality, active, op, frame, out, applied, counters>>

RewriteFails ==
  /\ \/ pc = "rewrite"
     \/ pc = "compact" /\ AllLiveFound(frame.target) /\ ~MayMoveTombstones(frame.target)
  /\ \/ Breaks
     \/ ~directory /\ Works
  /\ CompactReturns
  /\ UNCHANGED <<files, memory, op, frame, out, applied, counters>>

-----------------------------------------------------------------------------
(* The environment                                                         *)

\* The process dies, or the application is restarted; an append that was
\* under way may be on the disk, in part or whole.
Crash ==
  /\ restarts < MaxRestarts
  /\ restarts' = restarts + 1
  /\ \/ UNCHANGED disk
     \/ /\ pc = "write" /\ directory
        /\ \E line \in {NewLine, Torn} :
             disk' = WithFile(active, Appended(FileOf(active), line))
  /\ FreshObject
  /\ UNCHANGED <<directory, faults, wipes>>

\* The platform removes the directory with everything in it.
Wipe ==
  /\ wipes < MaxWipes
  /\ wipes' = wipes + 1
  /\ directory
  /\ directory' = FALSE
  /\ disk' = [s \in {} |-> <<>>]
  /\ troubled' = (op # NoOp)
  /\ UNCHANGED <<memory, call, pc, faults, restarts>>

-----------------------------------------------------------------------------
Load == LoadFails \/ LoadRead \/ TrimSegment \/ TrimFails \/ LoadFinish
          \/ Reclaim \/ LoadReturns
Lookup == LookupWrite \/ LookupRead \/ LookupReadFails \/ Return
AppendLineLocked ==
  \/ AppendLine \/ AfterRotationCompact \/ WriteLine \/ WriteFails
  \/ ProbeOpens \/ ProbeFails \/ RestoreActiveSegment \/ RestoreFails
CompactSegment ==
  \/ CompactAborts \/ CompactMoves \/ MovedRemoves \/ MovedRemoveFails
  \/ MoveFails \/ Rewrite \/ RewriteFails

\* What the thread inside the store does next.
Step == Load \/ Lookup \/ AppendLineLocked \/ CompactSegment

Callers ==
  \/ \E k \in Keys, v \in Values : setDisk(k, v) \/ migrateLegacyEntries(k, v)
  \/ \E k \in Keys : getDisk(k) \/ deleteDisk(k)

Next == Step \/ Callers \/ Crash \/ Wipe

Spec == Init /\ [][Next]_vars

\* A thread that is inside a call keeps running.
FairSpec == Spec /\ WF_vars(Step)

-----------------------------------------------------------------------------
(* Properties                                                              *)

FilesOK ==
  /\ DOMAIN disk \subseteq Segments
  /\ \A s \in DOMAIN disk : disk[s] \in Seq(Lines)
  /\ directory \in BOOLEAN
  /\ DOMAIN disk # {} => directory

ObjectOK ==
  /\ DOMAIN index \subseteq Keys
  /\ \A k \in DOMAIN index : index[k] \in Positions
  /\ segmentBytes \in [Segments -> Nat]
  /\ segmentDeadBytes \in [Segments -> Nat]
  /\ unreadable \subseteq Segments
  /\ partiallyRead \subseteq Segments
  /\ active \in Segments
  /\ {appendsDisabled, loaded} \subseteq BOOLEAN

FrameOK ==
  /\ frame.attempt \in {0, 1}
  /\ {frame.before, frame.target, frame.highest} \subseteq Segments
  /\ {frame.retry, frame.untrimmed} \subseteq BOOLEAN
  /\ frame.afterCompact \in {"", "reclaim", "rotated", "return"}
  /\ frame.afterLoad \in {"idle", "lookup", "append", "return"}
  /\ frame.trim \subseteq Segments
  /\ frame.reclaim \subseteq Segments

CallOK ==
  /\ op \in Ops \cup {NoOp}
  /\ pc \in {"idle", "load", "trim", "reclaim", "lookup", "append", "rotated",
            "write", "probe", "restore", "compact", "moved", "rewrite", "return"}
  /\ out \in Values \cup {None, "ok", "threw"}
  /\ {applied, troubled} \subseteq BOOLEAN
  /\ {faults, restarts, wipes} \subseteq Nat

\* The types of all the variables; a file exists only in an existing directory.
TypeOK == FilesOK /\ ObjectOK /\ FrameOK /\ CallOK

\* No line is ever appended behind a torn one: the tail that a crash or a full
\* disk leaves is trimmed, or its segment given up, before the next append
\* (Load, RestoreActiveSegment, AbandonActiveSegmentAfterAppendFailure).
NoMergedLine ==
  \A s \in DOMAIN disk : \A i \in 1..Len(disk[s]) : disk[s][i] # Merged

\* The object's index is what replaying the files it could read would give,
\* between any two file operations, whatever compaction, tombstone moves,
\* rotation and failed appends did before.
IndexExact ==
  loaded /\ ~HasMissingSegment => index = ReadIndex(DOMAIN disk \ unreadable)

\* The counters that decide on compaction and give the offset of the next
\* record agree with the files: segmentBytes_ counts the complete lines,
\* segmentDeadBytes_ those that are not live.
SizesExact ==
  loaded /\ ~HasMissingSegment /\ pc # "trim" =>
    \A s \in Segments \ unreadable :
      /\ segmentBytes[s] = CompleteLength(FileOf(s))
      /\ segmentDeadBytes[s] = segmentBytes[s] - Cardinality(LiveIn(s, index))

\* A record is written above everything else that is on the disk, read or not,
\* and at the offset the index will remember: otherwise an older record would
\* win over it after the next start.
AppendIsSafe ==
  pc = "write" /\ ~HasMissingSegment =>
    /\ \A s \in DOMAIN disk : s <= active
    /\ active \notin unreadable
    /\ Len(FileOf(active)) = segmentBytes[active]

\* What the failures of the file system must not break: the log itself ...
LogIsSound == NoMergedLine /\ AppendIsSafe
\* ... and what the object remembers of it.
BookkeepingIsExact == TypeOK /\ IndexExact /\ SizesExact

\* When opening the store met no failure, only the active segment may be
\* without live records: segments of delete markers are merged into it, so
\* that the number of files is bounded by the number of keys.
ReloadReclaims ==
  pc = "reclaim" /\ frame.reclaim = {} /\ faults = 0 /\ ~HasMissingSegment =>
    \A s \in DOMAIN disk \ {active} : LiveIn(s, index) # {}

\* Once a write has been acknowledged, every indexed position holds a record of
\* its key, also after the directory was removed and created again.
WriteNoticesLoss ==
  applied =>
    \A k \in DOMAIN index :
      LET file == FileOf(index[k].seg)
      IN  index[k].pos <= Len(file) =>
            IsRecord(file[index[k].pos]) /\ file[index[k].pos].key = k

\* What reloading must not miss: segments to reclaim, and a directory that was
\* removed and created again.
ReloadsInTime == ReloadReclaims /\ WriteNoticesLoss

\* Some of the durable data cannot be seen by the object.
Blind == unreadable # {} \/ HasMissingSegment

Map == INSTANCE DurableMap WITH
         map <- Contents,
         blind <- Blind,
         trouble <- troubled \/ appendsDisabled,
         call <- op,
         reply <- IF pc = "return" THEN out ELSE "pending"

\* The store implements the map: a call that is answered "ok" has taken effect
\* exactly once, one that throws changed nothing and met a failure, a crash
\* leaves the contents as before or after the call, and opening, compacting,
\* rotating and moving delete markers never change what the disk contains.
ImplementsDurableMap == Map!MapSpec

\* Every call comes back, whatever the file system does: neither the retry
\* loop of AppendLineLocked nor the reloads inside it can go on for ever.
CallsReturn == op # NoOp ~> op = NoOp
=============================================================================
