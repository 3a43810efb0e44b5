-------------------------- MODULE SegmentStoreProofs --------------------------
(* What TLAPS proves of SegmentStore for any keys, values, segment ids,      *)
(* capacity and deaths of the process: with any failures of the file system, *)
(* as long as the platform leaves the directory alone (NoWipes), and with any *)
(* removals of the directory, as long as no file operation fails (NoFaults). *)
EXTENDS SegmentStore, FiniteSetTheorems, SequenceTheorems, TLAPS

NoWipes == MaxWipes = 0

-----------------------------------------------------------------------------
(* The inductive invariant.                                                 *)

Frames ==
  [attempt : {0, 1}, before : Segments, retry : BOOLEAN, target : Segments,
   afterCompact : {"", "reclaim", "rotated", "return"},
   afterLoad : {"idle", "lookup", "append", "return"},
   trim : SUBSET Segments, untrimmed : BOOLEAN, highest : Segments,
   reclaim : SUBSET Segments]

\* The types, of which TypeOK leaves some out.
DiskType ==
  /\ DOMAIN disk \subseteq Segments
  /\ disk \in [DOMAIN disk -> Seq(Lines)]
  /\ directory \in BOOLEAN
  /\ DOMAIN disk # {} => directory
ObjectType ==
  /\ DOMAIN index \subseteq Keys
  /\ index \in [DOMAIN index -> Positions]
  /\ segmentBytes \in [Segments -> Nat]
  /\ segmentDeadBytes \in [Segments -> Nat]
  /\ unreadable \subseteq Segments
  /\ partiallyRead \subseteq Segments
  /\ active \in Segments
  /\ appendsDisabled \in BOOLEAN /\ loaded \in BOOLEAN
CallType == frame \in Frames /\ CallOK
TypeInv == DiskType /\ ObjectType /\ CallType

\* A file is records, and perhaps a torn last line.
GoodFile(f) ==
  /\ f \in Seq(Lines)
  /\ \A i \in 1 .. Len(f) : f[i] \in Records \/ (f[i] = Torn /\ i = Len(f))

\* The files, an empty one where there is none.
Files == [s \in Segments |-> FileOf(s)]
GoodFiles(F) == F \in [Segments -> Seq(Lines)] /\ \A s \in Segments : GoodFile(F[s])

\* The complete lines of a segment, and those that are records of key k.
Count(F, s) == CompleteLength(F[s])
RecordsOf(F, k, s) == {i \in 1 .. Count(F, s) : F[s][i].key = k}

\* The last record of key k in the segments S of the files F is at position i
\* of segment s; it is live if it is not a tombstone.
LastAt(F, k, S, s, i) ==
  /\ s \in S /\ i \in RecordsOf(F, k, s)
  /\ \A t \in S : \A j \in RecordsOf(F, k, t) : t < s \/ (t = s /\ j <= i)
LiveAt(F, k, S, s, i) == LastAt(F, k, S, s, i) /\ F[s][i].value # Tombstone

\* The index idx has what is live in the segments S of the files F.
IndexIs(F, S, idx) ==
  \A k \in Keys :
    IF k \in DOMAIN idx
    THEN LiveAt(F, k, S, idx[k].seg, idx[k].pos)
    ELSE \A s \in S : \A i \in 1 .. Count(F, s) : ~LiveAt(F, k, S, s, i)

Readable == Segments \ unreadable

LinesInv == GoodFiles(Files)
IndexInv == IndexIs(Files, Readable, index)

SizeInv ==
  /\ unreadable \subseteq DOMAIN disk
  /\ unreadable \subseteq partiallyRead
  /\ \A s \in unreadable : segmentBytes[s] = 0
  /\ \A s \in Readable : segmentBytes[s] = Count(Files, s)

DeadInv ==
  pc # "trim" =>
    \A s \in Readable :
      segmentDeadBytes[s] = segmentBytes[s] - Cardinality(LiveIn(s, index))

\* No file is above the segment that is appended to, which was read and has no
\* torn tail unless an append has just failed.
TopInv ==
  pc # "trim" /\ ~appendsDisabled =>
    /\ \A s \in DOMAIN disk : s <= active
    /\ active \notin unreadable
    /\ IsTorn(FileOf(active)) => pc \in {"probe", "restore"}

\* What Load still has to trim.
TrimInv ==
  pc = "trim" =>
    /\ frame.trim \subseteq DOMAIN disk \ unreadable
    /\ ~appendsDisabled
    /\ \A s \in DOMAIN disk : s <= frame.highest
    /\ \A s \in DOMAIN disk \ unreadable :
          /\ s \notin frame.trim \/ segmentBytes[s] > 0 => s <= active
          /\ s \notin frame.trim /\ IsTorn(disk[s]) => frame.untrimmed

Compacting == pc \in {"compact", "moved", "rewrite"}

\* Opening the store, or the compactions that this involves.
Loading == pc \in {"load", "trim", "reclaim"} \/ (Compacting /\ frame.afterCompact = "reclaim")

\* In AppendLineLocked, or in the compaction before a rotation.
Appending ==
  \/ pc \in {"append", "rotated", "write", "probe", "restore"}
  \/ Compacting /\ frame.afterCompact = "rotated"

\* In a call, past its invocation and its load.
Answering == pc \in {"lookup", "return"} \/ (Compacting /\ frame.afterCompact = "return")

\* Where a call goes on when the store is loaded; in the middle of an append or
\* of a read it is loaded only after its directory has been removed.
AfterLoadInv ==
  IF op = NoOp THEN frame.afterLoad = "idle"
  ELSE \/ frame.afterLoad = "lookup"
       \/ /\ wipes # 0 /\ frame.afterLoad \in {"append", "return"}
          /\ frame.afterLoad = "append" => op.kind # "get"

ControlInv ==
  /\ wipes <= MaxWipes
  /\ pc \notin {"load", "idle", "return"} => loaded
  /\ Compacting => frame.afterCompact \in {"reclaim", "rotated", "return"}
  /\ Loading => AfterLoadInv
  /\ pc = "idle" => op = NoOp
  /\ Appending \/ Answering => op \in Ops
  /\ Appending => op.kind # "get" /\ (appendsDisabled => pc = "append")
  /\ op.kind \in {"set", "migrate"} => op.value \in Values

CallInv == ControlInv /\ (loaded => directory) /\ (pc = "load" => ~loaded)

\* The segment that was active before the rotation can be returned to.
RotationInv ==
  /\ pc \in {"write", "probe", "restore"} =>
       /\ active = frame.before \/ active = frame.before + 1
       /\ frame.before \notin unreadable
       /\ active # frame.before => ~IsTorn(FileOf(frame.before))
  /\ pc = "rotated" \/ (Compacting /\ frame.afterCompact = "rotated") =>
       active = frame.before

\* What a compaction may touch, and what it has left of it.
CompactInv ==
  /\ pc = "reclaim" \/ (Compacting /\ frame.afterCompact = "reclaim") =>
       frame.reclaim \subseteq Readable
  /\ Compacting => frame.target \in Readable
  /\ pc \in {"moved", "rewrite"} => AllLiveFound(frame.target)
  /\ pc = "moved" =>
       /\ ~appendsDisabled /\ frame.target < active
       /\ LiveIn(frame.target, index) = {}
       /\ \A i \in 1 .. Count(Files, frame.target) : \E s \in Readable :
             s > frame.target /\ RecordsOf(Files, Files[frame.target][i].key, s) # {}

ObjectInv == loaded => SizeInv /\ IndexInv /\ DeadInv /\ TopInv

Inv == /\ TypeInv /\ LinesInv /\ ObjectInv
       /\ TrimInv /\ CallInv /\ RotationInv /\ CompactInv

-----------------------------------------------------------------------------
(* Sets of numbers.                                                         *)

\* A set of natural numbers has a least member.
LEMMA LeastExists ==
  ASSUME NEW T \in SUBSET Nat, T # {}
  PROVE  \E x \in T : \A y \in T : x <= y
<1>1. PICK x \in T : \A y \in T : ~ (<<y, x>> \in OpToRel(<, Nat))
  BY WFMin, NatLessThanWellFounded
<1>2. \A y \in T : ~ (y < x)
  <2> SUFFICES ASSUME NEW y \in T, y < x PROVE FALSE
    OBVIOUS
  <2>1. <<y, x>> \in OpToRel(<, Nat)
    BY DEF OpToRel
  <2> QED BY <1>1, <2>1
<1> QED BY <1>2

\* A bounded set of natural numbers has a greatest member.
LEMMA GreatestExists ==
  ASSUME NEW S \in SUBSET Nat, S # {}, NEW n \in Nat, \A x \in S : x <= n
  PROVE  \E x \in S : \A y \in S : y <= x
<1> DEFINE T == {m \in Nat : n - m \in S}
<1>1. T \subseteq Nat /\ T # {}
  <2>1. PICK h \in S : TRUE
    OBVIOUS
  <2>2. n - h \in Nat /\ n - (n - h) = h
    BY <2>1
  <2>3. n - h \in T
    BY <2>1, <2>2
  <2> QED BY <2>3
<1>2. PICK m \in T : \A y \in T : m <= y
  <2> HIDE DEF T
  <2> QED BY <1>1, LeastExists
<1>3. \A y \in S : y <= n - m
  <2> SUFFICES ASSUME NEW y \in S PROVE y <= n - m
    OBVIOUS
  <2>1. n - y \in Nat /\ n - (n - y) = y
    OBVIOUS
  <2>2. n - y \in T
    BY <2>1
  <2>3. m <= n - y
    BY <1>2, <2>2
  <2> QED BY <2>3
<1>4. n - m \in S
  OBVIOUS
<1> QED BY <1>3, <1>4

\* Max and Min of the model are the members they are named for.
LEMMA MaxIs ==
  ASSUME NEW S \in SUBSET Nat, S # {}, NEW n \in Nat, \A x \in S : x <= n
  PROVE  Max(S) \in S /\ \A x \in S : x <= Max(S)
<1>1. \E x \in S : \A y \in S : x >= y
  BY GreatestExists
<1> QED BY <1>1 DEF Max

\* The same for the least member.
LEMMA MinIs ==
  ASSUME NEW S \in SUBSET Nat, S # {}
  PROVE  Min(S) \in S /\ \A x \in S : Min(S) <= x
<1>1. \E x \in S : \A y \in S : x =< y
  BY LeastExists
<1> QED BY <1>1 DEF Min

-----------------------------------------------------------------------------
(* Ranks: the position that each member of a set of numbers has in it.      *)

Rank(K, i) == Cardinality({j \in K : j <= i})

\* The ranks of the lines that are kept number them from 1, in their order.
LEMMA RanksAre ==
  ASSUME NEW n \in Nat, NEW K \in SUBSET (1 .. n)
  PROVE  /\ IsFiniteSet(K) /\ Cardinality(K) \in Nat
         /\ Cardinality(K) <= n
         /\ \A i \in K : Rank(K, i) \in 1 .. Cardinality(K)
         /\ \A i, j \in K : i < j => Rank(K, i) < Rank(K, j)
         /\ \A r \in 1 .. Cardinality(K) : \E i \in K : Rank(K, i) = r
<1> DEFINE Below(i) == {j \in K : j <= i}
<1>1. IsFiniteSet(1 .. n) /\ Cardinality(1 .. n) = n
  BY FS_Interval
<1>2. IsFiniteSet(K) /\ Cardinality(K) \in Nat /\ Cardinality(K) <= n
  BY <1>1, FS_Subset, FS_CardinalityType
<1>3. \A i \in K : /\ IsFiniteSet(Below(i)) /\ Cardinality(Below(i)) \in Nat
                   /\ Cardinality(Below(i)) <= Cardinality(K)
  <2> SUFFICES ASSUME NEW i \in K
               PROVE  /\ IsFiniteSet(Below(i)) /\ Cardinality(Below(i)) \in Nat
                      /\ Cardinality(Below(i)) <= Cardinality(K)
    OBVIOUS
  <2>1. Below(i) \in SUBSET K
    OBVIOUS
  <2> HIDE DEF Below
  <2> QED BY <1>2, <2>1, FS_Subset, FS_CardinalityType
<1>4. \A i \in K : Cardinality(Below(i)) # 0
  <2> SUFFICES ASSUME NEW i \in K PROVE Cardinality(Below(i)) # 0
    OBVIOUS
  <2>1. i \in Below(i)
    OBVIOUS
  <2> HIDE DEF Below
  <2> QED BY <1>3, <2>1, FS_EmptySet
<1>5. \A i, j \in K : i < j => Cardinality(Below(i)) < Cardinality(Below(j))
  <2> SUFFICES ASSUME NEW i \in K, NEW j \in K, i < j
               PROVE  Cardinality(Below(i)) < Cardinality(Below(j))
    OBVIOUS
  <2>1. Below(i) \in SUBSET Below(j)
    <3> SUFFICES ASSUME NEW x \in Below(i) PROVE x \in Below(j)
      OBVIOUS
    <3>1. x \in K /\ x <= i /\ x \in Nat /\ i \in Nat /\ j \in Nat
      OBVIOUS
    <3> QED BY <3>1
  <2>2. Below(i) # Below(j)
    <3>1. j \in Below(j) /\ j \notin Below(i)
      OBVIOUS
    <3> QED BY <3>1
  <2>3. IsFiniteSet(Below(j)) /\ Cardinality(Below(j)) \in Nat /\ Cardinality(Below(i)) \in Nat
    BY <1>3
  <2> HIDE DEF Below
  <2>4. Cardinality(Below(i)) <= Cardinality(Below(j)) /\ Cardinality(Below(i)) # Cardinality(Below(j))
    BY <2>1, <2>2, <2>3, FS_Subset
  <2> QED BY <2>3, <2>4
<1>6. \A i \in K : Rank(K, i) = Cardinality(Below(i))
  BY DEF Rank
<1>7. \A i \in K : Rank(K, i) \in 1 .. Cardinality(K)
  <2> HIDE DEF Below
  <2> QED BY <1>2, <1>3, <1>4, <1>6
<1>8. \A i, j \in K : i < j => Rank(K, i) < Rank(K, j)
  BY <1>5, <1>6
<1>9. \A r \in 1 .. Cardinality(K) : \E i \in K : Rank(K, i) = r
  <2> DEFINE R == [i \in K |-> Rank(K, i)]
  <2>1. R \in [K -> 1 .. Cardinality(K)]
    BY <1>7
  <2>2. \A i, j \in K : R[i] = R[j] => i = j
    <3> SUFFICES ASSUME NEW i \in K, NEW j \in K, Rank(K, i) = Rank(K, j) PROVE i = j
      OBVIOUS
    <3>1. i \in Nat /\ j \in Nat /\ Rank(K, i) \in Nat /\ Rank(K, j) \in Nat
      BY <1>7
    <3>2. ~ (i < j) /\ ~ (j < i)
      BY <1>8, <3>1
    <3> QED BY <3>1, <3>2
  <2>3. R \in Injection(K, 1 .. Cardinality(K))
    BY <2>1, <2>2 DEF Injection, IsInjective
  <2>4. IsFiniteSet(1 .. Cardinality(K)) /\ Cardinality(1 .. Cardinality(K)) = Cardinality(K)
    BY <1>2, FS_Interval
  <2>5. R \in Surjection(K, 1 .. Cardinality(K))
    <3> HIDE DEF R
    <3> QED BY <2>3, <2>4, FS_Injection
  <2> QED BY <2>5 DEF Surjection
<1> QED BY <1>2, <1>7, <1>8, <1>9


-----------------------------------------------------------------------------
(* Files.                                                                   *)

\* A torn tail is one line; the other lines are complete.
LEMMA FileFacts ==
  ASSUME NEW f \in Seq(Lines)
  PROVE  /\ Len(f) \in Nat /\ CompleteLength(f) \in Nat
         /\ DOMAIN f = 1 .. Len(f)
         /\ IsTorn(f) => Len(f) > 0 /\ CompleteLength(f) = Len(f) - 1 /\ f[Len(f)] = Torn
         /\ ~IsTorn(f) => CompleteLength(f) = Len(f)
         /\ CompleteLength(f) <= Len(f)
<1>1. Len(f) \in Nat /\ DOMAIN f = 1 .. Len(f) /\ (f # <<>> => Len(f) > 0)
  BY EmptySeq, LenProperties
<1>2. CASE IsTorn(f)
  <2>1. Len(f) > 0 /\ f[Len(f)] = Torn
    BY <1>1, <1>2 DEF IsTorn
  <2> QED BY <1>1, <1>2, <2>1 DEF CompleteLength
<1>3. CASE ~IsTorn(f)
  <2>1. CompleteLength(f) = Len(f)
    BY <1>3 DEF CompleteLength
  <2>2. CompleteLength(f) \in Nat /\ CompleteLength(f) <= Len(f)
    BY <1>1, <2>1
  <2>3. ~IsTorn(f) => CompleteLength(f) = Len(f)
    BY <2>1
  <2>4. IsTorn(f) => Len(f) > 0 /\ CompleteLength(f) = Len(f) - 1 /\ f[Len(f)] = Torn
    BY <1>3
  <2> QED BY <1>1, <2>2, <2>3, <2>4
<1> QED BY <1>2, <1>3

\* What a complete line can be.
LEMMA RecordFacts ==
  /\ \A r \in Records : IsRecord(r) /\ r.key \in Keys /\ r.value \in Values \cup {Tombstone}
  /\ \A r \in Lines : IsRecord(r) <=> r \in Records
  /\ Torn \notin Records /\ Merged \notin Records
<1>1. Torn \notin Records /\ Merged \notin Records
  BY SegmentStoreAssumption DEF Records
<1>2. \A r \in Records : r.key \in Keys /\ r.value \in Values \cup {Tombstone}
  BY DEF Records
<1> QED BY <1>1, <1>2 DEF IsRecord, Lines

\* The complete lines of a good file are records, and only they are.
LEMMA GoodFileFacts ==
  ASSUME NEW f, GoodFile(f)
  PROVE  /\ Len(f) \in Nat /\ CompleteLength(f) \in Nat /\ CompleteLength(f) <= Len(f)
         /\ \A i \in 1 .. CompleteLength(f) :
               /\ i \in 1 .. Len(f) /\ f[i] \in Records /\ IsRecord(f[i])
               /\ f[i].key \in Keys /\ f[i].value \in Values \cup {Tombstone}
         /\ \A i \in 1 .. Len(f) : IsRecord(f[i]) => i \in 1 .. CompleteLength(f)
         /\ \A i \in 1 .. Len(f) : f[i] # Merged
<1>1. f \in Seq(Lines) /\ \A i \in 1 .. Len(f) : f[i] \in Records \/ (f[i] = Torn /\ i = Len(f))
  BY DEF GoodFile
<1>2. /\ Len(f) \in Nat /\ CompleteLength(f) \in Nat /\ CompleteLength(f) <= Len(f)
      /\ IsTorn(f) => Len(f) > 0 /\ CompleteLength(f) = Len(f) - 1 /\ f[Len(f)] = Torn
      /\ ~IsTorn(f) => CompleteLength(f) = Len(f)
  BY <1>1, FileFacts
<1>3. \A i \in 1 .. Len(f) : f[i] = Torn => IsTorn(f)
  BY <1>1, <1>2, EmptySeq, RecordFacts DEF IsTorn
<1>4. \A i \in 1 .. CompleteLength(f) : i \in 1 .. Len(f) /\ f[i] \in Records
  <2> SUFFICES ASSUME NEW i \in 1 .. CompleteLength(f)
               PROVE  i \in 1 .. Len(f) /\ f[i] \in Records
    OBVIOUS
  <2>1. i \in 1 .. Len(f)
    BY <1>2
  <2>2. CASE f[i] = Torn
    <3>1. IsTorn(f) /\ i = Len(f)
      BY <1>1, <1>3, <2>1, <2>2, RecordFacts
    <3> QED BY <1>2, <3>1
  <2> QED BY <1>1, <2>1, <2>2
<1>5. \A i \in 1 .. Len(f) : IsRecord(f[i]) => i \in 1 .. CompleteLength(f)
  <2> SUFFICES ASSUME NEW i \in 1 .. Len(f), IsRecord(f[i])
               PROVE  i \in 1 .. CompleteLength(f)
    OBVIOUS
  <2>1. f[i] # Torn
    BY DEF IsRecord
  <2>2. IsTorn(f) => i # Len(f)
    BY <1>2, <2>1
  <2> QED BY <1>2, <2>2
<1>6. \A i \in 1 .. Len(f) : f[i] # Merged
  BY <1>1, RecordFacts, SegmentStoreAssumption
<1> QED BY <1>2, <1>4, <1>5, <1>6, RecordFacts

\* A line appended to a file without a torn tail.
LEMMA AppendedIs ==
  ASSUME NEW f, GoodFile(f), ~IsTorn(f), NEW line \in Records \cup {Torn}
  PROVE  LET g == Appended(f, line) IN
         /\ GoodFile(g)
         /\ Len(f) = CompleteLength(f)
         /\ CompleteLength(g) = IF line = Torn THEN CompleteLength(f) ELSE CompleteLength(f) + 1
         /\ \A i \in 1 .. CompleteLength(f) : g[i] = f[i]
         /\ line # Torn => ~IsTorn(g) /\ g[CompleteLength(f) + 1] = line
<1> DEFINE g == Appended(f, line)
<1>1. f \in Seq(Lines) /\ Len(f) \in Nat /\ CompleteLength(f) = Len(f)
  BY FileFacts DEF GoodFile
<1>2. g = Append(f, line) /\ line \in Lines
  BY DEF Appended, Lines
<1>3. /\ g \in Seq(Lines) /\ Len(g) = Len(f) + 1
      /\ \A i \in 1 .. Len(f) : g[i] = f[i]
      /\ g[Len(f) + 1] = line
  BY <1>1, <1>2, AppendProperties
<1>4. g # <<>>
  BY <1>1, <1>3, EmptySeq
<1>5. IsTorn(g) <=> line = Torn
  BY <1>3, <1>4 DEF IsTorn
<1>6. \A i \in 1 .. Len(f) : f[i] \in Records
  BY <1>1, GoodFileFacts
<1>7. GoodFile(g)
  <2> SUFFICES ASSUME NEW i \in 1 .. Len(g)
               PROVE  g[i] \in Records \/ (g[i] = Torn /\ i = Len(g))
    BY <1>3 DEF GoodFile
  <2>1. i \in 1 .. Len(f) \/ i = Len(f) + 1
    BY <1>1, <1>3
  <2> QED BY <1>3, <1>6, <2>1
<1>8. CompleteLength(g) = IF line = Torn THEN Len(f) ELSE Len(f) + 1
  BY <1>1, <1>3, <1>5 DEF CompleteLength
<1> HIDE DEF g
<1> QED BY <1>1, <1>3, <1>5, <1>7, <1>8 DEF g

\* A file cut back to its complete lines.
LEMMA CutIs ==
  ASSUME NEW f, GoodFile(f)
  PROVE  LET g == SubSeq(f, 1, CompleteLength(f)) IN
         /\ GoodFile(g) /\ ~IsTorn(g)
         /\ CompleteLength(g) = CompleteLength(f)
         /\ \A i \in 1 .. CompleteLength(f) : g[i] = f[i]
<1> DEFINE n == CompleteLength(f)
           g == SubSeq(f, 1, n)
<1>1. n \in Nat /\ \A i \in 1 .. n : f[i] \in Records /\ f[i] \in Lines
  BY GoodFileFacts DEF Lines
<1>2. /\ g \in Seq(Lines) /\ Len(g) = (IF 1 <= n THEN n - 1 + 1 ELSE 0)
      /\ \A i \in 1 .. n - 1 + 1 : g[i] = f[1 + i - 1]
  <2> HIDE DEF n
  <2> QED BY <1>1, SubSeqProperties
<1>3. Len(g) = n /\ \A i \in 1 .. n : g[i] = f[i]
  <2> HIDE DEF n, g
  <2> QED BY <1>1, <1>2
<1>4. GoodFile(g)
  <2> HIDE DEF n, g
  <2> QED BY <1>1, <1>2, <1>3 DEF GoodFile
<1>5. ~IsTorn(g)
  <2> HIDE DEF n, g
  <2> SUFFICES ASSUME IsTorn(g) PROVE FALSE
    OBVIOUS
  <2>1. Len(g) > 0 /\ g[Len(g)] = Torn
    BY <1>2, FileFacts
  <2> QED BY <1>1, <1>3, <2>1, RecordFacts
<1>6. CompleteLength(g) = n
  <2> HIDE DEF n, g
  <2> QED BY <1>2, <1>3, <1>5, FileFacts
<1> QED BY <1>3, <1>4, <1>5, <1>6


-----------------------------------------------------------------------------
(* The disk as a family of files.                                           *)

\* The segment ids run from 0 to the highest.
LEMMA SegmentsAre ==
  /\ Segments \subseteq Nat /\ 0 \in Segments /\ MaxSegmentId \in Segments
  /\ \A s \in Segments : s <= MaxSegmentId /\ (s # MaxSegmentId => s + 1 \in Segments)
  /\ \A S \in SUBSET Segments : S # {} => Max(S) \in S /\ \A x \in S : x <= Max(S)
  /\ \A S \in SUBSET Segments : S # {} => Min(S) \in S
<1>1. /\ Segments \subseteq Nat /\ 0 \in Segments /\ MaxSegmentId \in Segments
      /\ \A s \in Segments : s <= MaxSegmentId /\ (s # MaxSegmentId => s + 1 \in Segments)
  BY SegmentStoreAssumption DEF Segments
<1>2. \A S \in SUBSET Segments : S # {} => Max(S) \in S /\ \A x \in S : x <= Max(S)
  <2> SUFFICES ASSUME NEW S \in SUBSET Segments, S # {}
               PROVE  Max(S) \in S /\ \A x \in S : x <= Max(S)
    OBVIOUS
  <2>1. S \in SUBSET Nat /\ MaxSegmentId \in Nat /\ \A x \in S : x <= MaxSegmentId
    BY <1>1
  <2> QED BY <2>1, MaxIs
<1>3. \A S \in SUBSET Segments : S # {} => Min(S) \in S
  <2> SUFFICES ASSUME NEW S \in SUBSET Segments, S # {} PROVE Min(S) \in S
    OBVIOUS
  <2>1. S \in SUBSET Nat
    BY <1>1
  <2> QED BY <2>1, MinIs
<1> QED BY <1>1, <1>2, <1>3

\* The family of files, and the disk it is read from.
LEMMA FilesAre ==
  ASSUME TypeInv
  PROVE  /\ Files \in [Segments -> Seq(Lines)]
         /\ DOMAIN disk \subseteq Segments
         /\ \A s \in Segments : Files[s] = FileOf(s)
         /\ \A s \in DOMAIN disk : Files[s] = disk[s]
         /\ \A s \in Segments : Count(Files, s) \in Nat
         /\ \A s \in Segments \ DOMAIN disk :
               Files[s] = <<>> /\ Count(Files, s) = 0 /\ ~IsTorn(Files[s])
<1>1. DOMAIN disk \subseteq Segments /\ \A s \in DOMAIN disk : disk[s] \in Seq(Lines)
  BY DEF TypeInv, DiskType
<1>2. <<>> \in Seq(Lines) /\ Len(<<>>) = 0
  BY EmptySeq
<1>3. \A s \in Segments : FileOf(s) \in Seq(Lines)
  BY <1>1, <1>2 DEF FileOf
<1>4. Files \in [Segments -> Seq(Lines)] /\ \A s \in Segments : Files[s] = FileOf(s)
  BY <1>3 DEF Files
<1>5. \A s \in Segments : Count(Files, s) \in Nat
  BY <1>4, FileFacts DEF Count
<1>6. ~IsTorn(<<>>) /\ CompleteLength(<<>>) = 0
  BY <1>2 DEF IsTorn, CompleteLength
<1>7. \A s \in Segments \ DOMAIN disk : Files[s] = <<>>
  BY <1>4 DEF FileOf
<1>8. \A s \in DOMAIN disk : Files[s] = disk[s]
  BY <1>1, <1>4 DEF FileOf
<1> QED BY <1>1, <1>4, <1>5, <1>6, <1>7, <1>8 DEF Count

\* GoodFileFacts, for the files of a family.
LEMMA GoodFilesAre ==
  ASSUME NEW F, GoodFiles(F), NEW s \in Segments
  PROVE  /\ Count(F, s) \in Nat /\ Len(F[s]) \in Nat /\ Count(F, s) <= Len(F[s])
         /\ \A i \in 1 .. Count(F, s) :
               /\ i \in Nat /\ i \in 1 .. Len(F[s]) /\ F[s][i] \in Records /\ IsRecord(F[s][i])
               /\ F[s][i].key \in Keys /\ F[s][i].value \in Values \cup {Tombstone}
         /\ \A i \in 1 .. Len(F[s]) : IsRecord(F[s][i]) => i \in 1 .. Count(F, s)
<1>1. GoodFile(F[s])
  BY DEF GoodFiles
<1>2. \A i \in 1 .. CompleteLength(F[s]) : i \in Nat
  BY <1>1, GoodFileFacts
<1> QED BY <1>1, <1>2, GoodFileFacts DEF Count

\* Writing and removing one file changes that file only.
LEMMA WithFileIs ==
  ASSUME TypeInv, NEW s \in Segments, NEW f \in Seq(Lines), disk' = WithFile(s, f)
  PROVE  /\ DOMAIN disk' = DOMAIN disk \cup {s}
         /\ disk' \in [DOMAIN disk' -> Seq(Lines)]
         /\ Files' = [Files EXCEPT ![s] = f]
<1>1. DOMAIN disk \subseteq Segments /\ \A t \in DOMAIN disk : disk[t] \in Seq(Lines)
  BY DEF TypeInv, DiskType
<1>2. disk' = [t \in DOMAIN disk \cup {s} |-> IF t = s THEN f ELSE disk[t]]
  BY DEF WithFile
<1>3. DOMAIN disk' = DOMAIN disk \cup {s} /\ disk' \in [DOMAIN disk' -> Seq(Lines)]
  BY <1>1, <1>2
<1>4. \A t \in Segments : FileOf(t)' = IF t = s THEN f ELSE FileOf(t)
  BY <1>2 DEF FileOf
<1>5. Files' = [t \in Segments |-> IF t = s THEN f ELSE FileOf(t)]
  BY <1>4 DEF Files
<1>6. Files' = [Files EXCEPT ![s] = f]
  BY <1>5 DEF Files
<1> QED BY <1>3, <1>6

\* The same for a removed file.
LEMMA WithoutFileIs ==
  ASSUME TypeInv, NEW s \in Segments, disk' = WithoutFile(s)
  PROVE  /\ DOMAIN disk' = DOMAIN disk \ {s}
         /\ disk' \in [DOMAIN disk' -> Seq(Lines)]
         /\ Files' = [Files EXCEPT ![s] = <<>>]
<1>1. DOMAIN disk \subseteq Segments /\ \A t \in DOMAIN disk : disk[t] \in Seq(Lines)
  BY DEF TypeInv, DiskType
<1>2. disk' = [t \in DOMAIN disk \ {s} |-> disk[t]]
  BY DEF WithoutFile
<1>3. DOMAIN disk' = DOMAIN disk \ {s} /\ disk' \in [DOMAIN disk' -> Seq(Lines)]
  BY <1>1, <1>2
<1>4. \A t \in Segments : FileOf(t)' = IF t = s THEN <<>> ELSE FileOf(t)
  BY <1>2 DEF FileOf
<1>5. Files' = [t \in Segments |-> IF t = s THEN <<>> ELSE FileOf(t)]
  BY <1>4 DEF Files
<1>6. Files' = [Files EXCEPT ![s] = <<>>]
  BY <1>5 DEF Files
<1> QED BY <1>3, <1>6

-----------------------------------------------------------------------------
(* The last records of a key.                                               *)

\* A key with records has a last one,
LEMMA LastExists ==
  ASSUME NEW F, GoodFiles(F), NEW S \in SUBSET Segments, NEW k,
         NEW t \in S, RecordsOf(F, k, t) # {}
  PROVE  \E s \in S : \E i \in 1 .. Count(F, s) : LastAt(F, k, S, s, i)
<1> DEFINE T == {s \in S : RecordsOf(F, k, s) # {}}
<1>1. T \in SUBSET Segments /\ T # {}
  OBVIOUS
<1>2. PICK s \in T : \A u \in T : u <= s
  <2> HIDE DEF T
  <2> QED BY <1>1, SegmentsAre
<1>3. /\ Count(F, s) \in Nat /\ RecordsOf(F, k, s) # {}
      /\ RecordsOf(F, k, s) \subseteq 1 .. Count(F, s)
  BY GoodFilesAre DEF RecordsOf
<1>4. PICK i \in RecordsOf(F, k, s) : \A j \in RecordsOf(F, k, s) : j <= i
  <2>1. /\ RecordsOf(F, k, s) \in SUBSET Nat
        /\ \A j \in RecordsOf(F, k, s) : j <= Count(F, s)
    BY <1>3
  <2> QED BY <1>3, <2>1, GreatestExists
<1>5. \A u \in S : \A j \in RecordsOf(F, k, u) : u < s \/ (u = s /\ j <= i)
  <2> SUFFICES ASSUME NEW u \in S, NEW j \in RecordsOf(F, k, u)
               PROVE  u < s \/ (u = s /\ j <= i)
    OBVIOUS
  <2>1. u <= s
    BY <1>2
  <2>2. u \in Nat /\ s \in Nat
    BY SegmentsAre
  <2>3. u < s \/ u = s
    BY <2>1, <2>2
  <2> QED BY <1>4, <2>3
<1> QED BY <1>3, <1>4, <1>5 DEF LastAt

\* and no more than one.
LEMMA LastIsUnique ==
  ASSUME NEW F, GoodFiles(F), NEW S \in SUBSET Segments, NEW k, NEW s, NEW i, NEW t, NEW j,
         LastAt(F, k, S, s, i), LastAt(F, k, S, t, j)
  PROVE  s = t /\ i = j
<1>1. s \in Segments /\ t \in Segments
  BY DEF LastAt
<1>2. s \in Nat /\ t \in Nat /\ Count(F, s) \in Nat /\ Count(F, t) \in Nat
  BY <1>1, SegmentsAre, GoodFilesAre
<1>3. i \in Nat /\ j \in Nat
  BY <1>2 DEF LastAt, RecordsOf
<1>4. (t < s \/ (t = s /\ j <= i)) /\ (s < t \/ (s = t /\ i <= j))
  BY DEF LastAt
<1> QED BY <1>2, <1>3, <1>4


-----------------------------------------------------------------------------
(* What changes of the files mean for the records of a key that are last.   *)

\* Only tails and empty files differ.
SameRecords(F, G) ==
  \A s \in Segments :
    Count(G, s) = Count(F, s) /\ \A i \in 1 .. Count(F, s) : G[s][i] = F[s][i]

\* Torn tails are of no account: what is last, live and indexed depends on the
\* complete lines alone.
LEMMA SameRecordsSameLast ==
  ASSUME NEW F, NEW G, SameRecords(F, G), NEW S \in SUBSET Segments
  PROVE  /\ \A k : \A s \in Segments : RecordsOf(G, k, s) = RecordsOf(F, k, s)
         /\ \A k, s, i : LastAt(G, k, S, s, i) <=> LastAt(F, k, S, s, i)
         /\ \A k, s, i : LiveAt(G, k, S, s, i) <=> LiveAt(F, k, S, s, i)
         /\ \A idx : IndexIs(G, S, idx) <=> IndexIs(F, S, idx)
<1>1. \A k : \A s \in Segments : RecordsOf(G, k, s) = RecordsOf(F, k, s)
  BY DEF SameRecords, RecordsOf
<1>2. \A k, s, i : LastAt(G, k, S, s, i) <=> LastAt(F, k, S, s, i)
  BY <1>1 DEF LastAt
<1>3. \A k, s, i : LastAt(F, k, S, s, i) => G[s][i] = F[s][i]
  BY DEF LastAt, RecordsOf, SameRecords
<1>4. \A k, s, i : LiveAt(G, k, S, s, i) <=> LiveAt(F, k, S, s, i)
  BY <1>2, <1>3 DEF LiveAt
<1>5. \A s \in S : Count(G, s) = Count(F, s)
  BY DEF SameRecords
<1>6. \A idx : IndexIs(G, S, idx) <=> IndexIs(F, S, idx)
  BY <1>4, <1>5 DEF IndexIs
<1> QED BY <1>1, <1>2, <1>4, <1>6

\* Records are written at the end of segment a, above which there are none.
Extends(F, G, S, a) ==
  /\ a \in S /\ Count(G, a) \in Nat /\ Count(F, a) <= Count(G, a)
  /\ \A i \in 1 .. Count(F, a) : G[a][i] = F[a][i]
  /\ \A t \in Segments \ {a} : G[t] = F[t]
  /\ \A t \in S : t > a => Count(F, t) = 0

New(F, G, a) == {i \in 1 .. Count(G, a) : i > Count(F, a)}

\* Lines at the end of a file that no other file is above: the records of a key
\* are the old ones and those among the new lines.
LEMMA RecordsOfExtended ==
  ASSUME NEW F, GoodFiles(F), NEW G, NEW S \in SUBSET Segments, NEW a,
         Extends(F, G, S, a), NEW k
  PROVE  /\ \A t \in Segments \ {a} : RecordsOf(G, k, t) = RecordsOf(F, k, t)
         /\ \A j \in RecordsOf(F, k, a) : j \in RecordsOf(G, k, a) /\ j <= Count(F, a)
         /\ \A j \in RecordsOf(G, k, a) \ RecordsOf(F, k, a) :
               j \in New(F, G, a) /\ G[a][j].key = k
         /\ \A t \in S : t > a => RecordsOf(F, k, t) = {}
<1>1. a \in Segments /\ Count(F, a) \in Nat /\ Count(G, a) \in Nat
  BY GoodFilesAre DEF Extends
<1>2. \A t \in Segments \ {a} : RecordsOf(G, k, t) = RecordsOf(F, k, t)
  BY DEF Extends, RecordsOf, Count
<1>3. \A j \in RecordsOf(F, k, a) : j \in RecordsOf(G, k, a) /\ j <= Count(F, a)
  BY <1>1 DEF Extends, RecordsOf
<1>4. \A j \in RecordsOf(G, k, a) \ RecordsOf(F, k, a) : j \in New(F, G, a) /\ G[a][j].key = k
  <2> SUFFICES ASSUME NEW j \in RecordsOf(G, k, a), j \notin RecordsOf(F, k, a)
               PROVE  j \in New(F, G, a) /\ G[a][j].key = k
    OBVIOUS
  <2>1. j \in 1 .. Count(G, a) /\ G[a][j].key = k
    BY DEF RecordsOf
  <2>2. j \notin 1 .. Count(F, a)
    BY <2>1 DEF RecordsOf, Extends
  <2> QED BY <1>1, <2>1, <2>2 DEF New
<1>5. \A t \in S : t > a => RecordsOf(F, k, t) = {}
  BY DEF Extends, RecordsOf
<1> QED BY <1>2, <1>3, <1>4, <1>5

\* A key none of the new records has.
LEMMA OthersStay ==
  ASSUME NEW F, GoodFiles(F), NEW G, NEW S \in SUBSET Segments, NEW a,
         Extends(F, G, S, a), NEW k, \A j \in New(F, G, a) : G[a][j].key # k
  PROVE  \A s, i : /\ LiveAt(G, k, S, s, i) <=> LiveAt(F, k, S, s, i)
                   /\ LiveAt(F, k, S, s, i) => G[s][i] = F[s][i]
<1>1. \A t \in Segments : RecordsOf(G, k, t) = RecordsOf(F, k, t)
  BY RecordsOfExtended
<1>2. \A s, i : LastAt(G, k, S, s, i) <=> LastAt(F, k, S, s, i)
  BY <1>1 DEF LastAt
<1>3. \A s, i : LastAt(F, k, S, s, i) => G[s][i] = F[s][i]
  BY DEF LastAt, RecordsOf, Extends
<1> QED BY <1>2, <1>3 DEF LiveAt

\* A key that the last new record has.
LEMMA TheNewOneIsLast ==
  ASSUME NEW F, GoodFiles(F), NEW G, NEW S \in SUBSET Segments, NEW a,
         Extends(F, G, S, a), NEW k, Count(G, a) \in RecordsOf(G, k, a)
  PROVE  \A s, i : LastAt(G, k, S, s, i) <=> s = a /\ i = Count(G, a)
<1> DEFINE n == Count(G, a)
<1>1. /\ a \in S /\ S \subseteq Nat /\ n \in Nat /\ n \in RecordsOf(G, k, a)
      /\ \A j \in RecordsOf(G, k, a) : j \in Nat /\ j <= n
  BY SegmentsAre DEF Extends, New, RecordsOf
<1>2. \A t \in S : t > a => RecordsOf(G, k, t) = {}
  <2>1. \A t \in S : t > a => t # a /\ t \in Segments
    BY <1>1
  <2> QED BY <2>1, RecordsOfExtended
<1>3. LastAt(G, k, S, a, n)
  <2> SUFFICES ASSUME NEW t \in S, NEW j \in RecordsOf(G, k, t)
               PROVE  t < a \/ (t = a /\ j <= n)
    BY <1>1 DEF LastAt
  <2>1. ~ (t > a)
    BY <1>2
  <2>2. t < a \/ t = a
    BY <1>1, <2>1
  <2> QED BY <1>1, <2>2
<1>4. \A s, i : LastAt(G, k, S, s, i) => s = a /\ i = n
  <2> SUFFICES ASSUME NEW s, NEW i, LastAt(G, k, S, s, i) PROVE s = a /\ i = n
    OBVIOUS
  <2>1. s \in S /\ i \in RecordsOf(G, k, s) /\ (a < s \/ (a = s /\ n <= i))
    BY <1>1 DEF LastAt
  <2>2. ~ (s > a)
    BY <1>2, <2>1
  <2>3. s \in Nat /\ a \in Nat
    BY <1>1, <2>1
  <2>4. a = s /\ n <= i
    BY <2>1, <2>2, <2>3
  <2> QED BY <1>1, <2>1, <2>4
<1> QED BY <1>3, <1>4

\* Tombstones of keys that are not live make no difference.
LEMMA TombstonesOnTop ==
  ASSUME NEW F, GoodFiles(F), NEW G, NEW S \in SUBSET Segments, NEW a,
         Extends(F, G, S, a),
         \A j \in New(F, G, a) : /\ G[a][j].value = Tombstone
                                 /\ \A s, i : ~LiveAt(F, G[a][j].key, S, s, i)
  PROVE  \A k, s, i : /\ LiveAt(G, k, S, s, i) <=> LiveAt(F, k, S, s, i)
                      /\ LiveAt(F, k, S, s, i) => G[s][i] = F[s][i]
<1> SUFFICES ASSUME NEW k
             PROVE  \A s, i : /\ LiveAt(G, k, S, s, i) <=> LiveAt(F, k, S, s, i)
                              /\ LiveAt(F, k, S, s, i) => G[s][i] = F[s][i]
  OBVIOUS
<1>1. CASE \A j \in New(F, G, a) : G[a][j].key # k
  BY <1>1, OthersStay
<1>2. CASE \E j \in New(F, G, a) : G[a][j].key = k
  <2>1. PICK j \in New(F, G, a) : G[a][j].key = k
    BY <1>2
  <2>2. \A s, i : ~LiveAt(F, k, S, s, i)
    BY <2>1
  <2>3. \A s, i : ~LiveAt(G, k, S, s, i)
    <3> SUFFICES ASSUME NEW s, NEW i, LiveAt(G, k, S, s, i) PROVE FALSE
      OBVIOUS
    <3>1. /\ s \in S /\ i \in RecordsOf(G, k, s) /\ G[s][i].value # Tombstone
          /\ \A t \in S : \A m \in RecordsOf(G, k, t) : t < s \/ (t = s /\ m <= i)
      BY DEF LiveAt, LastAt
    <3>2. j \in RecordsOf(G, k, a) /\ a \in S
      BY <2>1 DEF New, RecordsOf, Extends
    <3>3. a < s \/ (a = s /\ j <= i)
      BY <3>1, <3>2
    <3>4. ~ (s > a)
      <4> SUFFICES ASSUME s > a PROVE FALSE
        OBVIOUS
      <4>1. s \in Segments /\ s # a
        BY <3>1, <3>2, SegmentsAre
      <4>2. RecordsOf(G, k, s) = RecordsOf(F, k, s)
        BY <4>1, RecordsOfExtended
      <4>3. \A t \in S : t > a => RecordsOf(F, k, t) = {}
        BY RecordsOfExtended
      <4> QED BY <3>1, <4>2, <4>3
    <3>5. s \in Nat /\ a \in Nat
      BY <3>1, <3>2, SegmentsAre
    <3>6. a = s /\ j <= i
      BY <3>3, <3>4, <3>5
    <3>7. i \in New(F, G, a)
      <4>1. Count(F, a) \in Nat /\ Count(G, a) \in Nat
        BY <3>2, GoodFilesAre DEF Extends
      <4>2. j \in 1 .. Count(G, a) /\ j > Count(F, a) /\ i \in 1 .. Count(G, a)
        BY <2>1, <3>1, <3>6 DEF New, RecordsOf
      <4> QED BY <3>6, <4>1, <4>2 DEF New
    <3> QED BY <3>1, <3>6, <3>7
  <2> QED BY <2>2, <2>3
<1> QED BY <1>1, <1>2

\* Of segment c only the records at the positions K are kept, in their order.
Thins(F, G, K, c) ==
  /\ c \in Segments /\ K \subseteq 1 .. Count(F, c)
  /\ Count(G, c) = Cardinality(K)
  /\ \A i \in K : G[c][Rank(K, i)] = F[c][i]
  /\ \A t \in Segments \ {c} : G[t] = F[t]

\* What must not be lost of key k: nothing when there is a later segment that
\* has it, a live record, and otherwise one tombstone unless there are no
\* earlier segments that have it.
KeepsKey(F, K, S, c, k) ==
  \/ RecordsOf(F, k, c) = {}
  \/ \E t \in S : t > c /\ RecordsOf(F, k, t) # {}
  \/ \E i \in K : LiveAt(F, k, S, c, i)
  \/ /\ \A s, i : ~LiveAt(F, k, S, s, i)
     /\ \A i \in K : F[c][i].key = k => F[c][i].value = Tombstone
     /\ \/ \E i \in K : F[c][i].key = k
        \/ \A t \in S : t < c => RecordsOf(F, k, t) = {}

\* Where record i of segment s goes.
Place(K, c, s, i) == IF s = c THEN Rank(K, i) ELSE i

\* A file of which only some lines are kept: the records of a key are those that
\* are kept, in the same order.
LEMMA OthersNotThinned ==
  ASSUME NEW F, NEW G, NEW K, NEW c, Thins(F, G, K, c), NEW k, NEW t \in Segments, t # c
  PROVE  RecordsOf(G, k, t) = RecordsOf(F, k, t)
BY DEF Thins, RecordsOf, Count

\* The records of a key in that file.
LEMMA RecordsOfThinned ==
  ASSUME NEW F, GoodFiles(F), NEW G, NEW K, NEW c, Thins(F, G, K, c), NEW k
  PROVE  /\ \A i \in K : F[c][i].key = k => Rank(K, i) \in RecordsOf(G, k, c)
         /\ \A j \in RecordsOf(G, k, c) : \E i \in K :
               i \in RecordsOf(F, k, c) /\ Rank(K, i) = j /\ G[c][j] = F[c][i]
<1>1. c \in Segments /\ Count(F, c) \in Nat /\ K \in SUBSET (1 .. Count(F, c))
  BY GoodFilesAre DEF Thins
<1>2. /\ \A i \in K : Rank(K, i) \in 1 .. Cardinality(K)
      /\ \A r \in 1 .. Cardinality(K) : \E i \in K : Rank(K, i) = r
  BY <1>1, RanksAre
<1>3. Count(G, c) = Cardinality(K) /\ \A i \in K : G[c][Rank(K, i)] = F[c][i]
  BY DEF Thins
<1>4. \A t \in Segments : t # c => RecordsOf(G, k, t) = RecordsOf(F, k, t)
  BY DEF Thins, RecordsOf, Count
<1>5. \A i \in K : F[c][i].key = k => Rank(K, i) \in RecordsOf(G, k, c)
  BY <1>2, <1>3 DEF RecordsOf
<1>6. \A j \in RecordsOf(G, k, c) : \E i \in K :
        i \in RecordsOf(F, k, c) /\ Rank(K, i) = j /\ G[c][j] = F[c][i]
  <2> SUFFICES ASSUME NEW j \in RecordsOf(G, k, c)
               PROVE  \E i \in K : i \in RecordsOf(F, k, c) /\ Rank(K, i) = j /\ G[c][j] = F[c][i]
    OBVIOUS
  <2>1. j \in 1 .. Cardinality(K) /\ G[c][j].key = k
    BY <1>3 DEF RecordsOf
  <2>2. PICK i \in K : Rank(K, i) = j
    BY <1>2, <2>1
  <2>3. G[c][j] = F[c][i]
    BY <1>3, <2>2
  <2>4. i \in RecordsOf(F, k, c)
    BY <1>1, <2>1, <2>3 DEF RecordsOf
  <2> QED BY <2>2, <2>3, <2>4
<1> QED BY <1>5, <1>6

\* If the last record of a key is kept, or another file has a later one, then a
\* live record stays live, at its new place,
LEMMA ThinnedKeepsLive ==
  ASSUME NEW F, GoodFiles(F), NEW G, NEW K, NEW c, Thins(F, G, K, c),
         NEW S \in SUBSET Segments, c \in S, NEW k, KeepsKey(F, K, S, c, k),
         NEW s, NEW i, LiveAt(F, k, S, s, i)
  PROVE  LiveAt(G, k, S, s, Place(K, c, s, i)) /\ G[s][Place(K, c, s, i)] = F[s][i]
<1>0. \A t \in Segments : t # c => RecordsOf(G, k, t) = RecordsOf(F, k, t)
  BY OthersNotThinned
<1>1. /\ s \in S /\ i \in RecordsOf(F, k, s) /\ F[s][i].value # Tombstone
      /\ \A t \in S : \A j \in RecordsOf(F, k, t) : t < s \/ (t = s /\ j <= i)
  BY DEF LiveAt, LastAt
<1>2. S \subseteq Nat /\ s \in Nat /\ c \in Nat /\ s \in Segments /\ c \in Segments
  BY <1>1, SegmentsAre
<1>3. CASE s # c
  <2>1. G[s] = F[s] /\ RecordsOf(G, k, s) = RecordsOf(F, k, s) /\ Place(K, c, s, i) = i
    <3>1. RecordsOf(G, k, s) = RecordsOf(F, k, s)
      BY <1>0, <1>2, <1>3
    <3> QED BY <1>2, <1>3, <3>1 DEF Thins, Place
  <2>2. \A t \in S : \A j \in RecordsOf(G, k, t) : t < s \/ (t = s /\ j <= i)
    <3> SUFFICES ASSUME NEW t \in S, NEW j \in RecordsOf(G, k, t)
                 PROVE  t < s \/ (t = s /\ j <= i)
      OBVIOUS
    <3>1. CASE t # c
      <4>1. RecordsOf(G, k, t) = RecordsOf(F, k, t)
        BY <1>0, <3>1
      <4> QED BY <1>1, <4>1
    <3>2. CASE t = c
      <4>1. PICK m \in RecordsOf(F, k, c) : TRUE
        BY <3>2, RecordsOfThinned
      <4>2. c < s
        BY <1>1, <1>3, <4>1
      <4> QED BY <3>2, <4>2
    <3> QED BY <3>1, <3>2
  <2> QED BY <1>1, <2>1, <2>2 DEF LiveAt, LastAt
<1>4. CASE s = c
  <2>1. i \in K
    <3>1. ~ (\A u, m : ~LiveAt(F, k, S, u, m)) /\ RecordsOf(F, k, c) # {}
      BY <1>1, <1>4
    <3>2. ~ \E t \in S : t > c /\ RecordsOf(F, k, t) # {}
      <4> SUFFICES ASSUME NEW t \in S, t > c, RecordsOf(F, k, t) # {} PROVE FALSE
        OBVIOUS
      <4>1. t < c \/ t = c
        BY <1>1, <1>4
      <4>2. t \in Nat
        BY <1>2
      <4> QED BY <1>2, <4>1, <4>2
    <3>3. PICK m \in K : LiveAt(F, k, S, c, m)
      BY <3>1, <3>2 DEF KeepsKey
    <3>4. m = i
      BY <1>4, <3>3, LastIsUnique DEF LiveAt
    <3> QED BY <3>3, <3>4
  <2>2. Place(K, c, s, i) = Rank(K, i) /\ G[c][Rank(K, i)] = F[c][i]
    BY <1>4, <2>1 DEF Place, Thins
  <2>3. Rank(K, i) \in RecordsOf(G, k, c)
    <3>1. F[c][i].key = k
      BY <1>1, <1>4 DEF RecordsOf
    <3> QED BY <2>1, <3>1, RecordsOfThinned
  <2>4. /\ Count(F, c) \in Nat /\ K \in SUBSET (1 .. Count(F, c))
    BY <1>2, GoodFilesAre DEF Thins
  <2>5. /\ \A m \in K : Rank(K, m) \in 1 .. Cardinality(K) /\ Cardinality(K) \in Nat
        /\ \A m, n \in K : m < n => Rank(K, m) < Rank(K, n)
    BY <2>4, RanksAre
  <2>6. \A t \in S : \A j \in RecordsOf(G, k, t) : t < c \/ (t = c /\ j <= Rank(K, i))
    <3> SUFFICES ASSUME NEW t \in S, NEW j \in RecordsOf(G, k, t)
                 PROVE  t < c \/ (t = c /\ j <= Rank(K, i))
      OBVIOUS
    <3>1. CASE t # c
      <4>1. RecordsOf(G, k, t) = RecordsOf(F, k, t)
        BY <1>0, <3>1
      <4> QED BY <1>1, <1>4, <3>1, <4>1
    <3>2. CASE t = c
      <4>1. PICK m \in K : m \in RecordsOf(F, k, c) /\ Rank(K, m) = j
        BY <3>2, RecordsOfThinned
      <4>2. m <= i
        BY <1>1, <1>2, <1>4, <4>1
      <4>3. m = i \/ m < i
        BY <2>1, <2>4, <4>2
      <4>4. Rank(K, m) \in Int /\ Rank(K, i) \in Int
        BY <2>1, <2>5
      <4>5. CASE m = i
        BY <3>2, <4>1, <4>4, <4>5
      <4>6. CASE m < i
        <5>1. Rank(K, m) < Rank(K, i)
          BY <2>1, <2>5, <4>6
        <5> QED BY <3>2, <4>1, <4>4, <5>1
      <4> QED BY <4>3, <4>5, <4>6
    <3> QED BY <3>1, <3>2
  <2>7. LiveAt(G, k, S, c, Rank(K, i))
    BY <1>1, <1>4, <2>2, <2>3, <2>6 DEF LiveAt, LastAt
  <2> QED BY <1>4, <2>2, <2>7
<1> QED BY <1>3, <1>4

\* and a key that was not live is not live afterwards.
LEMMA ThinnedRevivesNothing ==
  ASSUME NEW F, GoodFiles(F), NEW G, NEW K, NEW c, Thins(F, G, K, c),
         NEW S \in SUBSET Segments, c \in S, NEW k, KeepsKey(F, K, S, c, k),
         NEW s, NEW j, LiveAt(G, k, S, s, j)
  PROVE  \E u, i : LiveAt(F, k, S, u, i)
<1>1. /\ s \in S /\ j \in RecordsOf(G, k, s) /\ G[s][j].value # Tombstone
      /\ \A t \in S : \A m \in RecordsOf(G, k, t) : t < s \/ (t = s /\ m <= j)
  BY DEF LiveAt, LastAt
<1>2. S \subseteq Nat /\ s \in Nat /\ c \in Nat /\ s \in Segments /\ c \in Segments
  BY <1>1, SegmentsAre
<1>3. \A t \in S : t # c => RecordsOf(G, k, t) = RecordsOf(F, k, t)
  <2>1. \A t \in Segments : t # c => RecordsOf(G, k, t) = RecordsOf(F, k, t)
    BY OthersNotThinned
  <2> QED BY <2>1
<1>4. ASSUME s # c, RecordsOf(F, k, c) = {} \/ c < s
      PROVE  LiveAt(F, k, S, s, j)
  <2>1. G[s] = F[s] /\ j \in RecordsOf(F, k, s)
    BY <1>1, <1>2, <1>3, <1>4 DEF Thins
  <2>2. \A t \in S : \A m \in RecordsOf(F, k, t) : t < s \/ (t = s /\ m <= j)
    BY <1>1, <1>3, <1>4
  <2> QED BY <1>1, <2>1, <2>2 DEF LiveAt, LastAt
<1>5. CASE RecordsOf(F, k, c) = {}
  <2>1. s # c
    BY <1>1, <1>5, RecordsOfThinned
  <2> QED BY <1>4, <1>5, <2>1
<1>6. CASE \E t \in S : t > c /\ RecordsOf(F, k, t) # {}
  <2>1. PICK t \in S : t > c /\ RecordsOf(F, k, t) # {}
    BY <1>6
  <2>2. t \in Nat /\ t # c
    BY <1>2, <2>1
  <2>3. PICK m \in RecordsOf(G, k, t) : TRUE
    BY <1>3, <2>1, <2>2
  <2>4. t < s \/ t = s
    BY <1>1, <2>3
  <2>5. c < s /\ s # c
    BY <1>2, <2>1, <2>2, <2>4
  <2> QED BY <1>4, <2>5
<1>7. CASE \E i \in K : LiveAt(F, k, S, c, i)
  BY <1>7
<1>8. CASE /\ \A u, i : ~LiveAt(F, k, S, u, i)
           /\ \A i \in K : F[c][i].key = k => F[c][i].value = Tombstone
           /\ \/ \E i \in K : F[c][i].key = k
              \/ \A t \in S : t < c => RecordsOf(F, k, t) = {}
  <2>1. s # c
    <3> SUFFICES ASSUME s = c PROVE FALSE
      OBVIOUS
    <3>1. PICK i \in K : i \in RecordsOf(F, k, c) /\ G[c][j] = F[c][i]
      BY <1>1, RecordsOfThinned
    <3>2. F[c][i].key = k
      BY <3>1 DEF RecordsOf
    <3> QED BY <1>1, <1>8, <3>1, <3>2
  <2>2. ~ (c < s)
    BY <1>4, <1>8, <2>1
  <2>3. s < c
    BY <1>2, <2>1, <2>2
  <2>4. RecordsOf(F, k, s) # {}
    BY <1>1, <1>3, <2>1
  <2>5. PICK i \in K : F[c][i].key = k
    BY <1>1, <1>8, <2>3, <2>4
  <2>6. Rank(K, i) \in RecordsOf(G, k, c)
    BY <2>5, RecordsOfThinned
  <2>7. c < s \/ c = s
    BY <1>1, <2>6
  <2> QED BY <2>1, <2>2, <2>7
<1> QED BY <1>5, <1>6, <1>7, <1>8 DEF KeepsKey


-----------------------------------------------------------------------------
(* What the files mean to a process that can read all of them.              *)

\* Key k has the same value in the files F and G, or none.
SameValue(F, G, k) ==
  /\ \A s, i : LiveAt(F, k, Segments, s, i)
       => \E t, j : LiveAt(G, k, Segments, t, j) /\ G[t][j].value = F[s][i].value
  /\ \A t, j : LiveAt(G, k, Segments, t, j) => \E s, i : LiveAt(F, k, Segments, s, i)

SameMeaning(F, G) == \A k \in Keys : SameValue(F, G, k)

\* G is F with the value v for k, or without k if v is the tombstone.
Puts(F, G, k, v) ==
  /\ \A x \in Keys \ {k} : SameValue(F, G, x)
  /\ v = Tombstone => \A s, i : ~LiveAt(G, k, Segments, s, i)
  /\ v # Tombstone => \E s, i : LiveAt(G, k, Segments, s, i) /\ G[s][i].value = v

\* Torn tails mean nothing,
LEMMA TailsMeanNothing ==
  ASSUME NEW F, NEW G, SameRecords(F, G)
  PROVE  SameMeaning(F, G)
<1>1. \A k, s, i : LiveAt(G, k, Segments, s, i) <=> LiveAt(F, k, Segments, s, i)
  BY SameRecordsSameLast
<1>2. \A k, s, i : LiveAt(F, k, Segments, s, i) => G[s][i].value = F[s][i].value
  BY DEF LiveAt, LastAt, RecordsOf, SameRecords
<1> QED BY <1>1, <1>2 DEF SameMeaning, SameValue

\* nor do tombstones of keys without a value,
LEMMA TombstonesMeanNothing ==
  ASSUME NEW F, GoodFiles(F), NEW G, NEW a, Extends(F, G, Segments, a),
         \A j \in New(F, G, a) : /\ G[a][j].value = Tombstone
                                 /\ \A s, i : ~LiveAt(F, G[a][j].key, Segments, s, i)
  PROVE  SameMeaning(F, G)
<1>1. \A k, s, i : /\ LiveAt(G, k, Segments, s, i) <=> LiveAt(F, k, Segments, s, i)
                   /\ LiveAt(F, k, Segments, s, i) => G[s][i] = F[s][i]
  BY TombstonesOnTop
<1> QED BY <1>1 DEF SameMeaning, SameValue

\* nor what is thinned out, as long as every key is kept.
LEMMA ThinnedMeansTheSame ==
  ASSUME NEW F, GoodFiles(F), NEW G, NEW K, NEW c, Thins(F, G, K, c),
         \A k \in Keys : KeepsKey(F, K, Segments, c, k)
  PROVE  SameMeaning(F, G)
<1> SUFFICES ASSUME NEW k \in Keys PROVE SameValue(F, G, k)
  BY DEF SameMeaning
<1>1. KeepsKey(F, K, Segments, c, k) /\ c \in Segments
  BY DEF Thins
<1>2. ASSUME NEW s, NEW i, LiveAt(F, k, Segments, s, i)
      PROVE  \E t, j : LiveAt(G, k, Segments, t, j) /\ G[t][j].value = F[s][i].value
  <2>1. /\ LiveAt(G, k, Segments, s, Place(K, c, s, i))
        /\ G[s][Place(K, c, s, i)] = F[s][i]
    BY <1>1, <1>2, ThinnedKeepsLive
  <2> QED BY <2>1
<1>3. ASSUME NEW t, NEW j, LiveAt(G, k, Segments, t, j)
      PROVE  \E s, i : LiveAt(F, k, Segments, s, i)
  BY <1>1, <1>3, ThinnedRevivesNothing
<1> QED BY <1>2, <1>3 DEF SameValue

\* A record above all the others sets its key.
LEMMA RecordPuts ==
  ASSUME NEW F, GoodFiles(F), NEW G, NEW s, Extends(F, G, Segments, s),
         NEW k, NEW n \in RecordsOf(G, k, s), n = Count(G, s), New(F, G, s) = {n}
  PROVE  Puts(F, G, k, G[s][n].value)
<1>1. \A t, i : LastAt(G, k, Segments, t, i) <=> t = s /\ i = n
  <2>1. Count(G, s) \in RecordsOf(G, k, s)
    OBVIOUS
  <2> QED BY <2>1, TheNewOneIsLast
<1>2. ASSUME NEW x \in Keys \ {k} PROVE SameValue(F, G, x)
  <2>1. \A j \in New(F, G, s) : G[s][j].key # x
    BY <1>2 DEF RecordsOf
  <2>2. \A t, i : /\ LiveAt(G, x, Segments, t, i) <=> LiveAt(F, x, Segments, t, i)
                  /\ LiveAt(F, x, Segments, t, i) => G[t][i] = F[t][i]
    BY <2>1, OthersStay
  <2> QED BY <2>2 DEF SameValue
<1>3. \A t, i : LiveAt(G, k, Segments, t, i) <=> t = s /\ i = n /\ G[s][n].value # Tombstone
  BY <1>1 DEF LiveAt
<1> QED BY <1>2, <1>3 DEF Puts

-----------------------------------------------------------------------------
(* Replaying the files gives what is live in them.                          *)

\* Segments without a file may be added or left out.
LEMMA NoFileNoRecord ==
  ASSUME TypeInv, NEW S \in SUBSET Segments
  PROVE  /\ \A k, s, i : LiveAt(Files, k, S, s, i) <=> LiveAt(Files, k, S \cap DOMAIN disk, s, i)
         /\ \A idx : IndexIs(Files, S, idx) <=> IndexIs(Files, S \cap DOMAIN disk, idx)
<1>1. \A s \in S \ DOMAIN disk : Count(Files, s) = 0
  BY FilesAre
<1>2. \A k : \A s \in S \ DOMAIN disk : RecordsOf(Files, k, s) = {}
  BY <1>1 DEF RecordsOf
<1>3. \A k, s, i : LastAt(Files, k, S, s, i) <=> LastAt(Files, k, S \cap DOMAIN disk, s, i)
  BY <1>2 DEF LastAt
<1>4. \A k, s, i : LiveAt(Files, k, S, s, i) <=> LiveAt(Files, k, S \cap DOMAIN disk, s, i)
  BY <1>3 DEF LiveAt
<1>5. \A s \in S \ DOMAIN disk : 1 .. Count(Files, s) = {}
  BY <1>1
<1>6. ASSUME NEW idx, NEW k
      PROVE  (\A s \in S : \A i \in 1 .. Count(Files, s) : ~LiveAt(Files, k, S, s, i))
             <=> (\A s \in S \cap DOMAIN disk : \A i \in 1 .. Count(Files, s) :
                     ~LiveAt(Files, k, S \cap DOMAIN disk, s, i))
  BY <1>4, <1>5
<1>7. \A idx : IndexIs(Files, S, idx) <=> IndexIs(Files, S \cap DOMAIN disk, idx)
  BY <1>4, <1>6 DEF IndexIs
<1> QED BY <1>4, <1>7

\* The records of a key that a replay of the segments meets, and the last one.
LEMMA OccurrencesAre ==
  ASSUME TypeInv, LinesInv, NEW S \in SUBSET DOMAIN disk, NEW k
  PROVE  /\ \A s \in S : \A i \in RecordsOf(Files, k, s) :
               [seg |-> s, pos |-> i] \in Occurrences(k, S)
         /\ \A p \in Occurrences(k, S) :
               /\ p = [seg |-> p.seg, pos |-> p.pos]
               /\ p.seg \in S /\ p.pos \in RecordsOf(Files, k, p.seg)
<1>1. \A s \in S : s \in Segments /\ Files[s] = disk[s] /\ DOMAIN disk[s] = 1 .. Len(Files[s])
  <2> SUFFICES ASSUME NEW s \in S
               PROVE  s \in Segments /\ Files[s] = disk[s] /\ DOMAIN disk[s] = 1 .. Len(Files[s])
    OBVIOUS
  <2>1. s \in Segments /\ Files[s] = disk[s] /\ Files[s] \in Seq(Lines)
    BY FilesAre
  <2> QED BY <2>1, FileFacts
<1>2. \A s \in S : RecordsOf(Files, k, s)
                   = {j \in DOMAIN disk[s] : IsRecord(disk[s][j]) /\ disk[s][j].key = k}
  <2> SUFFICES ASSUME NEW s \in S
               PROVE  RecordsOf(Files, k, s)
                      = {j \in DOMAIN disk[s] : IsRecord(disk[s][j]) /\ disk[s][j].key = k}
    OBVIOUS
  <2>1. GoodFiles(Files) /\ s \in Segments
    BY <1>1 DEF LinesInv
  <2>2. /\ \A i \in 1 .. Count(Files, s) : i \in 1 .. Len(Files[s]) /\ IsRecord(Files[s][i])
        /\ \A i \in 1 .. Len(Files[s]) : IsRecord(Files[s][i]) => i \in 1 .. Count(Files, s)
    BY <2>1, GoodFilesAre
  <2> QED BY <1>1, <2>2 DEF RecordsOf
<1>3. \A s \in S : \A i \in RecordsOf(Files, k, s) : [seg |-> s, pos |-> i] \in Occurrences(k, S)
  BY <1>2 DEF Occurrences
<1>4. \A p \in Occurrences(k, S) : \E s \in S : \E i \in RecordsOf(Files, k, s) :
        p = [seg |-> s, pos |-> i]
  <2> SUFFICES ASSUME NEW p \in Occurrences(k, S)
               PROVE  \E s \in S : \E i \in RecordsOf(Files, k, s) : p = [seg |-> s, pos |-> i]
    OBVIOUS
  <2>1. PICK s \in S : p \in {[seg |-> s, pos |-> i] :
            i \in {j \in DOMAIN disk[s] : IsRecord(disk[s][j]) /\ disk[s][j].key = k}}
    BY DEF Occurrences
  <2> QED BY <1>2, <2>1
<1> QED BY <1>3, <1>4

\* The last occurrence is the last record.
LEMMA LastOfIs ==
  ASSUME TypeInv, LinesInv, NEW S \in SUBSET DOMAIN disk, NEW k, NEW s, NEW i,
         LastAt(Files, k, S, s, i)
  PROVE  /\ LastOf(Occurrences(k, S)) = [seg |-> s, pos |-> i]
         /\ Occurrences(k, S) # {}
<1> DEFINE p == [seg |-> s, pos |-> i]
           Greatest(x) == \A q \in Occurrences(k, S) :
                            q.seg < x.seg \/ (q.seg = x.seg /\ q.pos <= x.pos)
<1>1. /\ s \in S /\ i \in RecordsOf(Files, k, s)
      /\ \A t \in S : \A j \in RecordsOf(Files, k, t) : t < s \/ (t = s /\ j <= i)
  BY DEF LastAt
<1>2. p \in Occurrences(k, S) /\ p.seg = s /\ p.pos = i
  BY <1>1, OccurrencesAre
<1>3. Greatest(p)
  <2> SUFFICES ASSUME NEW q \in Occurrences(k, S)
               PROVE  q.seg < s \/ (q.seg = s /\ q.pos <= i)
    BY <1>2
  <2>1. q.seg \in S /\ q.pos \in RecordsOf(Files, k, q.seg)
    BY OccurrencesAre
  <2> QED BY <1>1, <2>1
<1>4. ASSUME NEW x \in Occurrences(k, S), Greatest(x) PROVE x = p
  <2>1. x = [seg |-> x.seg, pos |-> x.pos] /\ x.seg \in S /\ x.pos \in RecordsOf(Files, k, x.seg)
    BY OccurrencesAre
  <2>2. LastAt(Files, k, S, x.seg, x.pos)
    <3> SUFFICES ASSUME NEW t \in S, NEW j \in RecordsOf(Files, k, t)
                 PROVE  t < x.seg \/ (t = x.seg /\ j <= x.pos)
      BY <2>1 DEF LastAt
    <3> DEFINE q == [seg |-> t, pos |-> j]
    <3>1. q \in Occurrences(k, S) /\ q.seg = t /\ q.pos = j
      BY OccurrencesAre
    <3> HIDE DEF q
    <3> QED BY <1>4, <3>1
  <2>3. GoodFiles(Files) /\ S \in SUBSET Segments
    BY FilesAre DEF LinesInv
  <2>4. x.seg = s /\ x.pos = i
    BY <2>2, <2>3, LastIsUnique
  <2> QED BY <2>1, <2>4
<1>5. LastOf(Occurrences(k, S)) = CHOOSE x \in Occurrences(k, S) : Greatest(x)
  BY DEF LastOf
<1>6. (CHOOSE x \in Occurrences(k, S) : Greatest(x)) = p
  <2> HIDE DEF Greatest, p
  <2> QED BY <1>2, <1>3, <1>4
<1> QED BY <1>2, <1>5, <1>6

\* Whether a key is live, when it is known where its last record is, if any.
LEMMA LastDecides ==
  ASSUME TypeInv, LinesInv, NEW S \in SUBSET DOMAIN disk, NEW k
  PROVE  \/ /\ Occurrences(k, S) = {}
            /\ \A s, i : ~LiveAt(Files, k, S, s, i)
         \/ \E s \in S : \E i \in 1 .. Count(Files, s) :
              /\ LastAt(Files, k, S, s, i)
              /\ Occurrences(k, S) # {}
              /\ LastOf(Occurrences(k, S)) = [seg |-> s, pos |-> i]
              /\ disk[s][i] = Files[s][i]
              /\ \A t, j : LiveAt(Files, k, S, t, j)
                           => t = s /\ j = i /\ disk[s][i].value # Tombstone
<1>1. GoodFiles(Files) /\ S \in SUBSET Segments /\ \A s \in S : disk[s] = Files[s]
  BY FilesAre DEF LinesInv
<1>2. CASE \A s \in S : RecordsOf(Files, k, s) = {}
  <2>1. Occurrences(k, S) = {}
    <3> SUFFICES ASSUME NEW p \in Occurrences(k, S) PROVE FALSE
      OBVIOUS
    <3>1. p.seg \in S /\ p.pos \in RecordsOf(Files, k, p.seg)
      BY OccurrencesAre
    <3> QED BY <1>2, <3>1
  <2>2. \A s, i : ~LiveAt(Files, k, S, s, i)
    BY <1>2 DEF LiveAt, LastAt
  <2> QED BY <2>1, <2>2
<1>3. CASE ~ \A s \in S : RecordsOf(Files, k, s) = {}
  <2>1. PICK t \in S : RecordsOf(Files, k, t) # {}
    BY <1>3
  <2>2. PICK s \in S : \E i \in 1 .. Count(Files, s) : LastAt(Files, k, S, s, i)
    BY <1>1, <2>1, LastExists
  <2>3. PICK i \in 1 .. Count(Files, s) : LastAt(Files, k, S, s, i)
    BY <2>2
  <2>4. LastOf(Occurrences(k, S)) = [seg |-> s, pos |-> i] /\ Occurrences(k, S) # {}
    BY <2>3, LastOfIs
  <2>5. \A u, j : LastAt(Files, k, S, u, j) => u = s /\ j = i
    BY <1>1, <2>3, LastIsUnique
  <2> QED BY <1>1, <2>3, <2>4, <2>5 DEF LiveAt
<1> QED BY <1>2, <1>3

\* Replaying the segments yields an index of what is live in them.
LEMMA ReadIndexIs ==
  ASSUME TypeInv, LinesInv, NEW S \in SUBSET DOMAIN disk
  PROVE  /\ IndexIs(Files, S, ReadIndex(S))
         /\ DOMAIN ReadIndex(S) \subseteq Keys
         /\ ReadIndex(S) \in [DOMAIN ReadIndex(S) -> Positions]
<1> DEFINE Last(k) == LastOf(Occurrences(k, S))
           live == {k \in Keys : /\ Occurrences(k, S) # {}
                                 /\ disk[Last(k).seg][Last(k).pos].value # Tombstone}
<1>1. ReadIndex(S) = [k \in live |-> Last(k)]
  BY DEF ReadIndex
<1>2. DOMAIN ReadIndex(S) = live /\ \A k \in live : ReadIndex(S)[k] = Last(k)
  BY <1>1
<1>3. \A k \in live : LiveAt(Files, k, S, Last(k).seg, Last(k).pos) /\ Last(k) \in Positions
  <2> SUFFICES ASSUME NEW k \in live
               PROVE  LiveAt(Files, k, S, Last(k).seg, Last(k).pos) /\ Last(k) \in Positions
    OBVIOUS
  <2>1. Occurrences(k, S) # {} /\ disk[Last(k).seg][Last(k).pos].value # Tombstone
    OBVIOUS
  <2>2. PICK s \in S : \E i \in 1 .. Count(Files, s) :
          /\ LastAt(Files, k, S, s, i)
          /\ Last(k) = [seg |-> s, pos |-> i]
          /\ disk[s][i] = Files[s][i]
    BY <2>1, LastDecides
  <2>3. PICK i \in 1 .. Count(Files, s) :
          /\ LastAt(Files, k, S, s, i)
          /\ Last(k) = [seg |-> s, pos |-> i]
          /\ disk[s][i] = Files[s][i]
    BY <2>2
  <2>4. Last(k).seg = s /\ Last(k).pos = i
    BY <2>3
  <2>5. s \in Segments /\ Count(Files, s) \in Nat
    BY FilesAre
  <2>6. Last(k) \in Positions
    BY <2>3, <2>5 DEF Positions
  <2> QED BY <2>1, <2>3, <2>4, <2>6 DEF LiveAt
<1>4. ASSUME NEW k \in Keys, k \notin live PROVE \A s, i : ~LiveAt(Files, k, S, s, i)
  <2>1. Occurrences(k, S) = {} \/ disk[Last(k).seg][Last(k).pos].value = Tombstone
    BY <1>4
  <2>2. CASE Occurrences(k, S) = {}
    BY <2>2, LastDecides
  <2>3. CASE Occurrences(k, S) # {}
    <3>1. PICK s \in S : \E i \in 1 .. Count(Files, s) :
            /\ Last(k) = [seg |-> s, pos |-> i]
            /\ \A t, j : LiveAt(Files, k, S, t, j)
                         => t = s /\ j = i /\ disk[s][i].value # Tombstone
      BY <2>3, LastDecides
    <3>2. PICK i \in 1 .. Count(Files, s) :
            /\ Last(k) = [seg |-> s, pos |-> i]
            /\ \A t, j : LiveAt(Files, k, S, t, j)
                         => t = s /\ j = i /\ disk[s][i].value # Tombstone
      BY <3>1
    <3>3. Last(k).seg = s /\ Last(k).pos = i
      BY <3>2
    <3> QED BY <2>1, <2>3, <3>2, <3>3
  <2> QED BY <2>2, <2>3
<1> HIDE DEF Last, live
<1>5. live \subseteq Keys
  BY DEF live
<1> QED BY <1>2, <1>3, <1>4, <1>5, <1>1 DEF IndexIs

\* There is only one such index.
LEMMA IndexIsReadIndex ==
  ASSUME TypeInv, LinesInv, NEW S \in SUBSET DOMAIN disk,
         NEW idx, idx = [k \in DOMAIN idx |-> idx[k]], DOMAIN idx \subseteq Keys,
         \A k \in DOMAIN idx : idx[k] \in Positions,
         IndexIs(Files, S, idx)
  PROVE  idx = ReadIndex(S)
<1> DEFINE other == ReadIndex(S)
<1>1. /\ IndexIs(Files, S, other) /\ DOMAIN other \subseteq Keys
      /\ other \in [DOMAIN other -> Positions]
  BY ReadIndexIs
<1>2. GoodFiles(Files) /\ S \in SUBSET Segments
  BY FilesAre DEF LinesInv
<1> HIDE DEF other
<1>3. ASSUME NEW x, NEW y, IndexIs(Files, S, x), IndexIs(Files, S, y), NEW k \in Keys,
             k \in DOMAIN x
      PROVE  k \in DOMAIN y
  <2>1. LiveAt(Files, k, S, x[k].seg, x[k].pos)
    BY <1>3 DEF IndexIs
  <2>2. x[k].seg \in S /\ x[k].pos \in 1 .. Count(Files, x[k].seg)
    BY <2>1 DEF LiveAt, LastAt, RecordsOf
  <2> QED BY <1>3, <2>1, <2>2 DEF IndexIs
<1>4. DOMAIN idx = DOMAIN other
  BY <1>1, <1>3
<1>5. \A k \in DOMAIN idx : idx[k] = other[k]
  <2> SUFFICES ASSUME NEW k \in DOMAIN idx PROVE idx[k] = other[k]
    OBVIOUS
  <2>1. /\ LastAt(Files, k, S, idx[k].seg, idx[k].pos)
        /\ LastAt(Files, k, S, other[k].seg, other[k].pos)
    BY <1>1, <1>4 DEF IndexIs, LiveAt
  <2>2. idx[k].seg = other[k].seg /\ idx[k].pos = other[k].pos
    BY <1>2, <2>1, LastIsUnique
  <2>3. idx[k] \in Positions /\ other[k] \in Positions
    BY <1>1, <1>4
  <2> QED BY <2>2, <2>3 DEF Positions
<1>6. other = [k \in DOMAIN other |-> other[k]]
  BY <1>1
<1>7. idx = other
  BY <1>4, <1>5, <1>6
<1> QED BY <1>7 DEF other


-----------------------------------------------------------------------------
(* What compaction keeps.                                                   *)

\* A record is indexed under one key only, so the live ones can be counted.
LEMMA LiveCount ==
  ASSUME TypeInv, LinesInv, IndexInv, NEW s \in Readable
  PROVE  /\ IsFiniteSet(LiveIn(s, index))
         /\ Cardinality(LiveIn(s, index)) \in Nat
         /\ Cardinality(LiveIn(s, index)) <= Count(Files, s)
         /\ \A k \in LiveIn(s, index) : /\ k \in Keys /\ LiveAt(Files, k, Readable, s, index[k].pos)
                                        /\ index[k].pos \in 1 .. Count(Files, s)
                                        /\ Files[s][index[k].pos].key = k
<1> DEFINE P == [k \in LiveIn(s, index) |-> index[k].pos]
           n == Count(Files, s)
<1>1. s \in Segments /\ n \in Nat /\ DOMAIN index \subseteq Keys
  BY FilesAre DEF TypeInv, ObjectType, Readable
<1>2. \A k \in LiveIn(s, index) : /\ k \in Keys /\ LiveAt(Files, k, Readable, s, index[k].pos)
                                  /\ index[k].pos \in 1 .. n
                                  /\ Files[s][index[k].pos].key = k
  <2> SUFFICES ASSUME NEW k \in LiveIn(s, index)
               PROVE  /\ k \in Keys /\ LiveAt(Files, k, Readable, s, index[k].pos)
                      /\ index[k].pos \in 1 .. n
                      /\ Files[s][index[k].pos].key = k
    OBVIOUS
  <2>1. k \in DOMAIN index /\ index[k].seg = s /\ k \in Keys
    BY <1>1 DEF LiveIn
  <2>2. LiveAt(Files, k, Readable, s, index[k].pos)
    BY <2>1 DEF IndexInv, IndexIs
  <2> QED BY <2>1, <2>2 DEF LiveAt, LastAt, RecordsOf
<1>3. P \in Injection(LiveIn(s, index), 1 .. n)
  <2>1. P \in [LiveIn(s, index) -> 1 .. n]
    BY <1>2
  <2>2. \A a, b \in LiveIn(s, index) : P[a] = P[b] => a = b
    BY <1>2
  <2> HIDE DEF P
  <2> QED BY <2>1, <2>2 DEF Injection, IsInjective
<1>4. IsFiniteSet(1 .. n) /\ Cardinality(1 .. n) = n
  BY <1>1, FS_Interval
<1>5. IsFiniteSet(LiveIn(s, index)) /\ Cardinality(LiveIn(s, index)) <= n
  <2> HIDE DEF P, n
  <2> QED BY <1>3, <1>4, FS_Injection
<1>6. Cardinality(LiveIn(s, index)) \in Nat
  BY <1>5, FS_CardinalityType
<1> HIDE DEF n
<1> QED BY <1>2, <1>5, <1>6 DEF n

\* The lines of a segment that a compaction keeps, as numbers of lines,
LEMMA KeptAre ==
  ASSUME TypeInv, LinesInv, NEW c \in DOMAIN disk
  PROVE  /\ Kept(c) \in SUBSET (1 .. Count(Files, c))
         /\ Cardinality(Kept(c)) \in Nat /\ IsFiniteSet(Kept(c))
         /\ Cardinality(KeptTombstones(c)) \in Nat /\ Cardinality(KeptLive(c)) \in Nat
         /\ Cardinality(Kept(c)) = Cardinality(KeptLive(c)) + Cardinality(KeptTombstones(c))
         /\ \A i : NewPosition(c, i) = Rank(Kept(c), i)
         /\ \A i \in KeptTombstones(c) : /\ Files[c][i].value = Tombstone
                                         /\ Files[c][i].key \notin DOMAIN index
<1>1. c \in Segments /\ Files[c] = disk[c] /\ Count(Files, c) \in Nat
  BY FilesAre
<1>2. CompleteLength(disk[c]) = Count(Files, c)
  BY <1>1 DEF Count
<1>3. /\ KeptLive(c) \in SUBSET (1 .. Count(Files, c))
      /\ \A i \in KeptLive(c) : Files[c][i].key \in DOMAIN index
  BY <1>1, <1>2 DEF KeptLive
<1>4. /\ KeptTombstones(c) \in SUBSET (1 .. Count(Files, c))
      /\ \A i \in KeptTombstones(c) : /\ Files[c][i].value = Tombstone
                                      /\ Files[c][i].key \notin DOMAIN index
  BY <1>1, <1>2 DEF KeptTombstones
<1>5. KeptLive(c) \cap KeptTombstones(c) = {}
  BY <1>3, <1>4
<1>6. /\ IsFiniteSet(KeptLive(c)) /\ Cardinality(KeptLive(c)) \in Nat
      /\ IsFiniteSet(KeptTombstones(c)) /\ Cardinality(KeptTombstones(c)) \in Nat
  BY <1>1, <1>3, <1>4, RanksAre
<1>7. Cardinality(KeptLive(c) \cap KeptTombstones(c)) = 0
  BY <1>5, FS_EmptySet
<1>8. Cardinality(Kept(c)) = Cardinality(KeptLive(c)) + Cardinality(KeptTombstones(c))
  <2>1. Cardinality(KeptLive(c) \cup KeptTombstones(c))
          = Cardinality(KeptLive(c)) + Cardinality(KeptTombstones(c))
            - Cardinality(KeptLive(c) \cap KeptTombstones(c))
    BY <1>6, FS_Union
  <2> QED BY <1>6, <1>7, <2>1 DEF Kept
<1>9. Kept(c) \in SUBSET (1 .. Count(Files, c))
  BY <1>3, <1>4 DEF Kept
<1>10. Cardinality(Kept(c)) \in Nat /\ IsFiniteSet(Kept(c))
  BY <1>1, <1>9, RanksAre
<1>11. \A i : NewPosition(c, i) = Rank(Kept(c), i)
  BY DEF NewPosition, Rank
<1> QED BY <1>4, <1>6, <1>8, <1>9, <1>10, <1>11

\* and the file it makes of them.
LEMMA RebuiltIs ==
  ASSUME TypeInv, LinesInv, NEW c \in DOMAIN disk
  PROVE  /\ Rebuilt(c) \in Seq(Records)
         /\ Len(Rebuilt(c)) = Cardinality(Kept(c))
         /\ \A i \in Kept(c) : Rebuilt(c)[Rank(Kept(c), i)] = Files[c][i]
         /\ \A n \in 1 .. Cardinality(Kept(c)) :
               \E i \in Kept(c) : Rank(Kept(c), i) = n /\ Rebuilt(c)[n] = Files[c][i]
         /\ GoodFile(Rebuilt(c)) /\ ~IsTorn(Rebuilt(c))
         /\ CompleteLength(Rebuilt(c)) = Cardinality(Kept(c))
<1> DEFINE K == Kept(c)
           m == Cardinality(Kept(c))
           R == Rebuilt(c)
           from(n) == CHOOSE i \in K : Rank(K, i) = n
<1>1. c \in Segments /\ Files[c] = disk[c] /\ Count(Files, c) \in Nat /\ GoodFiles(Files)
  BY FilesAre DEF LinesInv
<1>2. K \in SUBSET (1 .. Count(Files, c)) /\ m \in Nat
  BY KeptAre
<1>3. /\ \A i \in K : Rank(K, i) \in 1 .. m
      /\ \A i, j \in K : i < j => Rank(K, i) < Rank(K, j)
      /\ \A n \in 1 .. m : \E i \in K : Rank(K, i) = n
  <2> HIDE DEF K
  <2>1. m = Cardinality(K)
    BY DEF K
  <2> QED BY <1>1, <1>2, <2>1, RanksAre
<1>4. \A i : NewPosition(c, i) = Rank(K, i)
  BY KeptAre
<1>5. R = [n \in 1 .. m |-> Files[c][from(n)]]
  <2>1. R = [n \in 1 .. m |-> disk[c][CHOOSE i \in K : NewPosition(c, i) = n]]
    BY DEF Rebuilt
  <2>2. \A n : (CHOOSE i \in K : NewPosition(c, i) = n) = from(n)
    <3> HIDE DEF K
    <3> QED BY <1>4
  <2> HIDE DEF K, m, R, from
  <2> QED BY <1>1, <2>1, <2>2
<1>6. \A n \in 1 .. m : from(n) \in K /\ Rank(K, from(n)) = n
  <2> HIDE DEF K, m
  <2> QED BY <1>3
<1>7. \A i \in K : from(Rank(K, i)) = i
  <2> SUFFICES ASSUME NEW i \in K PROVE from(Rank(K, i)) = i
    OBVIOUS
  <2> DEFINE j == from(Rank(K, i))
  <2>1. j \in K /\ Rank(K, j) = Rank(K, i)
    <3> HIDE DEF K, m, from
    <3> QED BY <1>3, <1>6
  <2>2. i \in Nat /\ j \in Nat /\ Rank(K, i) \in Nat
    <3> HIDE DEF K, m, j
    <3> QED BY <1>1, <1>2, <1>3, <2>1
  <2>3. ~ (i < j) /\ ~ (j < i)
    <3> HIDE DEF K, m, j
    <3>1. i < j => Rank(K, i) < Rank(K, j)
      BY <1>3, <2>1
    <3>2. j < i => Rank(K, j) < Rank(K, i)
      BY <1>3, <2>1
    <3> QED BY <2>1, <2>2, <3>1, <3>2
  <2>4. i = j
    <3> HIDE DEF j
    <3> QED BY <2>2, <2>3
  <2> QED BY <2>4
<1>8. \A i \in K : Files[c][i] \in Records
  <2> HIDE DEF K
  <2> QED BY <1>1, <1>2, GoodFilesAre
<1> HIDE DEF K, m, R, from
<1>9. R \in [1 .. m -> Records] /\ DOMAIN R = 1 .. m
  BY <1>5, <1>6, <1>8
<1>10. R \in Seq(Records)
  BY <1>2, <1>9, SeqDef
<1>11. Len(R) \in Nat /\ 1 .. Len(R) = 1 .. m
  BY <1>9, <1>10, LenProperties
<1>12. Len(R) = m
  BY <1>2, <1>11
<1>13. \A i \in K : R[Rank(K, i)] = Files[c][i]
  BY <1>3, <1>5, <1>7
<1>14. \A n \in 1 .. m : \E i \in K : Rank(K, i) = n /\ R[n] = Files[c][i]
  BY <1>5, <1>6
<1>15. \A n \in 1 .. Len(R) : R[n] \in Records
  BY <1>9, <1>12
<1>16. R \in Seq(Lines)
  <2>1. Records \subseteq Lines
    BY DEF Lines
  <2> QED BY <1>10, <2>1, SeqMonotonic
<1>17. GoodFile(R)
  BY <1>15, <1>16 DEF GoodFile
<1>18. ~IsTorn(R)
  <2> SUFFICES ASSUME IsTorn(R) PROVE FALSE
    OBVIOUS
  <2>1. Len(R) > 0 /\ R[Len(R)] = Torn
    BY <1>16, FileFacts
  <2> QED BY <1>11, <1>15, <2>1, RecordFacts
<1>19. CompleteLength(R) = m
  BY <1>12, <1>16, <1>18, FileFacts
<1> QED BY <1>10, <1>12, <1>13, <1>14, <1>17, <1>18, <1>19 DEF K, m, R

\* The first tombstone of a key that is not indexed is kept.
LEMMA FirstTombstoneKept ==
  ASSUME TypeInv, LinesInv, NEW c \in DOMAIN disk, LowerSegmentHasData(c),
         NEW k, k \notin DOMAIN index,
         NEW i \in RecordsOf(Files, k, c), Files[c][i].value = Tombstone
  PROVE  \E j \in Kept(c) : Files[c][j].key = k
<1> DEFINE needed(j) == /\ IsRecord(disk[c][j]) /\ disk[c][j].value = Tombstone
                        /\ disk[c][j].key \notin DOMAIN index
           T == {j \in RecordsOf(Files, k, c) : Files[c][j].value = Tombstone}
<1>1. /\ c \in Segments /\ Files[c] = disk[c] /\ Count(Files, c) \in Nat /\ GoodFiles(Files)
      /\ Count(Files, c) = CompleteLength(disk[c])
  BY FilesAre DEF LinesInv, Count
<1>2. T \in SUBSET (1 .. Count(Files, c)) /\ i \in T
  BY DEF RecordsOf
<1>3. PICK j \in T : \A m \in T : j <= m
  <2> HIDE DEF T
  <2>1. T \in SUBSET Nat /\ T # {}
    BY <1>1, <1>2
  <2> QED BY <2>1, LeastExists
<1>4. j \in 1 .. Count(Files, c) /\ Files[c][j].key = k /\ Files[c][j].value = Tombstone
  BY <1>3 DEF RecordsOf
<1>5. needed(j)
  BY <1>1, <1>4, GoodFilesAre
<1>6. \A m \in 1 .. (j - 1) : ~ (needed(m) /\ disk[c][m].key = disk[c][j].key)
  <2> SUFFICES ASSUME NEW m \in 1 .. (j - 1), needed(m), disk[c][m].key = disk[c][j].key
               PROVE  FALSE
    OBVIOUS
  <2>1. m \in 1 .. Count(Files, c) /\ ~ (j <= m)
    BY <1>1, <1>4
  <2>2. m \in T
    BY <1>1, <1>4, <2>1 DEF RecordsOf
  <2> HIDE DEF T
  <2> QED BY <1>3, <2>1, <2>2
<1> HIDE DEF T
<1>7. j \in KeptTombstones(c)
  BY <1>1, <1>4, <1>5, <1>6 DEF KeptTombstones
<1> QED BY <1>4, <1>7 DEF Kept

\* Compacting a segment loses no key, neither for what was read nor for
\* everything that is on the disk.
LEMMA CompactionKeepsKeys ==
  ASSUME TypeInv, LinesInv, SizeInv, IndexInv,
         NEW c \in DOMAIN disk, c \in Readable,
         NEW S \in SUBSET Segments, Readable \subseteq S, NEW k \in Keys
  PROVE  KeepsKey(Files, Kept(c), S, c, k)
<1> DEFINE F == Files
<1>1. /\ GoodFiles(F) /\ c \in Segments /\ c \in Nat /\ Segments \subseteq Nat
      /\ Readable \in SUBSET Segments /\ F[c] = disk[c]
  BY FilesAre, SegmentsAre DEF LinesInv, Readable
<1>2. SUFFICES ASSUME RecordsOf(F, k, c) # {},
                      \A t \in S : t > c => RecordsOf(F, k, t) = {}
               PROVE  \/ \E i \in Kept(c) : LiveAt(F, k, S, c, i)
                      \/ /\ \A s, i : ~LiveAt(F, k, S, s, i)
                         /\ \A i \in Kept(c) : F[c][i].key = k => F[c][i].value = Tombstone
                         /\ \/ \E i \in Kept(c) : F[c][i].key = k
                            \/ \A t \in S : t < c => RecordsOf(F, k, t) = {}
  BY DEF KeepsKey
<1>3. PICK s \in Readable : \E i \in 1 .. Count(F, s) : LastAt(F, k, Readable, s, i)
  BY <1>1, <1>2, LastExists
<1>4. PICK i \in 1 .. Count(F, s) : LastAt(F, k, Readable, s, i)
  BY <1>3
<1>5. /\ i \in RecordsOf(F, k, s)
      /\ \A t \in Readable : \A j \in RecordsOf(F, k, t) : t < s \/ (t = s /\ j <= i)
  BY <1>4 DEF LastAt
<1>6. s = c
  <2>1. s \in Nat /\ s \in S
    BY <1>1
  <2>2. c < s \/ c = s
    BY <1>2, <1>5
  <2>3. ~ (s > c)
    BY <1>2, <1>5, <2>1
  <2> QED BY <1>1, <2>1, <2>2, <2>3
<1>7. LastAt(F, k, S, c, i)
  <2> SUFFICES ASSUME NEW t \in S, NEW j \in RecordsOf(F, k, t)
               PROVE  t < c \/ (t = c /\ j <= i)
    BY <1>5, <1>6 DEF LastAt
  <2>1. ~ (t > c)
    BY <1>2
  <2>2. t < c \/ t = c
    BY <1>1, <2>1
  <2> QED BY <1>5, <1>6, <2>2
<1>8. \A u, j : LiveAt(F, k, S, u, j) => u = c /\ j = i
  BY <1>1, <1>7, LastIsUnique DEF LiveAt
<1>9. CASE k \in DOMAIN index
  <2>1. LiveAt(F, k, Readable, index[k].seg, index[k].pos)
    BY <1>9 DEF IndexInv, IndexIs
  <2>2. index[k].seg = c /\ index[k].pos = i
    BY <1>1, <1>4, <1>6, <2>1, LastIsUnique DEF LiveAt
  <2>3. LiveAt(F, k, S, c, i)
    BY <1>7, <2>1, <2>2 DEF LiveAt
  <2>4. /\ i \in 1 .. CompleteLength(disk[c]) /\ disk[c][i].key = k /\ IsRecord(disk[c][i])
    BY <1>1, <1>5, <1>6, GoodFilesAre DEF RecordsOf, Count
  <2>5. index[k] = [seg |-> c, pos |-> i]
    <3>1. index[k] \in Positions
      BY <1>9 DEF TypeInv, ObjectType
    <3> QED BY <2>2, <3>1 DEF Positions
  <2>6. i \in KeptLive(c)
    BY <1>9, <2>4, <2>5 DEF KeptLive
  <2> QED BY <2>3, <2>6 DEF Kept
<1>10. CASE k \notin DOMAIN index
  <2>1. \A u \in Readable : \A j \in 1 .. Count(F, u) : ~LiveAt(F, k, Readable, u, j)
    BY <1>10 DEF IndexInv, IndexIs
  <2>2. F[c][i].value = Tombstone
    BY <1>4, <1>6, <2>1 DEF LiveAt
  <2>3. \A u, j : ~LiveAt(F, k, S, u, j)
    BY <1>8, <2>2 DEF LiveAt
  <2>4. \A j \in Kept(c) : F[c][j].key = k => F[c][j].value = Tombstone
    <3> SUFFICES ASSUME NEW j \in Kept(c), F[c][j].key = k PROVE F[c][j].value = Tombstone
      OBVIOUS
    <3>1. j \notin KeptLive(c)
      BY <1>1, <1>10 DEF KeptLive
    <3>2. j \in KeptTombstones(c)
      BY <3>1 DEF Kept
    <3> QED BY <3>2, KeptAre
  <2>5. CASE LowerSegmentHasData(c)
    <3>1. \E j \in Kept(c) : F[c][j].key = k
      BY <1>5, <1>6, <1>10, <2>2, <2>5, FirstTombstoneKept
    <3> QED BY <2>3, <2>4, <3>1
  <2>6. CASE ~LowerSegmentHasData(c)
    <3>1. \A t \in S : t < c => RecordsOf(F, k, t) = {}
      <4> SUFFICES ASSUME NEW t \in S, t < c PROVE RecordsOf(F, k, t) = {}
        OBVIOUS
      <4>1. t \in Segments /\ t \notin unreadable
        BY <2>6 DEF LowerSegmentHasData
      <4>2. t \in Readable
        BY <4>1 DEF Readable
      <4>3. segmentBytes[t] = Count(F, t)
        BY <4>2 DEF SizeInv
      <4>4. ~ (segmentBytes[t] > 0) /\ Count(F, t) \in Nat
        BY <1>1, <2>6, <4>1, GoodFilesAre DEF LowerSegmentHasData
      <4>5. Count(F, t) = 0
        BY <4>3, <4>4
      <4> QED BY <4>5 DEF RecordsOf
    <3> QED BY <2>3, <2>4, <3>1
  <2> QED BY <2>5, <2>6
<1> QED BY <1>9, <1>10


-----------------------------------------------------------------------------
(* The steps that change neither the files nor the object.                  *)

\* No segment the index refers to has lost its file.
LEMMA NothingMissing ==
  ASSUME TypeInv, SizeInv
  PROVE  ~HasMissingSegment
<1> SUFFICES ASSUME NEW s \in Segments, segmentBytes[s] > 0, s \notin DOMAIN disk
             PROVE  FALSE
  BY DEF HasMissingSegment
<1>1. Count(Files, s) = 0
  BY FilesAre
<1>2. s \notin unreadable
  BY DEF SizeInv
<1>3. segmentBytes[s] = 0
  BY <1>1, <1>2 DEF SizeInv, Readable
<1> QED BY <1>3

\* What a failure of the platform changes.
LEMMA BreaksIs ==
  ASSUME TypeInv, Breaks
  PROVE  faults' \in Nat /\ troubled' = (troubled \/ op # NoOp)
<1>1. faults' \in Nat
  BY DEF TypeInv, CallType, CallOK, Breaks, Break
<1>2. troubled' = (troubled \/ op # NoOp)
  BY DEF Breaks, Break
<1> QED BY <1>1, <1>2

\* Steps that change neither the files nor what the object knows of them ...
LEMMA SameObject ==
  ASSUME Inv, UNCHANGED <<disk, memory>>, directory' \in {directory, TRUE},
         pc \notin {"trim", "probe", "restore"}, pc' # "trim"
  PROVE  DiskType' /\ ObjectType' /\ LinesInv' /\ ObjectInv' /\ TrimInv'
<1>1. /\ disk' = disk /\ index' = index /\ segmentBytes' = segmentBytes
      /\ segmentDeadBytes' = segmentDeadBytes /\ unreadable' = unreadable
      /\ partiallyRead' = partiallyRead /\ appendsDisabled' = appendsDisabled
      /\ loaded' = loaded /\ active' = active
  BY DEF memory, sizes, quality
<1>2. DiskType' /\ ObjectType'
  BY <1>1 DEF Inv, TypeInv, DiskType, ObjectType
<1>3. Files' = Files
  BY <1>1 DEF Files, FileOf
<1>4. LinesInv'
  BY <1>3 DEF Inv, LinesInv
<1>5. ASSUME loaded' PROVE SizeInv' /\ IndexInv' /\ DeadInv' /\ TopInv'
  <2>1. SizeInv /\ IndexInv /\ DeadInv /\ TopInv
    BY <1>1, <1>5 DEF Inv, ObjectInv
  <2>2. SizeInv'
    BY <1>1, <1>3, <2>1 DEF SizeInv, Readable
  <2>3. IndexInv'
    BY <1>1, <1>3, <2>1 DEF IndexInv, Readable
  <2>4. DeadInv'
    BY <1>1, <2>1 DEF DeadInv, Readable, LiveIn
  <2>5. TopInv'
    BY <1>1, <2>1 DEF TopInv, FileOf
  <2> QED BY <2>2, <2>3, <2>4, <2>5
<1>6. ObjectInv'
  BY <1>5 DEF ObjectInv
<1>7. TrimInv'
  BY DEF TrimInv
<1> QED BY <1>2, <1>4, <1>6, <1>7

\* ... and do not move the call to where something has to be known of them.
LEMMA LoadFailsKeeps == ASSUME Inv, LoadFails PROVE Inv'
<1>1. /\ UNCHANGED <<disk, memory>> /\ directory' \in {directory, TRUE}
      /\ pc = "load" /\ pc' \in {"idle", "return"}
      /\ UNCHANGED <<op, frame, applied, loaded, restarts, wipes>>
      /\ troubled' = (troubled \/ op # NoOp)
      /\ out' \in Values \cup {None, "ok", "threw"}
      /\ faults' \in Nat
  <2>1. faults' \in Nat /\ troubled' = (troubled \/ op # NoOp)
    BY BreaksIs DEF LoadFails, Inv
  <2>2. UNCHANGED <<disk, memory, op, frame, applied, counters>> /\ directory' \in {directory, TRUE}
    BY DEF LoadFails
  <2>3. pc = "load" /\ pc' \in {"idle", "return"} /\ out' \in Values \cup {None, "ok", "threw"}
    BY DEF LoadFails
  <2> QED BY <2>1, <2>2, <2>3 DEF counters, memory, quality
<1>2. DiskType' /\ ObjectType' /\ LinesInv' /\ ObjectInv' /\ TrimInv'
  BY <1>1, SameObject
<1>3. CallType'
  BY <1>1 DEF Inv, TypeInv, CallType, CallOK
<1>4. CallInv'
  <2>1. op = NoOp \/ op \in Ops
    BY DEF Inv, TypeInv, CallType, CallOK
  <2>2. pc' = IF op = NoOp THEN "idle" ELSE "return"
    BY <1>1 DEF Inv, CallInv, ControlInv, AfterLoadInv, Loading, LoadFails
  <2> QED BY <1>1, <2>1, <2>2 DEF Inv, CallInv, ControlInv, AfterLoadInv, Loading, Appending, Answering, Compacting
<1>5. RotationInv' /\ CompactInv'
  BY <1>1 DEF RotationInv, CompactInv, Compacting
<1> QED BY <1>2, <1>3, <1>4, <1>5 DEF Inv, TypeInv

\* Between two compactions of one call the list of candidates gets shorter.
LEMMA ReclaimKeeps == ASSUME Inv, Reclaim PROVE Inv'
<1> DEFINE s == Min(frame.reclaim)
<1>1. /\ UNCHANGED <<disk, directory, memory, loaded, op, out, applied, troubled, faults, restarts, wipes>>
      /\ pc = "reclaim" /\ pc' = "compact"
      /\ UNCHANGED <<unreadable, active>>
  BY DEF Reclaim, files, counters, trouble, memory, quality
<1>2. DiskType' /\ ObjectType' /\ LinesInv' /\ ObjectInv' /\ TrimInv'
  BY <1>1, SameObject DEF memory
<1>3. frame \in Frames /\ frame.reclaim \subseteq Readable /\ loaded
  BY <1>1 DEF Inv, TypeInv, CallType, CompactInv, CallInv, ControlInv
<1>4. s \in frame.reclaim /\ s \in Segments
  <2>1. frame.reclaim \in SUBSET Segments /\ frame.reclaim # {}
    BY <1>3 DEF Readable, Reclaim
  <2> QED BY <2>1, SegmentsAre
<1>5. frame' = [frame EXCEPT !.reclaim = frame.reclaim \ {s}, !.target = s, !.afterCompact = "reclaim"]
  BY DEF Reclaim
<1> HIDE DEF s
<1>6. /\ frame' \in Frames /\ frame'.reclaim = frame.reclaim \ {s} /\ frame'.target = s
      /\ frame'.afterCompact = "reclaim" /\ frame'.afterLoad = frame.afterLoad
  BY <1>3, <1>4, <1>5 DEF Frames
<1>7. CallType'
  BY <1>1, <1>6 DEF Inv, TypeInv, CallType, CallOK, FrameOK
<1>8. CallInv'
  BY <1>1, <1>6 DEF Inv, CallInv, ControlInv, AfterLoadInv, Loading, Appending, Answering, Compacting
<1>9. RotationInv' /\ CompactInv'
  BY <1>1, <1>3, <1>4, <1>6 DEF RotationInv, CompactInv, Compacting, Readable
<1> QED BY <1>2, <1>7, <1>8, <1>9 DEF Inv, TypeInv

\* The log is loaded: the call that needed it goes on.
LEMMA LoadReturnsKeeps == ASSUME Inv, LoadReturns PROVE Inv'
<1>1. /\ UNCHANGED <<disk, directory, memory, loaded, op, out, applied, troubled, faults, restarts, wipes>>
      /\ pc = "reclaim" /\ pc' = frame.afterLoad
  BY DEF LoadReturns, files, counters, trouble, memory, quality
<1>2. /\ frame \in Frames /\ loaded /\ (op = NoOp \/ op \in Ops)
      /\ pc' \in {"idle", "lookup", "append", "return"} /\ (pc' = "idle" <=> op = NoOp)
      /\ pc' = "append" => op.kind # "get"
  BY <1>1 DEF Inv, TypeInv, CallType, CallOK, CallInv, ControlInv, AfterLoadInv, Loading
<1>3. DiskType' /\ ObjectType' /\ LinesInv' /\ ObjectInv' /\ TrimInv'
  BY <1>1, <1>2, SameObject DEF memory
<1>4. frame' \in Frames
  <2>1. frame' = [frame EXCEPT !.trim = {}, !.untrimmed = FALSE, !.highest = 0,
                               !.target = 0, !.afterCompact = "", !.afterLoad = "idle"]
    BY DEF LoadReturns
  <2> QED BY <1>2, <2>1, SegmentsAre DEF Frames
<1>5. CallType'
  BY <1>1, <1>2, <1>4 DEF Inv, TypeInv, CallType, CallOK
<1>6. CallInv'
  BY <1>1, <1>2 DEF Inv, CallInv, ControlInv, AfterLoadInv, Loading, Appending, Answering, Compacting
<1>7. RotationInv' /\ CompactInv'
  BY <1>2 DEF RotationInv, CompactInv, Compacting
<1> QED BY <1>3, <1>5, <1>6, <1>7 DEF Inv, TypeInv

\* A call begins on a loaded object or has it loaded first.
LEMMA InvokeKeeps ==
  ASSUME Inv, NEW kind, NEW k \in Keys, NEW v \in Values \cup {None}, Invoke(kind, k, v),
         kind \in {"set", "get", "delete", "migrate"}, kind \in {"set", "migrate"} => v \in Values
  PROVE  Inv'
<1>1. /\ UNCHANGED <<disk, directory, memory, loaded, troubled, faults, restarts, wipes>>
      /\ pc = "idle" /\ pc' = (IF loaded THEN "lookup" ELSE "load")
      /\ out' = "ok" /\ applied' = FALSE
  BY DEF Invoke, files, counters, trouble, memory, quality
<1>2. DiskType' /\ ObjectType' /\ LinesInv' /\ ObjectInv' /\ TrimInv'
  BY <1>1, SameObject DEF memory
<1>3. op' \in Ops /\ op' # NoOp /\ op'.kind = kind /\ op'.value = v
  <2>1. op' = [kind |-> kind, key |-> k, value |-> v]
    BY DEF Invoke
  <2>2. op' \in Ops /\ op'.kind = kind /\ op'.value = v
    BY <2>1 DEF Ops
  <2> QED BY <2>2 DEF NoOp
<1>4. frame' \in Frames /\ frame'.afterLoad = (IF loaded THEN "idle" ELSE "lookup")
  <2>1. frame' = [NoLocals EXCEPT !.afterLoad = IF loaded THEN "idle" ELSE "lookup"]
    BY DEF Invoke
  <2> QED BY <2>1, SegmentsAre DEF Frames, NoLocals
<1>5. CallType'
  BY <1>1, <1>3, <1>4 DEF Inv, TypeInv, CallType, CallOK
<1>6. CallInv'
  BY <1>1, <1>3, <1>4 DEF Inv, CallInv, ControlInv, AfterLoadInv, Loading, Appending, Answering, Compacting
<1>7. RotationInv' /\ CompactInv'
  BY <1>1 DEF RotationInv, CompactInv, Compacting
<1> QED BY <1>2, <1>5, <1>6, <1>7 DEF Inv, TypeInv

\* The call looks its key up in the index: the answer is on the disk, or a record
\* is to be written, or there is nothing to do.
LEMMA LookupKeeps == ASSUME Inv, LookupWrite \/ LookupRead \/ LookupReadFails PROVE Inv'
<1>1. op \in Ops /\ loaded /\ frame \in Frames /\ pc = "lookup" /\ TypeInv /\ SizeInv
  BY DEF LookupWrite, LookupRead, LookupReadFails, Inv, TypeInv, CallType, CallInv, ControlInv, Answering, ObjectInv
<1>2. /\ UNCHANGED <<disk, memory, loaded, appendsDisabled, op, applied, restarts, wipes>>
      /\ directory' \in {directory, TRUE}
      /\ pc' \in {"return", "append"}
      /\ pc' = "append" => op.kind # "get" /\ ~appendsDisabled
      /\ frame' \in Frames
      /\ out' \in Values \cup {None, "ok", "threw"}
      /\ troubled' \in BOOLEAN /\ faults' \in Nat
  <2>1. CASE LookupWrite
    BY <1>1, <2>1 DEF LookupWrite, files, counters, trouble, memory, quality, Inv, TypeInv, CallType, CallOK
  <2>2. CASE LookupRead
    <3>1. out' \in Values \cup {None, "ok", "threw"}
      <4>1. CASE op.key \notin DOMAIN index
        BY <2>2, <4>1 DEF LookupRead
      <4>2. CASE op.key \in DOMAIN index
        <5> DEFINE at == index[op.key]
        <5>1. LiveAt(Files, op.key, Readable, at.seg, at.pos)
          <6>1. op.key \in Keys
            BY <1>1 DEF Ops
          <6> QED BY <1>1, <4>2, <6>1 DEF Inv, ObjectInv, IndexInv, IndexIs
        <5>2. at.seg \in Segments /\ at.pos \in 1 .. Count(Files, at.seg)
          BY <5>1 DEF LiveAt, LastAt, RecordsOf, Readable
        <5>3. FileOf(at.seg) = Files[at.seg] /\ GoodFiles(Files)
          BY <1>1, <5>2, FilesAre DEF Inv, LinesInv
        <5>4. FileOf(at.seg)[at.pos].value \in Values
          <6>1. FileOf(at.seg)[at.pos].value \in Values \cup {Tombstone}
            BY <5>2, <5>3, GoodFilesAre
          <6>2. FileOf(at.seg)[at.pos].value # Tombstone
            BY <5>1, <5>3 DEF LiveAt
          <6> QED BY <6>1, <6>2
        <5> QED BY <2>2, <4>2, <5>4 DEF LookupRead
      <4> QED BY <4>1, <4>2
    <3> QED BY <1>1, <2>2, <3>1 DEF LookupRead, files, counters, trouble, memory, quality, Inv, TypeInv, CallType, CallOK
  <2>3. CASE LookupReadFails
    <3>1. ~MustReload
      BY <1>1, NothingMissing DEF MustReload
    <3>2. frame' \in Frames /\ pc' = "return"
      <4>1. frame' = [frame EXCEPT !.afterLoad = "idle"] /\ pc' = "return"
        BY <2>3, <3>1 DEF LookupReadFails
      <4> QED BY <1>1, <4>1 DEF Frames
    <3>3. troubled' \in BOOLEAN /\ faults' \in Nat
      <4>1. CASE Breaks
        BY <1>1, <4>1, BreaksIs
      <4>2. CASE Works
        BY <1>1, <4>2 DEF Works, trouble, TypeInv, CallType, CallOK
      <4> QED BY <2>3, <4>1, <4>2 DEF LookupReadFails
    <3>4. /\ UNCHANGED <<disk, memory, op, applied, counters>> /\ directory' = TRUE /\ out' = None
      BY <2>3 DEF LookupReadFails
    <3> QED BY <3>2, <3>3, <3>4 DEF counters, memory, quality
  <2> QED BY <2>1, <2>2, <2>3
<1>3. DiskType' /\ ObjectType' /\ LinesInv' /\ ObjectInv' /\ TrimInv'
  BY <1>1, <1>2, SameObject DEF memory
<1>4. CallType'
  BY <1>1, <1>2 DEF Inv, TypeInv, CallType, CallOK
<1>5. CallInv'
  <2>1. ~Loading' /\ ~Compacting'
    BY <1>2 DEF Loading, Compacting
  <2>2. Appending' => pc' = "append"
    BY <1>2 DEF Appending, Compacting
  <2>3. loaded' => directory'
    <3>1. directory \in BOOLEAN /\ directory
      BY <1>1 DEF Inv, CallInv, ControlInv, TypeInv, DiskType
    <3>2. directory' \in {directory, TRUE}
      BY <1>2
    <3> QED BY <3>1, <3>2
  <2>4. wipes' <= MaxWipes /\ (op'.kind \in {"set", "migrate"} => op'.value \in Values)
    BY <1>2 DEF Inv, CallInv, ControlInv
  <2>5. pc' \in {"return", "append"} /\ loaded' /\ op' \in Ops
        /\ (pc' = "append" => op'.kind # "get" /\ ~appendsDisabled')
    BY <1>1, <1>2
  <2>6. pc' # "load" /\ pc' # "idle"
    BY <2>5
  <2> QED BY <2>1, <2>2, <2>3, <2>4, <2>5, <2>6 DEF CallInv, ControlInv
<1>6. RotationInv' /\ CompactInv'
  BY <1>2 DEF RotationInv, CompactInv, Compacting
<1> QED BY <1>3, <1>4, <1>5, <1>6 DEF Inv, TypeInv

\* A call ends.
LEMMA ReturnKeeps == ASSUME Inv, Return PROVE Inv'
<1>1. /\ UNCHANGED <<disk, directory, memory, loaded, faults, restarts, wipes>>
      /\ pc = "return" /\ pc' = "idle" /\ op' = NoOp /\ frame' = NoLocals /\ out' = "ok"
      /\ applied' = FALSE /\ troubled' = FALSE
  BY DEF Return, files, counters, memory, quality
<1>2. DiskType' /\ ObjectType' /\ LinesInv' /\ ObjectInv' /\ TrimInv'
  BY <1>1, SameObject DEF memory
<1>3. NoLocals \in Frames
  BY SegmentsAre DEF Frames, NoLocals
<1>4. CallType'
  BY <1>1, <1>3 DEF Inv, TypeInv, CallType, CallOK
<1>5. CallInv'
  BY <1>1 DEF Inv, CallInv, ControlInv, AfterLoadInv, Loading, Appending, Answering, Compacting, NoOp
<1>6. RotationInv' /\ CompactInv'
  BY <1>1 DEF RotationInv, CompactInv, Compacting
<1> QED BY <1>2, <1>4, <1>5, <1>6 DEF Inv, TypeInv

\* A compaction ends and the code that asked for it goes on.
LEMMA CompactionEnds ==
  ASSUME Inv, Compacting, CompactReturns, DiskType',
         UNCHANGED <<directory, op, frame, active, unreadable, appendsDisabled, loaded, out,
                     applied, restarts, wipes>>,
         troubled' \in BOOLEAN, faults' \in Nat
  PROVE  /\ pc' \in {"reclaim", "rotated", "return"}
         /\ CallType' /\ CallInv' /\ RotationInv' /\ CompactInv' /\ TrimInv'
<1>1. pc' = frame.afterCompact /\ pc' \in {"reclaim", "rotated", "return"}
  BY DEF Inv, CallInv, ControlInv, CompactReturns
<1>2. CallType'
  BY <1>1 DEF Inv, TypeInv, CallType, CallOK
<1>3. CallInv'
  BY <1>1 DEF Inv, CallInv, ControlInv, AfterLoadInv, Loading, Appending, Answering, Compacting
<1>4. RotationInv'
  BY <1>1 DEF Inv, RotationInv, Compacting
<1>5. CompactInv'
  BY <1>1 DEF Inv, CompactInv, Compacting, Readable
<1>6. TrimInv'
  BY <1>1 DEF TrimInv
<1> QED BY <1>1, <1>2, <1>3, <1>4, <1>5, <1>6

\* A compaction that fails leaves everything as it was, and the call goes on or
\* tries to rewrite the segment instead.
LEMMA CompactionFails ==
  ASSUME Inv, CompactAborts \/ MovedRemoveFails \/ MoveFails \/ RewriteFails
  PROVE  Inv'
<1>1. TypeInv /\ Compacting
  BY DEF Inv, CompactAborts, MovedRemoveFails, MoveFails, RewriteFails, Compacting
<1>2. Breaks \/ Works
  BY DEF CompactAborts, MovedRemoveFails, MoveFails, RewriteFails
<1>3. troubled' \in BOOLEAN /\ faults' \in Nat
  <2>1. CASE Breaks
    BY <1>1, <2>1, BreaksIs
  <2>2. CASE Works
    BY <1>1, <2>2 DEF Works, trouble, TypeInv, CallType, CallOK
  <2> QED BY <1>2, <2>1, <2>2
<1>4. /\ UNCHANGED <<disk, directory, memory, op, frame, out, applied, restarts, wipes>>
      /\ UNCHANGED <<index, active, unreadable, appendsDisabled, loaded>>
  <2>1. UNCHANGED <<files, memory, op, frame, out, applied, counters>>
    BY DEF CompactAborts, MovedRemoveFails, MoveFails, RewriteFails
  <2> QED BY <2>1 DEF files, memory, quality, counters
<1>5. pc \in {"compact", "moved", "rewrite"} /\ pc \notin {"trim", "probe", "restore"}
  BY <1>1 DEF Compacting
<1>6. CASE CompactReturns
  <2>1. pc' # "trim"
    BY <1>1, <1>6 DEF CompactReturns, Inv, CallInv, ControlInv
  <2>2. DiskType' /\ ObjectType' /\ LinesInv' /\ ObjectInv' /\ TrimInv'
    BY <1>4, <1>5, <2>1, SameObject
  <2>3. CallType' /\ CallInv' /\ RotationInv' /\ CompactInv'
    BY <1>1, <1>3, <1>4, <1>6, <2>2, CompactionEnds
  <2> QED BY <2>2, <2>3 DEF Inv, TypeInv
<1>7. CASE pc' = "rewrite"
  <2>1. DiskType' /\ ObjectType' /\ LinesInv' /\ ObjectInv' /\ TrimInv'
    BY <1>4, <1>5, <1>7, SameObject
  <2>2. CallType'
    BY <1>3, <1>4, <1>7 DEF Inv, TypeInv, CallType, CallOK
  <2>3. CallInv'
    BY <1>1, <1>4, <1>7 DEF Inv, CallInv, ControlInv, AfterLoadInv, Loading, Appending, Answering, Compacting
  <2>4. RotationInv'
    BY <1>1, <1>4, <1>7 DEF Inv, RotationInv, Compacting
  <2>5. AllLiveFound(frame.target)
    BY <1>5, <1>7 DEF Inv, CompactInv, CompactAborts, MovedRemoveFails, MoveFails, RewriteFails,
       CompactReturns, CallInv, ControlInv, Compacting
  <2>6. AllLiveFound(frame.target)'
    BY <1>4, <2>5 DEF AllLiveFound, KeptLive, LiveIn
  <2>7. CompactInv'
    BY <1>1, <1>4, <1>7, <2>6 DEF Inv, CompactInv, Compacting, Readable
  <2> QED BY <2>1, <2>2, <2>3, <2>4, <2>7 DEF Inv, TypeInv
<1> QED BY <1>6, <1>7 DEF CompactAborts, MovedRemoveFails, MoveFails, RewriteFails


-----------------------------------------------------------------------------
(* Opening the store.                                                       *)

\* Loading reads the segments there are, without those it cannot read.
LEMMA LoadReadKeeps == ASSUME TypeInv, LinesInv, ControlInv, LoadRead PROVE Inv'
<1>1. TypeInv /\ LinesInv /\ GoodFiles(Files) /\ DOMAIN disk \subseteq Segments
  BY FilesAre DEF LinesInv
<1>2. /\ disk' = disk /\ directory' = TRUE /\ loaded' = TRUE /\ appendsDisabled' = FALSE
      /\ segmentDeadBytes' = NoSizes /\ pc = "load" /\ pc' = "trim"
      /\ UNCHANGED <<op, out, applied, restarts, wipes>>
  BY DEF LoadRead, counters
<1>3. PICK lost \in SUBSET DOMAIN disk :
       LET read == DOMAIN disk \ lost
           bytes == [s \in Segments |-> IF s \in read THEN CompleteLength(disk[s]) ELSE 0]
       IN /\ Break(Cardinality(lost))
          /\ index' = ReadIndex(read)
          /\ segmentBytes' = bytes
          /\ unreadable' = lost
          /\ partiallyRead' =
               lost \cup {s \in read : \E i \in 1..bytes[s] : ~IsRecord(disk[s][i])}
          /\ active' = Max({0} \cup {s \in read : bytes[s] > 0})
          /\ frame' = [frame EXCEPT
                         !.trim = {s \in read : bytes[s] # Len(disk[s]) \/ bytes[s] = 0},
                         !.untrimmed = FALSE,
                         !.highest = Max({0} \cup DOMAIN disk)]
  BY DEF LoadRead
<1> DEFINE read == DOMAIN disk \ lost
           bytes == [s \in Segments |-> IF s \in read THEN CompleteLength(disk[s]) ELSE 0]
           toTrim == {s \in read : bytes[s] # Len(disk[s]) \/ bytes[s] = 0}
           written == {s \in read : bytes[s] > 0}
           high == Max({0} \cup DOMAIN disk)
<1>4. /\ Break(Cardinality(lost))
      /\ index' = ReadIndex(read) /\ segmentBytes' = bytes /\ unreadable' = lost
      /\ partiallyRead' = lost \cup {s \in read : \E i \in 1..bytes[s] : ~IsRecord(disk[s][i])}
      /\ active' = Max({0} \cup written)
      /\ frame' = [frame EXCEPT !.trim = toTrim, !.untrimmed = FALSE, !.highest = high]
  BY <1>3
<1>5. /\ bytes \in [Segments -> Nat]
      /\ \A s \in read : bytes[s] = CompleteLength(disk[s]) /\ bytes[s] = Count(Files, s)
                         /\ bytes[s] \in Nat
      /\ \A s \in Segments \ read : bytes[s] = 0
      /\ \A s \in Segments \ lost : bytes[s] = Count(Files, s)
  <2>1. \A s \in DOMAIN disk : CompleteLength(disk[s]) = Count(Files, s) /\ Count(Files, s) \in Nat
    BY <1>1, FilesAre DEF Count
  <2>2. \A s \in Segments \ DOMAIN disk : Count(Files, s) = 0
    BY <1>1, FilesAre
  <2> QED BY <1>1, <2>1, <2>2
<1>6. /\ Max({0} \cup written) \in Segments /\ \A s \in written : s <= Max({0} \cup written)
      /\ high \in Segments /\ \A s \in DOMAIN disk : s <= high
  <2>1. {0} \cup written \in SUBSET Segments /\ {0} \cup DOMAIN disk \in SUBSET Segments
    BY <1>1, SegmentsAre
  <2> HIDE DEF written
  <2>2. /\ Max({0} \cup written) \in {0} \cup written
        /\ \A s \in {0} \cup written : s <= Max({0} \cup written)
    BY <2>1, SegmentsAre
  <2>3. /\ Max({0} \cup DOMAIN disk) \in {0} \cup DOMAIN disk
        /\ \A s \in {0} \cup DOMAIN disk : s <= Max({0} \cup DOMAIN disk)
    BY <2>1, SegmentsAre
  <2> QED BY <2>1, <2>2, <2>3
<1>7. DiskType' /\ Files' = Files
  BY <1>1, <1>2 DEF TypeInv, DiskType, Files, FileOf
<1>8. ObjectType' /\ IndexInv'
  <2>1. read \in SUBSET DOMAIN disk
    OBVIOUS
  <2>2. /\ IndexIs(Files, read, index') /\ DOMAIN index' \subseteq Keys
        /\ index' \in [DOMAIN index' -> Positions]
    <3> HIDE DEF read
    <3> QED BY <1>1, <1>4, <2>1, ReadIndexIs
  <2>3. Readable' = Segments \ lost /\ (Segments \ lost) \cap DOMAIN disk = read
    BY <1>1, <1>4 DEF Readable
  <2>4. IndexIs(Files, Segments \ lost, index')
    <3> HIDE DEF read
    <3> QED BY <1>1, <2>2, <2>3, NoFileNoRecord
  <2>5. IndexInv'
    BY <1>7, <2>3, <2>4 DEF IndexInv
  <2>6. NoSizes \in [Segments -> Nat]
    BY DEF NoSizes
  <2>7. partiallyRead' \subseteq Segments /\ unreadable' \subseteq Segments
    BY <1>1, <1>4
  <2> HIDE DEF read, bytes, toTrim, written, high
  <2> QED BY <1>2, <1>4, <1>5, <1>6, <2>2, <2>5, <2>6, <2>7 DEF ObjectType
<1>9. LinesInv'
  BY <1>1, <1>7 DEF LinesInv
<1>10. SizeInv'
  <2>1. unreadable' \subseteq DOMAIN disk' /\ unreadable' \subseteq partiallyRead'
    BY <1>2, <1>4
  <2>2. \A s \in unreadable' : segmentBytes'[s] = 0
    BY <1>1, <1>4, <1>5
  <2>3. \A s \in Readable' : segmentBytes'[s] = Count(Files, s)
    BY <1>4, <1>5 DEF Readable
  <2> QED BY <1>7, <2>1, <2>2, <2>3 DEF SizeInv
<1>11. ObjectInv'
  BY <1>2, <1>8, <1>10 DEF ObjectInv, DeadInv, TopInv
<1>12. /\ frame' \in Frames /\ frame'.trim = toTrim /\ frame'.untrimmed = FALSE
       /\ frame'.highest = high /\ frame'.afterLoad = frame.afterLoad
  <2>1. toTrim \in SUBSET Segments /\ frame \in Frames
    BY <1>1 DEF TypeInv, CallType
  <2> HIDE DEF read, bytes, toTrim, written, high
  <2> QED BY <1>4, <1>6, <2>1 DEF Frames
<1>13. TrimInv'
  <2>1. frame'.trim \subseteq DOMAIN disk' \ unreadable'
    BY <1>2, <1>4, <1>12
  <2>2. \A s \in DOMAIN disk' : s <= frame'.highest
    BY <1>2, <1>6, <1>12
  <2>3. ASSUME NEW s \in DOMAIN disk \ lost, s \notin toTrim \/ bytes[s] > 0
        PROVE  s <= active'
    <3>1. s \in read /\ bytes[s] \in Nat /\ bytes[s] # 0
      BY <1>5, <2>3
    <3>2. s \in written
      BY <1>5, <3>1
    <3> QED BY <1>4, <1>6, <3>2
  <2>4. ASSUME NEW s \in DOMAIN disk \ lost, s \notin toTrim
        PROVE  ~IsTorn(disk[s])
    <3>1. s \in read /\ bytes[s] = Len(disk[s])
      BY <2>4
    <3>2. disk[s] \in Seq(Lines)
      BY <1>1, <3>1 DEF TypeInv, DiskType
    <3>3. CompleteLength(disk[s]) = Len(disk[s]) /\ Len(disk[s]) \in Nat
      BY <1>5, <3>1, <3>2, FileFacts
    <3> QED BY <3>2, <3>3, FileFacts
  <2>5. \A s \in DOMAIN disk' \ unreadable' :
          /\ s \notin frame'.trim \/ segmentBytes'[s] > 0 => s <= active'
          /\ s \notin frame'.trim /\ IsTorn(disk'[s]) => frame'.untrimmed
    BY <1>2, <1>4, <1>12, <2>3, <2>4
  <2> HIDE DEF read, bytes, toTrim, written, high
  <2> QED BY <1>2, <2>1, <2>2, <2>5 DEF TrimInv
<1>14. troubled' \in BOOLEAN /\ faults' \in Nat
  <2>1. IsFiniteSet(Segments)
    BY SegmentStoreAssumption, FS_Interval DEF Segments
  <2>2. Cardinality(lost) \in Nat
    BY <1>1, <2>1, FS_Subset, FS_CardinalityType
  <2> HIDE DEF read, bytes, toTrim, written, high
  <2> QED BY <1>1, <1>4, <2>2 DEF Break, TypeInv, CallType, CallOK
<1> HIDE DEF read, bytes, toTrim, written, high
<1>15. CallType'
  BY <1>1, <1>2, <1>12, <1>14 DEF TypeInv, CallType, CallOK
<1>16. CallInv'
  BY <1>2, <1>12 DEF CallInv, ControlInv, AfterLoadInv, Loading, Appending, Answering, Compacting
<1>17. RotationInv' /\ CompactInv'
  BY <1>2 DEF RotationInv, CompactInv, Compacting
<1> QED BY <1>7, <1>8, <1>9, <1>11, <1>13, <1>15, <1>16, <1>17 DEF Inv, TypeInv

\* Files that differ in tails only are as good for the object.
LEMMA SameRecordsKeep ==
  ASSUME Inv, loaded, SameRecords(Files, Files'), unreadable \subseteq DOMAIN disk',
         UNCHANGED <<index, segmentBytes, segmentDeadBytes, unreadable, loaded>>,
         unreadable \subseteq partiallyRead',
         pc = "trim" => pc' = "trim"
  PROVE  SizeInv' /\ IndexInv' /\ DeadInv'
<1>1. SizeInv /\ IndexInv /\ DeadInv
  BY DEF Inv, ObjectInv
<1>2. Readable' = Readable /\ Readable \in SUBSET Segments
  BY DEF Readable
<1>3. \A s \in Readable : Count(Files, s)' = Count(Files, s)
  BY <1>2 DEF SameRecords, Count
<1>4. SizeInv'
  BY <1>1, <1>2, <1>3 DEF SizeInv
<1>5. IndexIs(Files', Readable, index)
  BY <1>1, <1>2, SameRecordsSameLast DEF IndexInv
<1>6. IndexInv'
  BY <1>2, <1>5 DEF IndexInv
<1>7. DeadInv'
  BY <1>1, <1>2 DEF DeadInv, LiveIn
<1> QED BY <1>4, <1>6, <1>7

\* A file with another tail.
LEMMA TailChanges ==
  ASSUME TypeInv, LinesInv, NEW s \in Segments, NEW f, GoodFile(f), disk' = WithFile(s, f),
         CompleteLength(f) = Count(Files, s), \A i \in 1 .. Count(Files, s) : f[i] = Files[s][i]
  PROVE  /\ SameRecords(Files, Files') /\ LinesInv' /\ FileOf(s)' = f
         /\ DOMAIN disk' = DOMAIN disk \cup {s} /\ disk' \in [DOMAIN disk' -> Seq(Lines)]
         /\ \A t \in Segments \ {s} : FileOf(t)' = FileOf(t)
<1>1. f \in Seq(Lines)
  BY DEF GoodFile
<1>2. /\ DOMAIN disk' = DOMAIN disk \cup {s} /\ disk' \in [DOMAIN disk' -> Seq(Lines)]
      /\ Files' = [Files EXCEPT ![s] = f]
  BY <1>1, WithFileIs
<1>3. Files \in [Segments -> Seq(Lines)] /\ \A t \in Segments : GoodFile(Files[t])
  BY DEF LinesInv, GoodFiles
<1>4. Files'[s] = f /\ \A t \in Segments \ {s} : Files'[t] = Files[t]
  BY <1>2, <1>3
<1>5. SameRecords(Files, Files')
  BY <1>4 DEF SameRecords, Count
<1>6. LinesInv'
  BY <1>1, <1>2, <1>3, <1>4 DEF LinesInv, GoodFiles
<1>7. \A t \in Segments : FileOf(t) = Files[t] /\ FileOf(t)' = Files'[t]
  BY DEF Files
<1> QED BY <1>2, <1>4, <1>5, <1>6, <1>7

\* Cutting a torn tail off keeps the records,
LEMMA CutKeepsRecords ==
  ASSUME TypeInv, LinesInv, NEW s \in Segments, NEW n, n = Count(Files, s),
         disk' = WithFile(s, SubSeq(FileOf(s), 1, n))
  PROVE  /\ SameRecords(Files, Files') /\ LinesInv' /\ ~IsTorn(FileOf(s))'
         /\ DOMAIN disk' = DOMAIN disk \cup {s} /\ disk' \in [DOMAIN disk' -> Seq(Lines)]
         /\ \A t \in Segments \ {s} : FileOf(t)' = FileOf(t)
<1>1. PICK f : f = Files[s]
  OBVIOUS
<1>2. GoodFile(f) /\ FileOf(s) = f /\ n = CompleteLength(f)
  BY <1>1, FilesAre DEF LinesInv, GoodFiles, Count
<1>3. PICK g : g = SubSeq(f, 1, CompleteLength(f))
  OBVIOUS
<1>4. /\ GoodFile(g) /\ ~IsTorn(g)
      /\ CompleteLength(g) = CompleteLength(f)
      /\ \A i \in 1 .. CompleteLength(f) : g[i] = f[i]
  BY <1>2, <1>3, CutIs
<1>5. disk' = WithFile(s, g)
  BY <1>2, <1>3
<1>6. /\ SameRecords(Files, Files') /\ LinesInv' /\ FileOf(s)' = g
      /\ DOMAIN disk' = DOMAIN disk \cup {s} /\ disk' \in [DOMAIN disk' -> Seq(Lines)]
      /\ \A t \in Segments \ {s} : FileOf(t)' = FileOf(t)
  BY <1>1, <1>2, <1>4, <1>5, TailChanges
<1>7. ~IsTorn(FileOf(s))'
  BY <1>4, <1>6
<1> QED BY <1>6, <1>7

\* and so does removing a file without records.
LEMMA RemovalKeepsRecords ==
  ASSUME TypeInv, LinesInv, NEW s \in Segments, Count(Files, s) = 0, disk' = WithoutFile(s)
  PROVE  /\ SameRecords(Files, Files') /\ LinesInv'
         /\ DOMAIN disk' = DOMAIN disk \ {s} /\ disk' \in [DOMAIN disk' -> Seq(Lines)]
         /\ \A t \in Segments \ {s} : FileOf(t)' = FileOf(t)
<1>1. /\ DOMAIN disk' = DOMAIN disk \ {s} /\ disk' \in [DOMAIN disk' -> Seq(Lines)]
      /\ Files' = [Files EXCEPT ![s] = <<>>]
  BY WithoutFileIs
<1>2. Files \in [Segments -> Seq(Lines)] /\ \A t \in Segments : GoodFile(Files[t])
  BY DEF LinesInv, GoodFiles
<1>3. Files'[s] = <<>> /\ \A t \in Segments \ {s} : Files'[t] = Files[t]
  BY <1>1, <1>2
<1>4. <<>> \in Seq(Lines) /\ Len(<<>>) = 0
  BY EmptySeq
<1>5. GoodFile(<<>>)
  BY <1>4 DEF GoodFile
<1>6. CompleteLength(<<>>) = 0
  BY <1>4 DEF CompleteLength, IsTorn
<1>7. SameRecords(Files, Files')
  BY <1>3, <1>6 DEF SameRecords, Count
<1>8. LinesInv'
  BY <1>1, <1>2, <1>3, <1>4, <1>5 DEF LinesInv, GoodFiles
<1>9. \A t \in Segments : FileOf(t) = Files[t] /\ FileOf(t)' = Files'[t]
  BY DEF Files
<1> QED BY <1>1, <1>3, <1>7, <1>8, <1>9

\* Loading cuts the torn tails off one file at a time, or removes the file.
LEMMA TrimSegmentKeeps == ASSUME Inv, TrimSegment PROVE Inv' /\ SameRecords(Files, Files')
<1>0. PICK s : s = Min(frame.trim)
  OBVIOUS
<1>1. /\ pc = "trim" /\ pc' = "trim" /\ frame' = [frame EXCEPT !.trim = frame.trim \ {s}]
      /\ UNCHANGED <<directory, memory, op, out, applied, troubled, faults, restarts, wipes>>
  BY <1>0 DEF TrimSegment, Works, trouble, counters
<1>2. UNCHANGED <<index, segmentBytes, segmentDeadBytes, unreadable, partiallyRead, active,
                  appendsDisabled, loaded>>
  BY <1>1 DEF memory, sizes, quality
<1>3. /\ TypeInv /\ LinesInv /\ SizeInv /\ loaded /\ frame \in Frames
      /\ frame.trim \subseteq DOMAIN disk \ unreadable
      /\ \A t \in DOMAIN disk : t <= frame.highest
      /\ \A t \in DOMAIN disk \ unreadable :
          /\ t \notin frame.trim \/ segmentBytes[t] > 0 => t <= active
          /\ t \notin frame.trim /\ IsTorn(disk[t]) => frame.untrimmed
  BY <1>1 DEF Inv, TypeInv, CallType, CallInv, ControlInv, ObjectInv, TrimInv
<1>4. s \in frame.trim /\ s \in Segments /\ s \in DOMAIN disk /\ s \notin unreadable
  <2>1. frame.trim \in SUBSET Segments /\ frame.trim # {}
    BY <1>3 DEF TrimSegment, Frames
  <2> QED BY <1>0, <1>3, <2>1, SegmentsAre
<1>5. segmentBytes[s] = Count(Files, s) /\ FileOf(s) = disk[s]
  BY <1>3, <1>4, FilesAre DEF SizeInv, Readable
<1>6. \/ segmentBytes[s] = 0 /\ disk' = WithoutFile(s)
      \/ segmentBytes[s] > 0 /\ directory /\ disk' = WithFile(s, SubSeq(FileOf(s), 1, segmentBytes[s]))
  BY <1>0, <1>5 DEF TrimSegment
<1>7. /\ SameRecords(Files, Files') /\ LinesInv' /\ disk' \in [DOMAIN disk' -> Seq(Lines)]
      /\ DOMAIN disk' \subseteq DOMAIN disk /\ DOMAIN disk \ {s} \subseteq DOMAIN disk'
      /\ s \in DOMAIN disk' => segmentBytes[s] > 0 /\ ~IsTorn(disk'[s])
      /\ \A t \in DOMAIN disk \ {s} : disk'[t] = disk[t]
      /\ DOMAIN disk' # {} => directory
  <2>1. CASE segmentBytes[s] = 0 /\ disk' = WithoutFile(s)
    <3>1. /\ SameRecords(Files, Files') /\ LinesInv' /\ disk' \in [DOMAIN disk' -> Seq(Lines)]
          /\ DOMAIN disk' = DOMAIN disk \ {s}
      BY <1>3, <1>4, <1>5, <2>1, RemovalKeepsRecords
    <3>2. \A t \in DOMAIN disk \ {s} : disk'[t] = disk[t]
      BY <2>1 DEF WithoutFile
    <3>3. DOMAIN disk' # {} => directory
      BY <1>3, <3>1 DEF TypeInv, DiskType
    <3> QED BY <3>1, <3>2, <3>3
  <2>2. CASE segmentBytes[s] > 0 /\ directory /\ disk' = WithFile(s, SubSeq(FileOf(s), 1, segmentBytes[s]))
    <3>1. /\ SameRecords(Files, Files') /\ LinesInv' /\ disk' \in [DOMAIN disk' -> Seq(Lines)]
          /\ DOMAIN disk' = DOMAIN disk \cup {s} /\ ~IsTorn(FileOf(s))'
      BY <1>3, <1>4, <1>5, <2>2, CutKeepsRecords
    <3>2. \A t \in DOMAIN disk \ {s} : disk'[t] = disk[t]
      BY <2>2 DEF WithFile
    <3>3. FileOf(s)' = disk'[s]
      BY <3>1 DEF FileOf
    <3>4. ~IsTorn(disk'[s])
      BY <3>1, <3>3
    <3> QED BY <1>4, <2>2, <3>1, <3>2, <3>4
  <2> QED BY <1>6, <2>1, <2>2
<1>8. DiskType' /\ ObjectType'
  BY <1>1, <1>2, <1>3, <1>7 DEF TypeInv, DiskType, ObjectType
<1>9. SizeInv' /\ IndexInv' /\ DeadInv'
  <2>1. unreadable \subseteq DOMAIN disk' /\ unreadable \subseteq partiallyRead'
    BY <1>2, <1>3, <1>4, <1>7 DEF SizeInv
  <2> QED BY <1>1, <1>2, <1>3, <1>7, <2>1, SameRecordsKeep
<1>10. ObjectInv'
  BY <1>1, <1>9 DEF ObjectInv, TopInv
<1>11. /\ frame' \in Frames /\ frame'.trim = frame.trim \ {s} /\ frame'.untrimmed = frame.untrimmed
       /\ frame'.highest = frame.highest /\ frame'.afterLoad = frame.afterLoad
  BY <1>1, <1>3 DEF Frames
<1>12. TrimInv'
  <2>1. frame'.trim \subseteq DOMAIN disk' \ unreadable'
    BY <1>2, <1>3, <1>7, <1>11
  <2>2. \A t \in DOMAIN disk' : t <= frame'.highest
    BY <1>3, <1>7, <1>11
  <2>3. ASSUME NEW t \in DOMAIN disk' \ unreadable'
        PROVE  /\ t \notin frame'.trim \/ segmentBytes'[t] > 0 => t <= active'
               /\ t \notin frame'.trim /\ IsTorn(disk'[t]) => frame'.untrimmed
    <3>1. CASE t = s
      BY <1>2, <1>3, <1>4, <1>7, <3>1
    <3>2. CASE t # s
      BY <1>2, <1>3, <1>7, <1>11, <3>2
    <3> QED BY <3>1, <3>2
  <2>4. ~appendsDisabled'
    BY <1>1, <1>2 DEF Inv, TrimInv
  <2> QED BY <2>1, <2>2, <2>3, <2>4 DEF TrimInv
<1>13. CallType'
  BY <1>1, <1>3, <1>11 DEF TypeInv, CallType, CallOK
<1>14. CallInv'
  BY <1>1, <1>2, <1>11 DEF Inv, CallInv, ControlInv, AfterLoadInv, Loading, Appending, Answering, Compacting
<1>15. RotationInv' /\ CompactInv'
  BY <1>1 DEF RotationInv, CompactInv, Compacting
<1> QED BY <1>7, <1>8, <1>10, <1>12, <1>13, <1>14, <1>15 DEF Inv, TypeInv

\* When it cannot, the segment stays partially read.
LEMMA TrimFailsKeeps == ASSUME Inv, TrimFails PROVE Inv'
<1>0. PICK s : s = Min(frame.trim)
  OBVIOUS
<1> DEFINE torn == IsTorn(FileOf(s)) \/ segmentBytes[s] > 0
<1>1. /\ pc = "trim" /\ pc' = "trim"
      /\ UNCHANGED <<disk, directory, index, segmentBytes, segmentDeadBytes, unreadable,
                     appendsDisabled, loaded, op, out, applied, restarts, wipes>>
      /\ frame' = [frame EXCEPT !.trim = frame.trim \ {s}, !.untrimmed = frame.untrimmed \/ torn]
      /\ partiallyRead' = IF torn THEN partiallyRead \cup {s} ELSE partiallyRead
      /\ active' = Max({active, s})
      /\ Breaks \/ Works
  BY <1>0 DEF TrimFails, files, sizes, counters
<1> HIDE DEF torn
<1>2. /\ TypeInv /\ LinesInv /\ SizeInv /\ loaded /\ frame \in Frames /\ DOMAIN disk \subseteq Segments
      /\ frame.trim \subseteq DOMAIN disk \ unreadable /\ ~appendsDisabled
      /\ \A t \in DOMAIN disk : t <= frame.highest
      /\ \A t \in DOMAIN disk \ unreadable :
          /\ t \notin frame.trim \/ segmentBytes[t] > 0 => t <= active
          /\ t \notin frame.trim /\ IsTorn(disk[t]) => frame.untrimmed
  BY <1>1 DEF Inv, TypeInv, DiskType, CallType, CallInv, ControlInv, ObjectInv, TrimInv
<1>3. s \in frame.trim /\ s \in Segments /\ s \in DOMAIN disk /\ s \notin unreadable
  <2>1. frame.trim \in SUBSET Segments /\ frame.trim # {}
    BY <1>2 DEF TrimFails, Frames
  <2> QED BY <1>0, <1>2, <2>1, SegmentsAre
<1>4. active' \in Segments /\ active <= active' /\ s <= active'
  <2>1. {active, s} \in SUBSET Segments /\ {active, s} # {}
    BY <1>2, <1>3 DEF TypeInv, ObjectType
  <2>2. Max({active, s}) \in {active, s} /\ \A x \in {active, s} : x <= Max({active, s})
    BY <2>1, SegmentsAre
  <2> QED BY <1>1, <2>1, <2>2
<1>5. DiskType' /\ ObjectType' /\ Files' = Files
  BY <1>1, <1>2, <1>3, <1>4 DEF TypeInv, DiskType, ObjectType, Files, FileOf
<1>6. LinesInv'
  BY <1>2, <1>5 DEF LinesInv
<1>7. SizeInv' /\ IndexInv' /\ DeadInv'
  <2>1. unreadable \subseteq DOMAIN disk' /\ unreadable \subseteq partiallyRead'
    BY <1>1, <1>2 DEF SizeInv
  <2>2. SameRecords(Files, Files')
    BY <1>5 DEF SameRecords
  <2> QED BY <1>1, <1>2, <2>1, <2>2, SameRecordsKeep
<1>8. ObjectInv'
  BY <1>1, <1>7 DEF ObjectInv, TopInv
<1>9. /\ frame' \in Frames /\ frame'.trim = frame.trim \ {s}
      /\ frame'.untrimmed = (frame.untrimmed \/ torn)
      /\ frame'.highest = frame.highest /\ frame'.afterLoad = frame.afterLoad
  <2>1. torn \in BOOLEAN
    BY DEF torn
  <2> QED BY <1>1, <1>2, <2>1 DEF Frames
<1>10. TrimInv'
  <2>1. frame'.trim \subseteq DOMAIN disk' \ unreadable'
    BY <1>1, <1>2, <1>9
  <2>2. \A t \in DOMAIN disk' : t <= frame'.highest
    BY <1>1, <1>2, <1>9
  <2>3. ASSUME NEW t \in DOMAIN disk' \ unreadable'
        PROVE  /\ t \notin frame'.trim \/ segmentBytes'[t] > 0 => t <= active'
               /\ t \notin frame'.trim /\ IsTorn(disk'[t]) => frame'.untrimmed
    <3>1. CASE t = s
      <4>1. IsTorn(disk[s]) => torn
        BY <1>3 DEF torn, FileOf
      <4> QED BY <1>1, <1>4, <1>9, <3>1, <4>1
    <3>2. CASE t # s
      <4>1. t \in DOMAIN disk \ unreadable /\ t \in Segments /\ active \in Segments
        BY <1>1, <1>2 DEF TypeInv, ObjectType
      <4>2. t \notin frame'.trim <=> t \notin frame.trim
        BY <1>9, <3>2
      <4>3. t <= active => t <= active'
        BY <1>4, <4>1, SegmentsAre
      <4> QED BY <1>1, <1>2, <1>9, <4>1, <4>2, <4>3
    <3> QED BY <3>1, <3>2
  <2>4. ~appendsDisabled'
    BY <1>1, <1>2
  <2> QED BY <2>1, <2>2, <2>3, <2>4 DEF TrimInv
<1>11. troubled' \in BOOLEAN /\ faults' \in Nat
  <2>1. CASE Breaks
    BY <1>2, <2>1, BreaksIs
  <2>2. CASE Works
    BY <1>2, <2>2 DEF Works, trouble, TypeInv, CallType, CallOK
  <2> QED BY <1>1, <2>1, <2>2
<1>12. CallType'
  BY <1>1, <1>2, <1>9, <1>11 DEF TypeInv, CallType, CallOK
<1>13. CallInv'
  BY <1>1, <1>9 DEF Inv, CallInv, ControlInv, AfterLoadInv, Loading, Appending, Answering, Compacting
<1>14. RotationInv' /\ CompactInv'
  BY <1>1 DEF RotationInv, CompactInv, Compacting
<1> QED BY <1>5, <1>6, <1>8, <1>10, <1>12, <1>13, <1>14 DEF Inv, TypeInv

\* What LoadFinish takes for the segment's dead lines is their number.
LEMMA DeadIsExact ==
  ASSUME TypeInv, LinesInv, SizeInv, IndexInv, NEW s \in Segments
  PROVE  LET dead == Max({0, segmentBytes[s] - Cardinality(LiveIn(s, index))})
         IN  /\ dead \in Nat
             /\ s \in Readable => dead = segmentBytes[s] - Cardinality(LiveIn(s, index))
<1> DEFINE x == segmentBytes[s] - Cardinality(LiveIn(s, index))
<1>1. x \in Nat
  <2>1. CASE s \in Readable
    <3>1. /\ Cardinality(LiveIn(s, index)) \in Nat
          /\ Cardinality(LiveIn(s, index)) <= Count(Files, s)
      BY <2>1, LiveCount
    <3>2. segmentBytes[s] = Count(Files, s) /\ Count(Files, s) \in Nat
      BY <2>1, FilesAre DEF SizeInv
    <3> QED BY <3>1, <3>2
  <2>2. CASE s \notin Readable
    <3>1. \A k \in DOMAIN index : index[k].seg \in Readable
      BY DEF TypeInv, ObjectType, IndexInv, IndexIs, LiveAt, LastAt
    <3>2. LiveIn(s, index) = {}
      BY <2>2, <3>1 DEF LiveIn
    <3>3. Cardinality(LiveIn(s, index)) = 0
      BY <3>2, FS_EmptySet
    <3>4. segmentBytes[s] = 0
      BY <2>2 DEF SizeInv, Readable
    <3> QED BY <3>3, <3>4
  <2> QED BY <2>1, <2>2
<1> HIDE DEF x
<1>2. {0, x} \in SUBSET Nat /\ \A y \in {0, x} : y <= x
  BY <1>1
<1>3. Max({0, x}) \in {0, x} /\ \A y \in {0, x} : y <= Max({0, x})
  BY <1>1, <1>2, MaxIs
<1>4. Max({0, x}) = x
  BY <1>1, <1>3
<1> QED BY <1>1, <1>4 DEF x

\* The load ends: counters of what was read, and a segment to write to.
LEMMA LoadFinishKeeps == ASSUME Inv, LoadFinish PROVE Inv'
<1> DEFINE blocking == IF frame.untrimmed THEN frame.highest ELSE Max(unreadable)
           skip == frame.untrimmed \/ UnreadableOnTop
           top == IF ~skip THEN active
                  ELSE IF blocking < MaxSegmentId THEN blocking + 1
                  ELSE IF frame.untrimmed THEN blocking ELSE active
           dead == [s \in Segments |->
                      Max({0, segmentBytes[s] - Cardinality(LiveIn(s, index))})]
           dying == {s \in Segments \ {top} : segmentBytes[s] > 0 /\ dead[s] >= segmentBytes[s]}
<1>1. /\ pc = "trim" /\ pc' = "reclaim" /\ frame.trim = {}
      /\ active' = top /\ appendsDisabled' = (skip /\ blocking = MaxSegmentId)
      /\ segmentDeadBytes' = dead /\ frame' = [frame EXCEPT !.reclaim = dying]
      /\ UNCHANGED <<disk, directory, index, segmentBytes, unreadable, partiallyRead, loaded,
                     op, out, applied, troubled, faults, restarts, wipes>>
  BY DEF LoadFinish, files, trouble, counters
<1>2. /\ TypeInv /\ LinesInv /\ SizeInv /\ IndexInv /\ loaded /\ frame \in Frames
      /\ \A t \in DOMAIN disk : t <= frame.highest
      /\ \A t \in DOMAIN disk \ unreadable : t <= active /\ (IsTorn(disk[t]) => frame.untrimmed)
  BY <1>1 DEF Inv, TypeInv, CallType, CallInv, ControlInv, ObjectInv, TrimInv
<1>3. /\ DOMAIN disk \subseteq Segments /\ unreadable \subseteq DOMAIN disk
      /\ active \in Segments /\ frame.highest \in Segments /\ frame.untrimmed \in BOOLEAN
      /\ unreadable \in SUBSET Segments
  BY <1>2 DEF TypeInv, DiskType, ObjectType, SizeInv, Frames
<1>n. /\ active \in Nat /\ MaxSegmentId \in Nat
      /\ \A t \in DOMAIN disk : t \in Nat
      /\ \A t \in unreadable : t \in Nat
  BY <1>3, SegmentStoreAssumption DEF Segments
<1>4. /\ skip => blocking \in Segments /\ \A t \in DOMAIN disk : t <= blocking
      /\ ~skip => \A t \in unreadable : t < active
      /\ ~skip => ~frame.untrimmed
  <2>1. unreadable # {} => Max(unreadable) \in unreadable /\ \A t \in unreadable : t <= Max(unreadable)
    BY <1>3, SegmentsAre
  <2>2. CASE frame.untrimmed
    BY <1>2, <1>3, <2>2
  <2>3. CASE ~frame.untrimmed /\ UnreadableOnTop
    <3>1. unreadable # {} /\ Max(unreadable) >= active
      BY <2>3 DEF UnreadableOnTop
    <3>2. \A t \in DOMAIN disk : t <= Max(unreadable)
      <4> SUFFICES ASSUME NEW t \in DOMAIN disk PROVE t <= Max(unreadable)
        OBVIOUS
      <4>1. t \in Nat /\ active \in Nat /\ Max(unreadable) \in Nat
        BY <1>n, <2>1, <3>1
      <4>2. CASE t \in unreadable
        BY <2>1, <4>2
      <4>3. CASE t \notin unreadable
        BY <1>2, <3>1, <4>1, <4>3
      <4> QED BY <4>2, <4>3
    <3> QED BY <1>3, <2>1, <2>3, <3>1, <3>2
  <2>4. CASE ~frame.untrimmed /\ ~UnreadableOnTop
    <3>1. unreadable # {} => ~(Max(unreadable) >= active)
      BY <2>4 DEF UnreadableOnTop
    <3>2. \A t \in unreadable : t < active
      <4> SUFFICES ASSUME NEW t \in unreadable PROVE t < active
        OBVIOUS
      <4>1. t \in Nat /\ active \in Nat /\ Max(unreadable) \in Nat
        BY <1>n, <2>1
      <4>2. t <= Max(unreadable) /\ ~(Max(unreadable) >= active)
        BY <2>1, <3>1
      <4> QED BY <4>1, <4>2
    <3> QED BY <2>4, <3>2
  <2> QED BY <2>2, <2>3, <2>4
<1>5. top \in Segments
  <2>1. skip /\ blocking < MaxSegmentId => blocking + 1 \in Segments
    <3> HIDE DEF blocking, skip
    <3>1. blocking \in Segments /\ blocking < MaxSegmentId => blocking + 1 \in Segments
      BY SegmentStoreAssumption DEF Segments
    <3> QED BY <1>4, <3>1
  <2> HIDE DEF blocking, skip
  <2> QED BY <1>3, <1>4, <2>1
<1>6. ~(skip /\ blocking = MaxSegmentId) =>
        /\ \A t \in DOMAIN disk : t <= top
        /\ top \notin unreadable
        /\ ~IsTorn(FileOf(top))
  <2>1. CASE skip
    <3> SUFFICES ASSUME blocking # MaxSegmentId
                 PROVE  /\ \A t \in DOMAIN disk : t <= top
                        /\ top \notin unreadable /\ ~IsTorn(FileOf(top))
      BY <2>1
    <3> HIDE DEF blocking, skip
    <3>1. blocking \in Nat /\ blocking < MaxSegmentId
      BY <1>4, <2>1, SegmentStoreAssumption DEF Segments
    <3>2. top = blocking + 1
      BY <2>1, <3>1
    <3>3. \A t \in DOMAIN disk : t \in Nat /\ t < top
      BY <1>n, <1>4, <2>1, <3>1, <3>2
    <3>4. top \notin DOMAIN disk
      BY <3>1, <3>2, <3>3
    <3>5. FileOf(top) = <<>>
      BY <3>4 DEF FileOf
    <3>6. ~IsTorn(<<>>)
      BY DEF IsTorn
    <3>7. \A t \in DOMAIN disk : t <= top
      BY <3>1, <3>2, <3>3
    <3> HIDE DEF top
    <3> QED BY <1>3, <3>4, <3>5, <3>6, <3>7
  <2>2. CASE ~skip
    <3>1. top = active
      BY <2>2
    <3>2. \A t \in unreadable : t < active
      BY <1>4, <2>2
    <3>3. ~frame.untrimmed
      BY <1>4, <2>2
    <3> HIDE DEF blocking, skip, top
    <3>4. active \notin unreadable
      BY <1>3, <3>2, SegmentsAre
    <3>5. \A t \in DOMAIN disk : t <= active
      <4> SUFFICES ASSUME NEW t \in DOMAIN disk PROVE t <= active
        OBVIOUS
      <4>1. t \in Nat /\ active \in Nat
        BY <1>3, SegmentsAre
      <4> QED BY <1>2, <3>2, <4>1
    <3>6. ~IsTorn(FileOf(active))
      <4>1. CASE active \in DOMAIN disk
        BY <1>2, <3>3, <3>4, <4>1 DEF FileOf
      <4>2. CASE active \notin DOMAIN disk
        BY <4>2 DEF FileOf, IsTorn
      <4> QED BY <4>1, <4>2
    <3> QED BY <3>1, <3>4, <3>5, <3>6
  <2> QED BY <2>1, <2>2
<1>7. /\ dead \in [Segments -> Nat]
      /\ \A s \in Readable : dead[s] = segmentBytes[s] - Cardinality(LiveIn(s, index))
  <2>1. \A s \in Segments : dead[s] = Max({0, segmentBytes[s] - Cardinality(LiveIn(s, index))})
    OBVIOUS
  <2>2. dead = [s \in Segments |-> dead[s]]
    OBVIOUS
  <2> HIDE DEF dead
  <2>3. \A s \in Segments : dead[s] \in Nat
    BY <1>2, <2>1, DeadIsExact
  <2>4. \A s \in Readable : s \in Segments
    BY DEF Readable
  <2> QED BY <1>2, <2>1, <2>2, <2>3, <2>4, DeadIsExact
<1>8. dying \subseteq Readable /\ dying \in SUBSET Segments
  <2> HIDE DEF dead, top
  <2> QED BY <1>2 DEF SizeInv, Readable
<1> HIDE DEF dead, dying, top, skip, blocking
<1>9. /\ frame' \in Frames /\ frame'.reclaim = dying /\ frame'.afterLoad = frame.afterLoad
  BY <1>1, <1>2, <1>8 DEF Frames
<1>10. DiskType' /\ ObjectType' /\ Files' = Files
  <2>1. (skip /\ blocking = MaxSegmentId) \in BOOLEAN
    OBVIOUS
  <2> QED BY <1>1, <1>2, <1>3, <1>5, <1>7, <2>1 DEF TypeInv, DiskType, ObjectType, Files, FileOf
<1>11. LinesInv'
  BY <1>2, <1>10 DEF LinesInv
<1>12. SizeInv'
  BY <1>1, <1>2, <1>10 DEF SizeInv, Readable
<1>13. IndexInv'
  BY <1>1, <1>2, <1>10 DEF IndexInv, Readable
<1>14. DeadInv'
  BY <1>1, <1>7 DEF DeadInv, Readable, LiveIn
<1>15. TopInv'
  <2>1. FileOf(active)' = FileOf(top)
    BY <1>1 DEF FileOf
  <2> QED BY <1>1, <1>6, <2>1 DEF TopInv
<1>16. ObjectInv'
  BY <1>12, <1>13, <1>14, <1>15 DEF ObjectInv
<1>17. TrimInv' /\ RotationInv' /\ CompactInv'
  BY <1>1, <1>8, <1>9 DEF TrimInv, RotationInv, CompactInv, Compacting, Readable
<1>18. CallType'
  BY <1>1, <1>2, <1>9 DEF TypeInv, CallType, CallOK
<1>19. CallInv'
  BY <1>1, <1>9 DEF Inv, CallInv, ControlInv, AfterLoadInv, Loading, Appending, Answering, Compacting
<1> QED BY <1>10, <1>11, <1>16, <1>17, <1>18, <1>19 DEF Inv, TypeInv


-----------------------------------------------------------------------------
(* Appending: rotation and failures.                                        *)

\* A segment without lines has no dead ones: clearing its counters does
\* nothing.
LEMMA EmptySegment ==
  ASSUME TypeInv, LinesInv, SizeInv, IndexInv, DeadInv, pc # "trim",
         NEW s \in Readable, segmentBytes[s] = 0
  PROVE  /\ [segmentBytes EXCEPT ![s] = 0] = segmentBytes
         /\ [segmentDeadBytes EXCEPT ![s] = 0] = segmentDeadBytes
<1>1. /\ Cardinality(LiveIn(s, index)) \in Nat
      /\ Cardinality(LiveIn(s, index)) <= Count(Files, s)
  BY LiveCount
<1>2. Count(Files, s) = 0
  BY DEF SizeInv
<1>3. segmentDeadBytes[s] = segmentBytes[s] - Cardinality(LiveIn(s, index))
  BY DEF DeadInv
<1>4. segmentDeadBytes[s] = 0
  BY <1>1, <1>2, <1>3
<1>5. segmentBytes \in [Segments -> Nat] /\ segmentDeadBytes \in [Segments -> Nat]
  BY DEF TypeInv, ObjectType
<1> QED BY <1>4, <1>5

\* The segment above the active one has never been written.
LEMMA NextIsEmpty ==
  ASSUME TypeInv, LinesInv, SizeInv, IndexInv, DeadInv, TopInv, pc # "trim", ~appendsDisabled,
         active # MaxSegmentId
  PROVE  /\ active + 1 \in Readable /\ active + 1 \notin DOMAIN disk
         /\ active \in Nat /\ \A s \in DOMAIN disk : s <= active + 1
         /\ [segmentBytes EXCEPT ![active + 1] = 0] = segmentBytes
         /\ [segmentDeadBytes EXCEPT ![active + 1] = 0] = segmentDeadBytes
<1>1. /\ active \in Nat /\ active + 1 \in Segments
      /\ DOMAIN disk \subseteq Nat /\ DOMAIN disk \subseteq Segments
  BY SegmentStoreAssumption DEF TypeInv, ObjectType, DiskType, Segments
<1>2. \A s \in DOMAIN disk : s <= active
  BY DEF TopInv
<1>3. active + 1 \notin DOMAIN disk /\ \A s \in DOMAIN disk : s <= active + 1
  BY <1>1, <1>2
<1>4. active + 1 \in Readable
  BY <1>1, <1>3 DEF Readable, SizeInv
<1>5. Count(Files, active + 1) = 0
  BY <1>1, <1>3, FilesAre
<1>6. segmentBytes[active + 1] = 0
  BY <1>4, <1>5 DEF SizeInv
<1> QED BY <1>1, <1>3, <1>4, <1>6, EmptySegment

\* Writing goes on in the active segment or the next one, or not at all.
LEMMA ObjectMoves ==
  ASSUME Inv, loaded, pc # "trim", pc' # "trim", ~appendsDisabled,
         UNCHANGED <<disk, index, segmentBytes, segmentDeadBytes, unreadable, loaded>>,
         directory' \in {directory, TRUE},
         partiallyRead \subseteq partiallyRead', partiallyRead' \subseteq Segments,
         \/ /\ UNCHANGED <<active, appendsDisabled>>
            /\ pc \in {"probe", "restore"} => pc' \in {"probe", "restore"}
         \/ appendsDisabled' = TRUE /\ UNCHANGED active
         \/ active # MaxSegmentId /\ active' = active + 1 /\ UNCHANGED appendsDisabled
  PROVE  /\ DiskType' /\ ObjectType' /\ LinesInv' /\ ObjectInv'
         /\ (loaded => directory)'
<1>1. TypeInv /\ LinesInv /\ SizeInv /\ IndexInv /\ DeadInv /\ TopInv /\ directory
  BY DEF Inv, ObjectInv, CallInv, ControlInv
<1>2. active # MaxSegmentId => active + 1 \in Readable /\ active + 1 \notin DOMAIN disk
                               /\ \A s \in DOMAIN disk : s <= active + 1
  BY <1>1, NextIsEmpty
<1>3. Files' = Files
  BY DEF Files, FileOf
<1>4. DiskType' /\ ObjectType'
  <2>1. DiskType'
    BY <1>1 DEF TypeInv, DiskType
  <2>2. active' \in Segments /\ appendsDisabled' \in BOOLEAN
    BY <1>1, <1>2 DEF TypeInv, ObjectType, Readable
  <2>3. ObjectType'
    BY <1>1, <2>2 DEF TypeInv, ObjectType
  <2> QED BY <2>1, <2>3
<1>5. LinesInv'
  BY <1>1, <1>3 DEF LinesInv
<1>6. SizeInv' /\ IndexInv' /\ DeadInv'
  <2>1. unreadable \subseteq DOMAIN disk' /\ unreadable \subseteq partiallyRead'
    BY <1>1 DEF SizeInv
  <2>2. SameRecords(Files, Files')
    BY <1>3 DEF SameRecords
  <2> QED BY <2>1, <2>2, SameRecordsKeep
<1>7. TopInv'
  <2> SUFFICES ASSUME ~appendsDisabled'
               PROVE  /\ \A s \in DOMAIN disk : s <= active'
                      /\ active' \notin unreadable
                      /\ IsTorn(FileOf(active)') => pc' \in {"probe", "restore"}
    BY DEF TopInv
  <2>1. CASE active' = active
    <3>1. FileOf(active)' = FileOf(active)
      BY <2>1 DEF FileOf
    <3>2. /\ \A s \in DOMAIN disk : s <= active
          /\ active \notin unreadable
          /\ IsTorn(FileOf(active)) => pc \in {"probe", "restore"}
      BY <1>1 DEF TopInv
    <3>3. active # active + 1
      BY <1>1 DEF TypeInv, ObjectType, Segments
    <3>4. pc \in {"probe", "restore"} => pc' \in {"probe", "restore"}
      BY <2>1, <3>3
    <3> QED BY <2>1, <3>1, <3>2, <3>4
  <2>2. CASE active' # active
    <3>1. active # MaxSegmentId /\ active' = active + 1
      BY <2>2
    <3>2. FileOf(active)' = <<>>
      BY <1>2, <3>1 DEF FileOf
    <3> QED BY <1>2, <3>1, <3>2 DEF IsTorn, Readable
  <2> QED BY <2>1, <2>2
<1>8. directory'
  BY <1>1 DEF TypeInv, DiskType
<1> QED BY <1>4, <1>5, <1>6, <1>7, <1>8 DEF ObjectInv

\* RotateIfNeeded opens the next segment, or finds that there is none.
LEMMA NextSegmentIs ==
  ASSUME TypeInv, LinesInv, SizeInv, IndexInv, DeadInv, TopInv, pc # "trim", ~appendsDisabled,
         NextSegment
  PROVE  /\ UNCHANGED <<segmentBytes, segmentDeadBytes>>
         /\ \/ /\ appendsDisabled' = TRUE /\ UNCHANGED active
               /\ pc' = "return" /\ out' = "threw"
            \/ /\ active # MaxSegmentId /\ active' = active + 1 /\ UNCHANGED appendsDisabled
               /\ pc' = "write" /\ out' = out
<1>1. CASE active = MaxSegmentId
  BY <1>1 DEF NextSegment, Throw, sizes
<1>2. CASE active # MaxSegmentId
  BY <1>2, NextIsEmpty DEF NextSegment
<1> QED BY <1>1, <1>2

\* A line is about to be appended, to the active segment or, if that is full, to
\* the next one, possibly after compacting the full one.
LEMMA RotationKeeps ==
  ASSUME Inv, AppendLine \/ AfterRotationCompact, ~appendsDisabled
  PROVE  Inv'
<1>1. /\ TypeInv /\ LinesInv /\ loaded /\ SizeInv /\ IndexInv /\ DeadInv /\ TopInv
      /\ pc \in {"append", "rotated"} /\ ~appendsDisabled /\ frame \in Frames
      /\ op \in Ops /\ op.kind # "get"
  BY DEF AppendLine, AfterRotationCompact, Inv, TypeInv, CallType, CallInv, ControlInv, Appending, ObjectInv
<1>2. /\ UNCHANGED <<disk, directory, index, unreadable, partiallyRead, loaded,
                     op, applied, troubled, faults, restarts, wipes>>
  BY DEF AppendLine, AfterRotationCompact, files, trouble, counters
<1>3. /\ UNCHANGED <<segmentBytes, segmentDeadBytes>>
      /\ \/ /\ UNCHANGED <<active, appendsDisabled>>
            /\ pc' \in {"write", "compact"} /\ out' = out
         \/ /\ appendsDisabled' = TRUE /\ UNCHANGED active
            /\ pc' = "return" /\ out' = "threw"
         \/ /\ active # MaxSegmentId /\ active' = active + 1 /\ UNCHANGED appendsDisabled
            /\ pc' = "write" /\ out' = out
  <2>1. CASE NextSegment
    BY <1>1, <2>1, NextSegmentIs
  <2>2. CASE ~NextSegment
    BY <1>1, <2>2 DEF AppendLine, AfterRotationCompact, sizes
  <2> QED BY <2>1, <2>2
<1>4. /\ active \in Segments /\ active \notin unreadable /\ active \in Readable
      /\ ~IsTorn(FileOf(active))
  BY <1>1 DEF TypeInv, ObjectType, TopInv, Readable
<1>5. /\ frame' \in Frames /\ frame'.before = active
      /\ pc' = "compact" => frame'.target = active /\ frame'.afterCompact = "rotated"
  <2>1. CASE AppendLine
    <3>1. \/ frame' = [frame EXCEPT !.before = active] /\ pc' # "compact"
          \/ frame' = [frame EXCEPT !.before = active, !.target = active,
                                    !.afterCompact = "rotated"]
      BY <1>1, <2>1, NextSegmentIs DEF AppendLine
    <3> QED BY <1>1, <1>4, <3>1 DEF Frames
  <2>2. CASE AfterRotationCompact
    <3>1. frame' = frame /\ pc = "rotated"
      BY <2>2 DEF AfterRotationCompact
    <3>2. pc' # "compact"
      BY <1>1, <2>2, NextSegmentIs DEF AfterRotationCompact
    <3>3. frame.before = active
      BY <3>1 DEF Inv, RotationInv
    <3> QED BY <1>1, <3>1, <3>2, <3>3
  <2> QED BY <2>1, <2>2
<1>6. DiskType' /\ ObjectType' /\ LinesInv' /\ ObjectInv'
  <2>1. partiallyRead' \subseteq Segments
    BY <1>1, <1>2 DEF TypeInv, ObjectType
  <2> QED BY <1>1, <1>2, <1>3, <2>1, ObjectMoves
<1>7. CallType'
  BY <1>1, <1>2, <1>3, <1>5 DEF TypeInv, CallType, CallOK
<1>8. CallInv'
  BY <1>1, <1>2, <1>3, <1>5 DEF Inv, CallInv, ControlInv, AfterLoadInv, Loading, Appending, Answering, Compacting
<1>9. RotationInv'
  <2>1. FileOf(frame.before)' = FileOf(active)
    BY <1>2, <1>5 DEF FileOf
  <2> QED BY <1>2, <1>3, <1>4, <1>5, <2>1 DEF RotationInv, Compacting
<1>10. CompactInv' /\ TrimInv'
  BY <1>2, <1>3, <1>4, <1>5 DEF CompactInv, TrimInv, Compacting, Readable
<1> QED BY <1>6, <1>7, <1>8, <1>9, <1>10 DEF Inv, TypeInv

\* When no more can be appended the call fails.
LEMMA DisabledKeeps ==
  ASSUME Inv, AppendLine \/ AfterRotationCompact, appendsDisabled
  PROVE  /\ pc = "append" /\ pc' = "return" /\ out' = "threw"
         /\ UNCHANGED <<disk, memory, applied>>
         /\ Inv'
<1>1. pc = "append" /\ AppendLine /\ loaded /\ op \in Ops
  BY DEF AppendLine, AfterRotationCompact, Inv, CallInv, ControlInv, Appending
<1>2. /\ UNCHANGED <<disk, directory, memory, op, frame, loaded, applied, troubled, faults,
                     restarts, wipes>>
      /\ pc' = "return" /\ out' = "threw"
  BY <1>1 DEF AppendLine, Throw, files, counters, trouble, memory, quality
<1>3. DiskType' /\ ObjectType' /\ LinesInv' /\ ObjectInv' /\ TrimInv'
  BY <1>1, <1>2, SameObject
<1>4. CallType'
  BY <1>2 DEF Inv, TypeInv, CallType, CallOK
<1>5. CallInv'
  BY <1>1, <1>2 DEF Inv, CallInv, ControlInv, Loading, Appending, Answering, Compacting
<1>6. RotationInv' /\ CompactInv'
  BY <1>2 DEF RotationInv, CompactInv, Compacting
<1> QED BY <1>1, <1>2, <1>3, <1>4, <1>5, <1>6 DEF Inv, TypeInv

\* A damaged segment is given up: the next one becomes active, or no more is
\* appended.
LEMMA AbandonKeeps ==
  ASSUME Inv, pc \in {"probe", "restore"}, Abandon, Throw,
         UNCHANGED <<disk, index, unreadable, loaded, op, frame, applied, restarts, wipes>>,
         directory' \in {directory, TRUE}, troubled' \in BOOLEAN, faults' \in Nat
  PROVE  Inv'
<1>1. /\ TypeInv /\ LinesInv /\ loaded /\ SizeInv /\ IndexInv /\ DeadInv /\ TopInv
      /\ pc # "trim" /\ ~appendsDisabled /\ op \in Ops
  BY DEF Inv, CallInv, ControlInv, Appending, ObjectInv
<1>2. /\ UNCHANGED <<segmentBytes, segmentDeadBytes>>
      /\ partiallyRead' = partiallyRead \cup {active}
      /\ \/ appendsDisabled' = TRUE /\ UNCHANGED active
         \/ active # MaxSegmentId /\ active' = active + 1 /\ UNCHANGED appendsDisabled
  <2>1. CASE active = MaxSegmentId
    BY <2>1 DEF Abandon, sizes
  <2>2. CASE active # MaxSegmentId
    BY <1>1, <2>2, NextIsEmpty DEF Abandon
  <2> QED BY <2>1, <2>2
<1>3. pc' = "return" /\ out' = "threw"
  BY DEF Throw
<1>4. /\ DiskType' /\ ObjectType' /\ LinesInv' /\ ObjectInv'
      /\ (loaded => directory)'
  <2>1. partiallyRead' \subseteq Segments /\ partiallyRead \subseteq partiallyRead'
    BY <1>1, <1>2 DEF TypeInv, ObjectType
  <2> QED BY <1>1, <1>2, <1>3, <2>1, ObjectMoves
<1>5. CallType'
  BY <1>1, <1>3 DEF TypeInv, CallType, CallOK
<1>6. CallInv'
  BY <1>1, <1>3, <1>4 DEF Inv, CallInv, ControlInv, AfterLoadInv, Loading, Appending, Answering, Compacting
<1>7. RotationInv' /\ CompactInv' /\ TrimInv'
  BY <1>3 DEF RotationInv, CompactInv, TrimInv, Compacting
<1> QED BY <1>4, <1>5, <1>6, <1>7 DEF Inv, TypeInv

\* That is what a failed restoration or a failed probe leads to.
LEMMA RestoreFailsKeeps == ASSUME Inv, RestoreFails PROVE Inv'
<1>1. troubled' \in BOOLEAN /\ faults' \in Nat
  <2>1. CASE Breaks
    BY <2>1, BreaksIs DEF Inv, TypeInv, CallType, CallOK
  <2>2. CASE Works
    BY <2>2 DEF Works, trouble, Inv, TypeInv, CallType, CallOK
  <2> QED BY <2>1, <2>2 DEF RestoreFails
<1>2. /\ pc = "restore" /\ Abandon /\ Throw
      /\ UNCHANGED <<disk, directory, index, unreadable, loaded, op, frame, applied, restarts, wipes>>
  BY DEF RestoreFails, files, counters
<1> QED BY <1>1, <1>2, AbandonKeeps

\* Without the probe's answer the segment is given up.
LEMMA ProbeFailsKeeps == ASSUME Inv, ProbeFails PROVE Inv'
<1>1. /\ TypeInv /\ loaded /\ SizeInv /\ pc = "probe" /\ directory
      /\ ~appendsDisabled /\ op \in Ops /\ op.kind # "get" /\ frame \in Frames
  BY DEF ProbeFails, Inv, TypeInv, CallType, CallInv, ControlInv, Appending, ObjectInv
<1>2. ~MustReload
  BY <1>1, NothingMissing DEF MustReload
<1>3. /\ Breaks /\ directory' \in {directory, TRUE}
      /\ UNCHANGED <<disk, index, unreadable, loaded, op, applied, restarts, wipes>>
      /\ \/ Abandon /\ Throw /\ UNCHANGED frame
         \/ /\ pc' = "restore" /\ frame' = [frame EXCEPT !.retry = TRUE]
            /\ UNCHANGED <<active, segmentBytes, segmentDeadBytes, partiallyRead,
                           appendsDisabled, out>>
  BY <1>1, <1>2 DEF ProbeFails, counters, sizes
<1>4. troubled' \in BOOLEAN /\ faults' \in Nat
  BY <1>1, <1>3, BreaksIs DEF TypeInv, CallType, CallOK
<1>5. CASE Abandon /\ Throw /\ UNCHANGED frame
  BY <1>1, <1>3, <1>4, <1>5, AbandonKeeps
<1>6. CASE /\ pc' = "restore" /\ frame' = [frame EXCEPT !.retry = TRUE]
           /\ UNCHANGED <<active, segmentBytes, segmentDeadBytes, partiallyRead,
                          appendsDisabled, out>>
  <2>1. /\ DiskType' /\ ObjectType' /\ LinesInv' /\ ObjectInv'
        /\ (loaded => directory)'
    <3>1. partiallyRead' \subseteq Segments
      BY <1>1, <1>6 DEF TypeInv, ObjectType
    <3> QED BY <1>1, <1>3, <1>6, <3>1, ObjectMoves
  <2>2. frame' \in Frames /\ frame'.before = frame.before
    BY <1>1, <1>6 DEF Frames
  <2>3. CallType'
    BY <1>1, <1>3, <1>4, <1>6, <2>2 DEF TypeInv, CallType, CallOK
  <2>4. CallInv'
    BY <1>1, <1>3, <1>6, <2>1 DEF Inv, CallInv, ControlInv, AfterLoadInv, Loading, Appending, Answering, Compacting
  <2>5. RotationInv'
    <3>1. FileOf(frame.before)' = FileOf(frame.before)
      BY <1>3, <2>2 DEF FileOf
    <3> QED BY <1>1, <1>3, <1>6, <2>2, <3>1 DEF Inv, RotationInv, Compacting
  <2>6. CompactInv' /\ TrimInv'
    BY <1>6 DEF CompactInv, TrimInv, Compacting
  <2> QED BY <2>1, <2>3, <2>4, <2>5, <2>6 DEF Inv, TypeInv
<1> QED BY <1>3, <1>5, <1>6

\* Steps that change the tail of the active file only.
LEMMA TailObject ==
  ASSUME Inv, pc \in {"write", "probe", "restore"}, pc' # "trim", UNCHANGED <<memory, directory>>,
         SameRecords(Files, Files'), LinesInv', disk' \in [DOMAIN disk' -> Seq(Lines)],
         DOMAIN disk' \in {DOMAIN disk, DOMAIN disk \cup {active}},
         IsTorn(FileOf(active)') => pc' \in {"probe", "restore"}
  PROVE  DiskType' /\ ObjectType' /\ ObjectInv'
<1>1. UNCHANGED <<index, segmentBytes, segmentDeadBytes, unreadable, partiallyRead, active,
                  appendsDisabled, loaded>>
  BY DEF memory, sizes, quality
<1>2. TypeInv /\ loaded /\ SizeInv /\ TopInv /\ ~appendsDisabled /\ directory
  BY DEF Inv, CallInv, ControlInv, Appending, ObjectInv
<1>3. DiskType' /\ ObjectType'
  BY <1>1, <1>2 DEF TypeInv, DiskType, ObjectType
<1>4. SizeInv' /\ IndexInv' /\ DeadInv'
  <2>1. unreadable \subseteq DOMAIN disk' /\ unreadable \subseteq partiallyRead'
    BY <1>1, <1>2 DEF SizeInv
  <2> QED BY <1>1, <1>2, <2>1, SameRecordsKeep
<1>5. TopInv'
  <2>1. /\ \A s \in DOMAIN disk : s <= active
        /\ active \notin unreadable /\ active \in Nat
    BY <1>2 DEF TopInv, TypeInv, ObjectType, Segments
  <2>2. \A s \in DOMAIN disk' : s <= active
    BY <2>1
  <2> QED BY <1>1, <2>1, <2>2 DEF TopInv
<1> QED BY <1>3, <1>4, <1>5 DEF ObjectInv

\* An append fails and may leave a torn tail; the segment is probed before
\* anything else is appended to it.
LEMMA WriteFailsKeeps == ASSUME Inv, WriteFails PROVE Inv' /\ SameRecords(Files, Files')
<1>1. /\ TypeInv /\ LinesInv /\ loaded /\ SizeInv /\ TopInv /\ pc = "write" /\ pc' = "probe"
      /\ directory /\ ~appendsDisabled /\ op \in Ops /\ op.kind # "get"
  BY DEF WriteFails, Inv, CallInv, ControlInv, Appending, ObjectInv
<1>2. /\ Breaks
      /\ disk' \in {disk, WithFile(active, FileOf(active)),
                    WithFile(active, Appended(FileOf(active), Torn))}
      /\ UNCHANGED <<directory, memory, loaded, appendsDisabled, unreadable, active, op, frame,
                     out, applied, restarts, wipes>>
  BY <1>1 DEF WriteFails, counters, memory, quality
<1>3. troubled' \in BOOLEAN /\ faults' \in Nat
  BY <1>1, <1>2, BreaksIs DEF TypeInv, CallType, CallOK
<1>4. PICK s : s = active
  OBVIOUS
<1>5. s \in Segments /\ ~IsTorn(Files[s]) /\ FileOf(s) = Files[s] /\ GoodFile(Files[s])
      /\ Count(Files, s) = CompleteLength(Files[s])
  BY <1>1, <1>4, FilesAre DEF TypeInv, ObjectType, TopInv, LinesInv, GoodFiles, Count
<1>6. /\ SameRecords(Files, Files') /\ LinesInv' /\ disk' \in [DOMAIN disk' -> Seq(Lines)]
      /\ DOMAIN disk' \in {DOMAIN disk, DOMAIN disk \cup {s}}
      /\ \A t \in Segments \ {s} : FileOf(t)' = FileOf(t)
  <2>1. CASE disk' = disk
    <3>1. Files' = Files
      BY <2>1 DEF Files, FileOf
    <3>2. \A t \in Segments : FileOf(t)' = FileOf(t)
      BY <2>1 DEF FileOf
    <3> QED BY <1>1, <2>1, <3>1, <3>2 DEF SameRecords, LinesInv, TypeInv, DiskType
  <2>2. CASE disk' = WithFile(s, Files[s])
    BY <1>1, <1>5, <2>2, TailChanges
  <2>3. CASE disk' = WithFile(s, Appended(Files[s], Torn))
    <3>1. /\ GoodFile(Appended(Files[s], Torn))
          /\ CompleteLength(Appended(Files[s], Torn)) = CompleteLength(Files[s])
          /\ \A i \in 1 .. CompleteLength(Files[s]) : Appended(Files[s], Torn)[i] = Files[s][i]
      BY <1>5, AppendedIs
    <3> QED BY <1>1, <1>5, <2>3, <3>1, TailChanges
  <2> QED BY <1>2, <1>4, <1>5, <2>1, <2>2, <2>3
<1>7. DiskType' /\ ObjectType' /\ ObjectInv'
  BY <1>1, <1>2, <1>4, <1>6, TailObject
<1>8. CallType'
  BY <1>1, <1>2, <1>3 DEF TypeInv, CallType, CallOK
<1>9. CallInv'
  BY <1>1, <1>2 DEF Inv, CallInv, ControlInv, AfterLoadInv, Loading, Appending, Answering, Compacting
<1>10. RotationInv'
  <2>1. /\ active = frame.before \/ active = frame.before + 1
        /\ frame.before \notin unreadable
        /\ active # frame.before => ~IsTorn(FileOf(frame.before))
        /\ frame.before \in Segments
    BY <1>1 DEF Inv, RotationInv, TypeInv, CallType, Frames
  <2>2. PICK b : b = frame.before
    OBVIOUS
  <2>3. b # s => FileOf(b)' = FileOf(b)
    BY <1>6, <2>1, <2>2
  <2>4. FileOf(frame.before)' = FileOf(b)'
    BY <1>2, <2>2 DEF FileOf
  <2> QED BY <1>1, <1>2, <1>4, <2>1, <2>2, <2>3, <2>4 DEF RotationInv, Compacting
<1>11. CompactInv' /\ TrimInv'
  BY <1>1 DEF CompactInv, TrimInv, Compacting
<1> QED BY <1>6, <1>7, <1>8, <1>9, <1>10, <1>11 DEF Inv, TypeInv

\* The probe finds the file as it was, or as it has to be restored.
LEMMA ProbeOpensKeeps == ASSUME Inv, ProbeOpens PROVE Inv' /\ SameRecords(Files, Files')
<1>1. /\ TypeInv /\ LinesInv /\ loaded /\ pc = "probe" /\ pc' = "restore"
      /\ ~appendsDisabled /\ op \in Ops /\ op.kind # "get" /\ frame \in Frames
  BY DEF ProbeOpens, Inv, TypeInv, CallType, CallInv, ControlInv, Appending
<1>2. /\ disk' = WithFile(active, FileOf(active)) /\ frame' = [frame EXCEPT !.retry = FALSE]
      /\ UNCHANGED <<directory, memory, loaded, appendsDisabled, unreadable, active, op,
                     out, applied, troubled, faults, restarts, wipes>>
  BY <1>1 DEF ProbeOpens, Works, trouble, counters, memory, quality
<1>3. PICK s : s = active
  OBVIOUS
<1>4. s \in Segments /\ FileOf(s) = Files[s] /\ GoodFile(Files[s])
      /\ Count(Files, s) = CompleteLength(Files[s])
  BY <1>1, <1>3, FilesAre DEF TypeInv, ObjectType, LinesInv, GoodFiles, Count
<1>5. /\ SameRecords(Files, Files') /\ LinesInv' /\ disk' \in [DOMAIN disk' -> Seq(Lines)]
      /\ DOMAIN disk' = DOMAIN disk \cup {s}
      /\ \A t \in Segments \ {s} : FileOf(t)' = FileOf(t)
  BY <1>1, <1>2, <1>3, <1>4, TailChanges
<1>6. DiskType' /\ ObjectType' /\ ObjectInv'
  BY <1>1, <1>2, <1>3, <1>5, TailObject
<1>7. frame' \in Frames /\ frame'.before = frame.before
  BY <1>1, <1>2 DEF Frames
<1>8. CallType'
  BY <1>1, <1>2, <1>7 DEF TypeInv, CallType, CallOK
<1>9. CallInv'
  BY <1>1, <1>2 DEF Inv, CallInv, ControlInv, AfterLoadInv, Loading, Appending, Answering, Compacting
<1>10. RotationInv'
  <2>1. /\ active = frame.before \/ active = frame.before + 1
        /\ frame.before \notin unreadable
        /\ active # frame.before => ~IsTorn(FileOf(frame.before))
        /\ frame.before \in Segments
    BY <1>1 DEF Inv, RotationInv, Frames
  <2>2. PICK b : b = frame.before
    OBVIOUS
  <2>3. b # s => FileOf(b)' = FileOf(b)
    BY <1>5, <2>1, <2>2
  <2>4. FileOf(frame.before)' = FileOf(b)'
    BY <1>7, <2>2 DEF FileOf
  <2> QED BY <1>1, <1>2, <1>3, <1>7, <2>1, <2>2, <2>3, <2>4 DEF RotationInv, Compacting
<1>11. CompactInv' /\ TrimInv'
  BY <1>1 DEF CompactInv, TrimInv, Compacting
<1> QED BY <1>5, <1>6, <1>8, <1>9, <1>10, <1>11 DEF Inv, TypeInv

\* The torn tail of the failed append is cut off, and the call writes again or
\* fails.
LEMMA RestoreKeeps == ASSUME Inv, RestoreActiveSegment PROVE Inv' /\ SameRecords(Files, Files')
<1>1. /\ TypeInv /\ LinesInv /\ loaded /\ SizeInv /\ IndexInv /\ DeadInv /\ TopInv
      /\ pc = "restore" /\ ~appendsDisabled /\ op \in Ops /\ op.kind # "get" /\ frame \in Frames
      /\ out \in Values \cup {None, "ok", "threw"} /\ directory
  BY DEF RestoreActiveSegment, Inv, TypeInv, CallType, CallOK, CallInv, ControlInv, Appending, ObjectInv
<1>2. /\ TryAgainOrThrow
      /\ UNCHANGED <<directory, index, unreadable, partiallyRead, appendsDisabled, loaded,
                     op, applied, troubled, faults, restarts, wipes>>
  BY DEF RestoreActiveSegment, Works, trouble, counters, quality
<1>3. frame' \in Frames /\ pc' \in {"append", "return"} /\ out' \in {out, "threw"}
  BY <1>1, <1>2 DEF TryAgainOrThrow, Throw, Frames
<1>4. PICK s : s = active
  OBVIOUS
<1>5. /\ s \in Segments /\ s \notin unreadable /\ s \in Readable
      /\ segmentBytes[s] = Count(Files, s) /\ Count(Files, s) \in Nat
      /\ DOMAIN disk \subseteq Segments
  BY <1>1, <1>4, FilesAre DEF TypeInv, ObjectType, TopInv, Readable, SizeInv
<1>6. CASE /\ disk' = WithFile(active, SubSeq(FileOf(active), 1, segmentBytes[active]))
           /\ UNCHANGED <<active, sizes>>
  <2>1. UNCHANGED memory
    BY <1>2, <1>6 DEF memory, sizes, quality
  <2>2. /\ SameRecords(Files, Files') /\ LinesInv' /\ ~IsTorn(FileOf(s))'
        /\ DOMAIN disk' = DOMAIN disk \cup {s} /\ disk' \in [DOMAIN disk' -> Seq(Lines)]
    <3>1. PICK n : n = segmentBytes[s]
      OBVIOUS
    <3>2. disk' = WithFile(s, SubSeq(FileOf(s), 1, n)) /\ n = Count(Files, s)
      BY <1>4, <1>5, <1>6, <3>1
    <3> QED BY <1>1, <1>5, <3>2, CutKeepsRecords
  <2>3. ~IsTorn(FileOf(active)')
    <3>1. FileOf(active)' = FileOf(s)'
      BY <1>4, <1>6 DEF FileOf
    <3> QED BY <2>2, <3>1
  <2> QED BY <1>1, <1>2, <1>3, <1>4, <2>1, <2>2, <2>3, TailObject
          DEF TypeInv, CallType, CallOK, Inv, CallInv, ControlInv, AfterLoadInv, Loading, Appending, Answering,
              Compacting, RotationInv, CompactInv, TrimInv
<1>7. CASE /\ segmentBytes[active] = 0 /\ disk' = WithoutFile(active) /\ active' = frame.before
           /\ IF active # frame.before
              THEN /\ segmentBytes' = [segmentBytes EXCEPT ![active] = 0]
                   /\ segmentDeadBytes' = [segmentDeadBytes EXCEPT ![active] = 0]
              ELSE UNCHANGED sizes
  <2>1. UNCHANGED <<segmentBytes, segmentDeadBytes>>
    BY <1>1, <1>4, <1>5, <1>7, EmptySegment DEF sizes
  <2>2. PICK b : b = frame.before
    OBVIOUS
  <2>3. /\ b \in Segments /\ b \notin unreadable /\ (s = b \/ s = b + 1)
        /\ s # b => ~IsTorn(FileOf(b))
    BY <1>1, <1>4, <2>2 DEF Inv, RotationInv, Frames
  <2>4. /\ SameRecords(Files, Files') /\ LinesInv'
        /\ DOMAIN disk' = DOMAIN disk \ {s} /\ disk' \in [DOMAIN disk' -> Seq(Lines)]
        /\ \A t \in Segments \ {s} : FileOf(t)' = FileOf(t)
    BY <1>1, <1>4, <1>5, <1>7, RemovalKeepsRecords
  <2>5. SizeInv' /\ IndexInv' /\ DeadInv'
    <3>1. unreadable \subseteq DOMAIN disk' /\ unreadable \subseteq partiallyRead'
      BY <1>1, <1>2, <1>5, <2>4 DEF SizeInv
    <3> QED BY <1>1, <1>2, <2>1, <2>4, <3>1, SameRecordsKeep
  <2>6. TopInv'
    <3>1. \A t \in DOMAIN disk' : t <= b
      <4> SUFFICES ASSUME NEW t \in DOMAIN disk' PROVE t <= b
        OBVIOUS
      <4>1. t \in Nat /\ s \in Nat /\ b \in Nat /\ t # s
        BY <1>5, <2>3, <2>4 DEF Segments
      <4>2. t <= s
        BY <1>1, <1>4, <2>4 DEF TopInv
      <4> QED BY <2>3, <4>1, <4>2
    <3>2. ~IsTorn(FileOf(b)')
      <4>1. CASE b = s
        <5>1. FileOf(b)' = <<>>
          BY <2>4, <4>1 DEF FileOf
        <5> QED BY <5>1 DEF IsTorn
      <4>2. CASE b # s
        BY <2>3, <2>4, <4>2
      <4> QED BY <4>1, <4>2
    <3>3. FileOf(active)' = FileOf(b)'
      BY <1>7, <2>2 DEF FileOf
    <3> QED BY <1>2, <1>7, <2>2, <2>3, <3>1, <3>2, <3>3 DEF TopInv
  <2>7. DiskType' /\ ObjectType' /\ ObjectInv'
    <3>1. DiskType' /\ ObjectType'
      BY <1>1, <1>2, <1>5, <1>7, <2>1, <2>2, <2>3, <2>4 DEF TypeInv, DiskType, ObjectType
    <3> QED BY <2>5, <2>6, <3>1 DEF ObjectInv
  <2> QED BY <1>1, <1>2, <1>3, <2>4, <2>7
          DEF TypeInv, CallType, CallOK, Inv, CallInv, ControlInv, AfterLoadInv, Loading, Appending, Answering,
              Compacting, RotationInv, CompactInv, TrimInv
<1> QED BY <1>6, <1>7 DEF RestoreActiveSegment


-----------------------------------------------------------------------------
(* Appending: the line reaches the disk.                                    *)

\* The record of the call is put behind the complete lines of the active file,
\* above every other record.
LEMMA LineIsAppended ==
  ASSUME TypeInv, LinesInv, SizeInv, TopInv, pc # "trim", ~appendsDisabled,
         pc \notin {"probe", "restore"}, NEW s, s = active, NEW line \in Records,
         disk' = WithFile(active, Appended(FileOf(active), line))
  PROVE  /\ s \in Readable /\ segmentBytes[s] = Count(Files, s) /\ Count(Files, s) \in Nat
         /\ LinesInv' /\ ~IsTorn(FileOf(s))'
         /\ DOMAIN disk' = DOMAIN disk \cup {s} /\ disk' \in [DOMAIN disk' -> Seq(Lines)]
         /\ Extends(Files, Files', Segments, s) /\ Extends(Files, Files', Readable, s)
         /\ Count(Files', s) = Count(Files, s) + 1
         /\ New(Files, Files', s) = {Count(Files', s)}
         /\ Files'[s][Count(Files', s)] = line
<1>1. /\ s \in Segments /\ s \notin unreadable /\ s \in Readable
      /\ ~IsTorn(Files[s]) /\ FileOf(s) = Files[s] /\ GoodFile(Files[s])
      /\ Count(Files, s) = CompleteLength(Files[s]) /\ Count(Files, s) \in Nat
  BY FilesAre DEF TypeInv, ObjectType, TopInv, LinesInv, GoodFiles, Count, Readable
<1>2. PICK n : n = CompleteLength(Files[s])
  OBVIOUS
<1>3. PICK f : f = Files[s]
  OBVIOUS
<1>4. PICK g : g = Appended(f, line)
  OBVIOUS
<1>5. /\ GoodFile(g) /\ CompleteLength(g) = n + 1 /\ n \in Nat
      /\ \A i \in 1 .. n : g[i] = f[i]
      /\ ~IsTorn(g) /\ g[n + 1] = line
  BY <1>1, <1>2, <1>3, <1>4, AppendedIs, RecordFacts
<1>6. disk' = WithFile(s, g) /\ g \in Seq(Lines)
  BY <1>1, <1>3, <1>4, <1>5 DEF GoodFile
<1>7. /\ DOMAIN disk' = DOMAIN disk \cup {s} /\ disk' \in [DOMAIN disk' -> Seq(Lines)]
      /\ Files' = [Files EXCEPT ![s] = g]
  BY <1>1, <1>6, WithFileIs
<1>8. Files \in [Segments -> Seq(Lines)] /\ \A t \in Segments : GoodFile(Files[t])
  BY DEF LinesInv, GoodFiles
<1>9. Files'[s] = g /\ \A t \in Segments \ {s} : Files'[t] = Files[t]
  BY <1>1, <1>7, <1>8
<1>10. Count(Files', s) = n + 1 /\ Count(Files, s) = n
  BY <1>1, <1>2, <1>5, <1>9 DEF Count
<1>11. \A t \in Segments : t > s => Count(Files, t) = 0
  <2> SUFFICES ASSUME NEW t \in Segments, t > s PROVE Count(Files, t) = 0
    OBVIOUS
  <2>1. t \in Nat /\ s \in Nat
    BY <1>1 DEF Segments
  <2>2. t \notin DOMAIN disk
    BY <2>1 DEF TopInv
  <2> QED BY <2>1, <2>2, FilesAre
<1>12. Extends(Files, Files', Segments, s) /\ Extends(Files, Files', Readable, s)
  BY <1>1, <1>3, <1>5, <1>9, <1>10, <1>11 DEF Extends, Readable
<1>13. New(Files, Files', s) = {n + 1}
  BY <1>5, <1>10 DEF New
<1>14. LinesInv'
  BY <1>5, <1>6, <1>7, <1>8, <1>9 DEF LinesInv, GoodFiles
<1>15. ~IsTorn(FileOf(s))'
  <2>1. FileOf(s)' = Files'[s]
    BY <1>1 DEF Files
  <2> QED BY <1>5, <1>9, <2>1
<1>16. segmentBytes[s] = Count(Files, s)
  BY <1>1 DEF SizeInv
<1> QED BY <1>1, <1>5, <1>7, <1>9, <1>10, <1>12, <1>13, <1>14, <1>15, <1>16

\* The index follows the new record.
LEMMA CommitIndexes ==
  ASSUME NEW F, GoodFiles(F), NEW G, NEW S \in SUBSET Segments, NEW s \in S, NEW k \in Keys,
         Extends(F, G, S, s), NEW n \in RecordsOf(G, k, s), n = Count(G, s), New(F, G, s) = {n},
         NEW idx, IndexIs(F, S, idx), NEW new,
         k \in DOMAIN new <=> G[s][n].value # Tombstone,
         \A x : x # k => (x \in DOMAIN new <=> x \in DOMAIN idx),
         \A x \in DOMAIN idx : x # k => new[x] = idx[x],
         G[s][n].value # Tombstone => new[k].seg = s /\ new[k].pos = n
  PROVE  IndexIs(G, S, new)
<1>2. \A t, i : LastAt(G, k, S, t, i) <=> t = s /\ i = n
  <2>1. Count(G, s) \in RecordsOf(G, k, s)
    OBVIOUS
  <2> QED BY <2>1, TheNewOneIsLast
<1> SUFFICES ASSUME NEW x \in Keys
             PROVE  IF x \in DOMAIN new
                    THEN LiveAt(G, x, S, new[x].seg, new[x].pos)
                    ELSE \A t \in S : \A i \in 1 .. Count(G, t) :
                           ~LiveAt(G, x, S, t, i)
  BY DEF IndexIs
<1>3. CASE x = k
  <2>1. CASE G[s][n].value = Tombstone
    <3>1. k \notin DOMAIN new
      BY <2>1
    <3>2. \A t, i : ~LiveAt(G, k, S, t, i)
      BY <1>2, <2>1 DEF LiveAt
    <3> QED BY <1>3, <3>1, <3>2
  <2>2. CASE G[s][n].value # Tombstone
    <3>1. k \in DOMAIN new /\ new[k].seg = s /\ new[k].pos = n
      BY <2>2
    <3>2. LiveAt(G, k, S, s, n)
      BY <1>2, <2>2 DEF LiveAt
    <3> QED BY <1>3, <3>1, <3>2
  <2> QED BY <2>1, <2>2
<1>4. CASE x # k
  <2>1. \A t, i : LiveAt(G, x, S, t, i) <=> LiveAt(F, x, S, t, i)
    <3>1. \A j \in New(F, G, s) : G[s][j].key # x
      BY <1>4 DEF RecordsOf
    <3> QED BY <3>1, OthersStay
  <2>2. (x \in DOMAIN new <=> x \in DOMAIN idx) /\ (x \in DOMAIN idx => new[x] = idx[x])
    BY <1>4
  <2>3. CASE x \in DOMAIN idx
    BY <2>1, <2>2, <2>3 DEF IndexIs
  <2>4. CASE x \notin DOMAIN idx
    <3>1. \A t, i : ~LiveAt(F, x, S, t, i)
      BY <2>4 DEF IndexIs, LiveAt, LastAt, RecordsOf
    <3> QED BY <2>1, <2>2, <2>4, <3>1
  <2> QED BY <2>3, <2>4
<1> QED BY <1>3, <1>4

\* The counters follow it too.
LEMMA CommitCounts ==
  ASSUME TypeInv, LinesInv, SizeInv, IndexInv, DeadInv, pc # "trim",
         NEW s \in Readable, s = active, NEW k \in Keys, k = op.key, Commit
  PROVE  /\ segmentBytes' \in [Segments -> Nat] /\ segmentDeadBytes' \in [Segments -> Nat]
         /\ \A t \in Readable :
              segmentDeadBytes'[t] = segmentBytes'[t] - Cardinality(LiveIn(t, index'))
<1> DEFINE isDelete == op.kind = "delete"
<1>1. /\ segmentBytes' = [segmentBytes EXCEPT ![s] = @ + 1]
      /\ segmentDeadBytes' =
           (IF k \in DOMAIN index THEN [MarkerDead EXCEPT ![index[k].seg] = @ + 1]
            ELSE MarkerDead)
      /\ isDelete => index' = [x \in DOMAIN index \ {k} |-> index[x]]
      /\ ~isDelete =>
           index' = [x \in DOMAIN index \cup {k} |->
                       IF x = k THEN [seg |-> s, pos |-> segmentBytes[s] + 1]
                       ELSE index[x]]
  BY DEF Commit
<1>2. /\ segmentBytes \in [Segments -> Nat] /\ segmentDeadBytes \in [Segments -> Nat]
      /\ s \in Segments
      /\ \A x \in DOMAIN index : index[x].seg \in Segments
  BY DEF TypeInv, ObjectType, Positions, Readable
<1>3. /\ MarkerDead \in [Segments -> Nat]
      /\ \A t \in Segments :
           MarkerDead[t] = segmentDeadBytes[t] + (IF isDelete /\ t = s THEN 1 ELSE 0)
  BY <1>2 DEF MarkerDead
<1> HIDE DEF isDelete
<1>4. segmentBytes' \in [Segments -> Nat] /\ segmentDeadBytes' \in [Segments -> Nat]
  <2>1. segmentBytes' \in [Segments -> Nat]
    BY <1>1, <1>2
  <2>2. segmentDeadBytes' \in [Segments -> Nat]
    BY <1>1, <1>2, <1>3
  <2> QED BY <2>1, <2>2
<1>5. ASSUME NEW t \in Readable
      PROVE  segmentDeadBytes'[t] = segmentBytes'[t] - Cardinality(LiveIn(t, index'))
  <2> DEFINE L == LiveIn(t, index)
  <2>1. t \in Segments
    BY DEF Readable
  <2>2. segmentBytes'[t] = segmentBytes[t] + (IF t = s THEN 1 ELSE 0)
    BY <1>1, <1>2, <2>1
  <2>3. segmentDeadBytes'[t] = segmentDeadBytes[t] + (IF isDelete /\ t = s THEN 1 ELSE 0)
                                 + (IF k \in L THEN 1 ELSE 0)
    <3>1. CASE k \in DOMAIN index
      BY <1>1, <1>2, <1>3, <2>1, <3>1 DEF LiveIn
    <3>2. CASE k \notin DOMAIN index
      BY <1>1, <1>2, <1>3, <2>1, <3>2 DEF LiveIn
    <3> QED BY <3>1, <3>2
  <2>4. LiveIn(t, index') = IF ~isDelete /\ t = s THEN (L \ {k}) \cup {k} ELSE L \ {k}
    <3>1. CASE isDelete
      BY <1>1, <3>1 DEF LiveIn
    <3>2. CASE ~isDelete
      BY <1>1, <3>2 DEF LiveIn
    <3> QED BY <3>1, <3>2
  <2>5. IsFiniteSet(L) /\ Cardinality(L) \in Nat
    BY LiveCount
  <2> HIDE DEF L
  <2>6. /\ IsFiniteSet(L \ {k}) /\ Cardinality(L \ {k}) \in Nat
        /\ Cardinality(L \ {k}) = Cardinality(L) - (IF k \in L THEN 1 ELSE 0)
    <3>1. CASE k \in L
      BY <2>5, <3>1, FS_RemoveElement, FS_CardinalityType
    <3>2. CASE k \notin L
      <4>1. L \ {k} = L
        BY <3>2
      <4> QED BY <2>5, <3>2, <4>1
    <3> QED BY <3>1, <3>2
  <2>7. Cardinality((L \ {k}) \cup {k}) = Cardinality(L \ {k}) + 1
    <3>1. k \notin L \ {k}
      OBVIOUS
    <3> QED BY <2>6, <3>1, FS_AddElement
  <2>8. Cardinality(LiveIn(t, index')) =
          Cardinality(L) - (IF k \in L THEN 1 ELSE 0) + (IF ~isDelete /\ t = s THEN 1 ELSE 0)
    BY <2>4, <2>5, <2>6, <2>7
  <2>9. segmentDeadBytes[t] = segmentBytes[t] - Cardinality(L)
    BY DEF DeadInv, L
  <2>10. segmentBytes[t] \in Nat /\ segmentDeadBytes[t] \in Nat
    BY <1>2, <2>1
  <2> QED BY <2>2, <2>3, <2>5, <2>8, <2>9, <2>10
<1> QED BY <1>4, <1>5

\* A record is appended, and index and counters follow it.
LEMMA WriteLineKeeps ==
  ASSUME Inv, WriteLine
  PROVE  Inv' /\ Puts(Files, Files', op.key, NewLine.value)
<1>1. /\ TypeInv /\ LinesInv /\ loaded /\ SizeInv /\ IndexInv /\ DeadInv /\ TopInv
      /\ pc = "write" /\ directory /\ ~appendsDisabled /\ op \in Ops /\ op.kind # "get"
      /\ frame \in Frames
  BY DEF WriteLine, Inv, TypeInv, CallType, CallInv, ControlInv, Appending, ObjectInv
<1>2. /\ disk' = WithFile(active, Appended(FileOf(active), NewLine)) /\ Commit
      /\ UNCHANGED <<directory, unreadable, partiallyRead, appendsDisabled, loaded, active, op,
                     out, troubled, faults, restarts, wipes>>
  BY DEF WriteLine, quality, trouble, counters
<1>3. PICK k \in Keys : k = op.key
  BY <1>1 DEF Ops
<1>4. PICK s : s = active
  OBVIOUS
<1>5. PICK line \in Records : line = NewLine
  <2>1. op.kind # "delete" => op.value \in Values
    BY <1>1 DEF Inv, CallInv, ControlInv, Ops
  <2>2. NewLine \in Records
    BY <1>3, <2>1 DEF NewLine, Records
  <2> QED BY <2>2
<1>6. line.key = k /\ (line.value = Tombstone <=> op.kind = "delete")
  <2>1. op.kind # "delete" => op.value \in Values
    BY <1>1 DEF Inv, CallInv, ControlInv, Ops
  <2> QED BY <1>3, <1>5, <2>1, SegmentStoreAssumption DEF NewLine
<1>7. /\ s \in Readable /\ segmentBytes[s] = Count(Files, s) /\ Count(Files, s) \in Nat
      /\ LinesInv' /\ ~IsTorn(FileOf(s))'
      /\ DOMAIN disk' = DOMAIN disk \cup {s} /\ disk' \in [DOMAIN disk' -> Seq(Lines)]
      /\ Extends(Files, Files', Segments, s) /\ Extends(Files, Files', Readable, s)
      /\ Count(Files', s) = Count(Files, s) + 1
      /\ New(Files, Files', s) = {Count(Files', s)}
      /\ Files'[s][Count(Files', s)] = line
  BY <1>1, <1>2, <1>4, <1>5, LineIsAppended
<1>8. PICK n \in Nat : n = Count(Files', s) /\ n = segmentBytes[s] + 1
  BY <1>7
<1>9. /\ segmentBytes' = [segmentBytes EXCEPT ![s] = @ + 1]
      /\ op.kind = "delete" => index' = [x \in DOMAIN index \ {k} |-> index[x]]
      /\ op.kind # "delete" =>
           index' = [x \in DOMAIN index \cup {k} |->
                       IF x = k THEN [seg |-> s, pos |-> n] ELSE index[x]]
      /\ applied' = TRUE
      /\ \/ pc' = "return" /\ frame' = frame
         \/ /\ k \in DOMAIN index /\ pc' = "compact"
            /\ frame' = [frame EXCEPT !.target = index[k].seg, !.afterCompact = "return"]
  <2>1. PICK compact : /\ compact => k \in DOMAIN index
                       /\ pc' = IF compact THEN "compact" ELSE "return"
                       /\ frame' = IF compact
                                   THEN [frame EXCEPT !.target = index[k].seg,
                                                      !.afterCompact = "return"]
                                   ELSE frame
    BY <1>2, <1>3 DEF Commit
  <2>2. /\ segmentBytes' = [segmentBytes EXCEPT ![s] = @ + 1]
        /\ op.kind = "delete" => index' = [x \in DOMAIN index \ {k} |-> index[x]]
        /\ op.kind # "delete" =>
             index' = [x \in DOMAIN index \cup {k} |->
                         IF x = k THEN [seg |-> s, pos |-> n] ELSE index[x]]
        /\ applied' = TRUE
    BY <1>2, <1>3, <1>4, <1>8 DEF Commit
  <2> QED BY <2>1, <2>2
<1>10. Readable' = Readable
  BY <1>2 DEF Readable
<1>11. IndexInv'
  <2>1. /\ New(Files, Files', s) = {n} /\ n \in RecordsOf(Files', k, s)
        /\ Files'[s][n].value = Tombstone <=> op.kind = "delete"
    BY <1>6, <1>7, <1>8 DEF RecordsOf
  <2>2. /\ k \in DOMAIN index' <=> Files'[s][n].value # Tombstone
        /\ \A x : x # k => (x \in DOMAIN index' <=> x \in DOMAIN index)
        /\ \A x \in DOMAIN index : x # k => index'[x] = index[x]
        /\ Files'[s][n].value # Tombstone => index'[k].seg = s /\ index'[k].pos = n
    <3>1. CASE op.kind = "delete"
      BY <1>9, <2>1, <3>1
    <3>2. CASE op.kind # "delete"
      BY <1>9, <2>1, <3>2
    <3> QED BY <3>1, <3>2
  <2>3. /\ Readable \in SUBSET Segments /\ GoodFiles(Files) /\ IndexIs(Files, Readable, index)
        /\ n = Count(Files', s)
    BY <1>1, <1>8 DEF Readable, LinesInv, IndexInv
  <2>4. IndexIs(Files', Readable, index')
    BY <1>7, <2>1, <2>2, <2>3, CommitIndexes
  <2> QED BY <1>10, <2>4 DEF IndexInv
<1>12. /\ segmentBytes' \in [Segments -> Nat] /\ segmentDeadBytes' \in [Segments -> Nat]
       /\ \A t \in Readable :
            segmentDeadBytes'[t] = segmentBytes'[t] - Cardinality(LiveIn(t, index'))
  BY <1>1, <1>2, <1>3, <1>4, <1>7, CommitCounts
<1>13. DeadInv'
  BY <1>10, <1>12 DEF DeadInv
<1>14. SizeInv'
  <2>1. /\ unreadable \subseteq DOMAIN disk /\ unreadable \subseteq partiallyRead
        /\ \A t \in unreadable : segmentBytes[t] = 0 /\ t \in Segments /\ t # s
        /\ \A t \in Readable : segmentBytes[t] = Count(Files, t) /\ t \in Segments
        /\ segmentBytes \in [Segments -> Nat]
    BY <1>1, <1>7 DEF SizeInv, Readable, TypeInv, ObjectType
  <2>2. \A t \in unreadable : segmentBytes'[t] = 0
    BY <1>9, <2>1
  <2>3. \A t \in Readable : segmentBytes'[t] = Count(Files', t)
    <3>1. \A t \in Readable : t # s => Count(Files', t) = Count(Files, t)
      BY <1>7, <2>1 DEF Extends, Count
    <3> QED BY <1>7, <1>8, <1>9, <2>1, <3>1
  <2> QED BY <1>2, <1>7, <1>10, <2>1, <2>2, <2>3 DEF SizeInv
<1>15. TopInv'
  <2>1. FileOf(active)' = FileOf(s)'
    BY <1>2, <1>4 DEF FileOf
  <2>2. \A t \in DOMAIN disk' : t <= s
    <3>1. s <= s
      BY <1>7 DEF Readable, Segments
    <3> QED BY <1>1, <1>4, <1>7, <3>1 DEF TopInv
  <2> QED BY <1>2, <1>4, <1>7, <2>1, <2>2 DEF TopInv, Readable
<1>16. ObjectInv'
  BY <1>11, <1>13, <1>14, <1>15 DEF ObjectInv
<1>17. DiskType'
  BY <1>1, <1>2, <1>7 DEF TypeInv, DiskType, Readable
<1>18. ObjectType'
  <2>1. DOMAIN index' \subseteq Keys /\ index' \in [DOMAIN index' -> Positions]
    <3>1. [seg |-> s, pos |-> n] \in Positions
      BY <1>7, <1>8 DEF Positions, Readable
    <3>2. DOMAIN index \subseteq Keys /\ \A x \in DOMAIN index : index[x] \in Positions
      BY <1>1 DEF TypeInv, ObjectType
    <3> QED BY <1>9, <3>1, <3>2
  <2> QED BY <1>1, <1>2, <1>12, <2>1 DEF TypeInv, ObjectType
<1>19. k \in DOMAIN index => index[k].seg \in Readable /\ index[k].seg \in Segments
  BY <1>1 DEF IndexInv, IndexIs, LiveAt, LastAt, Readable
<1>20. /\ frame' \in Frames
       /\ pc' = "compact" => frame'.afterCompact = "return" /\ frame'.target \in Readable
  BY <1>1, <1>9, <1>19 DEF Frames
<1>21. CallType'
  BY <1>1, <1>2, <1>9, <1>20 DEF TypeInv, CallType, CallOK
<1>22. CallInv'
  BY <1>1, <1>2, <1>9, <1>20 DEF Inv, CallInv, ControlInv, AfterLoadInv, Loading, Appending, Answering, Compacting
<1>23. RotationInv' /\ CompactInv' /\ TrimInv'
  BY <1>9, <1>10, <1>20 DEF RotationInv, CompactInv, TrimInv, Compacting
<1>24. Puts(Files, Files', op.key, NewLine.value)
  <2>1. /\ n \in RecordsOf(Files', k, s) /\ n = Count(Files', s) /\ New(Files, Files', s) = {n}
        /\ Files'[s][n].value = NewLine.value /\ GoodFiles(Files)
    BY <1>1, <1>5, <1>6, <1>7, <1>8 DEF RecordsOf, LinesInv
  <2>2. Puts(Files, Files', k, Files'[s][n].value)
    BY <1>7, <2>1, RecordPuts
  <2> QED BY <1>3, <2>1, <2>2
<1> QED BY <1>7, <1>16, <1>17, <1>18, <1>21, <1>22, <1>23, <1>24 DEF Inv, TypeInv


-----------------------------------------------------------------------------
(* Compaction.                                                              *)

\* A file of records has no torn tail.
LEMMA AllRecords ==
  ASSUME NEW g \in Seq(Lines), \A i \in 1 .. Len(g) : g[i] \in Records
  PROVE  GoodFile(g) /\ ~IsTorn(g) /\ CompleteLength(g) = Len(g)
<1>1. GoodFile(g)
  BY DEF GoodFile
<1>2. ~IsTorn(g)
  <2> SUFFICES ASSUME IsTorn(g) PROVE FALSE
    OBVIOUS
  <2>1. Len(g) \in 1 .. Len(g) /\ g[Len(g)] = Torn
    BY FileFacts
  <2> QED BY <2>1, RecordFacts
<1> QED BY <1>1, <1>2, FileFacts

\* The active file with the lines that are moved to it.
LEMMA MergedIs ==
  ASSUME TypeInv, LinesInv, SizeInv, NEW c \in DOMAIN disk,
         NEW a \in Readable, a = active, ~IsTorn(Files[a])
  PROVE  LET g == MergedActive(c)
             n == Count(Files, a)
             m == Cardinality(Kept(c))
         IN  /\ GoodFile(g) /\ ~IsTorn(g) /\ Len(g) = n + m /\ CompleteLength(g) = n + m
             /\ \A i \in 1 .. n : g[i] = Files[a][i]
             /\ \A j \in 1 .. m : g[n + j] = Rebuilt(c)[j]
<1>1. PICK r : r = Rebuilt(c)
  OBVIOUS
<1>2. PICK m : m = Cardinality(Kept(c))
  OBVIOUS
<1>3. PICK n : n = Count(Files, a)
  OBVIOUS
<1>4. PICK f : f = Files[a]
  OBVIOUS
<1>5. /\ r \in Seq(Records) /\ r \in Seq(Lines) /\ Len(r) = m /\ m \in Nat
      /\ \A j \in 1 .. m : r[j] \in Records
  <2>1. r \in Seq(Records) /\ Len(r) = m /\ GoodFile(r)
    BY <1>1, <1>2, RebuiltIs
  <2>2. Len(r) \in Nat /\ \A j \in 1 .. Len(r) : r[j] \in Records
    BY <2>1, LenProperties, ElementOfSeq
  <2> QED BY <2>1, <2>2 DEF GoodFile
<1>6. /\ f \in Seq(Lines) /\ Len(f) = n /\ n \in Nat /\ GoodFile(f)
      /\ \A i \in 1 .. n : f[i] \in Records
  <2>1. a \in Segments /\ GoodFile(f) /\ f \in Seq(Lines) /\ n = CompleteLength(f)
    BY <1>3, <1>4 DEF Readable, LinesInv, GoodFiles, Count
  <2> QED BY <1>4, <2>1, FileFacts, GoodFileFacts
<1>7. segmentBytes[a] = n
  BY <1>3 DEF SizeInv
<1>8. MergedActive(c) = IF n > 0 THEN f \o r ELSE r
  <2>1. n > 0 => disk[a] = f
    <3>1. n > 0 => a \in DOMAIN disk
      BY <1>3, FilesAre DEF Readable
    <3> QED BY <1>4, <3>1, FilesAre
  <2> QED BY <1>1, <1>7, <2>1 DEF MergedActive
<1>9. PICK g : g = MergedActive(c)
  OBVIOUS
<1>10. /\ g \in Seq(Lines) /\ Len(g) = n + m
       /\ \A i \in 1 .. n : g[i] = f[i]
       /\ \A j \in 1 .. m : g[n + j] = r[j]
  <2>1. CASE n > 0
    <3>1. g = f \o r
      BY <1>8, <1>9, <2>1
    <3>2. /\ g \in Seq(Lines) /\ Len(g) = n + m
          /\ \A i \in 1 .. n + m : g[i] = IF i <= n THEN f[i] ELSE r[i - n]
      BY <1>5, <1>6, <3>1, ConcatProperties
    <3>3. ASSUME NEW j \in 1 .. m PROVE g[n + j] = r[j]
      <4>1. n + j \in 1 .. n + m /\ ~ (n + j <= n) /\ (n + j) - n = j
        BY <1>5, <1>6
      <4> QED BY <3>2, <4>1
    <3>4. ASSUME NEW i \in 1 .. n PROVE g[i] = f[i]
      <4>1. i \in 1 .. n + m /\ i <= n
        BY <1>5, <1>6
      <4> QED BY <3>2, <4>1
    <3> QED BY <3>2, <3>3, <3>4
  <2>2. CASE ~ (n > 0)
    <3>1. n = 0 /\ g = r
      BY <1>6, <1>8, <1>9, <2>2
    <3>2. \A j \in 1 .. m : n + j = j
      BY <1>5, <3>1
    <3> QED BY <1>5, <3>1, <3>2
  <2> QED BY <2>1, <2>2
<1>11. \A i \in 1 .. Len(g) : g[i] \in Records
  <2> SUFFICES ASSUME NEW i \in 1 .. Len(g) PROVE g[i] \in Records
    OBVIOUS
  <2>1. CASE i \in 1 .. n
    BY <1>6, <1>10, <2>1
  <2>2. CASE i \notin 1 .. n
    <3>1. i - n \in 1 .. m /\ n + (i - n) = i
      BY <1>5, <1>6, <1>10, <2>2
    <3>2. g[n + (i - n)] = r[i - n]
      BY <1>10, <3>1
    <3> QED BY <1>5, <3>1, <3>2
  <2> QED BY <2>1, <2>2
<1>12. GoodFile(g) /\ ~IsTorn(g) /\ CompleteLength(g) = Len(g)
  BY <1>10, <1>11, AllRecords
<1> QED BY <1>1, <1>2, <1>3, <1>4, <1>9, <1>10, <1>12

\* In a segment without live records only tombstones are kept.
LEMMA OnlyTombstones ==
  ASSUME TypeInv, LinesInv, NEW c \in DOMAIN disk, LiveIn(c, index) = {}
  PROVE  Kept(c) = KeptTombstones(c)
<1>1. KeptLive(c) = {}
  <2> SUFFICES ASSUME NEW i \in KeptLive(c) PROVE FALSE
    OBVIOUS
  <2>1. disk[c][i].key \in DOMAIN index /\ index[disk[c][i].key] = [seg |-> c, pos |-> i]
    BY DEF KeptLive
  <2>2. index[disk[c][i].key].seg = c
    BY <2>1
  <2>3. disk[c][i].key \in LiveIn(c, index)
    BY <2>1, <2>2 DEF LiveIn
  <2> QED BY <2>3
<1> QED BY <1>1 DEF Kept

\* Every key of a segment that keeps nothing but tombstones has a record in a
\* higher one, or one of those tombstones.
LEMMA KeysGoUp ==
  ASSUME TypeInv, LinesInv, IndexInv, NEW c \in DOMAIN disk, c \in Readable,
         LiveIn(c, index) = {}, Kept(c) # {}, NEW i \in 1 .. Count(Files, c)
  PROVE  \/ \E t \in Readable : t > c /\ RecordsOf(Files, Files[c][i].key, t) # {}
         \/ \E j \in Kept(c) : Files[c][j].key = Files[c][i].key
<1> DEFINE k == Files[c][i].key
<1>1. GoodFiles(Files) /\ Readable \in SUBSET Segments /\ c \in Segments /\ Readable \subseteq Nat
  BY FilesAre, SegmentsAre DEF LinesInv, Readable
<1>2. k \in Keys /\ i \in RecordsOf(Files, k, c)
  BY <1>1, GoodFilesAre DEF RecordsOf
<1> HIDE DEF k
<1>3. PICK s \in Readable : \E j \in 1 .. Count(Files, s) : LastAt(Files, k, Readable, s, j)
  <2>1. RecordsOf(Files, k, c) # {}
    BY <1>2
  <2> QED BY <1>1, <2>1, LastExists
<1>4. PICK j \in 1 .. Count(Files, s) : LastAt(Files, k, Readable, s, j)
  BY <1>3
<1>5. j \in RecordsOf(Files, k, s) /\ (c < s \/ c = s)
  BY <1>2, <1>4 DEF LastAt
<1>6. CASE c < s
  BY <1>1, <1>5, <1>6 DEF k
<1>7. CASE c = s
  <2>1. k \notin DOMAIN index
    <3> SUFFICES ASSUME k \in DOMAIN index PROVE FALSE
      OBVIOUS
    <3>1. LiveAt(Files, k, Readable, index[k].seg, index[k].pos)
      BY <1>2 DEF IndexInv, IndexIs
    <3>2. index[k].seg = c
      BY <1>1, <1>4, <1>7, <3>1, LastIsUnique DEF LiveAt
    <3>3. k \in LiveIn(c, index)
      BY <3>2 DEF LiveIn
    <3> QED BY <3>3
  <2>2. Files[c][j].value = Tombstone
    <3>1. ~LiveAt(Files, k, Readable, s, j)
      BY <1>2, <1>4, <2>1 DEF IndexInv, IndexIs
    <3> QED BY <1>4, <1>7, <3>1 DEF LiveAt
  <2>3. LowerSegmentHasData(c)
    <3>1. PICK x : x \in KeptTombstones(c)
      BY OnlyTombstones
    <3> QED BY <3>1 DEF KeptTombstones
  <2>4. \E x \in Kept(c) : Files[c][x].key = k
    BY <1>5, <1>7, <2>1, <2>2, <2>3, FirstTombstoneKept
  <2> QED BY <2>4 DEF k
<1> QED BY <1>5, <1>6, <1>7

\* A compaction appends the lines it keeps to the active file; the segment they
\* come from is still there.
LEMMA CompactMovesKeeps == ASSUME Inv, CompactMoves PROVE Inv' /\ SameMeaning(Files, Files')
<1>1. PICK c : c = frame.target
  OBVIOUS
<1>2. PICK a : a = active
  OBVIOUS
<1>3. PICK g : g = MergedActive(c)
  OBVIOUS
<1>4. /\ TypeInv /\ LinesInv /\ loaded /\ SizeInv /\ IndexInv /\ DeadInv /\ TopInv
      /\ pc = "compact" /\ pc' = "moved" /\ AllLiveFound(c) /\ MayMoveTombstones(c) /\ directory
      /\ c \in Readable
  BY <1>1 DEF CompactMoves, Inv, CallInv, ControlInv, CompactInv, Compacting, ObjectInv
<1>5. /\ disk' = WithFile(a, g)
      /\ segmentBytes' = [segmentBytes EXCEPT ![a] = Len(g)]
      /\ segmentDeadBytes' = [segmentDeadBytes EXCEPT ![a] = @ + Len(Rebuilt(c))]
      /\ UNCHANGED <<directory, index, unreadable, partiallyRead, appendsDisabled, loaded, active,
                     op, frame, out, applied, troubled, faults, restarts, wipes>>
  BY <1>1, <1>2, <1>3 DEF CompactMoves, Works, quality, trouble, counters
<1>6. /\ c \in DOMAIN disk /\ LiveIn(c, index) = {} /\ Kept(c) # {} /\ ~appendsDisabled /\ c < a
  BY <1>2, <1>4 DEF AllLiveFound, MayMoveTombstones
<1>7. /\ a \in Segments /\ a \in Readable /\ a \notin unreadable /\ ~IsTorn(Files[a])
      /\ GoodFiles(Files) /\ Readable \in SUBSET Segments /\ c \in Segments
      /\ Count(Files, a) \in Nat /\ FileOf(a) = Files[a] /\ a # c
      /\ segmentBytes[a] = Count(Files, a)
  <2>1. a \in Segments /\ a \notin unreadable /\ ~IsTorn(FileOf(a)) /\ a \in Readable
    BY <1>2, <1>4, <1>6 DEF TopInv, TypeInv, ObjectType, Readable
  <2>2. c \in Segments /\ a # c /\ Readable \in SUBSET Segments
    BY <1>4, <1>6, <2>1 DEF Readable, Segments
  <2>3. segmentBytes[a] = Count(Files, a)
    BY <1>4, <2>1 DEF SizeInv
  <2> QED BY <1>4, <2>1, <2>2, <2>3, FilesAre DEF LinesInv
<1>8. PICK n \in Nat : n = Count(Files, a)
  BY <1>7
<1>9. PICK m \in Nat : m = Cardinality(Kept(c))
  BY <1>4, <1>6, KeptAre
<1>10. /\ GoodFile(g) /\ ~IsTorn(g) /\ Len(g) = n + m /\ CompleteLength(g) = n + m
       /\ \A i \in 1 .. n : g[i] = Files[a][i]
       /\ \A j \in 1 .. m : g[n + j] = Rebuilt(c)[j]
       /\ g \in Seq(Lines)
  BY <1>2, <1>3, <1>4, <1>6, <1>7, <1>8, <1>9, MergedIs DEF GoodFile
<1>11. /\ DOMAIN disk' = DOMAIN disk \cup {a} /\ disk' \in [DOMAIN disk' -> Seq(Lines)]
       /\ Files' = [Files EXCEPT ![a] = g]
  BY <1>4, <1>5, <1>7, <1>10, WithFileIs
<1>12. /\ Files \in [Segments -> Seq(Lines)] /\ \A t \in Segments : GoodFile(Files[t])
       /\ Files'[a] = g /\ \A t \in Segments \ {a} : Files'[t] = Files[t]
  BY <1>7, <1>11 DEF GoodFiles
<1>13. LinesInv'
  BY <1>7, <1>10, <1>11, <1>12 DEF LinesInv, GoodFiles
<1>14. Count(Files', a) = n + m
  BY <1>10, <1>12 DEF Count
<1>15. Extends(Files, Files', Segments, a) /\ Extends(Files, Files', Readable, a)
  <2>1. \A t \in Segments : t > a => Count(Files, t) = 0
    <3> SUFFICES ASSUME NEW t \in Segments, t > a PROVE Count(Files, t) = 0
      OBVIOUS
    <3>1. t \in Nat /\ a \in Nat
      BY <1>7 DEF Segments
    <3>2. t \notin DOMAIN disk
      BY <1>2, <1>4, <1>6, <3>1 DEF TopInv
    <3> QED BY <1>4, <3>1, <3>2, FilesAre
  <2> QED BY <1>7, <1>8, <1>9, <1>10, <1>12, <1>14, <2>1 DEF Extends, Readable
<1>16. \A j \in 1 .. m : \E i \in Kept(c) : Rebuilt(c)[j] = Files[c][i] /\ i \in 1 .. Count(Files, c)
  BY <1>4, <1>6, <1>9, RebuiltIs, KeptAre
<1>17. \A i \in Kept(c) : /\ Files[c][i].value = Tombstone
                          /\ \A t, x : /\ ~LiveAt(Files, Files[c][i].key, Readable, t, x)
                                       /\ ~LiveAt(Files, Files[c][i].key, Segments, t, x)
  <2> SUFFICES ASSUME NEW i \in Kept(c)
               PROVE  /\ Files[c][i].value = Tombstone
                      /\ \A t, x : /\ ~LiveAt(Files, Files[c][i].key, Readable, t, x)
                                   /\ ~LiveAt(Files, Files[c][i].key, Segments, t, x)
    OBVIOUS
  <2>1. i \in KeptTombstones(c) /\ i \in 1 .. Count(Files, c)
    BY <1>4, <1>6, OnlyTombstones, KeptAre
  <2>2. Files[c][i].value = Tombstone /\ Files[c][i].key \notin DOMAIN index
    BY <1>4, <1>6, <2>1, KeptAre
  <2>3. Files[c][i].key \in Keys
    BY <1>7, <2>1, GoodFilesAre
  <2>4. \A t \in Readable : \A x \in 1 .. Count(Files, t) :
          ~LiveAt(Files, Files[c][i].key, Readable, t, x)
    BY <1>4, <2>2, <2>3 DEF IndexInv, IndexIs
  <2>5. \A t, x : ~LiveAt(Files, Files[c][i].key, Readable, t, x)
    BY <2>4 DEF LiveAt, LastAt, RecordsOf
  <2>6. ASSUME NEW t, NEW x, LiveAt(Files, Files[c][i].key, Segments, t, x) PROVE FALSE
    <3>1. /\ t \in Segments /\ t \in Nat /\ c \in Nat
          /\ i \in RecordsOf(Files, Files[c][i].key, c)
      BY <1>7, <2>1, <2>6 DEF LiveAt, LastAt, RecordsOf, Segments
    <3>2. c <= t
      BY <1>7, <2>6, <3>1 DEF LiveAt, LastAt
    <3>3. t \notin unreadable
      BY <1>4, <3>1, <3>2 DEF MayMoveTombstones, SizeInv, Readable
    <3>4. LiveAt(Files, Files[c][i].key, Readable, t, x)
      BY <2>6, <3>1, <3>3 DEF LiveAt, LastAt, Readable
    <3> QED BY <2>5, <3>4
  <2> QED BY <2>2, <2>5, <2>6
<1>18. \A j \in New(Files, Files', a) :
         /\ Files'[a][j].value = Tombstone
         /\ \A t, x : /\ ~LiveAt(Files, Files'[a][j].key, Readable, t, x)
                      /\ ~LiveAt(Files, Files'[a][j].key, Segments, t, x)
  <2> SUFFICES ASSUME NEW j \in New(Files, Files', a)
               PROVE  /\ Files'[a][j].value = Tombstone
                      /\ \A t, x : /\ ~LiveAt(Files, Files'[a][j].key, Readable, t, x)
                                   /\ ~LiveAt(Files, Files'[a][j].key, Segments, t, x)
    OBVIOUS
  <2>1. j - n \in 1 .. m /\ n + (j - n) = j
    BY <1>8, <1>9, <1>14 DEF New
  <2>2. g[n + (j - n)] = Rebuilt(c)[j - n]
    BY <1>10, <2>1
  <2>3. PICK i \in Kept(c) : Rebuilt(c)[j - n] = Files[c][i]
    BY <1>16, <2>1
  <2>4. Files'[a][j] = Files[c][i]
    BY <1>12, <2>1, <2>2, <2>3
  <2> QED BY <1>17, <2>4
<1>19. \A k, t, x : LiveAt(Files', k, Readable, t, x) <=> LiveAt(Files, k, Readable, t, x)
  BY <1>7, <1>15, <1>18, TombstonesOnTop
<1>20. Readable' = Readable
  BY <1>5 DEF Readable
<1>21. IndexInv'
  <2> SUFFICES ASSUME NEW k \in Keys
               PROVE  IF k \in DOMAIN index
                      THEN LiveAt(Files', k, Readable, index[k].seg, index[k].pos)
                      ELSE \A t \in Readable : \A x \in 1 .. Count(Files', t) :
                             ~LiveAt(Files', k, Readable, t, x)
    BY <1>5, <1>20 DEF IndexInv, IndexIs
  <2>1. CASE k \in DOMAIN index
    BY <1>4, <1>19, <2>1 DEF IndexInv, IndexIs
  <2>2. CASE k \notin DOMAIN index
    <3>1. \A t, x : ~LiveAt(Files, k, Readable, t, x)
      BY <1>4, <2>2 DEF IndexInv, IndexIs, LiveAt, LastAt, RecordsOf
    <3> QED BY <1>19, <2>2, <3>1
  <2> QED BY <2>1, <2>2
<1>22. Len(Rebuilt(c)) = m
  BY <1>4, <1>6, <1>9, RebuiltIs
<1>23. /\ segmentBytes \in [Segments -> Nat] /\ segmentDeadBytes \in [Segments -> Nat]
       /\ segmentBytes' \in [Segments -> Nat] /\ segmentDeadBytes' \in [Segments -> Nat]
       /\ segmentBytes'[a] = segmentBytes[a] + m /\ segmentDeadBytes'[a] = segmentDeadBytes[a] + m
       /\ \A t \in Segments \ {a} : /\ segmentBytes'[t] = segmentBytes[t]
                                    /\ segmentDeadBytes'[t] = segmentDeadBytes[t]
  <2>1. segmentBytes \in [Segments -> Nat] /\ segmentDeadBytes \in [Segments -> Nat]
    BY <1>4 DEF TypeInv, ObjectType
  <2> QED BY <1>5, <1>7, <1>8, <1>9, <1>10, <1>22, <2>1
<1>24. SizeInv'
  <2>1. /\ unreadable \subseteq DOMAIN disk /\ unreadable \subseteq partiallyRead
        /\ \A t \in unreadable : segmentBytes[t] = 0 /\ t \in Segments /\ t # a
        /\ \A t \in Readable : segmentBytes[t] = Count(Files, t) /\ t \in Segments
    BY <1>4, <1>7 DEF SizeInv, Readable, TypeInv, ObjectType
  <2>2. \A t \in Segments \ {a} : Count(Files', t) = Count(Files, t)
    BY <1>12 DEF Count
  <2>3. \A t \in Readable : segmentBytes'[t] = Count(Files', t)
    BY <1>7, <1>8, <1>14, <1>23, <2>1, <2>2
  <2> QED BY <1>5, <1>11, <1>20, <1>23, <2>1, <2>3 DEF SizeInv
<1>25. DeadInv'
  <2>1. ASSUME NEW t \in Readable
        PROVE  segmentDeadBytes'[t] = segmentBytes'[t] - Cardinality(LiveIn(t, index))
    <3>1. /\ segmentDeadBytes[t] = segmentBytes[t] - Cardinality(LiveIn(t, index))
          /\ Cardinality(LiveIn(t, index)) \in Nat /\ t \in Segments
      BY <1>4, <1>7, LiveCount DEF DeadInv
    <3>2. segmentBytes[t] \in Nat /\ segmentDeadBytes[t] \in Nat
      BY <1>23, <3>1
    <3> QED BY <1>9, <1>23, <3>1, <3>2
  <2> QED BY <1>5, <1>20, <2>1 DEF DeadInv
<1>26. TopInv'
  <2>1. FileOf(active)' = Files'[a]
    BY <1>2, <1>5, <1>7 DEF Files, FileOf
  <2>2. \A t \in DOMAIN disk' : t <= a
    <3>1. a <= a
      BY <1>7 DEF Segments
    <3> QED BY <1>2, <1>4, <1>6, <1>11, <3>1 DEF TopInv
  <2> QED BY <1>2, <1>5, <1>7, <1>10, <1>12, <2>1, <2>2 DEF TopInv
<1>27. DiskType' /\ ObjectType' /\ ObjectInv'
  <2>1. DiskType'
    BY <1>4, <1>5, <1>7, <1>11 DEF TypeInv, DiskType
  <2>2. ObjectType'
    BY <1>4, <1>5, <1>23 DEF TypeInv, ObjectType
  <2> QED BY <1>21, <1>24, <1>25, <1>26, <2>1, <2>2 DEF ObjectInv
<1>28. CompactInv'
  <2>1. AllLiveFound(c)'
    <3>1. disk'[c] = disk[c] /\ c \in DOMAIN disk'
      BY <1>5, <1>6, <1>7 DEF WithFile
    <3>2. KeptLive(c)' = KeptLive(c) /\ LiveIn(c, index)' = LiveIn(c, index)
      BY <1>5, <3>1 DEF KeptLive, LiveIn
    <3> QED BY <1>4, <3>1, <3>2 DEF AllLiveFound
  <2>2. AllLiveFound(frame.target)'
    BY <1>1, <1>5, <2>1
  <2>3. ASSUME NEW i \in 1 .. Count(Files', c)
        PROVE  \E t \in Readable : t > c /\ RecordsOf(Files', Files'[c][i].key, t) # {}
    <3>1. Files'[c] = Files[c] /\ Count(Files', c) = Count(Files, c)
      BY <1>7, <1>12 DEF Count
    <3>2. CASE \E t \in Readable : t > c /\ RecordsOf(Files, Files[c][i].key, t) # {}
      <4>1. PICK t \in Readable : t > c /\ RecordsOf(Files, Files[c][i].key, t) # {}
        BY <3>2
      <4>2. RecordsOf(Files', Files[c][i].key, t) # {}
        <5>1. CASE t = a
          BY <1>7, <1>15, <4>1, <5>1, RecordsOfExtended
        <5>2. CASE t # a
          <6>1. t \in Segments \ {a}
            BY <1>7, <5>2
          <6>2. Files'[t] = Files[t]
            BY <1>12, <6>1
          <6> QED BY <4>1, <6>2 DEF RecordsOf, Count
        <5> QED BY <5>1, <5>2
      <4> QED BY <3>1, <4>1, <4>2
    <3>3. CASE \E j \in Kept(c) : Files[c][j].key = Files[c][i].key
      <4>1. PICK j \in Kept(c) : Files[c][j].key = Files[c][i].key
        BY <3>3
      <4>2. Rank(Kept(c), j) \in 1 .. m /\ Rebuilt(c)[Rank(Kept(c), j)] = Files[c][j]
        <5>1. Kept(c) \in SUBSET (1 .. Count(Files, c)) /\ Count(Files, c) \in Nat
          BY <1>4, <1>6, <1>7, KeptAre, FilesAre
        <5> QED BY <1>4, <1>6, <1>9, <5>1, RanksAre, RebuiltIs
      <4>3. PICK x \in 1 .. m : x = Rank(Kept(c), j)
        BY <4>2
      <4>4. n + x \in 1 .. Count(Files', a) /\ Files'[a][n + x].key = Files[c][i].key
        BY <1>8, <1>9, <1>10, <1>12, <1>14, <4>1, <4>2, <4>3
      <4>5. n + x \in RecordsOf(Files', Files[c][i].key, a)
        BY <4>4 DEF RecordsOf
      <4>6. a > c
        BY <1>6, <1>7 DEF Segments
      <4> QED BY <1>7, <3>1, <4>5, <4>6
    <3> QED BY <1>4, <1>6, <3>1, <3>2, <3>3, KeysGoUp
  <2>4. \A i \in 1 .. Count(Files, frame.target)' : \E s \in Readable' :
           s > frame.target' /\ RecordsOf(Files, Files[frame.target][i].key, s)' # {}
    BY <1>1, <1>5, <1>20, <2>3
  <2>5. LiveIn(frame.target, index)' = {} /\ frame.target' < active' /\ ~appendsDisabled'
        /\ frame.target' \in Readable'
    BY <1>1, <1>2, <1>4, <1>5, <1>6, <1>20 DEF LiveIn
  <2>6. frame.afterCompact' = "reclaim" => frame.reclaim' \subseteq Readable'
    BY <1>4, <1>5, <1>20 DEF Inv, CompactInv, Compacting
  <2> QED BY <1>4, <2>2, <2>4, <2>5, <2>6 DEF CompactInv, Compacting
<1>29. CallType'
  BY <1>4, <1>5 DEF TypeInv, CallType, CallOK
<1>30. CallInv' /\ RotationInv' /\ TrimInv'
  BY <1>4, <1>5 DEF Inv, CallInv, ControlInv, AfterLoadInv, Loading, Appending, Answering, Compacting, RotationInv, TrimInv
<1>31. SameMeaning(Files, Files')
  BY <1>7, <1>15, <1>18, TombstonesMeanNothing
<1> QED BY <1>13, <1>27, <1>28, <1>29, <1>30, <1>31 DEF Inv, TypeInv

\* A segment is thinned and the index and the counters follow.
LEMMA ThinnedObject ==
  ASSUME Inv, Compacting, CompactReturns, NEW c \in Readable, NEW K,
         Thins(Files, Files', K, c), LinesInv', ~IsTorn(Files'[c]),
         disk' \in [DOMAIN disk' -> Seq(Lines)],
         DOMAIN disk' \subseteq DOMAIN disk, \A t \in DOMAIN disk : t # c => t \in DOMAIN disk',
         \A k \in Keys : KeepsKey(Files, K, Readable, c, k),
         DOMAIN index' = DOMAIN index, index' = [k \in DOMAIN index |-> index'[k]],
         \A k \in DOMAIN index : /\ index'[k] = [seg |-> index'[k].seg, pos |-> index'[k].pos]
                                 /\ index'[k].seg = index[k].seg
                                 /\ index'[k].pos = Place(K, c, index[k].seg, index[k].pos),
         segmentBytes' \in [Segments -> Nat], segmentDeadBytes' \in [Segments -> Nat],
         segmentBytes'[c] = Cardinality(K),
         segmentDeadBytes'[c] = Cardinality(K) - Cardinality(LiveIn(c, index)),
         \A t \in Segments : t # c => /\ segmentBytes'[t] = segmentBytes[t]
                                      /\ segmentDeadBytes'[t] = segmentDeadBytes[t],
         UNCHANGED <<directory, unreadable, partiallyRead, appendsDisabled, loaded, active,
                     op, frame, out, applied, troubled, faults, restarts, wipes>>
  PROVE  Inv'
<1>1. /\ TypeInv /\ LinesInv /\ loaded /\ SizeInv /\ IndexInv /\ DeadInv /\ TopInv
      /\ GoodFiles(Files) /\ Readable \in SUBSET Segments /\ c \in Segments /\ c \notin unreadable
      /\ Readable' = Readable /\ pc \in {"compact", "moved", "rewrite"}
      /\ DOMAIN index \subseteq Keys
  BY DEF Inv, CallInv, ControlInv, Compacting, ObjectInv, LinesInv, Readable, TypeInv, ObjectType
<1>2. /\ Count(Files', c) = Cardinality(K)
      /\ \A t \in Segments : t # c => Files'[t] = Files[t] /\ Count(Files', t) = Count(Files, t)
  BY DEF Thins, Count
<1>3. \A k \in DOMAIN index : LiveAt(Files', k, Readable, index'[k].seg, index'[k].pos)
  <2> SUFFICES ASSUME NEW k \in DOMAIN index
               PROVE  LiveAt(Files', k, Readable, index'[k].seg, index'[k].pos)
    OBVIOUS
  <2>1. k \in Keys /\ LiveAt(Files, k, Readable, index[k].seg, index[k].pos)
    BY <1>1 DEF IndexInv, IndexIs
  <2>2. KeepsKey(Files, K, Readable, c, k)
    BY <2>1
  <2>3. LiveAt(Files', k, Readable, index[k].seg, Place(K, c, index[k].seg, index[k].pos))
    BY <1>1, <2>1, <2>2, ThinnedKeepsLive
  <2> QED BY <2>3
<1>4. \A k \in Keys : k \notin DOMAIN index => \A t, i : ~LiveAt(Files', k, Readable, t, i)
  <2> SUFFICES ASSUME NEW k \in Keys, k \notin DOMAIN index, NEW t, NEW i,
                      LiveAt(Files', k, Readable, t, i)
               PROVE  FALSE
    OBVIOUS
  <2>1. KeepsKey(Files, K, Readable, c, k)
    OBVIOUS
  <2>2. PICK u, j : LiveAt(Files, k, Readable, u, j)
    BY <1>1, <2>1, ThinnedRevivesNothing
  <2> QED BY <1>1, <2>2 DEF IndexInv, IndexIs, LiveAt, LastAt, RecordsOf
<1>5. IndexInv'
  BY <1>1, <1>3, <1>4 DEF IndexInv, IndexIs
<1>6. \A t : LiveIn(t, index') = LiveIn(t, index)
  BY DEF LiveIn
<1>7. SizeInv'
  <2>1. unreadable' \subseteq DOMAIN disk' /\ unreadable' \subseteq partiallyRead'
    BY <1>1 DEF SizeInv
  <2>2. \A t \in unreadable : segmentBytes'[t] = 0
    BY <1>1 DEF SizeInv, TypeInv, ObjectType
  <2>3. \A t \in Readable : segmentBytes'[t] = Count(Files', t)
    BY <1>1, <1>2 DEF SizeInv
  <2> QED BY <1>1, <2>1, <2>2, <2>3 DEF SizeInv
<1>8. DeadInv'
  <2>1. \A t \in Readable :
          segmentDeadBytes'[t] = segmentBytes'[t] - Cardinality(LiveIn(t, index))
    BY <1>1 DEF DeadInv
  <2> QED BY <1>1, <1>6, <2>1 DEF DeadInv
<1>9. TopInv'
  <2> SUFFICES ASSUME ~appendsDisabled
               PROVE  /\ \A t \in DOMAIN disk' : t <= active
                      /\ active \notin unreadable
                      /\ ~IsTorn(FileOf(active)')
    BY DEF TopInv
  <2>1. active \in Segments /\ FileOf(active)' = Files'[active] /\ FileOf(active) = Files[active]
    BY <1>1, FilesAre DEF TypeInv, ObjectType, Files
  <2>2. /\ \A t \in DOMAIN disk : t <= active
        /\ active \notin unreadable
        /\ ~IsTorn(Files[active])
    BY <1>1, <2>1 DEF TopInv
  <2>3. ~IsTorn(Files'[active])
    <3>1. CASE active = c
      BY <3>1
    <3>2. CASE active # c
      BY <1>2, <2>1, <2>2, <3>2
    <3> QED BY <3>1, <3>2
  <2> QED BY <2>1, <2>2, <2>3
<1>10. ObjectType'
  <2>1. \A k \in DOMAIN index : index'[k] \in Positions
    <3> SUFFICES ASSUME NEW k \in DOMAIN index PROVE index'[k] \in Positions
      OBVIOUS
    <3>1. index'[k].seg \in Readable /\ index'[k].pos \in 1 .. Count(Files', index'[k].seg)
      BY <1>3 DEF LiveAt, LastAt, RecordsOf
    <3>2. index'[k].seg \in Segments /\ index'[k].pos \in Nat \ {0}
      BY <1>1, <3>1
    <3> QED BY <3>2 DEF Positions
  <2>2. index' \in [DOMAIN index' -> Positions]
    BY <2>1
  <2> QED BY <1>1, <2>2 DEF TypeInv, ObjectType
<1>11. DiskType'
  BY <1>1 DEF TypeInv, DiskType
<1>12. ObjectInv'
  BY <1>5, <1>7, <1>8, <1>9 DEF ObjectInv
<1>13. CallType' /\ CallInv' /\ RotationInv' /\ CompactInv' /\ TrimInv'
  <2>1. troubled' \in BOOLEAN /\ faults' \in Nat
    BY <1>1 DEF TypeInv, CallType, CallOK
  <2> QED BY <1>11, <2>1, CompactionEnds
<1> QED BY <1>10, <1>11, <1>12, <1>13 DEF Inv, TypeInv

\* The segment whose lines have been moved is removed,
LEMMA MovedRemovesKeeps == ASSUME Inv, MovedRemoves PROVE Inv' /\ SameMeaning(Files, Files')
<1>1. PICK c : c = frame.target
  OBVIOUS
<1>2. /\ TypeInv /\ LinesInv /\ loaded /\ SizeInv /\ IndexInv /\ Compacting /\ CompactReturns
      /\ c \in Readable /\ c \in Segments /\ LiveIn(c, index) = {} /\ GoodFiles(Files)
      /\ \A i \in 1 .. Count(Files, c) : \E t \in Readable :
           t > c /\ RecordsOf(Files, Files[c][i].key, t) # {}
  BY <1>1 DEF MovedRemoves, Inv, CallInv, ControlInv, CompactInv, Compacting, ObjectInv, Readable, LinesInv
<1>3. /\ disk' = WithoutFile(c)
      /\ segmentBytes' = [segmentBytes EXCEPT ![c] = 0]
      /\ segmentDeadBytes' = [segmentDeadBytes EXCEPT ![c] = 0]
      /\ UNCHANGED <<directory, index, unreadable, partiallyRead, appendsDisabled, loaded, active,
                     op, frame, out, applied, troubled, faults, restarts, wipes>>
  BY <1>1 DEF MovedRemoves, Works, quality, trouble, counters
<1>4. /\ DOMAIN disk' = DOMAIN disk \ {c} /\ disk' \in [DOMAIN disk' -> Seq(Lines)]
      /\ Files' = [Files EXCEPT ![c] = <<>>]
  BY <1>2, <1>3, WithoutFileIs
<1>5. /\ Files \in [Segments -> Seq(Lines)] /\ \A t \in Segments : GoodFile(Files[t])
      /\ Files'[c] = <<>> /\ \A t \in Segments \ {c} : Files'[t] = Files[t]
  BY <1>2, <1>4 DEF GoodFiles
<1>6. GoodFile(<<>>) /\ ~IsTorn(<<>>) /\ CompleteLength(<<>>) = 0 /\ <<>> \in Seq(Lines)
  <2>1. <<>> \in Seq(Lines) /\ Len(<<>>) = 0
    BY EmptySeq
  <2> QED BY <2>1 DEF GoodFile, CompleteLength, IsTorn
<1>7. LinesInv' /\ ~IsTorn(Files'[c])
  <2>1. ~IsTorn(Files'[c])
    BY <1>5, <1>6
  <2> QED BY <1>2, <1>4, <1>5, <1>6, <2>1 DEF LinesInv, GoodFiles
<1>8. PICK K : K = {} /\ Cardinality(K) = 0
  BY FS_EmptySet
<1>9. Thins(Files, Files', K, c)
  BY <1>2, <1>5, <1>6, <1>8 DEF Thins, Count
<1>10. \A k \in Keys : KeepsKey(Files, K, Readable, c, k) /\ KeepsKey(Files, K, Segments, c, k)
  <2> SUFFICES ASSUME NEW k \in Keys, RecordsOf(Files, k, c) # {}
               PROVE  \E t \in Readable : t > c /\ RecordsOf(Files, k, t) # {}
    BY DEF KeepsKey, Readable
  <2>1. PICK i \in 1 .. Count(Files, c) : Files[c][i].key = k
    BY DEF RecordsOf
  <2> QED BY <1>2, <2>1
<1>11. /\ index' = [k \in DOMAIN index |-> index'[k]]
       /\ \A k \in DOMAIN index : /\ index'[k] = [seg |-> index'[k].seg, pos |-> index'[k].pos]
                                  /\ index'[k].seg = index[k].seg
                                  /\ index'[k].pos = Place(K, c, index[k].seg, index[k].pos)
  <2>1. index \in [DOMAIN index -> Positions]
    BY <1>2 DEF TypeInv, ObjectType
  <2>2. \A k \in DOMAIN index : index[k].seg # c
    BY <1>2 DEF LiveIn
  <2>3. \A k \in DOMAIN index : index[k] = [seg |-> index[k].seg, pos |-> index[k].pos]
    BY <2>1 DEF Positions
  <2> QED BY <1>3, <2>1, <2>2, <2>3 DEF Place
<1>12. /\ segmentBytes' \in [Segments -> Nat] /\ segmentDeadBytes' \in [Segments -> Nat]
       /\ segmentBytes'[c] = 0 /\ segmentDeadBytes'[c] = 0
       /\ \A t \in Segments : t # c => /\ segmentBytes'[t] = segmentBytes[t]
                                       /\ segmentDeadBytes'[t] = segmentDeadBytes[t]
  <2>1. segmentBytes \in [Segments -> Nat] /\ segmentDeadBytes \in [Segments -> Nat]
    BY <1>2 DEF TypeInv, ObjectType
  <2> QED BY <1>2, <1>3, <2>1
<1>13. segmentDeadBytes'[c] = Cardinality(K) - Cardinality(LiveIn(c, index))
  BY <1>2, <1>8, <1>12
<1>14. /\ DOMAIN disk' \subseteq DOMAIN disk /\ \A t \in DOMAIN disk : t # c => t \in DOMAIN disk'
       /\ DOMAIN index' = DOMAIN index /\ segmentBytes'[c] = Cardinality(K)
  BY <1>3, <1>4, <1>8, <1>12
<1>15. SameMeaning(Files, Files')
  BY <1>2, <1>9, <1>10, ThinnedMeansTheSame
<1>16. Inv'
  BY <1>2, <1>3, <1>4, <1>7, <1>9, <1>10, <1>11, <1>12, <1>13, <1>14, ThinnedObject
<1> QED BY <1>15, <1>16

\* or a segment is rewritten in place.
LEMMA RewriteKeeps == ASSUME Inv, Rewrite PROVE Inv' /\ SameMeaning(Files, Files')
<1>1. PICK c : c = frame.target
  OBVIOUS
<1>2. PICK K : K = Kept(c)
  OBVIOUS
<1>3. /\ TypeInv /\ LinesInv /\ loaded /\ SizeInv /\ IndexInv /\ Compacting /\ CompactReturns
      /\ c \in Readable /\ c \in Segments /\ GoodFiles(Files)
      /\ AllLiveFound(c) /\ c \in DOMAIN disk
  BY <1>1 DEF Rewrite, Inv, CallInv, ControlInv, CompactInv, Compacting, ObjectInv, Readable, LinesInv,
              AllLiveFound
<1>4. /\ disk' = IF K = {} THEN WithoutFile(c) ELSE WithFile(c, Rebuilt(c))
      /\ index' = [k \in DOMAIN index |->
                     IF index[k].seg = c
                     THEN [seg |-> c, pos |-> NewPosition(c, index[k].pos)]
                     ELSE index[k]]
      /\ segmentBytes' = [segmentBytes EXCEPT ![c] = Cardinality(K)]
      /\ segmentDeadBytes' = [segmentDeadBytes EXCEPT ![c] = Cardinality(KeptTombstones(c))]
      /\ UNCHANGED <<directory, unreadable, partiallyRead, appendsDisabled, loaded, active,
                     op, frame, out, applied, troubled, faults, restarts, wipes>>
  BY <1>1, <1>2 DEF Rewrite, Works, quality, trouble, counters
<1>5. PICK r : r = Rebuilt(c)
  OBVIOUS
<1>6. /\ K \in SUBSET (1 .. Count(Files, c)) /\ Cardinality(K) \in Nat /\ IsFiniteSet(K)
      /\ Cardinality(KeptTombstones(c)) \in Nat /\ Cardinality(KeptLive(c)) \in Nat
      /\ Cardinality(K) = Cardinality(KeptLive(c)) + Cardinality(KeptTombstones(c))
      /\ \A i : NewPosition(c, i) = Rank(K, i)
      /\ \A i \in K : r[Rank(K, i)] = Files[c][i]
      /\ GoodFile(r) /\ ~IsTorn(r) /\ CompleteLength(r) = Cardinality(K) /\ r \in Seq(Lines)
      /\ Len(r) = Cardinality(K)
  BY <1>2, <1>3, <1>5, KeptAre, RebuiltIs DEF GoodFile
<1>7. /\ DOMAIN disk' \subseteq DOMAIN disk /\ \A t \in DOMAIN disk : t # c => t \in DOMAIN disk'
      /\ disk' \in [DOMAIN disk' -> Seq(Lines)]
      /\ Files' = [Files EXCEPT ![c] = r]
  <2>1. CASE K = {}
    <3>1. r = <<>>
      BY <1>6, <2>1, FS_EmptySet, EmptySeq
    <3>2. disk' = WithoutFile(c)
      BY <1>4, <2>1
    <3>3. /\ DOMAIN disk' = DOMAIN disk \ {c} /\ disk' \in [DOMAIN disk' -> Seq(Lines)]
          /\ Files' = [Files EXCEPT ![c] = <<>>]
      BY <1>3, <3>2, WithoutFileIs
    <3> QED BY <3>1, <3>3
  <2>2. CASE K # {}
    <3>1. disk' = WithFile(c, r)
      BY <1>4, <1>5, <2>2
    <3>2. /\ DOMAIN disk' = DOMAIN disk \cup {c} /\ disk' \in [DOMAIN disk' -> Seq(Lines)]
          /\ Files' = [Files EXCEPT ![c] = r]
      BY <1>3, <1>6, <3>1, WithFileIs
    <3> QED BY <1>3, <3>2
  <2> QED BY <2>1, <2>2
<1>8. /\ Files \in [Segments -> Seq(Lines)] /\ \A t \in Segments : GoodFile(Files[t])
      /\ Files'[c] = r /\ \A t \in Segments \ {c} : Files'[t] = Files[t]
  BY <1>3, <1>7 DEF GoodFiles
<1>9. LinesInv' /\ ~IsTorn(Files'[c])
  <2>1. ~IsTorn(Files'[c])
    BY <1>6, <1>8
  <2> QED BY <1>3, <1>6, <1>7, <1>8, <2>1 DEF LinesInv, GoodFiles
<1>10. Thins(Files, Files', K, c)
  BY <1>3, <1>6, <1>8 DEF Thins, Count
<1>11. \A k \in Keys : KeepsKey(Files, K, Readable, c, k) /\ KeepsKey(Files, K, Segments, c, k)
  <2>1. /\ Readable \in SUBSET Segments /\ Readable \subseteq Readable
        /\ Segments \in SUBSET Segments /\ Readable \subseteq Segments
    BY DEF Readable
  <2> QED BY <1>2, <1>3, <2>1, CompactionKeepsKeys
<1>12. /\ index' = [k \in DOMAIN index |-> index'[k]] /\ DOMAIN index' = DOMAIN index
       /\ \A k \in DOMAIN index : /\ index'[k] = [seg |-> index'[k].seg, pos |-> index'[k].pos]
                                  /\ index'[k].seg = index[k].seg
                                  /\ index'[k].pos = Place(K, c, index[k].seg, index[k].pos)
  <2>1. \A k \in DOMAIN index : index[k] = [seg |-> index[k].seg, pos |-> index[k].pos]
    BY <1>3 DEF TypeInv, ObjectType, Positions
  <2>2. DOMAIN index' = DOMAIN index /\ index' = [k \in DOMAIN index |-> index'[k]]
    BY <1>4
  <2>3. ASSUME NEW k \in DOMAIN index
        PROVE  /\ index'[k] = [seg |-> index'[k].seg, pos |-> index'[k].pos]
               /\ index'[k].seg = index[k].seg
               /\ index'[k].pos = Place(K, c, index[k].seg, index[k].pos)
    <3>1. CASE index[k].seg = c
      <4>1. index'[k] = [seg |-> c, pos |-> Rank(K, index[k].pos)]
        BY <1>4, <1>6, <3>1
      <4> QED BY <3>1, <4>1 DEF Place
    <3>2. CASE index[k].seg # c
      <4>1. index'[k] = index[k]
        BY <1>4, <3>2
      <4> QED BY <2>1, <3>2, <4>1 DEF Place
    <3> QED BY <3>1, <3>2
  <2> QED BY <2>2, <2>3
<1>13. /\ segmentBytes' \in [Segments -> Nat] /\ segmentDeadBytes' \in [Segments -> Nat]
       /\ segmentBytes'[c] = Cardinality(K)
       /\ segmentDeadBytes'[c] = Cardinality(KeptTombstones(c))
       /\ \A t \in Segments : t # c => /\ segmentBytes'[t] = segmentBytes[t]
                                       /\ segmentDeadBytes'[t] = segmentDeadBytes[t]
  <2>1. segmentBytes \in [Segments -> Nat] /\ segmentDeadBytes \in [Segments -> Nat]
    BY <1>3 DEF TypeInv, ObjectType
  <2> QED BY <1>3, <1>4, <1>6, <2>1
<1>14. segmentDeadBytes'[c] = Cardinality(K) - Cardinality(LiveIn(c, index))
  <2>1. Cardinality(KeptLive(c)) = Cardinality(LiveIn(c, index))
    BY <1>3 DEF AllLiveFound
  <2> QED BY <1>6, <1>13, <2>1
<1>15. SameMeaning(Files, Files')
  BY <1>3, <1>10, <1>11, ThinnedMeansTheSame
<1>16. Inv'
  BY <1>3, <1>4, <1>7, <1>9, <1>10, <1>11, <1>12, <1>13, <1>14, ThinnedObject
<1> QED BY <1>15, <1>16


-----------------------------------------------------------------------------
(* Deaths of the process, and all the steps together.                       *)

\* The object of the next process knows nothing yet.
LEMMA FreshObjectIs ==
  ASSUME NEW i, i = [k \in {} |-> None]
  PROVE  /\ DOMAIN i \subseteq Keys /\ i \in [DOMAIN i -> Positions]
         /\ NoSizes \in [Segments -> Nat] /\ 0 \in Segments
         /\ NoLocals \in Frames /\ NoLocals.afterLoad = "idle"
<1>1. DOMAIN i \subseteq Keys /\ i \in [DOMAIN i -> Positions]
  OBVIOUS
<1>2. NoSizes \in [Segments -> Nat]
  BY DEF NoSizes
<1>3. NoLocals \in Frames /\ NoLocals.afterLoad = "idle"
  BY SegmentsAre DEF Frames, NoLocals
<1> QED BY <1>1, <1>2, <1>3, SegmentsAre

\* The process dies: the files are left as they are at that moment, with or
\* without the record that was being appended.
LEMMA CrashKeeps ==
  ASSUME Inv, Crash
  PROVE  /\ Inv'
         /\ \/ SameMeaning(Files, Files')
            \/ pc = "write" /\ Puts(Files, Files', op.key, NewLine.value)
<1>1. /\ index' = [k \in {} |-> None]
      /\ segmentBytes' = NoSizes /\ segmentDeadBytes' = NoSizes
      /\ unreadable' = {} /\ partiallyRead' = {}
      /\ active' = 0 /\ appendsDisabled' = FALSE /\ loaded' = FALSE
      /\ op' = NoOp /\ pc' = "load" /\ frame' = NoLocals /\ out' = "ok"
      /\ applied' = FALSE /\ troubled' = FALSE
      /\ UNCHANGED <<directory, faults, wipes>> /\ restarts' = restarts + 1
  BY DEF Crash, FreshObject
<1>2. TypeInv /\ LinesInv
  BY DEF Inv
<1>3. DiskType' /\ LinesInv'
  <2>1. CASE UNCHANGED disk
    <3>1. Files' = Files
      BY <2>1 DEF Files, FileOf
    <3> QED BY <1>1, <1>2, <2>1, <3>1 DEF TypeInv, DiskType, LinesInv
  <2>2. CASE /\ pc = "write" /\ directory
             /\ \E line \in {NewLine, Torn} :
                  disk' = WithFile(active, Appended(FileOf(active), line))
    <3>1. /\ loaded /\ TopInv /\ ~appendsDisabled /\ op \in Ops
          /\ op.kind \in {"set", "migrate"} => op.value \in Values
          /\ op.kind # "get"
      BY <2>2 DEF Inv, CallInv, ControlInv, Appending, ObjectInv
    <3>2. PICK line \in {NewLine, Torn} : disk' = WithFile(active, Appended(FileOf(active), line))
      BY <2>2
    <3>3. line \in Records \cup {Torn}
      <4>1. NewLine \in Records
        BY <3>1 DEF NewLine, Records, Ops
      <4> QED BY <3>2, <4>1
    <3>4. PICK s : s = active
      OBVIOUS
    <3>5. /\ s \in Segments /\ ~IsTorn(Files[s]) /\ FileOf(s) = Files[s] /\ GoodFile(Files[s])
      BY <1>2, <2>2, <3>1, <3>4, FilesAre DEF TypeInv, ObjectType, TopInv, LinesInv, GoodFiles
    <3>6. PICK f : f = Files[s]
      OBVIOUS
    <3>7. PICK g : g = Appended(f, line)
      OBVIOUS
    <3>8. GoodFile(g) /\ g \in Seq(Lines)
      BY <3>3, <3>5, <3>6, <3>7, AppendedIs DEF GoodFile
    <3>9. disk' = WithFile(s, g)
      BY <3>2, <3>4, <3>5, <3>6, <3>7
    <3>10. /\ DOMAIN disk' = DOMAIN disk \cup {s} /\ disk' \in [DOMAIN disk' -> Seq(Lines)]
           /\ Files' = [Files EXCEPT ![s] = g]
      BY <1>2, <3>5, <3>8, <3>9, WithFileIs
    <3>11. LinesInv'
      BY <1>2, <3>8, <3>10 DEF LinesInv, GoodFiles
    <3>12. DiskType'
      BY <1>1, <1>2, <2>2, <3>5, <3>10 DEF TypeInv, DiskType
    <3> QED BY <3>11, <3>12
  <2> QED BY <2>1, <2>2 DEF Crash
<1>4. ObjectType'
  BY <1>1, FreshObjectIs DEF ObjectType
<1>5. CallType'
  BY <1>1, <1>2, FreshObjectIs DEF TypeInv, CallType, CallOK
<1>6. CallInv'
  <2>1. NoLocals.afterLoad = "idle"
    BY <1>1, FreshObjectIs
  <2> QED BY <1>1, <1>2, <2>1
          DEF Inv, CallInv, ControlInv, AfterLoadInv, Loading, Appending, Answering, Compacting, NoOp
<1>7. ObjectInv' /\ TrimInv' /\ RotationInv' /\ CompactInv'
  BY <1>1 DEF ObjectInv, TrimInv, RotationInv, CompactInv, Compacting
<1>8. \/ SameMeaning(Files, Files')
      \/ pc = "write" /\ Puts(Files, Files', op.key, NewLine.value)
  <2>1. CASE UNCHANGED disk
    <3>1. Files' = Files
      BY <2>1 DEF Files, FileOf
    <3>2. SameRecords(Files, Files')
      BY <3>1 DEF SameRecords
    <3> QED BY <3>2, TailsMeanNothing
  <2>2. CASE pc = "write" /\ disk' = WithFile(active, Appended(FileOf(active), Torn))
    <3>1. TopInv /\ ~appendsDisabled
      BY <2>2 DEF Inv, CallInv, ControlInv, Appending, ObjectInv
    <3>2. PICK s : s = active
      OBVIOUS
    <3>3. s \in Segments /\ ~IsTorn(Files[s]) /\ FileOf(s) = Files[s] /\ GoodFile(Files[s])
          /\ Count(Files, s) = CompleteLength(Files[s])
      BY <1>2, <2>2, <3>1, <3>2, FilesAre
         DEF TypeInv, ObjectType, TopInv, LinesInv, GoodFiles, Count
    <3>4. /\ GoodFile(Appended(Files[s], Torn))
          /\ CompleteLength(Appended(Files[s], Torn)) = CompleteLength(Files[s])
          /\ \A i \in 1 .. CompleteLength(Files[s]) : Appended(Files[s], Torn)[i] = Files[s][i]
      BY <3>3, AppendedIs
    <3>5. SameRecords(Files, Files')
      BY <1>2, <2>2, <3>2, <3>3, <3>4, TailChanges
    <3> QED BY <3>5, TailsMeanNothing
  <2>3. CASE pc = "write" /\ disk' = WithFile(active, Appended(FileOf(active), NewLine))
    <3>1. /\ SizeInv /\ TopInv /\ ~appendsDisabled /\ op \in Ops /\ op.kind # "get"
          /\ op.kind \in {"set", "migrate"} => op.value \in Values
      BY <2>3 DEF Inv, CallInv, ControlInv, Appending, ObjectInv
    <3>2. PICK line \in Records : line = NewLine
      <4>1. NewLine \in Records
        BY <3>1 DEF NewLine, Records, Ops
      <4> QED BY <4>1
    <3>3. PICK s : s = active
      OBVIOUS
    <3>4. PICK k : k = op.key
      OBVIOUS
    <3>5. /\ GoodFiles(Files) /\ Count(Files, s) \in Nat
          /\ Extends(Files, Files', Segments, s) /\ Count(Files', s) = Count(Files, s) + 1
          /\ New(Files, Files', s) = {Count(Files', s)}
          /\ Files'[s][Count(Files', s)] = line
      BY <1>2, <2>3, <3>1, <3>2, <3>3, LineIsAppended DEF LinesInv
    <3>6. PICK n : n = Count(Files', s)
      OBVIOUS
    <3>7. n \in RecordsOf(Files', k, s) /\ Files'[s][n].value = NewLine.value
      BY <3>2, <3>4, <3>5, <3>6 DEF RecordsOf, NewLine
    <3>8. Puts(Files, Files', k, Files'[s][n].value)
      BY <3>5, <3>6, <3>7, RecordPuts
    <3> QED BY <2>3, <3>4, <3>7, <3>8
  <2> QED BY <2>1, <2>2, <2>3 DEF Crash
<1> QED BY <1>3, <1>4, <1>5, <1>6, <1>7, <1>8 DEF Inv, TypeInv

\* It all begins with no file and an object that knows of none.
LEMMA InitIsGood == ASSUME Init PROVE Inv
<1>1. DOMAIN disk = {} /\ disk \in [DOMAIN disk -> Seq(Lines)]
  BY DEF Init
<1>2. DiskType
  BY <1>1 DEF Init, DiskType
<1>3. LinesInv
  <2>1. <<>> \in Seq(Lines) /\ Len(<<>>) = 0
    BY EmptySeq
  <2>2. GoodFile(<<>>)
    BY <2>1 DEF GoodFile
  <2>3. \A s \in Segments : Files[s] = <<>>
    BY <1>1 DEF Files, FileOf
  <2>4. Files = [s \in Segments |-> Files[s]]
    BY DEF Files
  <2> QED BY <2>1, <2>2, <2>3, <2>4 DEF LinesInv, GoodFiles
<1>4. ObjectType
  <2>1. index = [k \in {} |-> None]
    BY DEF Init
  <2> QED BY <2>1, FreshObjectIs DEF Init, ObjectType
<1>5. CallType
  BY FreshObjectIs DEF Init, CallType, CallOK
<1>6. CallInv
  <2>1. NoLocals.afterLoad = "idle"
    BY FreshObjectIs
  <2>2. wipes <= MaxWipes
    BY SegmentStoreAssumption DEF Init
  <2> QED BY <2>1, <2>2
          DEF Init, CallInv, ControlInv, AfterLoadInv, Loading, Appending, Answering, Compacting, NoOp
<1>7. ObjectInv /\ TrimInv /\ RotationInv /\ CompactInv
  BY DEF Init, ObjectInv, TrimInv, RotationInv, CompactInv, Compacting
<1> QED BY <1>2, <1>3, <1>4, <1>5, <1>6, <1>7 DEF Inv, TypeInv

\* The invariant is about the variables only.
LEMMA StutteringKeeps == ASSUME Inv, UNCHANGED vars PROVE Inv'
<1>1. UNCHANGED <<disk, directory, index, segmentBytes, segmentDeadBytes, unreadable,
                  partiallyRead, active, appendsDisabled, loaded, op, pc, frame, out, applied,
                  troubled, faults, restarts, wipes>>
  BY DEF vars, files, memory, sizes, quality, call, trouble, counters
<1>2. TypeInv'
  BY <1>1 DEF Inv, TypeInv, DiskType, ObjectType, CallType, CallOK
<1>3. Files' = Files /\ Readable' = Readable
  BY <1>1 DEF Files, FileOf, Readable
<1>4. LinesInv'
  BY <1>3 DEF Inv, LinesInv
<1>5. ObjectInv'
  <2> SUFFICES ASSUME loaded PROVE SizeInv' /\ IndexInv' /\ DeadInv' /\ TopInv'
    BY <1>1 DEF ObjectInv
  <2>1. SizeInv /\ IndexInv /\ DeadInv /\ TopInv
    BY DEF Inv, ObjectInv
  <2>2. SizeInv' /\ IndexInv'
    BY <1>1, <1>3, <2>1 DEF SizeInv, IndexInv
  <2>3. DeadInv'
    BY <1>1, <1>3, <2>1 DEF DeadInv, LiveIn
  <2>4. TopInv'
    BY <1>1, <2>1 DEF TopInv, FileOf
  <2> QED BY <2>2, <2>3, <2>4
<1>6. TrimInv'
  BY <1>1 DEF Inv, TrimInv
<1>7. CallInv'
  BY <1>1 DEF Inv, CallInv, ControlInv, AfterLoadInv, Loading, Appending, Answering, Compacting
<1>8. RotationInv'
  BY <1>1 DEF Inv, RotationInv, Compacting, FileOf
<1>9. CompactInv'
  BY <1>1, <1>3 DEF Inv, CompactInv, Compacting, AllLiveFound, KeptLive, LiveIn
<1> QED BY <1>2, <1>4, <1>5, <1>6, <1>7, <1>8, <1>9 DEF Inv

\* No step breaks the invariant, a removal of the directory aside.
LEMMA StepKeeps == ASSUME Inv, [Next]_vars, ~Wipe PROVE Inv'
<1>1. CASE Load
  BY <1>1, LoadFailsKeeps, LoadReadKeeps, TrimSegmentKeeps, TrimFailsKeeps, LoadFinishKeeps,
     ReclaimKeeps, LoadReturnsKeeps DEF Load, Inv, CallInv
<1>2. CASE Lookup
  BY <1>2, LookupKeeps, ReturnKeeps DEF Lookup
<1>3. CASE AppendLineLocked
  BY <1>3, RotationKeeps, DisabledKeeps, WriteLineKeeps, WriteFailsKeeps, ProbeOpensKeeps, ProbeFailsKeeps,
     RestoreKeeps, RestoreFailsKeeps DEF AppendLineLocked
<1>4. CASE CompactSegment
  BY <1>4, CompactionFails, CompactMovesKeeps, MovedRemovesKeeps, RewriteKeeps
     DEF CompactSegment
<1>5. CASE Callers
  <2>1. CASE \E k \in Keys, v \in Values : setDisk(k, v) \/ migrateLegacyEntries(k, v)
    <3>1. PICK k \in Keys, v \in Values : Invoke("set", k, v) \/ Invoke("migrate", k, v)
      BY <2>1 DEF setDisk, migrateLegacyEntries
    <3>2. v \in Values \cup {None}
      OBVIOUS
    <3>3. CASE Invoke("set", k, v)
      BY <3>2, <3>3, InvokeKeeps
    <3>4. CASE Invoke("migrate", k, v)
      BY <3>2, <3>4, InvokeKeeps
    <3> QED BY <3>1, <3>3, <3>4
  <2>2. CASE \E k \in Keys : getDisk(k) \/ deleteDisk(k)
    <3>1. PICK k \in Keys : Invoke("get", k, None) \/ Invoke("delete", k, None)
      BY <2>2 DEF getDisk, deleteDisk
    <3>2. None \in Values \cup {None}
      OBVIOUS
    <3>3. CASE Invoke("get", k, None)
      BY <3>2, <3>3, InvokeKeeps
    <3>4. CASE Invoke("delete", k, None)
      BY <3>2, <3>4, InvokeKeeps
    <3> QED BY <3>1, <3>3, <3>4
  <2> QED BY <1>5, <2>1, <2>2 DEF Callers
<1>6. CASE Crash
  BY <1>6, CrashKeeps
<1>7. CASE UNCHANGED vars
  BY <1>7, StutteringKeeps
<1> QED BY <1>1, <1>2, <1>3, <1>4, <1>5, <1>6, <1>7 DEF Next, Step

\* Where the platform leaves the directory alone.
LEMMA NothingIsWiped == ASSUME Inv, NoWipes PROVE wipes = 0 /\ ~Wipe
  BY DEF Wipe, NoWipes, Inv, TypeInv, CallType, CallOK, CallInv, ControlInv

\* The inductive invariant: the files are records and at most a torn tail each;
\* the object's sizes, index and dead counts are those of the files it could
\* read; writing happens above all of them; and every call is where its locals
\* say it is. Failed and partial writes and deaths between any two file
\* operations keep it.
THEOREM InvariantHolds == NoWipes /\ Spec => []Inv
<1> SUFFICES ASSUME NoWipes PROVE Spec => []Inv
  OBVIOUS
<1>1. Init => Inv
  BY InitIsGood
<1>2. Inv /\ [Next]_vars => Inv'
  BY StepKeeps, NothingIsWiped
<1> QED BY <1>1, <1>2, PTL DEF Spec

-----------------------------------------------------------------------------
(* What follows for the log and for what the object remembers of it.        *)

\* The two invariants of the runs follow from it.
LEMMA InvImpliesLog == Inv => LogIsSound
<1> SUFFICES ASSUME Inv PROVE NoMergedLine /\ AppendIsSafe
  BY DEF LogIsSound
<1>1. TypeInv /\ GoodFiles(Files)
  BY DEF Inv, LinesInv
<1>2. NoMergedLine
  <2> SUFFICES ASSUME NEW s \in DOMAIN disk, NEW i \in 1 .. Len(disk[s]) PROVE disk[s][i] # Merged
    BY DEF NoMergedLine
  <2>1. s \in Segments /\ Files[s] = disk[s]
    BY <1>1, FilesAre
  <2>2. GoodFile(disk[s])
    BY <1>1, <2>1 DEF GoodFiles
  <2> QED BY <2>2, RecordFacts, SegmentStoreAssumption DEF GoodFile
<1>3. ASSUME pc = "write"
      PROVE  /\ \A s \in DOMAIN disk : s <= active
             /\ active \notin unreadable
             /\ Len(FileOf(active)) = segmentBytes[active]
  <2>1. SizeInv /\ TopInv /\ ~appendsDisabled /\ active \in Segments
    BY <1>3 DEF Inv, CallInv, ControlInv, Appending, ObjectInv, TypeInv, ObjectType
  <2>2. /\ \A s \in DOMAIN disk : s <= active
        /\ active \notin unreadable
        /\ ~IsTorn(FileOf(active))
    BY <1>3, <2>1 DEF TopInv
  <2>3. segmentBytes[active] = CompleteLength(Files[active])
    BY <2>1, <2>2 DEF SizeInv, Readable, Count
  <2>4. FileOf(active) = Files[active] /\ Files[active] \in Seq(Lines)
    BY <1>1, <2>1, FilesAre
  <2>5. CompleteLength(Files[active]) = Len(Files[active])
    BY <2>2, <2>4, FileFacts
  <2> QED BY <2>2, <2>3, <2>4, <2>5
<1>4. AppendIsSafe
  BY <1>3 DEF AppendIsSafe
<1> QED BY <1>2, <1>4

\* What the object remembers is exact in every state of the invariant.
LEMMA InvImpliesBookkeeping == Inv => BookkeepingIsExact
<1> SUFFICES ASSUME Inv PROVE TypeOK /\ IndexExact /\ SizesExact
  BY DEF BookkeepingIsExact
<1>1. TypeInv /\ LinesInv
  BY DEF Inv
<1>2. TypeOK
  <2>1. FilesOK
    BY <1>1 DEF TypeInv, DiskType, FilesOK
  <2>2. ObjectOK
    BY <1>1 DEF TypeInv, ObjectType, ObjectOK
  <2>3. FrameOK
    BY <1>1 DEF TypeInv, CallType, Frames, FrameOK
  <2> QED BY <1>1, <2>1, <2>2, <2>3 DEF TypeOK, TypeInv, CallType
<1>3. ASSUME loaded PROVE index = ReadIndex(DOMAIN disk \ unreadable)
  <2>1. IndexIs(Files, Readable, index)
    BY <1>3 DEF Inv, ObjectInv, IndexInv
  <2>2. PICK S : S = DOMAIN disk \ unreadable
    OBVIOUS
  <2>3. /\ Readable \in SUBSET Segments /\ Readable \cap DOMAIN disk = S /\ S \in SUBSET DOMAIN disk
    BY <1>1, <2>2, FilesAre DEF Readable
  <2>4. IndexIs(Files, Readable \cap DOMAIN disk, index)
    BY <1>1, <2>1, <2>3, NoFileNoRecord
  <2>5. IndexIs(Files, S, index)
    BY <2>3, <2>4
  <2>6. /\ index = [k \in DOMAIN index |-> index[k]] /\ DOMAIN index \subseteq Keys
        /\ \A k \in DOMAIN index : index[k] \in Positions
    BY <1>1 DEF TypeInv, ObjectType
  <2> QED BY <1>1, <2>2, <2>3, <2>5, <2>6, IndexIsReadIndex
<1>4. ASSUME loaded, pc # "trim", NEW s \in Segments \ unreadable
      PROVE  /\ segmentBytes[s] = CompleteLength(FileOf(s))
             /\ segmentDeadBytes[s] = segmentBytes[s] - Cardinality(LiveIn(s, index))
  <2>1. SizeInv /\ DeadInv /\ s \in Readable
    BY <1>4 DEF Inv, ObjectInv, Readable
  <2>2. FileOf(s) = Files[s]
    BY <1>1, FilesAre
  <2> QED BY <1>4, <2>1, <2>2 DEF SizeInv, DeadInv, Count
<1> QED BY <1>2, <1>3, <1>4 DEF IndexExact, SizesExact

\* The log, through any failures of the file system and deaths of the process.
LEMMA LogUnwiped == NoWipes /\ Spec => []LogIsSound
BY InvariantHolds, InvImpliesLog, PTL

\* And what the object remembers of it.
LEMMA BookkeepingUnwiped == NoWipes /\ Spec => []BookkeepingIsExact
BY InvariantHolds, InvImpliesBookkeeping, PTL


-----------------------------------------------------------------------------
(* The store implements the durable map.                                    *)

\* The map m is what the last records in the files F say.
MapIs(F, m) ==
  \A k \in Keys :
    /\ \A s, i : LiveAt(F, k, Segments, s, i) => m[k] = F[s][i].value
    /\ (\A s, i : ~LiveAt(F, k, Segments, s, i)) => m[k] = None

\* Contents is that map.
LEMMA ContentsAre == TypeInv /\ LinesInv => MapIs(Files, Contents)
<1> SUFFICES ASSUME TypeInv, LinesInv, NEW k \in Keys
             PROVE  /\ \A s, i : LiveAt(Files, k, Segments, s, i) => Contents[k] = Files[s][i].value
                    /\ (\A s, i : ~LiveAt(Files, k, Segments, s, i)) => Contents[k] = None
  BY DEF MapIs
<1> DEFINE all == Occurrences(k, DOMAIN disk)
           last == LastOf(all)
           value == disk[last.seg][last.pos].value
<1>1. Contents[k] = IF all = {} \/ value = Tombstone THEN None ELSE value
  BY DEF Contents
<1>2. \A s, i : LiveAt(Files, k, Segments, s, i) <=> LiveAt(Files, k, DOMAIN disk, s, i)
  <2>1. Segments \cap DOMAIN disk = DOMAIN disk /\ Segments \in SUBSET Segments
    BY FilesAre
  <2> QED BY <2>1, NoFileNoRecord
<1>3. CASE all = {} /\ \A s, i : ~LiveAt(Files, k, DOMAIN disk, s, i)
  BY <1>1, <1>2, <1>3
<1>4. CASE \E s \in DOMAIN disk : \E i \in 1 .. Count(Files, s) :
             /\ LastAt(Files, k, DOMAIN disk, s, i)
             /\ all # {} /\ last = [seg |-> s, pos |-> i] /\ disk[s][i] = Files[s][i]
             /\ \A t, j : LiveAt(Files, k, DOMAIN disk, t, j)
                          => t = s /\ j = i /\ disk[s][i].value # Tombstone
  <2>1. PICK s \in DOMAIN disk : \E i \in 1 .. Count(Files, s) :
             /\ LastAt(Files, k, DOMAIN disk, s, i)
             /\ all # {} /\ last = [seg |-> s, pos |-> i] /\ disk[s][i] = Files[s][i]
             /\ \A t, j : LiveAt(Files, k, DOMAIN disk, t, j)
                          => t = s /\ j = i /\ disk[s][i].value # Tombstone
    BY <1>4
  <2>2. PICK i \in 1 .. Count(Files, s) :
             /\ LastAt(Files, k, DOMAIN disk, s, i)
             /\ all # {} /\ last = [seg |-> s, pos |-> i] /\ disk[s][i] = Files[s][i]
             /\ \A t, j : LiveAt(Files, k, DOMAIN disk, t, j)
                          => t = s /\ j = i /\ disk[s][i].value # Tombstone
    BY <2>1
  <2>3. all # {} /\ value = Files[s][i].value
    BY <2>2
  <2> HIDE DEF all, value
  <2>4. LiveAt(Files, k, DOMAIN disk, s, i) <=> value # Tombstone
    BY <2>2, <2>3 DEF LiveAt
  <2>5. \A t, j : LiveAt(Files, k, Segments, t, j) => t = s /\ j = i /\ value # Tombstone
    BY <1>2, <2>2, <2>3
  <2> QED BY <1>1, <1>2, <2>3, <2>4, <2>5
<1>5. DOMAIN disk \in SUBSET DOMAIN disk
  OBVIOUS
<1> HIDE DEF all, last
<1>6. \/ all = {} /\ \A s, i : ~LiveAt(Files, k, DOMAIN disk, s, i)
      \/ \E s \in DOMAIN disk : \E i \in 1 .. Count(Files, s) :
             /\ LastAt(Files, k, DOMAIN disk, s, i)
             /\ all # {} /\ last = [seg |-> s, pos |-> i] /\ disk[s][i] = Files[s][i]
             /\ \A t, j : LiveAt(Files, k, DOMAIN disk, t, j)
                          => t = s /\ j = i /\ disk[s][i].value # Tombstone
  BY <1>5, LastDecides DEF all, last
<1> QED BY <1>3, <1>4, <1>6

\* The same of the next state.
LEMMA NextContentsAre == (TypeInv /\ LinesInv => MapIs(Files, Contents))'
BY ContentsAre, PTL

\* A step that does not change what the files mean does not change the contents.
LEMMA ContentsStay ==
  ASSUME Inv, Inv', SameMeaning(Files, Files')
  PROVE  Contents' = Contents
<1>1. MapIs(Files, Contents) /\ MapIs(Files', Contents')
  <2>1. MapIs(Files, Contents)
    BY ContentsAre DEF Inv
  <2>2. MapIs(Files, Contents)'
    BY NextContentsAre DEF Inv
  <2> QED BY <2>1, <2>2 DEF MapIs, LiveAt, LastAt, RecordsOf, Count
<1>2. Contents = [k \in Keys |-> Contents[k]] /\ Contents' = [k \in Keys |-> Contents'[k]]
  BY DEF Contents
<1>3. ASSUME NEW k \in Keys PROVE Contents'[k] = Contents[k]
  BY <1>1, <1>3 DEF MapIs, SameMeaning, SameValue
<1> QED BY <1>2, <1>3

\* A step that puts a record changes the contents of its key only.
LEMMA ContentsPut ==
  ASSUME Inv, Inv', NEW k \in Keys, NEW v, Puts(Files, Files', k, v)
  PROVE  Contents' = [Contents EXCEPT ![k] = IF v = Tombstone THEN None ELSE v]
<1>1. MapIs(Files, Contents) /\ MapIs(Files', Contents')
  <2>1. MapIs(Files, Contents)
    BY ContentsAre DEF Inv
  <2>2. MapIs(Files, Contents)'
    BY NextContentsAre DEF Inv
  <2> QED BY <2>1, <2>2 DEF MapIs, LiveAt, LastAt, RecordsOf, Count
<1>2. Contents = [x \in Keys |-> Contents[x]] /\ Contents' = [x \in Keys |-> Contents'[x]]
  BY DEF Contents
<1>3. ASSUME NEW x \in Keys \ {k} PROVE Contents'[x] = Contents[x]
  BY <1>1, <1>3 DEF MapIs, Puts, SameValue
<1>4. Contents'[k] = IF v = Tombstone THEN None ELSE v
  BY <1>1 DEF MapIs, Puts
<1> QED BY <1>2, <1>3, <1>4

\* The contents depend on the disk alone.
LEMMA ContentsAreOfFiles == ASSUME UNCHANGED disk PROVE Contents' = Contents
BY DEF Contents, LastOf, Occurrences

\* An indexed record can be read back and has a value.
LEMMA IndexedIs ==
  ASSUME Inv, loaded, NEW k \in DOMAIN index, NEW s, s = index[k].seg, NEW i, i = index[k].pos
  PROVE  /\ k \in Keys /\ LiveAt(Files, k, Readable, s, i)
         /\ FileOf(s) = Files[s] /\ i <= Len(FileOf(s)) /\ IsRecord(FileOf(s)[i])
         /\ FileOf(s)[i].value \in Values
<1>1. TypeInv /\ GoodFiles(Files) /\ IndexInv /\ k \in Keys
  BY DEF Inv, TypeInv, ObjectType, LinesInv, ObjectInv
<1>2. LiveAt(Files, k, Readable, s, i)
  BY <1>1 DEF IndexInv, IndexIs
<1>3. /\ s \in Segments /\ i \in 1 .. Count(Files, s) /\ FileOf(s) = Files[s]
      /\ Files[s][i].value # Tombstone
  BY <1>1, <1>2, FilesAre DEF LiveAt, LastAt, RecordsOf, Readable
<1>4. /\ i \in 1 .. Len(Files[s]) /\ IsRecord(Files[s][i])
      /\ Files[s][i].value \in Values \cup {Tombstone}
  BY <1>1, <1>3, GoodFilesAre
<1> QED BY <1>1, <1>2, <1>3, <1>4

\* With all the files read, the index tells what is in the contents.
LEMMA IndexTells ==
  ASSUME Inv, loaded, ~Blind, NEW k \in Keys
  PROVE  /\ k \in DOMAIN index => /\ Contents[k] = FileOf(index[k].seg)[index[k].pos].value
                                  /\ Contents[k] \in Values
         /\ k \notin DOMAIN index => Contents[k] = None
<1>1. MapIs(Files, Contents) /\ IndexInv
  BY ContentsAre DEF Inv, ObjectInv
<1>2. Readable = Segments
  BY DEF Blind, Readable
<1>3. CASE k \in DOMAIN index
  <2>1. PICK s, i : s = index[k].seg /\ i = index[k].pos
    OBVIOUS
  <2>2. /\ LiveAt(Files, k, Segments, s, i) /\ FileOf(s) = Files[s]
        /\ FileOf(s)[i].value \in Values
    BY <1>2, <1>3, <2>1, IndexedIs
  <2>3. Contents[k] = Files[s][i].value
    BY <1>1, <2>2 DEF MapIs
  <2> QED BY <1>3, <2>1, <2>2, <2>3
<1>4. CASE k \notin DOMAIN index
  <2>1. \A s, i : ~LiveAt(Files, k, Segments, s, i)
    BY <1>1, <1>2, <1>4 DEF IndexInv, IndexIs, LiveAt, LastAt, RecordsOf
  <2> QED BY <1>1, <1>4, <2>1 DEF MapIs
<1> QED BY <1>3, <1>4

\* What a call knows of its own operation: it has been applied exactly when the
\* compaction after its write, or its return, has been reached; a migrated key
\* is still unknown when its record is about to be written; and a probe means
\* that something went wrong.
AnswerInv ==
  /\ applied => pc = "return" \/ (Compacting /\ frame.afterCompact = "return")
  /\ Compacting /\ frame.afterCompact = "return" => applied
  /\ pc # "return" => out = "ok"
  /\ Appending /\ op.kind = "migrate" => op.key \notin DOMAIN index
  /\ pc \in {"probe", "restore"} => troubled

\* An operation of a caller is not the absence of one.
LEMMA OpsAre == \A o \in Ops : o # NoOp
BY DEF Ops, NoOp

\* Loading keeps what a call knows of its operation (AnswerInv).
LEMMA LoadAnswers == ASSUME Inv, AnswerInv, wipes = 0, Load PROVE AnswerInv'
<1>1. CASE LoadFails
  <2>1. Loading /\ (frame.afterLoad = IF op = NoOp THEN "idle" ELSE "lookup") /\ ~applied
    BY <1>1 DEF LoadFails, Inv, CallInv, ControlInv, AfterLoadInv, Loading, AnswerInv, Compacting
  <2> QED BY <1>1, <2>1 DEF LoadFails, AnswerInv, Compacting, Appending
<1>2. CASE LoadRead \/ TrimSegment \/ TrimFails \/ LoadFinish
  <2>1. /\ pc \in {"load", "trim"} /\ pc' \in {"trim", "reclaim"}
        /\ applied' = applied /\ out' = out
    BY <1>2 DEF LoadRead, TrimSegment, TrimFails, LoadFinish
  <2> QED BY <2>1 DEF AnswerInv, Compacting, Appending
<1>3. CASE Reclaim
  <2>1. /\ pc = "reclaim" /\ pc' = "compact" /\ applied' = applied /\ out' = out
        /\ frame'.afterCompact = "reclaim"
    BY <1>3 DEF Reclaim, Inv, TypeInv, CallType, Frames
  <2> QED BY <2>1 DEF AnswerInv, Compacting, Appending
<1>4. CASE LoadReturns
  <2>1. /\ pc = "reclaim" /\ pc' \in {"idle", "lookup"} /\ applied' = applied /\ out' = out
    BY <1>4 DEF LoadReturns, Inv, CallInv, ControlInv, AfterLoadInv, Loading
  <2> QED BY <2>1 DEF AnswerInv, Compacting, Appending
<1> QED BY <1>1, <1>2, <1>3, <1>4 DEF Load

\* Looking up and returning keep it.
LEMMA LookupAnswers == ASSUME Inv, AnswerInv, Lookup PROVE AnswerInv'
<1>1. CASE LookupWrite
  <2>1. /\ pc = "lookup" /\ pc' \in {"return", "append"}
        /\ pc' = "append" => out' = out
        /\ pc' = "append" /\ op.kind = "migrate" => op.key \notin DOMAIN index
        /\ UNCHANGED <<op, index, applied>>
    BY <1>1 DEF LookupWrite, NothingToWrite, memory
  <2> QED BY <2>1 DEF AnswerInv, Compacting, Appending
<1>2. CASE LookupRead
  BY <1>2 DEF LookupRead, AnswerInv, Compacting, Appending
<1>3. CASE LookupReadFails
  <2>1. pc = "lookup" /\ SizeInv /\ TypeInv
    BY <1>3 DEF LookupReadFails, Inv, CallInv, ControlInv, ObjectInv
  <2>2. ~MustReload
    BY <2>1, NothingMissing DEF MustReload
  <2> QED BY <1>3, <2>1, <2>2 DEF LookupReadFails, AnswerInv, Compacting, Appending
<1>4. CASE Return
  BY <1>4 DEF Return, AnswerInv, Compacting, Appending
<1> QED BY <1>1, <1>2, <1>3, <1>4 DEF Lookup

\* Appending, with its failures, keeps it.
LEMMA AppendAnswers == ASSUME Inv, AnswerInv, AppendLineLocked PROVE AnswerInv'
<1>1. CASE AppendLine \/ AfterRotationCompact
  <2>1. /\ pc \in {"append", "rotated"} /\ pc' \in {"return", "write", "compact"}
        /\ pc' # "return" => out' = out
        /\ pc' = "compact" => frame'.afterCompact = "rotated"
        /\ UNCHANGED <<op, index, applied>>
    <3>1. frame \in Frames
      BY DEF Inv, TypeInv, CallType
    <3>2. CASE AppendLine
      BY <3>1, <3>2 DEF AppendLine, NextSegment, Throw, Frames
    <3>3. CASE AfterRotationCompact
      BY <3>3 DEF AfterRotationCompact, NextSegment, Throw
    <3> QED BY <1>1, <3>2, <3>3
  <2> QED BY <2>1 DEF AnswerInv, Compacting, Appending
<1>2. CASE WriteLine
  <2>1. /\ pc = "write" /\ out' = out /\ applied' = TRUE
        /\ pc' = "return" \/ (pc' = "compact" /\ frame'.afterCompact = "return")
    <3>1. frame \in Frames
      BY DEF Inv, TypeInv, CallType
    <3> QED BY <1>2, <3>1 DEF WriteLine, Commit, Frames
  <2> QED BY <2>1 DEF AnswerInv, Compacting, Appending
<1>3. CASE WriteFails
  <2>1. /\ pc = "write" /\ directory /\ op \in Ops /\ TypeInv
    BY <1>3 DEF WriteFails, Inv, CallInv, ControlInv, Appending
  <2>2. troubled'
    BY <1>3, <2>1, BreaksIs, OpsAre DEF WriteFails
  <2>3. pc' = "probe" /\ UNCHANGED <<op, out, applied, index>>
    BY <1>3 DEF WriteFails, memory
  <2> QED BY <2>1, <2>2, <2>3 DEF AnswerInv, Compacting, Appending
<1>4. CASE ProbeOpens
  <2>1. /\ pc = "probe" /\ pc' = "restore" /\ UNCHANGED <<op, out, applied, index, troubled>>
    BY <1>4 DEF ProbeOpens, Works, trouble, memory
  <2> QED BY <2>1 DEF AnswerInv, Compacting, Appending
<1>5. CASE ProbeFails
  <2>1. /\ pc = "probe" /\ directory /\ op \in Ops /\ TypeInv /\ SizeInv
    BY <1>5 DEF ProbeFails, Inv, CallInv, ControlInv, Appending, ObjectInv
  <2>2. ~MustReload
    BY <2>1, NothingMissing DEF MustReload
  <2>3. /\ pc' \in {"return", "restore"} /\ Breaks /\ UNCHANGED <<op, applied, index>>
        /\ pc' # "return" => out' = out
    BY <1>5, <2>1, <2>2 DEF ProbeFails, Throw
  <2>4. troubled'
    BY <2>1, <2>3, BreaksIs, OpsAre
  <2> QED BY <2>1, <2>3, <2>4 DEF AnswerInv, Compacting, Appending
<1>6. CASE RestoreActiveSegment \/ RestoreFails
  <2>1. /\ pc = "restore" /\ pc' \in {"return", "append"} /\ UNCHANGED <<op, applied, index>>
        /\ pc' # "return" => out' = out
    BY <1>6 DEF RestoreActiveSegment, RestoreFails, TryAgainOrThrow, Throw
  <2> QED BY <2>1 DEF AnswerInv, Compacting, Appending
<1> QED BY <1>1, <1>2, <1>3, <1>4, <1>5, <1>6 DEF AppendLineLocked

\* A compaction keeps it.
LEMMA CompactAnswers == ASSUME Inv, AnswerInv, CompactSegment PROVE AnswerInv'
<1>1. /\ Compacting /\ UNCHANGED <<op, out, applied, frame>> /\ DOMAIN index' = DOMAIN index
      /\ CompactReturns \/ pc' \in {"moved", "rewrite"}
  <2>1. CASE CompactAborts \/ MovedRemoveFails \/ MoveFails \/ RewriteFails
    BY <2>1 DEF CompactAborts, MovedRemoveFails, MoveFails, RewriteFails, Compacting, memory
  <2>2. CASE CompactMoves \/ MovedRemoves
    BY <2>2 DEF CompactMoves, MovedRemoves, Compacting
  <2>3. CASE Rewrite
    BY <2>3 DEF Rewrite, Compacting
  <2> QED BY <2>1, <2>2, <2>3 DEF CompactSegment
<1>2. pc' \in {"moved", "rewrite"} \/ (pc' = frame.afterCompact /\ pc' \in {"reclaim", "rotated", "return"})
  BY <1>1 DEF CompactReturns, Inv, CallInv, ControlInv
<1> QED BY <1>1, <1>2 DEF AnswerInv, Compacting, Appending

\* Every step keeps it.
LEMMA StepAnswers == ASSUME Inv, AnswerInv, NoWipes, [Next]_vars PROVE AnswerInv'
<1>1. CASE Load \/ Lookup
  BY <1>1, NothingIsWiped, LoadAnswers, LookupAnswers
<1>2. CASE AppendLineLocked \/ CompactSegment
  BY <1>2, AppendAnswers, CompactAnswers
<1>3. CASE Callers
  <2>1. PICK kind, k, v : Invoke(kind, k, v)
    BY <1>3 DEF Callers, setDisk, getDisk, deleteDisk, migrateLegacyEntries
  <2> QED BY <2>1 DEF Invoke, AnswerInv, Compacting, Appending
<1>4. CASE Crash
  BY <1>4 DEF Crash, FreshObject, AnswerInv, Compacting, Appending
<1>5. ~Wipe
  BY NothingIsWiped
<1>6. CASE UNCHANGED vars
  BY <1>6 DEF vars, call, memory, trouble, AnswerInv, Compacting, Appending
<1> QED BY <1>1, <1>2, <1>3, <1>4, <1>5, <1>6 DEF Next, Step

\* A step inside a call that leaves contents and call alone is internal to the
\* store.
LEMMA StepIsInternal ==
  ASSUME pc # "return", pc' # "return", Contents' = Contents,
         UNCHANGED <<op, applied, restarts, wipes>>
  PROVE  Map!MapNext
BY DEF Map!MapNext, Map!Internal, Blind

\* A step that sets the answer is a step of the map when the map may give it.
LEMMA StepAnswersCall ==
  ASSUME pc # "return", pc' = "return", Contents' = Contents, op \in Ops,
         UNCHANGED <<op, applied, restarts, wipes>>,
         out' \in Values \cup {None, "ok", "threw"},
         Map!MayAnswer(out', (troubled \/ appendsDisabled)')
  PROVE  Map!MapNext
<1>1. op # Map!NoCall
  BY OpsAre DEF Map!NoCall, NoOp
<1>2. Map!Respond(out')
  BY <1>1 DEF Map!Respond, Map!Pending
<1> QED BY <1>2 DEF Map!MapNext, Blind

\* A step of a compaction is internal or, when it is the last step of a call
\* whose record has been written, answers it.
LEMMA CompactionRefines ==
  ASSUME Inv, AnswerInv, Compacting, CompactReturns \/ pc' \in {"moved", "rewrite"},
         Contents' = Contents, UNCHANGED <<op, out, applied, restarts, wipes>>
  PROVE  Map!MapNext
<1>1. pc # "return" /\ out = "ok"
  BY DEF Compacting, AnswerInv
<1>2. CASE pc' = "return"
  <2>1. frame.afterCompact = "return"
    BY <1>2 DEF CompactReturns
  <2>2. applied /\ op \in Ops
    BY <2>1 DEF AnswerInv, Inv, CallInv, ControlInv, Answering
  <2>3. Map!MayAnswer(out', (troubled \/ appendsDisabled)')
    BY <1>1, <2>2 DEF Map!MayAnswer
  <2> QED BY <1>1, <1>2, <2>2, <2>3, StepAnswersCall
<1>3. CASE pc' # "return"
  BY <1>1, <1>3, StepIsInternal
<1> QED BY <1>2, <1>3

\* Loading changes nothing of the map; if it fails, so does the call.
LEMMA LoadRefines == ASSUME Inv, Inv', AnswerInv, wipes = 0, Load PROVE Map!MapNext
<1>1. CASE LoadFails
  <2>1. /\ Loading /\ frame.afterLoad = IF op = NoOp THEN "idle" ELSE "lookup"
        /\ pc = "load" /\ ~applied /\ TypeInv /\ op \in Ops \cup {NoOp}
    BY <1>1 DEF LoadFails, Inv, CallInv, ControlInv, AfterLoadInv, Loading, AnswerInv, Compacting, TypeInv, CallType, CallOK
  <2>2. Contents' = Contents /\ UNCHANGED <<op, applied, restarts, wipes>>
    BY <1>1, ContentsAreOfFiles DEF LoadFails, counters
  <2>3. CASE op = NoOp
    <3>1. pc' = "idle"
      BY <1>1, <2>1, <2>3 DEF LoadFails
    <3> QED BY <2>1, <2>2, <3>1, StepIsInternal
  <2>4. CASE op # NoOp
    <3>1. /\ pc' = "return" /\ op \in Ops /\ Breaks
          /\ out' = IF op.kind = "get" THEN None ELSE "threw"
      BY <1>1, <2>1, <2>4 DEF LoadFails
    <3>2. troubled'
      BY <2>1, <2>4, <3>1, BreaksIs
    <3>3. Map!MayAnswer(out', (troubled \/ appendsDisabled)')
      BY <2>1, <3>1, <3>2 DEF Map!MayAnswer
    <3> QED BY <2>1, <2>2, <3>1, <3>3, StepAnswersCall
  <2> QED BY <2>3, <2>4
<1>2. CASE LoadRead \/ TrimFails \/ LoadFinish \/ Reclaim
  <2>1. /\ pc \in {"load", "trim", "reclaim"} /\ pc' \in {"trim", "reclaim", "compact"}
        /\ UNCHANGED <<disk, op, applied, restarts, wipes>>
    BY <1>2 DEF LoadRead, TrimFails, LoadFinish, Reclaim, files, counters
  <2> QED BY <2>1, ContentsAreOfFiles, StepIsInternal
<1>3. CASE TrimSegment
  <2>1. pc = "trim" /\ pc' = "trim" /\ UNCHANGED <<op, applied, restarts, wipes>>
    BY <1>3 DEF TrimSegment, counters
  <2>2. Contents' = Contents
    BY <1>3, TrimSegmentKeeps, TailsMeanNothing, ContentsStay
  <2> QED BY <2>1, <2>2, StepIsInternal
<1>4. CASE LoadReturns
  <2>1. /\ pc = "reclaim" /\ pc' \in {"idle", "lookup"}
        /\ UNCHANGED <<disk, op, applied, restarts, wipes>>
    BY <1>4 DEF LoadReturns, Inv, CallInv, ControlInv, AfterLoadInv, Loading, files, counters
  <2> QED BY <2>1, ContentsAreOfFiles, StepIsInternal
<1> QED BY <1>1, <1>2, <1>3, <1>4 DEF Load

\* What a lookup finds, or finds to be done already, is what the map has, unless
\* files could not be read; what it cannot do for another reason is reported.
LEMMA LookupRefines == ASSUME Inv, AnswerInv, Lookup PROVE Map!MapNext
<1>1. /\ TypeInv /\ out \in Values \cup {None, "ok", "threw"}
      /\ pc = "lookup" => /\ loaded /\ op \in Ops /\ op.key \in Keys /\ SizeInv
                          /\ out = "ok" /\ ~applied
  BY DEF Inv, TypeInv, CallType, CallOK, CallInv, ControlInv, Answering, Ops, AnswerInv, Compacting, ObjectInv
<1>2. CASE LookupWrite
  <2>1. /\ pc = "lookup" /\ op.kind # "get" /\ Contents' = Contents
        /\ UNCHANGED <<op, applied, restarts, wipes, troubled, appendsDisabled>>
    BY <1>2, ContentsAreOfFiles DEF LookupWrite, files, counters, trouble, memory, quality
  <2>2. CASE NothingToWrite /\ pc' = "return" /\ UNCHANGED out
    <3>1. Blind \/ (op.key \in DOMAIN index /\ Contents[op.key] \in Values)
                \/ (op.key \notin DOMAIN index /\ Contents[op.key] = None)
      BY <1>1, <2>1, IndexTells
    <3>2. Map!MayAnswer(out', (troubled \/ appendsDisabled)')
      BY <1>1, <2>1, <2>2, <3>1, SegmentStoreAssumption DEF Map!MayAnswer, NothingToWrite
    <3> QED BY <1>1, <2>1, <2>2, <3>2, StepAnswersCall
  <2>3. CASE appendsDisabled /\ pc' = "return" /\ out' = "threw"
    <3>1. Map!MayAnswer(out', (troubled \/ appendsDisabled)')
      BY <1>1, <2>1, <2>3 DEF Map!MayAnswer
    <3> QED BY <1>1, <2>1, <2>3, <3>1, StepAnswersCall
  <2>4. CASE pc' = "append"
    BY <2>1, <2>4, StepIsInternal
  <2> QED BY <1>2, <2>2, <2>3, <2>4 DEF LookupWrite
<1>3. CASE LookupRead
  <2>1. /\ pc = "lookup" /\ op.kind = "get" /\ pc' = "return" /\ Contents' = Contents
        /\ UNCHANGED <<op, applied, restarts, wipes>>
    BY <1>3, ContentsAreOfFiles DEF LookupRead, files, counters
  <2>2. CASE op.key \notin DOMAIN index /\ out' = None
    <3>1. Blind \/ Contents[op.key] = None
      BY <1>1, <2>1, <2>2, IndexTells
    <3>2. Map!MayAnswer(out', (troubled \/ appendsDisabled)')
      BY <2>1, <2>2, <3>1 DEF Map!MayAnswer
    <3> QED BY <1>1, <2>1, <2>2, <3>2, StepAnswersCall
  <2>3. CASE op.key \in DOMAIN index
    <3>1. PICK s, i : s = index[op.key].seg /\ i = index[op.key].pos
      OBVIOUS
    <3>2. IsRecord(FileOf(s)[i]) /\ FileOf(s)[i].value \in Values
      BY <1>1, <2>1, <2>3, <3>1, IndexedIs
    <3>3. out' = FileOf(s)[i].value
      BY <1>3, <2>3, <3>1, <3>2 DEF LookupRead
    <3>4. Blind \/ Contents[op.key] = out'
      BY <1>1, <2>1, <2>3, <3>1, <3>3, IndexTells
    <3>5. Map!MayAnswer(out', (troubled \/ appendsDisabled)')
      BY <2>1, <3>2, <3>3, <3>4 DEF Map!MayAnswer
    <3> QED BY <1>1, <2>1, <3>2, <3>3, <3>5, StepAnswersCall
  <2> QED BY <1>3, <2>2, <2>3 DEF LookupRead
<1>4. CASE LookupReadFails
  <2>1. /\ pc = "lookup" /\ op.kind = "get" /\ op.key \in DOMAIN index /\ out' = None
        /\ Contents' = Contents /\ UNCHANGED <<op, applied, restarts, wipes>>
    BY <1>4, ContentsAreOfFiles DEF LookupReadFails, counters
  <2>2. pc' = "return"
    BY <1>1, <1>4, <2>1, NothingMissing DEF LookupReadFails, MustReload
  <2>3. Breaks
    <3>1. PICK s, i : s = index[op.key].seg /\ i = index[op.key].pos
      OBVIOUS
    <3>2. i <= Len(FileOf(s)) /\ i \in Nat /\ Len(FileOf(s)) \in Nat
      <4>1. i <= Len(FileOf(s)) /\ FileOf(s) = Files[s] /\ LiveAt(Files, op.key, Readable, s, i)
        BY <1>1, <2>1, <3>1, IndexedIs
      <4>2. Files[s] \in Seq(Lines) /\ i \in Nat
        BY <1>1, <4>1, FilesAre DEF LiveAt, LastAt, RecordsOf, Readable
      <4> QED BY <4>1, <4>2, LenProperties
    <3> QED BY <1>4, <3>1, <3>2 DEF LookupReadFails
  <2>4. troubled'
    BY <1>1, <2>1, <2>3, BreaksIs, OpsAre
  <2>5. Map!MayAnswer(out', (troubled \/ appendsDisabled)')
    BY <2>1, <2>4 DEF Map!MayAnswer
  <2> QED BY <1>1, <2>1, <2>2, <2>5, StepAnswersCall
<1>5. CASE Return
  <2>1. /\ pc = "return" /\ pc' = "idle" /\ op \in Ops /\ op' = NoOp /\ applied' = FALSE
        /\ Contents' = Contents /\ UNCHANGED <<restarts, wipes>>
    BY <1>5, ContentsAreOfFiles DEF Return, files, counters, Inv, CallInv, ControlInv, Answering
  <2>2. op # Map!NoCall /\ op' = Map!NoCall
    BY <2>1, OpsAre DEF Map!NoCall, NoOp
  <2>3. out # "pending"
    BY <1>1, SegmentStoreAssumption
  <2>4. Map!Return
    BY <2>1, <2>2, <2>3 DEF Map!Return, Map!Pending
  <2> QED BY <2>4 DEF Map!MapNext, Blind
<1> QED BY <1>2, <1>3, <1>4, <1>5 DEF Lookup

\* The record of a call, once it is on the disk, has the effect of the call.
LEMMA RecordHasEffect ==
  ASSUME Inv, Inv', AnswerInv, pc = "write", Puts(Files, Files', op.key, NewLine.value)
  PROVE  Map!Effect /\ op # Map!NoCall
<1>1. /\ op \in Ops /\ op.kind # "get" /\ op.key \in Keys /\ loaded
      /\ op.kind = "migrate" => op.key \notin DOMAIN index
      /\ op.kind \in {"set", "migrate"} => op.value \in Values
  BY DEF Inv, CallInv, ControlInv, Appending, AnswerInv, Ops
<1>2. PICK k \in Keys : k = op.key
  BY <1>1
<1>3. PICK v : v = NewLine.value
  OBVIOUS
<1>4. Contents' = [Contents EXCEPT ![k] = IF v = Tombstone THEN None ELSE v]
  BY <1>2, <1>3, ContentsPut
<1>5. v = IF op.kind = "delete" THEN Tombstone ELSE op.value
  BY <1>3 DEF NewLine
<1>6. op.kind \in {"set", "migrate", "delete"}
  BY <1>1 DEF Ops
<1>7. op.kind = "migrate" => Blind \/ Contents[k] = None
  BY <1>1, <1>2, IndexTells
<1>8. op # Map!NoCall
  BY <1>1, OpsAre DEF Map!NoCall, NoOp
<1>9. CASE op.kind = "delete"
  BY <1>2, <1>4, <1>5, <1>8, <1>9 DEF Map!Effect
<1>10. CASE op.kind \in {"set", "migrate"}
  <2>1. v = op.value /\ v # Tombstone
    BY <1>1, <1>5, <1>10, SegmentStoreAssumption
  <2> QED BY <1>2, <1>4, <1>7, <1>8, <1>10, <2>1 DEF Map!Effect
<1> QED BY <1>6, <1>9, <1>10

\* Appending either fails, for a reason, or applies the call.
LEMMA AppendRefines == ASSUME Inv, Inv', AnswerInv, AppendLineLocked PROVE Map!MapNext
<1>1. /\ TypeInv /\ SizeInv /\ loaded /\ directory /\ op \in Ops /\ ~applied /\ out = "ok"
      /\ Appending /\ pc # "return"
  <2>1. pc \in {"append", "rotated", "write", "probe", "restore"}
    BY DEF AppendLineLocked, AppendLine, AfterRotationCompact, WriteLine, WriteFails,
           ProbeOpens, ProbeFails, RestoreActiveSegment, RestoreFails
  <2> QED BY <2>1 DEF Inv, CallInv, ControlInv, Appending, ObjectInv, AnswerInv, Compacting
<1>2. ASSUME Contents' = Contents, UNCHANGED <<op, applied, restarts, wipes>>,
             pc' = "return" => out' = "threw" /\ (troubled \/ appendsDisabled)'
      PROVE  Map!MapNext
  <2>1. CASE pc' = "return"
    <3>1. Map!MayAnswer(out', (troubled \/ appendsDisabled)')
      BY <1>1, <1>2, <2>1 DEF Map!MayAnswer
    <3> QED BY <1>1, <1>2, <2>1, <3>1, StepAnswersCall
  <2>2. CASE pc' # "return"
    BY <1>1, <1>2, <2>2, StepIsInternal
  <2> QED BY <2>1, <2>2
<1>3. CASE AppendLine
  <2>1. UNCHANGED <<disk, op, applied, restarts, wipes>>
    BY <1>3 DEF AppendLine, files, counters
  <2>2. pc' = "return" => out' = "threw" /\ appendsDisabled'
    BY <1>3 DEF AppendLine, NextSegment, Throw
  <2> QED BY <1>2, <2>1, <2>2, ContentsAreOfFiles
<1>4. CASE AfterRotationCompact
  <2>1. UNCHANGED <<disk, op, applied, restarts, wipes>>
    BY <1>4 DEF AfterRotationCompact, files, counters
  <2>2. pc' = "return" => out' = "threw" /\ appendsDisabled'
    BY <1>4 DEF AfterRotationCompact, NextSegment, Throw
  <2> QED BY <1>2, <2>1, <2>2, ContentsAreOfFiles
<1>5. CASE WriteLine
  <2>1. /\ pc = "write" /\ applied' = TRUE /\ UNCHANGED <<op, out, restarts, wipes>>
    BY <1>5 DEF WriteLine, Commit, counters
  <2>2. Map!Effect /\ op # Map!NoCall
    BY <1>5, <2>1, WriteLineKeeps, RecordHasEffect
  <2>3. Map!Apply
    BY <1>1, <2>1, <2>2 DEF Map!Apply, Map!Pending
  <2> QED BY <2>3 DEF Map!MapNext, Blind
<1>6. CASE WriteFails
  <2>1. pc' = "probe" /\ UNCHANGED <<op, applied, restarts, wipes>>
    BY <1>6 DEF WriteFails, counters
  <2>2. Contents' = Contents
    BY <1>6, WriteFailsKeeps, TailsMeanNothing, ContentsStay
  <2> QED BY <1>2, <2>1, <2>2
<1>7. CASE ProbeOpens
  <2>1. pc' = "restore" /\ UNCHANGED <<op, applied, restarts, wipes>>
    BY <1>7 DEF ProbeOpens, counters
  <2>2. Contents' = Contents
    BY <1>7, ProbeOpensKeeps, TailsMeanNothing, ContentsStay
  <2> QED BY <1>2, <2>1, <2>2
<1>8. CASE ProbeFails
  <2>1. ~MustReload
    BY <1>1, NothingMissing DEF MustReload
  <2>2. /\ Breaks /\ UNCHANGED <<disk, op, applied, restarts, wipes>>
        /\ pc' = "return" => out' = "threw"
    BY <1>1, <1>8, <2>1 DEF ProbeFails, Throw, counters
  <2>3. troubled'
    BY <1>1, <2>2, BreaksIs, OpsAre
  <2> QED BY <1>2, <2>2, <2>3, ContentsAreOfFiles
<1>9. CASE RestoreActiveSegment
  <2>1. /\ troubled /\ UNCHANGED <<op, applied, restarts, wipes, troubled>>
        /\ pc' = "return" => out' = "threw"
    BY <1>9 DEF RestoreActiveSegment, TryAgainOrThrow, Throw, Works, trouble, counters, AnswerInv
  <2>2. Contents' = Contents
    BY <1>9, RestoreKeeps, TailsMeanNothing, ContentsStay
  <2> QED BY <1>2, <2>1, <2>2
<1>10. CASE RestoreFails
  <2>1. /\ UNCHANGED <<disk, op, applied, restarts, wipes>> /\ pc' = "return" /\ out' = "threw"
        /\ pc = "restore" /\ (Breaks \/ Works)
    BY <1>10 DEF RestoreFails, Throw, files, counters
  <2>2. troubled'
    BY <1>1, <2>1, BreaksIs, OpsAre DEF Works, trouble, AnswerInv
  <2> QED BY <1>2, <2>1, <2>2, ContentsAreOfFiles
<1> QED BY <1>3, <1>4, <1>5, <1>6, <1>7, <1>8, <1>9, <1>10 DEF AppendLineLocked

\* A compaction changes nothing of the map.
LEMMA CompactRefines == ASSUME Inv, Inv', AnswerInv, CompactSegment PROVE Map!MapNext
<1>1. CASE CompactAborts \/ MovedRemoveFails \/ MoveFails \/ RewriteFails
  <2>1. /\ Compacting
        /\ CompactReturns \/ pc' \in {"moved", "rewrite"}
        /\ UNCHANGED <<disk, op, out, applied, restarts, wipes>>
    BY <1>1 DEF CompactAborts, MovedRemoveFails, MoveFails, RewriteFails, Compacting, files, counters
  <2> QED BY <2>1, ContentsAreOfFiles, CompactionRefines
<1>2. CASE CompactMoves \/ MovedRemoves
  <2>1. /\ Compacting
        /\ CompactReturns \/ pc' \in {"moved", "rewrite"}
        /\ UNCHANGED <<op, out, applied, restarts, wipes>>
    BY <1>2 DEF CompactMoves, MovedRemoves, Compacting, counters
  <2>2. Contents' = Contents
    BY <1>2, CompactMovesKeeps, MovedRemovesKeeps, ContentsStay
  <2> QED BY <2>1, <2>2, CompactionRefines
<1>3. CASE Rewrite
  <2>1. /\ Compacting /\ CompactReturns /\ UNCHANGED <<op, out, applied, restarts, wipes>>
    BY <1>3 DEF Rewrite, Compacting, counters
  <2>2. Contents' = Contents
    BY <1>3, RewriteKeeps, ContentsStay
  <2> QED BY <2>1, <2>2, CompactionRefines
<1> QED BY <1>1, <1>2, <1>3 DEF CompactSegment

\* A call begins.
LEMMA CallersRefine ==
  ASSUME TypeInv, ControlInv, pc = "idle" => ~applied, Callers
  PROVE  Map!MapNext
<1>1. PICK kind \in {"set", "get", "delete", "migrate"}, k \in Keys, v \in Values \cup {None} :
        Invoke(kind, k, v)
  BY DEF Callers, setDisk, getDisk, deleteDisk, migrateLegacyEntries
<1>2. PICK c : c = [kind |-> kind, key |-> k, value |-> v]
  OBVIOUS
<1>3. /\ pc = "idle" /\ op = NoOp /\ ~applied /\ op' = c /\ pc' # "return" /\ applied' = FALSE
      /\ Contents' = Contents /\ UNCHANGED <<restarts, wipes>> /\ c \in Map!Calls
      /\ applied = FALSE
  <2>1. applied \in BOOLEAN /\ ~applied /\ op = NoOp
    BY <1>1 DEF Invoke, TypeInv, CallType, CallOK, ControlInv
  <2> QED BY <1>1, <1>2, <2>1, ContentsAreOfFiles DEF Invoke, files, counters, Map!Calls
<1>4. Map!Invoke(c)
  BY <1>3 DEF Map!Invoke, Map!NoCall, NoOp
<1> QED BY <1>3, <1>4 DEF Map!MapNext, Blind

\* The process dies: the call that was writing may have been applied.
LEMMA CrashRefines == ASSUME Inv, Inv', AnswerInv, Crash PROVE Map!MapNext
<1>1. /\ op' = NoOp /\ applied' = FALSE /\ pc' = "load" /\ restarts' = restarts + 1
      /\ UNCHANGED wipes
  BY DEF Crash, FreshObject
<1>2. Contents' = Contents \/ (op # Map!NoCall /\ ~applied /\ Map!Effect)
  <2>1. CASE SameMeaning(Files, Files')
    BY <2>1, ContentsStay
  <2>2. CASE pc = "write" /\ Puts(Files, Files', op.key, NewLine.value)
    BY <2>2, RecordHasEffect DEF AnswerInv, Compacting
  <2> QED BY <2>1, <2>2, CrashKeeps
<1>3. Map!Crash
  BY <1>1, <1>2 DEF Map!Crash, Map!NoCall, Map!Pending, NoOp
<1> QED BY <1>3 DEF Map!MapNext, Blind

\* Every step is one of the map or none.
LEMMA StepRefines ==
  ASSUME Inv, Inv', AnswerInv, NoWipes, [Next]_vars
  PROVE  [Map!MapNext]_(Map!mapVars)
<1>1. CASE Load \/ Lookup
  BY <1>1, NothingIsWiped, LoadRefines, LookupRefines
<1>2. CASE AppendLineLocked \/ CompactSegment
  BY <1>2, AppendRefines, CompactRefines
<1>3. CASE Callers \/ Crash
  <2>1. TypeInv /\ ControlInv /\ (pc = "idle" => ~applied)
    BY DEF Inv, CallInv, AnswerInv, Compacting
  <2> QED BY <1>3, <2>1, CallersRefine, CrashRefines
<1>4. ~Wipe
  BY NothingIsWiped
<1>5. CASE UNCHANGED vars
  <2>1. UNCHANGED <<disk, unreadable, segmentBytes, troubled, appendsDisabled, op, pc, out,
                    applied, restarts, wipes>>
    BY <1>5 DEF vars, files, memory, sizes, quality, call, trouble, counters
  <2>2. Contents' = Contents /\ Blind' = Blind
    BY <2>1, ContentsAreOfFiles DEF Blind, HasMissingSegment
  <2> QED BY <2>1, <2>2 DEF Map!mapVars
<1> QED BY <1>1, <1>2, <1>3, <1>4, <1>5 DEF Next, Step

\* The store begins as an empty map without a call.
LEMMA InitRefines == ASSUME Init PROVE Map!MapInit /\ AnswerInv
<1>1. /\ disk = [s \in {} |-> <<>>] /\ segmentBytes = NoSizes /\ unreadable = {}
      /\ appendsDisabled = FALSE /\ op = NoOp /\ pc = "load" /\ out = "ok"
      /\ applied = FALSE /\ troubled = FALSE /\ restarts = 0 /\ wipes = 0
  BY DEF Init
<1>2. Contents = [k \in Keys |-> None]
  <2>1. \A k : Occurrences(k, DOMAIN disk) = {}
    BY <1>1 DEF Occurrences
  <2> QED BY <2>1 DEF Contents
<1>3. Blind = FALSE
  BY <1>1 DEF Blind, HasMissingSegment, NoSizes
<1>4. Map!MapInit
  BY <1>1, <1>2, <1>3 DEF Map!MapInit, Map!NoCall, Map!Pending, NoOp
<1>5. AnswerInv
  BY <1>1 DEF AnswerInv, Compacting, Appending
<1> QED BY <1>4, <1>5

\* The refinement, through any failures of the file system and deaths of the process.
LEMMA MapUnwiped == NoWipes /\ Spec => ImplementsDurableMap
<1> SUFFICES ASSUME NoWipes PROVE Spec => ImplementsDurableMap
  OBVIOUS
<1>1. Spec => []Inv
  BY InvariantHolds
<1>2. Init => Map!MapInit /\ AnswerInv
  BY InitRefines
<1>3. Inv /\ AnswerInv /\ [Next]_vars => AnswerInv'
  BY StepAnswers
<1>4. Inv /\ Inv' /\ AnswerInv /\ [Next]_vars => [Map!MapNext]_(Map!mapVars)
  BY StepRefines
<1> QED BY <1>1, <1>2, <1>3, <1>4, PTL DEF Spec, ImplementsDurableMap, Map!MapSpec


-----------------------------------------------------------------------------
(* The platform removes the directory, while no file operation fails.  Until *)
(* the next load the object remembers files that are gone.                   *)

NoFaults == MaxFaults = 0 /\ ~Outage

\* What holds whether the files are there or not, when nothing fails.
CalmInv ==
  /\ faults = 0
  /\ pc # "load" => loaded
  /\ loaded => unreadable = {}
  /\ pc # "rewrite"
  /\ applied => pc = "return" \/ (Compacting /\ frame.afterCompact = "return")

\* A load removes every file without lines, and then compacts every other one that
\* has no live record, but the active one.
TrimsAll ==
  pc = "trim" =>
    /\ ~frame.untrimmed /\ partiallyRead = {}
    /\ \A s \in DOMAIN disk : segmentBytes[s] = 0 => s \in frame.trim

Reclaiming == pc = "reclaim" \/ (Compacting /\ frame.afterCompact = "reclaim")
Unused(s) == s \in DOMAIN disk \ {active} /\ LiveIn(s, index) = {}
ReclaimsAll ==
  Reclaiming =>
    /\ partiallyRead = {} /\ ~appendsDisabled
    /\ \A s \in frame.reclaim : Unused(s)
    /\ Compacting => Unused(frame.target) /\ frame.target \notin frame.reclaim
    /\ \A s \in Segments : Unused(s) => s \in frame.reclaim \/ (Compacting /\ s = frame.target)

\* There are no files, and the object may not know it.  It will: what it believes
\* to be indexed lies in a segment that it believes to have lines.
Believed ==
  /\ \A s \in Segments : /\ IsFiniteSet(LiveIn(s, index))
                         /\ Cardinality(LiveIn(s, index)) <= segmentBytes[s]
  /\ pc # "trim" => \A s \in Segments : segmentDeadBytes[s] <= segmentBytes[s]
  /\ ~appendsDisabled => \A s \in Segments : segmentBytes[s] > 0 => s <= active
  /\ pc = "trim" => ~appendsDisabled /\ \A s \in Segments : segmentBytes[s] > 0 => s <= frame.highest
  /\ pc = "moved" => LiveIn(frame.target, index) = {}
GoneInv ==
  /\ TypeInv /\ ControlInv /\ RotationInv
  /\ DOMAIN disk = {} /\ wipes # 0
  /\ directory => pc = "load"
  /\ loaded => Believed

WipeInv == CalmInv /\ ((Inv /\ TrimsAll /\ ReclaimsAll) \/ GoneInv)

LEMMA NothingBreaks ==
  ASSUME NoFaults, TypeInv, faults = 0
  PROVE  ~Breaks /\ \A n \in Nat : Break(n) => n = 0 /\ faults' = 0
<1>1. MaxFaults = 0 /\ ~Outage
  BY DEF NoFaults
<1>2. ASSUME NEW n \in Nat, Break(n) PROVE n = 0 /\ faults' = 0
  BY <1>1, <1>2 DEF Break
<1>3. ~Breaks
  BY <1>2 DEF Breaks
<1> QED BY <1>2, <1>3

\* When nothing is lost while loading.
LEMMA AllIsRead ==
  ASSUME NoFaults, TypeInv, LinesInv, faults = 0, LoadRead
  PROVE  /\ faults' = 0 /\ unreadable' = {} /\ partiallyRead' = {} /\ ~frame'.untrimmed
         /\ \A s \in DOMAIN disk : segmentBytes'[s] = 0 => s \in frame'.trim
<1>1. PICK lost \in SUBSET DOMAIN disk :
       LET read == DOMAIN disk \ lost
           bytes == [s \in Segments |-> IF s \in read THEN CompleteLength(disk[s]) ELSE 0]
       IN /\ Break(Cardinality(lost))
          /\ segmentBytes' = bytes
          /\ unreadable' = lost
          /\ partiallyRead' =
               lost \cup {s \in read : \E i \in 1..bytes[s] : ~IsRecord(disk[s][i])}
          /\ frame' = [frame EXCEPT
                         !.trim = {s \in read : bytes[s] # Len(disk[s]) \/ bytes[s] = 0},
                         !.untrimmed = FALSE,
                         !.highest = Max({0} \cup DOMAIN disk)]
  BY DEF LoadRead
<1>2. IsFiniteSet(lost) /\ Cardinality(lost) \in Nat
  <2>1. IsFiniteSet(Segments)
    BY SegmentStoreAssumption, FS_Interval DEF Segments
  <2>2. lost \subseteq Segments
    BY <1>1 DEF TypeInv, DiskType
  <2> QED BY <2>1, <2>2, FS_Subset, FS_CardinalityType
<1>3. lost = {} /\ faults' = 0
  <2>1. Cardinality(lost) = 0 /\ faults' = 0
    BY <1>1, <1>2, NothingBreaks
  <2> QED BY <1>2, <2>1, FS_EmptySet
<1> DEFINE bytes == [s \in Segments |-> IF s \in DOMAIN disk THEN CompleteLength(disk[s]) ELSE 0]
<1>4. /\ segmentBytes' = bytes /\ unreadable' = {}
      /\ partiallyRead' = {s \in DOMAIN disk : \E i \in 1..bytes[s] : ~IsRecord(disk[s][i])}
      /\ frame' = [frame EXCEPT
                     !.trim = {s \in DOMAIN disk : bytes[s] # Len(disk[s]) \/ bytes[s] = 0},
                     !.untrimmed = FALSE,
                     !.highest = Max({0} \cup DOMAIN disk)]
  BY <1>1, <1>3
<1>5. ASSUME NEW s \in DOMAIN disk, NEW i \in 1 .. bytes[s] PROVE IsRecord(disk[s][i])
  <2>1. s \in Segments /\ Files[s] = disk[s] /\ bytes[s] = CompleteLength(disk[s])
    BY FilesAre DEF TypeInv, DiskType
  <2>2. GoodFile(disk[s])
    BY <2>1 DEF LinesInv, GoodFiles
  <2> QED BY <1>5, <2>1, <2>2, GoodFileFacts
<1>6. frame \in Frames
  BY DEF TypeInv, CallType
<1>7. \A s \in DOMAIN disk : bytes[s] = 0 => s \in frame'.trim
  BY <1>4, <1>6 DEF Frames
<1>8. ~frame'.untrimmed
  BY <1>4, <1>6 DEF Frames
<1> QED BY <1>3, <1>4, <1>5, <1>7, <1>8

\* The active file is as long as the object believes.
LEMMA ActiveFileIsExact ==
  ASSUME TypeInv, LinesInv, SizeInv, TopInv, pc = "compact", ~appendsDisabled
  PROVE  ActiveIsExact
<1> SUFFICES ASSUME segmentBytes[active] > 0
             PROVE  active \in DOMAIN disk /\ Len(disk[active]) = segmentBytes[active]
  BY DEF ActiveIsExact
<1>1. active \in Readable /\ ~IsTorn(FileOf(active)) /\ active \in Segments
  BY DEF TopInv, Readable, TypeInv, ObjectType
<1>2. segmentBytes[active] = Count(Files, active)
  BY <1>1 DEF SizeInv
<1>3. active \in DOMAIN disk
  BY <1>1, <1>2, FilesAre
<1>4. Files[active] = disk[active] /\ FileOf(active) = disk[active] /\ disk[active] \in Seq(Lines)
  BY <1>3, FilesAre DEF FileOf, TypeInv, DiskType
<1>5. CompleteLength(disk[active]) = Len(disk[active])
  BY <1>1, <1>4, FileFacts
<1> QED BY <1>2, <1>3, <1>4, <1>5 DEF Count

\* While the files are there and nothing breaks, no file operation fails.
LEMMA NothingFails ==
  ASSUME NoFaults, Inv, CalmInv
  PROVE  /\ ~LoadFails /\ ~TrimFails /\ ~WriteFails /\ ~ProbeFails
         /\ ~MoveFails /\ ~MovedRemoveFails /\ ~RewriteFails
<1>1. TypeInv /\ LinesInv /\ ~Breaks /\ faults = 0
  BY NothingBreaks DEF Inv, CalmInv
<1>2. pc # "load" => loaded /\ directory
  BY DEF Inv, CallInv, CalmInv
<1>3. ~LoadFails /\ ~TrimFails /\ ~WriteFails /\ ~MovedRemoveFails
  BY <1>1, <1>2 DEF LoadFails, TrimFails, WriteFails, MovedRemoveFails
<1>4. ~RewriteFails
  BY <1>1, <1>2 DEF RewriteFails
<1>5. ~ProbeFails
  <2> SUFFICES ASSUME ProbeFails PROVE FALSE
    OBVIOUS
  <2>1. pc = "probe" /\ Breaks
    BY <1>2 DEF ProbeFails
  <2> QED BY <1>1, <2>1
<1>6. ~MoveFails
  <2> SUFFICES ASSUME MoveFails PROVE FALSE
    OBVIOUS
  <2>1. pc = "compact" /\ ~appendsDisabled /\ ~ActiveIsExact
    BY <1>1, <1>2 DEF MoveFails, MayMoveTombstones
  <2>2. SizeInv /\ TopInv
    BY <1>2, <2>1 DEF Inv, ObjectInv
  <2> QED BY <1>1, <2>1, <2>2, ActiveFileIsExact
<1> QED BY <1>3, <1>4, <1>5, <1>6

\* It stays calm, wherever the files are.
LEMMA StaysCalm ==
  ASSUME NoFaults, TypeInv, LinesInv, ControlInv, CalmInv, ~MoveFails, [Next]_vars
  PROVE  CalmInv'
<1>1. /\ faults = 0 /\ (pc # "load" => loaded) /\ (loaded => unreadable = {}) /\ pc # "rewrite"
      /\ applied => pc = "return" \/ (Compacting /\ frame.afterCompact = "return")
      /\ ~Breaks /\ frame \in Frames
  BY NothingBreaks DEF CalmInv, TypeInv, CallType
<1>2. CASE LoadRead
  <2>1. faults' = 0 /\ unreadable' = {}
    BY <1>1, <1>2, AllIsRead
  <2>2. loaded' = TRUE /\ pc = "load" /\ pc' = "trim" /\ applied' = applied
    BY <1>2 DEF LoadRead
  <2> QED BY <1>1, <2>1, <2>2 DEF CalmInv, Compacting
<1>3. CASE TrimSegment \/ TrimFails \/ LoadFinish
  <2>1. /\ pc = "trim" /\ pc' \in {"trim", "reclaim"} /\ faults' = faults
        /\ UNCHANGED <<loaded, unreadable, applied>>
    BY <1>1, <1>3 DEF TrimSegment, TrimFails, LoadFinish, Works, trouble, memory, quality
  <2> QED BY <1>1, <2>1 DEF CalmInv, Compacting
<1>4. CASE Reclaim \/ LoadReturns
  <2>1. /\ pc = "reclaim" /\ pc' \in {"compact", "idle", "lookup", "append", "return"}
        /\ UNCHANGED <<loaded, unreadable, applied, faults>>
    BY <1>1, <1>4 DEF Reclaim, LoadReturns, trouble, memory, quality, Frames
  <2> QED BY <1>1, <2>1 DEF CalmInv, Compacting
<1>5. CASE Lookup
  <2>1. /\ pc \in {"lookup", "return"} /\ pc' \in {"return", "append", "load", "idle"}
        /\ UNCHANGED <<loaded, unreadable, faults>>
        /\ applied' = FALSE \/ (applied' = applied /\ pc = "lookup")
    BY <1>1, <1>5 DEF Lookup, LookupWrite, LookupRead, LookupReadFails, Return, Works,
                      trouble, memory, quality
  <2> QED BY <1>1, <2>1 DEF CalmInv, Compacting
<1>6. CASE AppendLine \/ AfterRotationCompact
  <2>1. /\ pc \in {"append", "rotated"} /\ pc' \in {"return", "write", "compact"}
        /\ UNCHANGED <<loaded, unreadable, applied, faults>>
    BY <1>6 DEF AppendLine, AfterRotationCompact, NextSegment, Throw, trouble
  <2> QED BY <1>1, <2>1 DEF CalmInv, Compacting
<1>7. CASE WriteLine
  <2>1. /\ pc = "write" /\ faults' = faults /\ UNCHANGED <<loaded, unreadable>>
        /\ pc' = "return" \/ (pc' = "compact" /\ frame'.afterCompact = "return")
    BY <1>1, <1>7 DEF WriteLine, Commit, trouble, quality, Frames
  <2> QED BY <1>1, <2>1 DEF CalmInv, Compacting
<1>8. CASE WriteFails \/ ProbeOpens \/ ProbeFails \/ RestoreActiveSegment \/ RestoreFails
  <2>1. /\ pc \in {"write", "probe", "restore"}
        /\ pc' \in {"probe", "restore", "return", "append", "load"}
        /\ UNCHANGED <<loaded, unreadable, applied>>
    BY <1>8 DEF WriteFails, ProbeOpens, ProbeFails, RestoreActiveSegment, RestoreFails,
                TryAgainOrThrow, Throw, memory, quality
  <2>2. faults' = faults
    BY <1>1, <1>8 DEF WriteFails, ProbeOpens, ProbeFails, RestoreActiveSegment, RestoreFails,
                      Works, trouble
  <2> QED BY <1>1, <2>1, <2>2 DEF CalmInv, Compacting
<1>9. CASE CompactSegment
  <2>1. /\ Compacting /\ UNCHANGED <<loaded, unreadable, applied, frame, faults>>
        /\ CompactReturns \/ pc' = "moved"
    <3>1. ~MovedRemoveFails
      BY <1>1 DEF MovedRemoveFails
    <3>2. CASE CompactAborts \/ RewriteFails
      BY <1>1, <3>2 DEF CompactAborts, RewriteFails, Compacting, Works, trouble, memory, quality
    <3>3. CASE CompactMoves \/ MovedRemoves
      BY <3>3 DEF CompactMoves, MovedRemoves, Compacting, Works, trouble, quality
    <3>4. CASE Rewrite
      BY <3>4 DEF Rewrite, Compacting, Works, trouble, quality
    <3> QED BY <1>9, <3>1, <3>2, <3>3, <3>4 DEF CompactSegment
  <2>2. pc' = "moved" \/ (pc' = frame.afterCompact /\ pc' \in {"reclaim", "rotated", "return"})
    BY <2>1 DEF CompactReturns, ControlInv
  <2>3. CASE applied
    <3>1. frame.afterCompact = "return"
      BY <1>1, <2>1, <2>3 DEF Compacting
    <3> QED BY <1>1, <2>1, <2>2, <3>1 DEF CalmInv, Compacting
  <2>4. CASE ~applied
    BY <1>1, <2>1, <2>2, <2>4 DEF CalmInv, Compacting
  <2> QED BY <2>3, <2>4
<1>10. CASE Callers
  <2>1. PICK kind, k, v : Invoke(kind, k, v)
    BY <1>10 DEF Callers, setDisk, getDisk, deleteDisk, migrateLegacyEntries
  <2>2. /\ pc = "idle" /\ pc' \in {"lookup", "load"} /\ applied' = FALSE
        /\ UNCHANGED <<loaded, unreadable, faults>>
    BY <2>1 DEF Invoke, memory, quality, trouble
  <2> QED BY <1>1, <2>2 DEF CalmInv, Compacting
<1>11. CASE Crash
  <2>1. pc' = "load" /\ loaded' = FALSE /\ applied' = FALSE /\ faults' = faults
    BY <1>11 DEF Crash, FreshObject
  <2> QED BY <1>1, <2>1 DEF CalmInv
<1>12. CASE Wipe
  <2>1. UNCHANGED <<loaded, unreadable, applied, frame, pc, faults>>
    BY <1>12 DEF Wipe, memory, quality, call
  <2> QED BY <1>1, <2>1 DEF CalmInv, Compacting
<1>13. CASE UNCHANGED vars
  <2>1. UNCHANGED <<loaded, unreadable, applied, frame, pc, faults>>
    BY <1>13 DEF vars, memory, quality, call, trouble
  <2> QED BY <1>1, <2>1 DEF CalmInv, Compacting
<1>14. ~LoadFails
  BY <1>1 DEF LoadFails
<1>15. Load => LoadRead \/ TrimSegment \/ TrimFails \/ LoadFinish \/ Reclaim \/ LoadReturns
  BY <1>14 DEF Load
<1> QED BY <1>2, <1>3, <1>4, <1>5, <1>6, <1>7, <1>8, <1>9, <1>10, <1>11, <1>12, <1>13, <1>15
        DEF Next, Step, AppendLineLocked


\* A segment without live records can always be compacted.
LEMMA UnusedIsFound ==
  ASSUME NEW s, Unused(s)
  PROVE  KeptLive(s) = {} /\ AllLiveFound(s) /\ Kept(s) = KeptTombstones(s)
<1>1. s \in DOMAIN disk /\ LiveIn(s, index) = {}
  BY DEF Unused
<1>2. KeptLive(s) = {}
  BY <1>1 DEF KeptLive, LiveIn
<1> QED BY <1>1, <1>2 DEF AllLiveFound, Kept

\* Trimming goes through all that a load has read.
LEMMA TrimSegmentTrims ==
  ASSUME Inv, TrimsAll, TrimSegment
  PROVE  TrimsAll' /\ ~Reclaiming'
<1>0. PICK s : s = Min(frame.trim)
  OBVIOUS
<1>1. /\ pc = "trim" /\ pc' = "trim" /\ frame \in Frames
      /\ frame' = [frame EXCEPT !.trim = @ \ {s}]
      /\ segmentBytes' = segmentBytes /\ partiallyRead' = partiallyRead
      /\ \/ segmentBytes[s] = 0 /\ disk' = WithoutFile(s)
         \/ /\ segmentBytes[s] > 0
            /\ disk' = WithFile(s, SubSeq(disk[s], 1, segmentBytes[s]))
  BY <1>0 DEF TrimSegment, memory, sizes, quality, Inv, TypeInv, CallType
<1>2. frame'.trim = frame.trim \ {s} /\ frame'.untrimmed = frame.untrimmed
  BY <1>1 DEF Frames
<1>3. s \in frame.trim /\ s \in DOMAIN disk
  <2>1. frame.trim \in SUBSET Segments /\ frame.trim # {} /\ frame.trim \subseteq DOMAIN disk
    BY <1>1 DEF TrimSegment, Frames, Inv, TrimInv
  <2> QED BY <1>0, <2>1, SegmentsAre
<1>4. ASSUME NEW t \in DOMAIN disk', segmentBytes[t] = 0 PROVE t \in frame'.trim
  <2>1. t \in DOMAIN disk
    BY <1>1, <1>3 DEF WithoutFile, WithFile
  <2>2. t \in frame.trim
    BY <1>1, <1>4, <2>1 DEF TrimsAll
  <2>3. t # s
    BY <1>1, <1>4 DEF WithoutFile, WithFile
  <2> QED BY <1>2, <2>2, <2>3
<1>5. TrimsAll'
  BY <1>1, <1>2, <1>4 DEF TrimsAll
<1> QED BY <1>1, <1>5 DEF Reclaiming, Compacting

\* Its end lists every segment without live records but the active one.
LEMMA LoadFinishLists ==
  ASSUME Inv, CalmInv, TrimsAll, LoadFinish
  PROVE  ReclaimsAll' /\ pc' # "trim"
<1>1. /\ TypeInv /\ LinesInv /\ SizeInv /\ IndexInv /\ loaded /\ frame \in Frames /\ pc = "trim"
      /\ unreadable = {} /\ ~frame.untrimmed /\ partiallyRead = {}
      /\ frame.trim = {} /\ \A s \in DOMAIN disk : segmentBytes[s] # 0
  BY DEF LoadFinish, Inv, TypeInv, CallType, CallInv, ControlInv, ObjectInv, CalmInv, TrimsAll
<1>2. ~UnreadableOnTop
  BY <1>1 DEF UnreadableOnTop
<1> DEFINE dead == [s \in Segments |->
                      Max({0, segmentBytes[s] - Cardinality(LiveIn(s, index))})]
           dying == {s \in Segments \ {active} : segmentBytes[s] > 0 /\ dead[s] >= segmentBytes[s]}
<1>3. /\ pc' = "reclaim" /\ active' = active /\ appendsDisabled' = FALSE
      /\ frame' = [frame EXCEPT !.reclaim = dying]
      /\ UNCHANGED <<disk, index, partiallyRead>>
  BY <1>1, <1>2 DEF LoadFinish, files
<1>4. frame'.reclaim = dying
  <2> HIDE DEF dying
  <2> QED BY <1>1, <1>3 DEF Frames
<1>5. DOMAIN disk \subseteq Segments
  BY <1>1 DEF TypeInv, DiskType
<1>6. ASSUME NEW s \in Segments
      PROVE  s \in dying <=> Unused(s)
  <2>1. s \in Readable
    BY <1>1 DEF Readable
  <2>2. dead[s] = segmentBytes[s] - Cardinality(LiveIn(s, index))
    <3>1. dead[s] = Max({0, segmentBytes[s] - Cardinality(LiveIn(s, index))})
      OBVIOUS
    <3> HIDE DEF dead
    <3> QED BY <1>1, <2>1, <3>1, DeadIsExact
  <2>3. /\ IsFiniteSet(LiveIn(s, index)) /\ Cardinality(LiveIn(s, index)) \in Nat
        /\ segmentBytes[s] = Count(Files, s) /\ segmentBytes[s] \in Nat
    BY <1>1, <2>1, LiveCount, FilesAre DEF SizeInv
  <2>4. Cardinality(LiveIn(s, index)) = 0 <=> LiveIn(s, index) = {}
    BY <2>3, FS_EmptySet
  <2>5. segmentBytes[s] > 0 <=> s \in DOMAIN disk
    <3>1. s \notin DOMAIN disk => Count(Files, s) = 0
      BY <1>1, FilesAre
    <3> QED BY <1>1, <2>3, <3>1
  <2> HIDE DEF dead
  <2> QED BY <2>2, <2>3, <2>4, <2>5 DEF Unused
<1> HIDE DEF dying
<1>7. \A s \in Segments : Unused(s)' <=> Unused(s)
  BY <1>3 DEF Unused
<1>8. dying \subseteq Segments
  BY DEF dying
<1>9. ~Compacting'
  BY <1>3 DEF Compacting
<1>10. partiallyRead' = {} /\ ~appendsDisabled'
  BY <1>1, <1>3
<1> QED BY <1>3, <1>4, <1>6, <1>7, <1>8, <1>9, <1>10 DEF ReclaimsAll

\* One after the other is compacted ...
LEMMA ReclaimTakes ==
  ASSUME Inv, ReclaimsAll, Reclaim
  PROVE  ReclaimsAll' /\ pc' # "trim"
<1>0. PICK s : s = Min(frame.reclaim)
  OBVIOUS
<1>1. /\ pc = "reclaim" /\ pc' = "compact" /\ frame \in Frames /\ frame.reclaim # {}
      /\ frame' = [frame EXCEPT !.reclaim = @ \ {s}, !.target = s, !.afterCompact = "reclaim"]
      /\ UNCHANGED <<disk, index, active, partiallyRead, appendsDisabled>>
  BY <1>0 DEF Reclaim, files, memory, quality, Inv, TypeInv, CallType
<1>2. s \in frame.reclaim /\ s \in Segments
  <2>1. frame.reclaim \in SUBSET Segments
    BY <1>1 DEF Frames
  <2> QED BY <1>0, <1>1, <2>1, SegmentsAre
<1>3. frame'.reclaim = frame.reclaim \ {s} /\ frame'.target = s
  BY <1>1, <1>2 DEF Frames
<1>4. /\ partiallyRead = {} /\ ~appendsDisabled
      /\ \A t \in frame.reclaim : Unused(t)
      /\ \A t \in Segments : Unused(t) => t \in frame.reclaim
  BY <1>1 DEF ReclaimsAll, Reclaiming, Compacting
<1>5. \A t : Unused(t)' <=> Unused(t)
  BY <1>1 DEF Unused
<1>6. Compacting'
  BY <1>1 DEF Compacting
<1>7. /\ \A t \in frame'.reclaim : Unused(t)'
      /\ Unused(s)' /\ s \notin frame'.reclaim
      /\ \A t \in Segments : Unused(t)' => t \in frame'.reclaim \/ t = s
  BY <1>2, <1>3, <1>4, <1>5
<1>8. Unused(frame.target)' <=> Unused(s)'
  BY <1>3 DEF Unused
<1> QED BY <1>1, <1>3, <1>4, <1>6, <1>7, <1>8 DEF ReclaimsAll

\* ... and disappears.
LEMMA CompactionReclaims ==
  ASSUME NoFaults, Inv, CalmInv, ReclaimsAll, CompactSegment, frame.afterCompact = "reclaim"
  PROVE  ReclaimsAll' /\ pc' # "trim"
<1>0. PICK c : c = frame.target
  OBVIOUS
<1>1. Compacting /\ TypeInv /\ LinesInv /\ loaded /\ TopInv /\ IndexInv /\ frame \in Frames
  <2>1. Compacting
    BY DEF CompactSegment, CompactAborts, CompactMoves, MovedRemoves, MovedRemoveFails, MoveFails,
           Rewrite, RewriteFails, Compacting
  <2> QED BY <2>1 DEF Compacting, Inv, TypeInv, CallType, CallInv, ControlInv, ObjectInv
<1>2. /\ partiallyRead = {} /\ ~appendsDisabled
      /\ \A t \in frame.reclaim : Unused(t)
      /\ Unused(c) /\ c \notin frame.reclaim
      /\ \A t \in Segments : Unused(t) => t \in frame.reclaim \/ t = c
  BY <1>0, <1>1 DEF ReclaimsAll, Reclaiming
<1>3. AllLiveFound(c) /\ ~Breaks /\ Kept(c) = KeptTombstones(c) /\ c \in DOMAIN disk /\ c # active
      /\ LiveIn(c, index) = {}
  BY <1>1, <1>2, UnusedIsFound, NothingBreaks DEF CalmInv, Unused
<1>4. ~CompactAborts /\ ~MovedRemoveFails /\ ~MoveFails /\ ~RewriteFails
  BY <1>0, <1>3, NothingFails DEF CompactAborts
<1>5. CASE CompactMoves
  <2>1. /\ pc' = "moved" /\ disk' = WithFile(active, MergedActive(c))
        /\ UNCHANGED <<index, active, frame, partiallyRead, appendsDisabled>>
    BY <1>0, <1>5 DEF CompactMoves, quality
  <2>2. \A t : Unused(t)' <=> Unused(t)
    BY <2>1 DEF Unused, WithFile
  <2>3. Unused(frame.target)' <=> Unused(c)'
    BY <1>0, <2>1 DEF Unused
  <2>4. Compacting'
    BY <2>1 DEF Compacting
  <2> QED BY <1>0, <1>2, <2>1, <2>2, <2>3, <2>4 DEF ReclaimsAll
<1>6. ASSUME disk' = WithoutFile(c), CompactReturns,
             \A t : LiveIn(t, index') = LiveIn(t, index),
             UNCHANGED <<active, frame, partiallyRead, appendsDisabled>>
      PROVE  ReclaimsAll' /\ pc' # "trim"
  <2>1. pc' = "reclaim"
    BY <1>6 DEF CompactReturns
  <2>2. \A t : Unused(t)' <=> Unused(t) /\ t # c
    BY <1>6 DEF Unused, WithoutFile
  <2>3. ~Compacting'
    BY <2>1 DEF Compacting
  <2> QED BY <1>2, <1>6, <2>1, <2>2, <2>3 DEF ReclaimsAll
<1>7. CASE MovedRemoves
  <2>1. /\ disk' = WithoutFile(c) /\ CompactReturns
        /\ UNCHANGED <<index, active, frame, partiallyRead, appendsDisabled>>
    BY <1>0, <1>7 DEF MovedRemoves, quality
  <2> QED BY <1>6, <2>1
<1>8. CASE Rewrite
  <2>1. pc = "compact" /\ ~MayMoveTombstones(c)
    BY <1>0, <1>8 DEF Rewrite, CalmInv
  <2>2. c < active
    <3>1. c <= active /\ c \in Nat /\ active \in Nat
      BY <1>1, <1>2, <1>3, <2>1 DEF TopInv, TypeInv, DiskType, ObjectType, Segments
    <3> QED BY <1>3, <3>1
  <2>3. Kept(c) = {}
    BY <1>2, <1>3, <2>1, <2>2 DEF MayMoveTombstones
  <2>4. /\ disk' = WithoutFile(c) /\ CompactReturns
        /\ index' = [k \in DOMAIN index |->
                       IF index[k].seg = c
                       THEN [seg |-> c, pos |-> NewPosition(c, index[k].pos)]
                       ELSE index[k]]
        /\ UNCHANGED <<active, frame, partiallyRead, appendsDisabled>>
    BY <1>0, <1>8, <2>3 DEF Rewrite, quality
  <2>5. \A k \in DOMAIN index : index[k].seg # c
    BY <1>3 DEF LiveIn
  <2>6. DOMAIN index' = DOMAIN index /\ \A k \in DOMAIN index : index'[k] = index[k]
    BY <2>4, <2>5
  <2>7. \A t : LiveIn(t, index') = LiveIn(t, index)
    BY <2>6 DEF LiveIn
  <2> QED BY <1>6, <2>4, <2>7
<1> QED BY <1>4, <1>5, <1>7, <1>8 DEF CompactSegment

\* Together: while the files are there, a load reclaims all that it can.
LEMMA LoadsReclaim ==
  ASSUME NoFaults, Inv, CalmInv, TrimsAll, ReclaimsAll, [Next]_vars, ~Wipe
  PROVE  TrimsAll' /\ ReclaimsAll'
<1>1. /\ TypeInv /\ LinesInv /\ frame \in Frames
      /\ ~LoadFails /\ ~TrimFails /\ ~WriteFails /\ ~ProbeFails
  BY NothingFails DEF Inv, TypeInv, CallType
<1>2. ASSUME pc' # "trim" PROVE TrimsAll'
  BY <1>2 DEF TrimsAll
<1>3. ASSUME ~Reclaiming' PROVE ReclaimsAll'
  BY <1>3 DEF ReclaimsAll
<1>4. CASE LoadRead
  <2>1. pc' = "trim" /\ disk' = disk
    BY <1>4 DEF LoadRead
  <2>2. /\ partiallyRead' = {} /\ ~frame'.untrimmed
        /\ \A s \in DOMAIN disk : segmentBytes'[s] = 0 => s \in frame'.trim
    BY <1>1, <1>4, AllIsRead DEF CalmInv
  <2>3. TrimsAll'
    BY <2>1, <2>2 DEF TrimsAll
  <2> QED BY <1>3, <2>1, <2>3 DEF Reclaiming, Compacting
<1>5. CASE TrimSegment
  BY <1>3, <1>5, TrimSegmentTrims
<1>6. CASE LoadFinish \/ Reclaim
  BY <1>2, <1>6, LoadFinishLists, ReclaimTakes
<1>7. CASE LoadReturns
  <2>1. pc' \in {"idle", "lookup", "append", "return"}
    BY <1>1, <1>7 DEF LoadReturns, Frames
  <2> QED BY <1>2, <1>3, <2>1 DEF Reclaiming, Compacting
<1>8. CASE Lookup \/ ProbeOpens \/ RestoreActiveSegment \/ RestoreFails
  <2>1. pc' \in {"return", "append", "load", "idle", "restore"}
    BY <1>8 DEF Lookup, LookupWrite, LookupRead, LookupReadFails, Return, ProbeOpens,
                RestoreActiveSegment, RestoreFails, TryAgainOrThrow, Throw
  <2> QED BY <1>2, <1>3, <2>1 DEF Reclaiming, Compacting
<1>9. CASE AppendLine
  <2>1. pc' \in {"return", "write"} \/ (pc' = "compact" /\ frame'.afterCompact = "rotated")
    BY <1>1, <1>9 DEF AppendLine, NextSegment, Throw, Frames
  <2> QED BY <1>2, <1>3, <2>1 DEF Reclaiming, Compacting
<1>10. CASE AfterRotationCompact
  <2>1. pc' \in {"return", "write"}
    BY <1>10 DEF AfterRotationCompact, NextSegment, Throw
  <2> QED BY <1>2, <1>3, <2>1 DEF Reclaiming, Compacting
<1>11. CASE WriteLine
  <2>1. pc' = "return" \/ (pc' = "compact" /\ frame'.afterCompact = "return")
    BY <1>1, <1>11 DEF WriteLine, Commit, Frames
  <2> QED BY <1>2, <1>3, <2>1 DEF Reclaiming, Compacting
<1>12. CASE CompactSegment /\ frame.afterCompact = "reclaim"
  BY <1>2, <1>12, CompactionReclaims
<1>13. CASE CompactSegment /\ frame.afterCompact # "reclaim"
  <2>1. /\ Compacting /\ frame' = frame
        /\ CompactReturns \/ pc' \in {"moved", "rewrite"}
    BY <1>13 DEF CompactSegment, CompactAborts, CompactMoves, MovedRemoves, MovedRemoveFails,
                 MoveFails, Rewrite, RewriteFails, Compacting
  <2>2. pc' \in {"moved", "rewrite", "rotated", "return"}
    BY <1>13, <2>1 DEF CompactReturns, Inv, CallInv, ControlInv
  <2> QED BY <1>2, <1>3, <1>13, <2>1, <2>2 DEF Reclaiming, Compacting
<1>14. CASE Callers
  <2>1. PICK kind, k, v : Invoke(kind, k, v)
    BY <1>14 DEF Callers, setDisk, getDisk, deleteDisk, migrateLegacyEntries
  <2>2. pc' \in {"lookup", "load"}
    BY <2>1 DEF Invoke
  <2> QED BY <1>2, <1>3, <2>2 DEF Reclaiming, Compacting
<1>15. CASE Crash
  <2>1. pc' = "load"
    BY <1>15 DEF Crash, FreshObject
  <2> QED BY <1>2, <1>3, <2>1 DEF Reclaiming, Compacting
<1>16. CASE UNCHANGED vars
  <2>1. UNCHANGED <<pc, frame, disk, segmentBytes, partiallyRead, appendsDisabled, active, index>>
    BY <1>16 DEF vars, files, memory, sizes, quality, call
  <2>2. TrimsAll'
    BY <2>1 DEF TrimsAll
  <2>3. \A t : Unused(t)' <=> Unused(t)
    BY <2>1 DEF Unused
  <2>4. (Unused(frame.target)' <=> Unused(frame.target)) /\ (Compacting' <=> Compacting)
        /\ (Reclaiming' <=> Reclaiming)
    BY <2>1 DEF Unused, Compacting, Reclaiming
  <2>5. ReclaimsAll'
    BY <2>1, <2>3, <2>4 DEF ReclaimsAll
  <2> QED BY <2>2, <2>5
<1> QED BY <1>1, <1>4, <1>5, <1>6, <1>7, <1>8, <1>9, <1>10, <1>11, <1>12, <1>13, <1>14, <1>15, <1>16
        DEF Next, Step, Load, AppendLineLocked


-----------------------------------------------------------------------------
(* The directory is removed: what is still known, and how long.             *)

\* An empty directory.
LEMMA NoFiles ==
  ASSUME DiskType, DOMAIN disk = {}
  PROVE  /\ LinesInv
         /\ \A s : FileOf(s) = <<>> /\ WithoutFile(s) = disk /\ ~AllLiveFound(s)
         /\ \A s \in Segments : Count(Files, s) = 0
         /\ CompleteLength(<<>>) = 0 /\ ~IsTorn(<<>>)
<1>1. <<>> \in Seq(Lines) /\ Len(<<>>) = 0
  BY EmptySeq
<1>2. GoodFile(<<>>) /\ ~IsTorn(<<>>) /\ CompleteLength(<<>>) = 0
  BY <1>1 DEF GoodFile, CompleteLength, IsTorn
<1>3. \A s : FileOf(s) = <<>> /\ ~AllLiveFound(s)
  BY DEF FileOf, AllLiveFound
<1>4. ASSUME NEW s PROVE WithoutFile(s) = disk
  <2>1. DOMAIN WithoutFile(s) = {} /\ WithoutFile(s) = [t \in {} |-> disk[t]]
    BY DEF WithoutFile
  <2>2. disk = [t \in {} |-> disk[t]]
    BY DEF DiskType
  <2> QED BY <2>1, <2>2
<1>5. Files = [s \in Segments |-> <<>>]
  BY <1>3 DEF Files
<1>6. LinesInv
  BY <1>1, <1>2, <1>5 DEF LinesInv, GoodFiles
<1>7. \A s \in Segments : Count(Files, s) = 0
  BY <1>2, <1>5 DEF Count
<1> QED BY <1>2, <1>3, <1>4, <1>6, <1>7

\* What is known while the loss has not been noticed.
LEMMA WhenGone ==
  ASSUME NoFaults, CalmInv, GoneInv
  PROVE  /\ TypeInv /\ LinesInv /\ ControlInv /\ frame \in Frames /\ faults = 0 /\ ~Breaks
         /\ \A s : FileOf(s) = <<>> /\ WithoutFile(s) = disk /\ ~AllLiveFound(s)
         /\ CompleteLength(<<>>) = 0 /\ ~IsTorn(<<>>)
         /\ pc # "load" => loaded /\ ~directory /\ Believed /\ unreadable = {}
         /\ loaded => \A k \in DOMAIN index : /\ index[k] \in Positions
                                              /\ segmentBytes[index[k].seg] > 0
<1>1. TypeInv /\ DiskType /\ DOMAIN disk = {} /\ ControlInv /\ frame \in Frames
  BY DEF GoneInv, TypeInv, CallType
<1>2. faults = 0 /\ ~Breaks
  BY <1>1, NothingBreaks DEF CalmInv
<1>3. /\ LinesInv /\ CompleteLength(<<>>) = 0 /\ ~IsTorn(<<>>)
      /\ \A s : FileOf(s) = <<>> /\ WithoutFile(s) = disk /\ ~AllLiveFound(s)
  BY <1>1, NoFiles
<1>4. pc # "load" => loaded /\ ~directory /\ Believed /\ unreadable = {}
  BY DEF GoneInv, CalmInv
<1>5. ASSUME loaded, NEW k \in DOMAIN index
      PROVE  index[k] \in Positions /\ segmentBytes[index[k].seg] > 0
  <2>1. index[k] \in Positions /\ index[k].seg \in Segments
    BY <1>1 DEF TypeInv, ObjectType, Positions
  <2>2. PICK s \in Segments : s = index[k].seg
    BY <2>1
  <2>3. /\ IsFiniteSet(LiveIn(s, index)) /\ Cardinality(LiveIn(s, index)) <= segmentBytes[s]
        /\ segmentBytes[s] \in Nat
    BY <1>1, <1>5 DEF GoneInv, Believed, TypeInv, ObjectType
  <2>4. k \in LiveIn(s, index)
    BY <2>2 DEF LiveIn
  <2>5. Cardinality(LiveIn(s, index)) \in Nat /\ Cardinality(LiveIn(s, index)) # 0
    BY <2>3, <2>4, FS_CardinalityType, FS_EmptySet
  <2> QED BY <2>1, <2>2, <2>3, <2>5
<1> QED BY <1>1, <1>2, <1>3, <1>4, <1>5

\* Steps that change no more of the object than where it writes.
LEMMA StaysGone ==
  ASSUME GoneInv, loaded, pc # "trim", pc' \notin {"trim", "moved"},
         UNCHANGED <<disk, index, segmentBytes, segmentDeadBytes, unreadable, loaded, wipes>>,
         partiallyRead' \subseteq Segments,
         \/ UNCHANGED <<active, appendsDisabled>>
         \/ appendsDisabled' = TRUE /\ UNCHANGED active
         \/ ~appendsDisabled /\ active # MaxSegmentId /\ active' = active + 1
            /\ UNCHANGED appendsDisabled,
         directory' \in {directory, TRUE}, directory' => pc' = "load",
         CallType', ControlInv', RotationInv'
  PROVE  GoneInv'
<1>1. TypeInv /\ DOMAIN disk = {} /\ wipes # 0 /\ Believed
  BY DEF GoneInv
<1>2. active' \in Segments /\ appendsDisabled' \in BOOLEAN
  BY <1>1, SegmentsAre DEF TypeInv, ObjectType
<1>3. DiskType' /\ ObjectType'
  BY <1>1, <1>2 DEF TypeInv, DiskType, ObjectType
<1>4. Believed'
  <2>1. ASSUME ~appendsDisabled', NEW s \in Segments, segmentBytes[s] > 0 PROVE s <= active'
    <3>1. s <= active /\ s \in Nat /\ active \in Nat
      BY <1>1, <2>1 DEF Believed, TypeInv, ObjectType, Segments
    <3> QED BY <2>1, <3>1
  <2>2. \A s : LiveIn(s, index) = LiveIn(s, index')
    OBVIOUS
  <2> QED BY <1>1, <2>1, <2>2 DEF Believed
<1> QED BY <1>1, <1>3, <1>4 DEF GoneInv, TypeInv

\* The segment above the active one is believed to be empty.
LEMMA NextIsUnused ==
  ASSUME TypeInv, Believed, pc # "trim", ~appendsDisabled, active # MaxSegmentId
  PROVE  /\ [segmentBytes EXCEPT ![active + 1] = 0] = segmentBytes
         /\ [segmentDeadBytes EXCEPT ![active + 1] = 0] = segmentDeadBytes
<1>1. /\ active \in Nat /\ active + 1 \in Segments
      /\ segmentBytes \in [Segments -> Nat] /\ segmentDeadBytes \in [Segments -> Nat]
  BY SegmentsAre DEF TypeInv, ObjectType, Segments
<1>2. segmentBytes[active + 1] = 0
  <2>1. segmentBytes[active + 1] > 0 => active + 1 <= active
    BY <1>1 DEF Believed
  <2> QED BY <1>1, <2>1
<1>3. segmentDeadBytes[active + 1] = 0
  <2>1. segmentDeadBytes[active + 1] <= segmentBytes[active + 1]
    BY <1>1 DEF Believed
  <2> QED BY <1>1, <1>2, <2>1
<1> QED BY <1>1, <1>2, <1>3


\* A load finds the empty directory.
LEMMA GoneIsRead ==
  ASSUME NoFaults, CalmInv, GoneInv, LoadRead
  PROVE  Inv' /\ TrimsAll' /\ ReclaimsAll'
<1>1. TypeInv /\ LinesInv /\ ControlInv /\ faults = 0
  BY WhenGone
<1>2. Inv'
  BY <1>1, LoadReadKeeps
<1>3. pc' = "trim" /\ disk' = disk
  BY DEF LoadRead
<1>4. /\ partiallyRead' = {} /\ ~frame'.untrimmed
      /\ \A s \in DOMAIN disk : segmentBytes'[s] = 0 => s \in frame'.trim
  BY <1>1, AllIsRead
<1>5. TrimsAll'
  BY <1>3, <1>4 DEF TrimsAll
<1> QED BY <1>2, <1>3, <1>5 DEF ReclaimsAll, Reclaiming, Compacting

\* A load that had read the files goes on without them.
LEMMA GoneTrims ==
  ASSUME NoFaults, CalmInv, GoneInv, TrimSegment \/ TrimFails
  PROVE  GoneInv'
<1>0. PICK s : s = Min(frame.trim)
  OBVIOUS
<1>1. /\ TypeInv /\ ControlInv /\ Believed /\ frame \in Frames /\ ~directory /\ ~Breaks /\ loaded
      /\ DOMAIN disk = {} /\ wipes # 0 /\ pc = "trim" /\ pc' = "trim"
      /\ \A t : WithoutFile(t) = disk
  BY WhenGone DEF TrimSegment, TrimFails, GoneInv
<1>2. s \in Segments /\ segmentBytes[s] \in Nat
  <2>1. frame.trim \in SUBSET Segments /\ frame.trim # {}
    BY <1>1 DEF TrimSegment, TrimFails, Frames
  <2> QED BY <1>0, <1>1, <2>1, SegmentsAre DEF TypeInv, ObjectType
<1>3. /\ UNCHANGED <<disk, directory, index, segmentBytes, segmentDeadBytes, unreadable,
                     appendsDisabled, loaded, op, out, applied, troubled, faults, restarts, wipes>>
      /\ partiallyRead' = partiallyRead \/ partiallyRead' = partiallyRead \cup {s}
      /\ active' = active \/ active' = Max({active, s})
      /\ \/ frame' = [frame EXCEPT !.trim = @ \ {s}]
         \/ frame' = [frame EXCEPT !.trim = @ \ {s}, !.untrimmed = TRUE]
  <2>1. CASE TrimSegment
    BY <1>0, <1>1, <2>1 DEF TrimSegment, memory, sizes, quality, Works, trouble, counters
  <2>2. CASE TrimFails
    <3>1. segmentBytes[s] > 0 /\ Works
      BY <1>0, <1>1, <2>2 DEF TrimFails
    <3> QED BY <1>0, <1>1, <2>2, <3>1 DEF TrimFails, files, sizes, Works, trouble, counters
  <2> QED BY <2>1, <2>2
<1>4. active' \in Segments /\ active <= active'
  <2>1. {active, s} \in SUBSET Segments /\ {active, s} # {} /\ active \in Nat
    BY <1>1, <1>2, SegmentsAre DEF TypeInv, ObjectType
  <2>2. Max({active, s}) \in {active, s} /\ \A x \in {active, s} : x <= Max({active, s})
    BY <2>1, SegmentsAre
  <2> QED BY <1>3, <2>1, <2>2
<1>5. /\ frame' \in Frames /\ frame'.highest = frame.highest /\ frame'.afterLoad = frame.afterLoad
  BY <1>1, <1>3 DEF Frames
<1>6. DiskType' /\ ObjectType'
  BY <1>1, <1>2, <1>3, <1>4 DEF TypeInv, DiskType, ObjectType
<1>7. CallType'
  BY <1>1, <1>3, <1>5 DEF TypeInv, CallType, CallOK
<1>8. ControlInv' /\ RotationInv'
  BY <1>1, <1>3, <1>5
     DEF ControlInv, AfterLoadInv, Loading, Appending, Answering, Compacting, RotationInv
<1>9. Believed'
  <2>1. ASSUME NEW t \in Segments, segmentBytes[t] > 0 PROVE t <= active'
    <3>1. t <= active /\ t \in Nat /\ active \in Nat /\ active' \in Nat
      BY <1>1, <1>4, <2>1 DEF Believed, TypeInv, ObjectType, Segments
    <3> QED BY <1>4, <3>1
  <2> QED BY <1>1, <1>3, <1>5, <2>1 DEF Believed
<1> QED BY <1>1, <1>3, <1>6, <1>7, <1>8, <1>9 DEF GoneInv, TypeInv

\* Nor does its end show that they are gone.
LEMMA GoneFinishes ==
  ASSUME NoFaults, CalmInv, GoneInv, LoadFinish
  PROVE  GoneInv'
<1> DEFINE dead == [s \in Segments |->
                      Max({0, segmentBytes[s] - Cardinality(LiveIn(s, index))})]
<1>1. /\ TypeInv /\ ControlInv /\ Believed /\ frame \in Frames /\ ~directory /\ loaded
      /\ DOMAIN disk = {} /\ wipes # 0 /\ pc = "trim" /\ pc' = "reclaim" /\ unreadable = {}
      /\ segmentDeadBytes' = dead
      /\ UNCHANGED <<disk, directory, index, segmentBytes, unreadable, partiallyRead, loaded,
                     op, out, applied, troubled, faults, restarts, wipes>>
  BY WhenGone DEF LoadFinish, GoneInv, files, trouble, counters
<1>2. /\ active \in Segments /\ frame.highest \in Segments /\ frame.untrimmed \in BOOLEAN
      /\ ~UnreadableOnTop
  BY <1>1 DEF TypeInv, ObjectType, Frames, UnreadableOnTop
<1>3. \/ /\ ~frame.untrimmed /\ active' = active /\ appendsDisabled' = FALSE
      \/ /\ frame.untrimmed /\ frame.highest < MaxSegmentId
         /\ active' = frame.highest + 1 /\ appendsDisabled' = FALSE
      \/ /\ frame.untrimmed /\ ~(frame.highest < MaxSegmentId)
         /\ active' = frame.highest /\ appendsDisabled' = TRUE
  <2>1. CASE ~frame.untrimmed
    BY <1>2, <2>1 DEF LoadFinish
  <2>2. CASE frame.untrimmed
    <3>1. /\ active' = IF frame.highest < MaxSegmentId THEN frame.highest + 1 ELSE frame.highest
          /\ appendsDisabled' = (frame.highest = MaxSegmentId)
      BY <2>2 DEF LoadFinish
    <3>2. frame.highest < MaxSegmentId <=> frame.highest # MaxSegmentId
      BY <1>2, SegmentStoreAssumption DEF Segments
    <3> QED BY <2>2, <3>1, <3>2
  <2> QED BY <2>1, <2>2
<1>4. active' \in Segments /\ appendsDisabled' \in BOOLEAN
  <2>1. frame.highest < MaxSegmentId => frame.highest + 1 \in Segments
    BY <1>2, SegmentStoreAssumption DEF Segments
  <2>2. active' \in Segments
    BY <1>2, <1>3, <2>1
  <2>3. appendsDisabled' \in BOOLEAN
    BY <1>3
  <2> QED BY <2>2, <2>3
<1>5. ASSUME ~appendsDisabled', NEW s \in Segments, segmentBytes[s] > 0 PROVE s <= active'
  <2>1. s <= active /\ s <= frame.highest
    BY <1>1, <1>5 DEF Believed
  <2>2. s \in Nat /\ frame.highest \in Nat
    BY <1>2 DEF Segments
  <2> QED BY <1>3, <1>5, <2>1, <2>2
<1>6. ASSUME NEW s \in Segments PROVE dead[s] \in Nat /\ dead[s] <= segmentBytes[s]
  <2>1. /\ Cardinality(LiveIn(s, index)) \in Nat /\ segmentBytes[s] \in Nat
        /\ Cardinality(LiveIn(s, index)) <= segmentBytes[s]
    BY <1>1, FS_CardinalityType DEF Believed, TypeInv, ObjectType
  <2>2. PICK x : x = segmentBytes[s] - Cardinality(LiveIn(s, index))
    OBVIOUS
  <2>3. x \in Nat /\ x <= segmentBytes[s]
    BY <2>1, <2>2
  <2>4. {0, x} \in SUBSET Nat /\ {0, x} # {} /\ \A y \in {0, x} : y <= x
    BY <2>3
  <2>5. Max({0, x}) \in {0, x}
    BY <2>3, <2>4, MaxIs
  <2>6. dead[s] = Max({0, x})
    BY <2>2
  <2> HIDE DEF dead
  <2> QED BY <2>1, <2>3, <2>5, <2>6
<1>7. dead \in [Segments -> Nat]
  <2>1. dead = [s \in Segments |-> dead[s]]
    OBVIOUS
  <2> HIDE DEF dead
  <2> QED BY <1>6, <2>1
<1>8. frame' \in Frames /\ frame'.afterLoad = frame.afterLoad
  <2>1. PICK R \in SUBSET Segments : frame' = [frame EXCEPT !.reclaim = R]
    BY DEF LoadFinish
  <2> QED BY <1>1, <2>1 DEF Frames
<1> HIDE DEF dead
<1>9. DiskType' /\ ObjectType'
  BY <1>1, <1>4, <1>7 DEF TypeInv, DiskType, ObjectType
<1>10. CallType'
  BY <1>1, <1>8 DEF TypeInv, CallType, CallOK
<1>11. ControlInv' /\ RotationInv'
  BY <1>1, <1>8
     DEF ControlInv, AfterLoadInv, Loading, Appending, Answering, Compacting, RotationInv
<1>12. Believed'
  BY <1>1, <1>5, <1>6 DEF Believed
<1> QED BY <1>1, <1>9, <1>10, <1>11, <1>12 DEF GoneInv, TypeInv

\* Candidates are taken, but no compaction finds its segment.
LEMMA GoneCompacts ==
  ASSUME NoFaults, CalmInv, GoneInv, Reclaim \/ LoadReturns \/ CompactSegment
  PROVE  GoneInv'
<1>1. /\ TypeInv /\ ControlInv /\ RotationInv /\ Believed /\ frame \in Frames /\ ~directory
      /\ ~Breaks /\ loaded /\ DOMAIN disk = {} /\ wipes # 0 /\ ~AllLiveFound(frame.target)
      /\ \A t : WithoutFile(t) = disk
      /\ pc \in {"reclaim", "compact", "moved"}
  <2>1. pc \in {"reclaim", "compact", "moved", "rewrite"}
    BY DEF Reclaim, LoadReturns, CompactSegment, CompactAborts, CompactMoves, MovedRemoves,
           MovedRemoveFails, MoveFails, Rewrite, RewriteFails
  <2> QED BY <2>1, WhenGone DEF GoneInv, CalmInv
<1>2. partiallyRead \subseteq Segments
  BY <1>1 DEF TypeInv, ObjectType
<1>3. CASE Reclaim
  <2>1. /\ pc = "reclaim" /\ pc' = "compact" /\ frame.reclaim # {}
        /\ frame' = [frame EXCEPT !.reclaim = @ \ {Min(frame.reclaim)},
                                  !.target = Min(frame.reclaim), !.afterCompact = "reclaim"]
        /\ UNCHANGED <<disk, directory, index, segmentBytes, segmentDeadBytes, unreadable,
                       partiallyRead, active, appendsDisabled, loaded,
                       op, out, applied, troubled, faults, restarts, wipes>>
    BY <1>3 DEF Reclaim, files, memory, sizes, quality, trouble, counters
  <2>2. Min(frame.reclaim) \in Segments
    <3>1. frame.reclaim \in SUBSET Segments
      BY <1>1 DEF Frames
    <3> QED BY <2>1, <3>1, SegmentsAre
  <2>3. frame' \in Frames /\ frame'.afterLoad = frame.afterLoad /\ frame'.afterCompact = "reclaim"
    BY <1>1, <2>1, <2>2 DEF Frames
  <2>4. CallType'
    BY <1>1, <2>1, <2>3 DEF TypeInv, CallType, CallOK
  <2>5. ControlInv' /\ RotationInv'
    BY <1>1, <2>1, <2>3
       DEF ControlInv, AfterLoadInv, Loading, Appending, Answering, Compacting, RotationInv
  <2> QED BY <1>1, <1>2, <2>1, <2>4, <2>5, StaysGone
<1>4. CASE LoadReturns
  <2>1. /\ pc = "reclaim" /\ pc' = frame.afterLoad
        /\ frame' = [frame EXCEPT !.trim = {}, !.untrimmed = FALSE, !.highest = 0,
                                  !.target = 0, !.afterCompact = "", !.afterLoad = "idle"]
        /\ UNCHANGED <<disk, directory, index, segmentBytes, segmentDeadBytes, unreadable,
                       partiallyRead, active, appendsDisabled, loaded,
                       op, out, applied, troubled, faults, restarts, wipes>>
    BY <1>4 DEF LoadReturns, files, memory, sizes, quality, trouble, counters
  <2>2. /\ pc' \in {"idle", "lookup", "append", "return"} /\ (pc' = "idle" <=> op = NoOp)
        /\ pc' = "append" => op.kind # "get"
        /\ op = NoOp \/ op \in Ops
    BY <1>1, <2>1 DEF TypeInv, CallType, CallOK, ControlInv, AfterLoadInv, Loading
  <2>3. frame' \in Frames
    BY <1>1, <2>1, SegmentsAre DEF Frames
  <2>4. CallType'
    BY <1>1, <2>1, <2>2, <2>3 DEF TypeInv, CallType, CallOK
  <2>5. ControlInv' /\ RotationInv'
    BY <1>1, <2>1, <2>2
       DEF ControlInv, AfterLoadInv, Loading, Appending, Answering, Compacting, RotationInv
  <2> QED BY <1>1, <1>2, <2>1, <2>2, <2>4, <2>5, StaysGone
<1>5. ASSUME CompactSegment
      PROVE  /\ pc \in {"compact", "moved"} /\ pc' = frame.afterCompact
             /\ UNCHANGED <<disk, directory, index, unreadable, partiallyRead, active,
                            appendsDisabled, loaded, op, frame, out, applied, troubled, faults,
                            restarts, wipes>>
             /\ \/ UNCHANGED <<segmentBytes, segmentDeadBytes>>
                \/ /\ pc = "moved"
                   /\ segmentBytes' = [segmentBytes EXCEPT ![frame.target] = 0]
                   /\ segmentDeadBytes' = [segmentDeadBytes EXCEPT ![frame.target] = 0]
  <2>1. CompactAborts \/ MovedRemoves
    BY <1>1, <1>5 DEF CompactSegment, CompactMoves, MovedRemoveFails, MoveFails, Rewrite, RewriteFails
  <2>2. CASE CompactAborts
    BY <1>1, <2>2 DEF CompactAborts, CompactReturns, files, memory, sizes, quality, Works, trouble,
                      counters
  <2>3. CASE MovedRemoves
    BY <1>1, <2>3 DEF MovedRemoves, CompactReturns, quality, Works, trouble, counters
  <2> QED BY <2>1, <2>2, <2>3
<1>6. CASE CompactSegment
  <2>1. pc' \in {"reclaim", "rotated", "return"} /\ Compacting
    BY <1>1, <1>5, <1>6 DEF ControlInv, Compacting
  <2>2. CallType'
    BY <1>1, <1>5, <1>6, <2>1 DEF TypeInv, CallType, CallOK
  <2>3. ControlInv' /\ RotationInv'
    BY <1>1, <1>5, <1>6, <2>1
       DEF ControlInv, AfterLoadInv, Loading, Appending, Answering, Compacting, RotationInv
  <2>4. CASE UNCHANGED <<segmentBytes, segmentDeadBytes>>
    BY <1>1, <1>2, <1>5, <1>6, <2>1, <2>2, <2>3, <2>4, StaysGone
  <2>5. CASE /\ pc = "moved"
             /\ segmentBytes' = [segmentBytes EXCEPT ![frame.target] = 0]
             /\ segmentDeadBytes' = [segmentDeadBytes EXCEPT ![frame.target] = 0]
    <3>0. PICK c : c = frame.target
      OBVIOUS
    <3>1. c \in Segments /\ LiveIn(c, index) = {}
      BY <1>1, <2>5, <3>0 DEF Frames, Believed
    <3>2. /\ segmentBytes \in [Segments -> Nat] /\ segmentDeadBytes \in [Segments -> Nat]
          /\ segmentBytes'[c] = 0 /\ segmentDeadBytes'[c] = 0
          /\ segmentBytes' \in [Segments -> Nat] /\ segmentDeadBytes' \in [Segments -> Nat]
          /\ \A s \in Segments : s # c => /\ segmentBytes'[s] = segmentBytes[s]
                                          /\ segmentDeadBytes'[s] = segmentDeadBytes[s]
      BY <1>1, <2>5, <3>0, <3>1 DEF TypeInv, ObjectType
    <3>3. DiskType' /\ ObjectType'
      BY <1>1, <1>5, <1>6, <3>2 DEF TypeInv, DiskType, ObjectType
    <3>4. ASSUME NEW s \in Segments
          PROVE  /\ IsFiniteSet(LiveIn(s, index))
                 /\ Cardinality(LiveIn(s, index)) <= segmentBytes'[s]
                 /\ segmentDeadBytes'[s] <= segmentBytes'[s]
                 /\ segmentBytes'[s] > 0 => segmentBytes[s] > 0
      <4>1. CASE s = c
        <5>1. Cardinality(LiveIn(s, index)) = 0 /\ IsFiniteSet(LiveIn(s, index))
          BY <3>1, <4>1, FS_EmptySet
        <5>2. segmentBytes'[s] = 0 /\ segmentDeadBytes'[s] = 0
          BY <3>2, <4>1
        <5> QED BY <5>1, <5>2
      <4>2. CASE s # c
        BY <1>1, <2>5, <3>2, <4>2 DEF Believed
      <4> QED BY <4>1, <4>2
    <3>5. Believed'
      <4>1. ~appendsDisabled => \A s \in Segments : segmentBytes[s] > 0 => s <= active
        BY <1>1 DEF Believed
      <4> QED BY <1>5, <1>6, <2>1, <3>4, <4>1 DEF Believed
    <3> QED BY <1>1, <1>5, <1>6, <2>2, <2>3, <3>3, <3>5 DEF GoneInv, TypeInv
  <2> QED BY <1>5, <1>6, <2>4, <2>5
<1> QED BY <1>3, <1>4, <1>6


\* A lookup of a key that is indexed notices the loss, another one does not.
LEMMA GoneLooksUp ==
  ASSUME NoFaults, CalmInv, GoneInv, Lookup
  PROVE  GoneInv'
<1>1. /\ TypeInv /\ ControlInv /\ RotationInv /\ frame \in Frames /\ ~directory
      /\ ~Breaks /\ loaded /\ DOMAIN disk = {} /\ wipes # 0 /\ FileOf(index[op.key].seg) = <<>>
      /\ \A k \in DOMAIN index : index[k] \in Positions /\ segmentBytes[index[k].seg] > 0
      /\ pc \in {"lookup", "return"} /\ partiallyRead \subseteq Segments
  <2>1. pc \in {"lookup", "return"}
    BY DEF Lookup, LookupWrite, LookupRead, LookupReadFails, Return
  <2> QED BY <2>1, WhenGone DEF GoneInv, TypeInv, ObjectType
<1>2. op \in Ops /\ op # NoOp
  BY <1>1, OpsAre DEF ControlInv, Answering
<1>3. CASE LookupWrite
  <2>1. /\ pc' \in {"return", "append"} /\ out' \in {out, "threw"}
        /\ pc' = "append" => op.kind # "get" /\ ~appendsDisabled
        /\ UNCHANGED <<disk, directory, index, segmentBytes, segmentDeadBytes, unreadable,
                       partiallyRead, active, appendsDisabled, loaded,
                       op, frame, applied, troubled, faults, restarts, wipes>>
    BY <1>3 DEF LookupWrite, files, memory, sizes, quality, trouble, counters
  <2>2. CallType'
    BY <1>1, <2>1 DEF TypeInv, CallType, CallOK
  <2>3. ControlInv' /\ RotationInv'
    BY <1>1, <1>2, <2>1
       DEF ControlInv, AfterLoadInv, Loading, Appending, Answering, Compacting, RotationInv
  <2> QED BY <1>1, <2>1, <2>2, <2>3, StaysGone
<1>4. CASE LookupRead
  <2>1. op.key \notin DOMAIN index
    <3> SUFFICES ASSUME op.key \in DOMAIN index PROVE FALSE
      OBVIOUS
    <3>1. index[op.key].pos <= Len(<<>>) /\ index[op.key] \in Positions
      BY <1>1, <1>4 DEF LookupRead
    <3>2. Len(<<>>) = 0
      OBVIOUS
    <3> QED BY <3>1, <3>2 DEF Positions
  <2>2. /\ pc = "lookup" /\ pc' = "return" /\ out' = None
        /\ UNCHANGED <<disk, directory, index, segmentBytes, segmentDeadBytes, unreadable,
                       partiallyRead, active, appendsDisabled, loaded,
                       op, frame, applied, troubled, faults, restarts, wipes>>
    BY <1>4, <2>1 DEF LookupRead, files, memory, sizes, quality, trouble, counters
  <2>3. CallType'
    BY <1>1, <2>2 DEF TypeInv, CallType, CallOK
  <2>4. ControlInv' /\ RotationInv'
    BY <1>1, <1>2, <2>2
       DEF ControlInv, AfterLoadInv, Loading, Appending, Answering, Compacting, RotationInv
  <2> QED BY <1>1, <2>2, <2>3, <2>4, StaysGone
<1>5. CASE LookupReadFails
  <2>1. MustReload
    <3>1. /\ index[op.key].seg \in Segments /\ segmentBytes[index[op.key].seg] > 0
          /\ index[op.key].seg \notin DOMAIN disk
      BY <1>1, <1>5 DEF LookupReadFails, Positions
    <3> QED BY <3>1 DEF MustReload, HasMissingSegment
  <2>2. /\ pc = "lookup" /\ pc' = "load" /\ out' = None /\ directory' = TRUE
        /\ frame' = [frame EXCEPT !.afterLoad = "return"]
        /\ UNCHANGED <<disk, index, segmentBytes, segmentDeadBytes, unreadable,
                       partiallyRead, active, appendsDisabled, loaded,
                       op, applied, troubled, faults, restarts, wipes>>
    BY <1>1, <1>5, <2>1 DEF LookupReadFails, memory, sizes, quality, Works, trouble, counters
  <2>3. frame' \in Frames /\ frame'.afterLoad = "return"
    BY <1>1, <2>2 DEF Frames
  <2>4. CallType'
    BY <1>1, <2>2, <2>3 DEF TypeInv, CallType, CallOK
  <2>5. ControlInv' /\ RotationInv'
    BY <1>1, <1>2, <2>2, <2>3
       DEF ControlInv, AfterLoadInv, Loading, Appending, Answering, Compacting, RotationInv
  <2> QED BY <1>1, <2>2, <2>4, <2>5, StaysGone
<1>6. CASE Return
  <2>1. /\ pc = "return" /\ pc' = "idle" /\ op' = NoOp /\ frame' = NoLocals /\ out' = "ok"
        /\ applied' = FALSE /\ troubled' = FALSE
        /\ UNCHANGED <<disk, directory, index, segmentBytes, segmentDeadBytes, unreadable,
                       partiallyRead, active, appendsDisabled, loaded, faults, restarts, wipes>>
    BY <1>6 DEF Return, files, memory, sizes, quality, counters
  <2>2. NoLocals \in Frames
    BY FreshObjectIs
  <2>3. CallType'
    BY <1>1, <2>1, <2>2 DEF TypeInv, CallType, CallOK
  <2>4. ControlInv' /\ RotationInv'
    BY <1>1, <2>1
       DEF ControlInv, AfterLoadInv, Loading, Appending, Answering, Compacting, RotationInv, NoOp
  <2> QED BY <1>1, <2>1, <2>3, <2>4, StaysGone
<1> QED BY <1>3, <1>4, <1>5, <1>6 DEF Lookup

\* A call begins as if nothing had happened.
LEMMA GoneInvokes ==
  ASSUME NoFaults, CalmInv, GoneInv, Callers
  PROVE  GoneInv'
<1>1. PICK kind \in {"set", "get", "delete", "migrate"}, k \in Keys, v \in Values \cup {None} :
        Invoke(kind, k, v) /\ (kind \in {"set", "migrate"} => v \in Values)
  BY DEF Callers, setDisk, getDisk, deleteDisk, migrateLegacyEntries
<1>2. /\ TypeInv /\ ControlInv /\ ~directory /\ loaded /\ DOMAIN disk = {} /\ wipes # 0
      /\ pc = "idle" /\ partiallyRead \subseteq Segments
  <2>1. pc = "idle"
    BY <1>1 DEF Invoke
  <2> QED BY <2>1, WhenGone DEF GoneInv, TypeInv, ObjectType
<1>3. /\ pc' = "lookup" /\ out' = "ok" /\ applied' = FALSE
      /\ op' = [kind |-> kind, key |-> k, value |-> v]
      /\ frame' = [NoLocals EXCEPT !.afterLoad = "idle"]
      /\ UNCHANGED <<disk, directory, index, segmentBytes, segmentDeadBytes, unreadable,
                     partiallyRead, active, appendsDisabled, loaded,
                     troubled, faults, restarts, wipes>>
  BY <1>1, <1>2 DEF Invoke, files, memory, sizes, quality, trouble, counters
<1>4. op' \in Ops /\ op'.kind = kind /\ op'.value = v
  BY <1>3 DEF Ops
<1>5. frame' \in Frames
  BY <1>3, SegmentsAre DEF Frames, NoLocals
<1>6. CallType'
  BY <1>2, <1>3, <1>4, <1>5 DEF TypeInv, CallType, CallOK
<1>7. ControlInv' /\ RotationInv'
  BY <1>1, <1>2, <1>3, <1>4
     DEF ControlInv, AfterLoadInv, Loading, Appending, Answering, Compacting, RotationInv
<1> QED BY <1>2, <1>3, <1>6, <1>7, StaysGone

\* A segment is chosen for the next line, but it cannot be written.
LEMMA GoneAppends ==
  ASSUME NoFaults, CalmInv, GoneInv, AppendLine \/ AfterRotationCompact \/ WriteFails
  PROVE  GoneInv'
<1>1. /\ TypeInv /\ ControlInv /\ RotationInv /\ Believed /\ frame \in Frames /\ ~directory
      /\ ~Breaks /\ loaded /\ DOMAIN disk = {} /\ wipes # 0 /\ unreadable = {}
      /\ pc \in {"append", "rotated", "write"}
      /\ active \in Segments /\ partiallyRead \subseteq Segments /\ ~IsTorn(<<>>)
  <2>1. pc \in {"append", "rotated", "write"}
    BY DEF AppendLine, AfterRotationCompact, WriteFails
  <2> QED BY <2>1, WhenGone DEF GoneInv, TypeInv, ObjectType
<1>2. op \in Ops /\ op.kind # "get" /\ (appendsDisabled => pc = "append")
  BY <1>1 DEF ControlInv, Appending
<1>3. CASE WriteFails
  <2>1. /\ pc = "write" /\ pc' = "probe"
        /\ UNCHANGED <<disk, directory, index, segmentBytes, segmentDeadBytes, unreadable,
                       partiallyRead, active, appendsDisabled, loaded,
                       op, frame, out, applied, troubled, faults, restarts, wipes>>
    BY <1>1, <1>3 DEF WriteFails, memory, sizes, quality, Works, trouble, counters
  <2>2. CallType'
    BY <1>1, <2>1 DEF TypeInv, CallType, CallOK
  <2>3. ControlInv'
    BY <1>1, <1>2, <2>1 DEF ControlInv, AfterLoadInv, Loading, Appending, Answering, Compacting
  <2>4. RotationInv'
    BY <1>1, <2>1 DEF RotationInv, Compacting, FileOf
  <2> QED BY <1>1, <2>1, <2>2, <2>3, <2>4, StaysGone
<1>4. ASSUME NextSegment, ~appendsDisabled
      PROVE  /\ UNCHANGED <<segmentBytes, segmentDeadBytes>>
             /\ \/ /\ appendsDisabled' = TRUE /\ UNCHANGED active
                   /\ pc' = "return" /\ out' = "threw"
                \/ /\ active # MaxSegmentId /\ active' = active + 1 /\ UNCHANGED appendsDisabled
                   /\ pc' = "write" /\ out' = out
  <2>1. CASE active = MaxSegmentId
    BY <1>4, <2>1 DEF NextSegment, Throw, sizes
  <2>2. CASE active # MaxSegmentId
    <3>1. pc # "trim"
      BY <1>1
    <3> QED BY <1>1, <1>4, <2>2, <3>1, NextIsUnused DEF NextSegment
  <2> QED BY <2>1, <2>2
<1>5. CASE AppendLine /\ appendsDisabled
  <2>1. /\ pc = "append" /\ pc' = "return" /\ out' = "threw"
        /\ UNCHANGED <<disk, directory, index, segmentBytes, segmentDeadBytes, unreadable,
                       partiallyRead, active, appendsDisabled, loaded,
                       op, frame, applied, troubled, faults, restarts, wipes>>
    BY <1>5 DEF AppendLine, Throw, files, sizes, trouble, counters
  <2>2. CallType'
    BY <1>1, <2>1 DEF TypeInv, CallType, CallOK
  <2>3. ControlInv' /\ RotationInv'
    BY <1>1, <1>2, <2>1
       DEF ControlInv, AfterLoadInv, Loading, Appending, Answering, Compacting, RotationInv
  <2> QED BY <1>1, <2>1, <2>2, <2>3, StaysGone
<1>6. CASE (AppendLine \/ AfterRotationCompact) /\ ~appendsDisabled
  <2>1. /\ UNCHANGED <<disk, directory, index, unreadable, partiallyRead, loaded,
                       op, applied, troubled, faults, restarts, wipes>>
    BY <1>6 DEF AppendLine, AfterRotationCompact, files, trouble, counters
  <2>2. /\ UNCHANGED <<segmentBytes, segmentDeadBytes>>
        /\ \/ /\ UNCHANGED <<active, appendsDisabled>>
              /\ pc' \in {"write", "compact"} /\ out' = out
           \/ /\ appendsDisabled' = TRUE /\ UNCHANGED active
              /\ pc' = "return" /\ out' = "threw"
           \/ /\ active # MaxSegmentId /\ active' = active + 1 /\ UNCHANGED appendsDisabled
              /\ pc' = "write" /\ out' = out
    <3>1. CASE NextSegment
      BY <1>4, <1>6, <3>1
    <3>2. CASE ~NextSegment
      BY <1>6, <3>2 DEF AppendLine, AfterRotationCompact, sizes
    <3> QED BY <3>1, <3>2
  <2>3. /\ frame' \in Frames /\ frame'.before = active
        /\ pc' = "compact" => frame'.afterCompact = "rotated"
    <3>1. CASE AppendLine
      <4>1. \/ frame' = [frame EXCEPT !.before = active] /\ pc' # "compact"
            \/ frame' = [frame EXCEPT !.before = active, !.target = active,
                                      !.afterCompact = "rotated"]
        BY <1>4, <1>6, <3>1 DEF AppendLine
      <4> QED BY <1>1, <3>1, <4>1 DEF Frames
    <3>2. CASE AfterRotationCompact
      <4>1. frame' = frame /\ pc = "rotated" /\ pc' # "compact"
        BY <1>4, <1>6, <3>2 DEF AfterRotationCompact
      <4>2. frame.before = active
        BY <1>1, <4>1 DEF RotationInv
      <4> QED BY <1>1, <4>1, <4>2
    <3> QED BY <1>6, <3>1, <3>2
  <2>4. CallType'
    BY <1>1, <2>1, <2>2, <2>3 DEF TypeInv, CallType, CallOK
  <2>5. ControlInv'
    BY <1>1, <1>2, <1>6, <2>1, <2>2, <2>3
       DEF ControlInv, AfterLoadInv, Loading, Appending, Answering, Compacting
  <2>6. RotationInv'
    BY <1>1, <2>1, <2>2, <2>3 DEF RotationInv, Compacting, FileOf
  <2>7. /\ pc' \notin {"trim", "moved"} /\ pc # "trim"
        /\ \/ UNCHANGED <<active, appendsDisabled>>
           \/ appendsDisabled' = TRUE /\ UNCHANGED active
           \/ ~appendsDisabled /\ active # MaxSegmentId /\ active' = active + 1
              /\ UNCHANGED appendsDisabled
    BY <1>1, <1>6, <2>2
  <2> QED BY <1>1, <2>1, <2>2, <2>4, <2>5, <2>6, <2>7, StaysGone
<1> QED BY <1>2, <1>3, <1>5, <1>6 DEF AfterRotationCompact


\* What is restored is an empty segment; one that should not be empty is given up.
LEMMA GoneRestores ==
  ASSUME NoFaults, CalmInv, GoneInv, RestoreActiveSegment \/ RestoreFails
  PROVE  GoneInv'
<1>1. /\ TypeInv /\ ControlInv /\ RotationInv /\ Believed /\ frame \in Frames /\ ~directory
      /\ ~Breaks /\ loaded /\ DOMAIN disk = {} /\ wipes # 0
      /\ \A s : FileOf(s) = <<>> /\ WithoutFile(s) = disk
      /\ CompleteLength(<<>>) = 0 /\ pc = "restore"
      /\ active \in Segments /\ partiallyRead \subseteq Segments
      /\ segmentBytes \in [Segments -> Nat] /\ segmentDeadBytes \in [Segments -> Nat]
  <2>1. pc = "restore"
    BY DEF RestoreActiveSegment, RestoreFails
  <2> QED BY <2>1, WhenGone DEF GoneInv, TypeInv, ObjectType
<1>2. op \in Ops /\ op.kind # "get" /\ ~appendsDisabled
  BY <1>1 DEF ControlInv, Appending
<1>3. segmentBytes[active] \in Nat /\ FileOf(active) = <<>>
  BY <1>1
<1>4. CASE RestoreFails
  <2>1. Abandon /\ Throw /\ Works
    BY <1>1, <1>4 DEF RestoreFails
  <2>2. /\ UNCHANGED <<segmentBytes, segmentDeadBytes>>
        /\ partiallyRead' = partiallyRead \cup {active}
        /\ \/ appendsDisabled' = TRUE /\ UNCHANGED active
           \/ ~appendsDisabled /\ active # MaxSegmentId /\ active' = active + 1
              /\ UNCHANGED appendsDisabled
    <3>1. CASE active = MaxSegmentId
      BY <2>1, <3>1 DEF Abandon, sizes
    <3>2. CASE active # MaxSegmentId
      <4>1. pc # "trim"
        BY <1>1
      <4> QED BY <1>1, <1>2, <2>1, <3>2, <4>1, NextIsUnused DEF Abandon
    <3> QED BY <3>1, <3>2
  <2>3. /\ pc' = "return" /\ out' = "threw"
        /\ UNCHANGED <<disk, directory, index, unreadable, loaded, op, frame, applied,
                       troubled, faults, restarts, wipes>>
    BY <1>4, <2>1 DEF RestoreFails, Throw, Works, files, trouble, counters
  <2>4. CallType'
    BY <1>1, <2>3 DEF TypeInv, CallType, CallOK
  <2>5. ControlInv' /\ RotationInv'
    BY <1>1, <1>2, <2>3
       DEF ControlInv, AfterLoadInv, Loading, Appending, Answering, Compacting, RotationInv
  <2>6. partiallyRead' \subseteq Segments
    BY <1>1, <2>2
  <2> QED BY <1>1, <2>2, <2>3, <2>4, <2>5, <2>6, StaysGone
<1>5. CASE RestoreActiveSegment
  <2>1. segmentBytes[active] = 0
    BY <1>1, <1>3, <1>5 DEF RestoreActiveSegment
  <2>2. segmentDeadBytes[active] = 0
    <3>1. segmentDeadBytes[active] <= segmentBytes[active] /\ segmentDeadBytes[active] \in Nat
      BY <1>1 DEF Believed
    <3> QED BY <2>1, <3>1
  <2>3. /\ active' = frame.before /\ disk' = disk /\ TryAgainOrThrow
        /\ UNCHANGED <<directory, index, unreadable, partiallyRead, appendsDisabled, loaded,
                       op, applied, troubled, faults, restarts, wipes>>
    BY <1>1, <1>5, <2>1 DEF RestoreActiveSegment, quality, Works, trouble, counters
  <2>4. UNCHANGED <<segmentBytes, segmentDeadBytes>>
    <3>1. /\ [segmentBytes EXCEPT ![active] = 0] = segmentBytes
          /\ [segmentDeadBytes EXCEPT ![active] = 0] = segmentDeadBytes
      BY <1>1, <2>1, <2>2
    <3> QED BY <1>5, <2>1, <3>1 DEF RestoreActiveSegment, sizes
  <2>5. frame' \in Frames /\ pc' \in {"append", "return"} /\ out' \in {out, "threw"}
    BY <1>1, <2>3 DEF TryAgainOrThrow, Throw, Frames
  <2>6. active' \in Segments /\ (active = active' \/ active = active' + 1)
    BY <1>1, <2>3 DEF RotationInv, Frames
  <2>7. CallType'
    BY <1>1, <2>3, <2>5 DEF TypeInv, CallType, CallOK
  <2>8. ControlInv' /\ RotationInv'
    BY <1>1, <1>2, <2>3, <2>5
       DEF ControlInv, AfterLoadInv, Loading, Appending, Answering, Compacting, RotationInv
  <2>9. DiskType' /\ ObjectType'
    BY <1>1, <2>3, <2>4, <2>6 DEF TypeInv, DiskType, ObjectType
  <2>10. Believed'
    <3>1. ASSUME NEW s \in Segments, segmentBytes[s] > 0 PROVE s <= active'
      <4>1. s <= active /\ s # active
        BY <1>1, <1>2, <2>1, <3>1 DEF Believed
      <4>2. PICK b : b = active'
        OBVIOUS
      <4>3. PICK a : a = active
        OBVIOUS
      <4>4. s \in Nat /\ a \in Nat /\ b \in Nat
        BY <1>1, <2>6, <4>2, <4>3 DEF Segments
      <4>5. a = b \/ a = b + 1
        BY <2>6, <4>2, <4>3
      <4>6. s <= a /\ s # a
        BY <4>1, <4>3
      <4>7. s <= b
        BY <4>4, <4>5, <4>6
      <4> QED BY <4>2, <4>7
    <3> QED BY <1>1, <2>3, <2>4, <2>5, <3>1 DEF Believed
  <2> QED BY <1>1, <2>3, <2>5, <2>7, <2>8, <2>9, <2>10 DEF GoneInv, TypeInv
<1> QED BY <1>4, <1>5

\* The probe finds the directory empty: everything is loaded again, or there was
\* nothing to lose.
LEMMA GoneProbes ==
  ASSUME NoFaults, CalmInv, GoneInv, ProbeFails
  PROVE  GoneInv' \/ (Inv' /\ TrimsAll' /\ ReclaimsAll')
<1>1. /\ TypeInv /\ ControlInv /\ RotationInv /\ Believed /\ frame \in Frames /\ ~directory
      /\ ~Breaks /\ loaded /\ DOMAIN disk = {} /\ wipes # 0 /\ unreadable = {}
      /\ \A k \in DOMAIN index : index[k] \in Positions /\ segmentBytes[index[k].seg] > 0
      /\ pc = "probe" /\ active \in Segments /\ partiallyRead \subseteq Segments
      /\ segmentBytes \in [Segments -> Nat] /\ segmentDeadBytes \in [Segments -> Nat]
  <2>1. pc = "probe"
    BY DEF ProbeFails
  <2> QED BY <2>1, WhenGone DEF GoneInv, TypeInv, ObjectType
<1>2. op \in Ops /\ op # NoOp /\ op.kind # "get" /\ ~appendsDisabled
  BY <1>1, OpsAre DEF ControlInv, Appending
<1>3. /\ directory' = TRUE /\ Works
      /\ UNCHANGED <<disk, index, unreadable, loaded, op, applied, restarts, wipes>>
      /\ \/ /\ MustReload
            /\ frame' = [frame EXCEPT
                           !.afterLoad = IF frame.attempt = 0 THEN "append" ELSE "return",
                           !.attempt = 1]
            /\ pc' = "load"
            /\ out' = IF frame.attempt = 0 THEN out ELSE "threw"
            /\ UNCHANGED <<active, segmentBytes, segmentDeadBytes, partiallyRead, appendsDisabled>>
         \/ ~MustReload /\ segmentBytes[active] > 0
         \/ /\ ~MustReload
            /\ pc' = "restore" /\ frame' = [frame EXCEPT !.retry = TRUE]
            /\ UNCHANGED <<active, segmentBytes, segmentDeadBytes, partiallyRead,
                           appendsDisabled, out>>
  BY <1>1 DEF ProbeFails, counters, sizes
<1>4. MustReload <=> \E s \in Segments : segmentBytes[s] > 0
  BY <1>1 DEF MustReload, HasMissingSegment
<1>5. UNCHANGED <<troubled, faults>>
  BY <1>3 DEF Works, trouble
<1>6. CASE MustReload
  <2>1. /\ pc' = "load" /\ out' \in {out, "threw"}
        /\ UNCHANGED <<active, segmentBytes, segmentDeadBytes, partiallyRead, appendsDisabled>>
    BY <1>3, <1>6
  <2>2. frame' \in Frames /\ frame'.afterLoad \in {"append", "return"}
    <3>1. PICK a \in {"append", "return"} :
            frame' = [frame EXCEPT !.afterLoad = a, !.attempt = 1]
      BY <1>3, <1>6
    <3> QED BY <1>1, <3>1 DEF Frames
  <2>3. CallType'
    BY <1>1, <1>3, <1>5, <2>1, <2>2 DEF TypeInv, CallType, CallOK
  <2>4. ControlInv' /\ RotationInv'
    BY <1>1, <1>2, <1>3, <2>1, <2>2
       DEF ControlInv, AfterLoadInv, Loading, Appending, Answering, Compacting, RotationInv
  <2> QED BY <1>1, <1>3, <2>1, <2>3, <2>4, StaysGone
<1>7. CASE ~MustReload
  <2>1. /\ pc' = "restore" /\ frame' = [frame EXCEPT !.retry = TRUE]
        /\ UNCHANGED <<active, segmentBytes, segmentDeadBytes, partiallyRead,
                       appendsDisabled, out>>
    BY <1>1, <1>3, <1>4, <1>7
  <2>2. \A s \in Segments : segmentBytes[s] = 0
    BY <1>1, <1>4, <1>7
  <2>3. DOMAIN index = {}
    <3>1. ASSUME NEW k \in DOMAIN index PROVE FALSE
      BY <1>1, <2>2 DEF Positions
    <3> QED BY <3>1
  <2>4. frame' \in Frames /\ frame'.before = frame.before
    BY <1>1, <2>1 DEF Frames
  <2>5. DiskType' /\ ObjectType'
    BY <1>1, <1>3, <2>1 DEF TypeInv, DiskType, ObjectType
  <2>6. CallType'
    BY <1>1, <1>3, <1>5, <2>1, <2>4 DEF TypeInv, CallType, CallOK
  <2>7. /\ LinesInv /\ \A s \in Segments : Count(Files, s) = 0
        /\ \A s : FileOf(s) = <<>> /\ ~IsTorn(<<>>)
    BY <1>1, NoFiles DEF TypeInv
  <2>8. Files' = Files
    BY <1>3 DEF Files, FileOf
  <2>9. SizeInv' /\ LinesInv'
    BY <1>1, <1>3, <2>1, <2>2, <2>7, <2>8 DEF SizeInv, Readable, LinesInv
  <2>10. IndexInv'
    <3>1. \A s \in Segments : 1 .. Count(Files, s) = {}
      BY <2>7
    <3> QED BY <1>3, <2>3, <2>8, <3>1 DEF IndexInv, IndexIs, Readable
  <2>11. DeadInv'
    <3>1. ASSUME NEW s \in Segments
          PROVE  segmentDeadBytes[s] = segmentBytes[s] - Cardinality(LiveIn(s, index))
      <4>1. LiveIn(s, index) = {}
        BY <2>3 DEF LiveIn
      <4>2. Cardinality(LiveIn(s, index)) = 0
        BY <4>1, FS_EmptySet
      <4>3. segmentDeadBytes[s] <= segmentBytes[s] /\ segmentDeadBytes[s] \in Nat
        BY <1>1 DEF Believed
      <4> QED BY <2>2, <4>2, <4>3
    <3>2. \A s : LiveIn(s, index') = LiveIn(s, index)
      BY <1>3
    <3> QED BY <1>3, <2>1, <3>1, <3>2 DEF DeadInv, Readable
  <2>12. TopInv'
    BY <1>1, <1>3, <2>1 DEF TopInv
  <2>13. ObjectInv'
    BY <2>9, <2>10, <2>11, <2>12 DEF ObjectInv
  <2>14. CallInv'
    BY <1>1, <1>2, <1>3, <2>1
       DEF CallInv, ControlInv, AfterLoadInv, Loading, Appending, Answering, Compacting
  <2>15. RotationInv'
    BY <1>1, <1>3, <2>1, <2>4 DEF RotationInv, Compacting, FileOf
  <2>16. TrimInv' /\ CompactInv' /\ TrimsAll' /\ ReclaimsAll'
    BY <2>1 DEF TrimInv, CompactInv, TrimsAll, ReclaimsAll, Reclaiming, Compacting
  <2> QED BY <2>5, <2>6, <2>9, <2>13, <2>14, <2>15, <2>16 DEF Inv, TypeInv
<1> QED BY <1>6, <1>7

\* The next process finds nothing to forget.
LEMMA GoneCrashes ==
  ASSUME NoFaults, CalmInv, GoneInv, Crash
  PROVE  GoneInv'
<1>1. TypeInv /\ ControlInv /\ DOMAIN disk = {} /\ wipes # 0
  BY DEF GoneInv
<1>2. /\ index' = [k \in {} |-> None]
      /\ segmentBytes' = NoSizes /\ segmentDeadBytes' = NoSizes
      /\ unreadable' = {} /\ partiallyRead' = {}
      /\ active' = 0 /\ appendsDisabled' = FALSE /\ loaded' = FALSE
      /\ op' = NoOp /\ pc' = "load" /\ frame' = NoLocals /\ out' = "ok"
      /\ applied' = FALSE /\ troubled' = FALSE
      /\ UNCHANGED <<directory, faults, wipes>> /\ restarts' = restarts + 1
  BY DEF Crash, FreshObject
<1>3. disk' = disk
  BY WhenGone DEF Crash
<1>4. DiskType' /\ ObjectType'
  BY <1>1, <1>2, <1>3, FreshObjectIs DEF TypeInv, DiskType, ObjectType
<1>5. CallType'
  BY <1>1, <1>2, FreshObjectIs DEF TypeInv, CallType, CallOK
<1>6. ControlInv' /\ RotationInv'
  <2>1. NoLocals.afterLoad = "idle"
    BY <1>2, FreshObjectIs
  <2> QED BY <1>1, <1>2, <2>1
          DEF ControlInv, AfterLoadInv, Loading, Appending, Answering, Compacting, NoOp, RotationInv
<1> QED BY <1>1, <1>2, <1>3, <1>4, <1>5, <1>6 DEF GoneInv, TypeInv


\* The files disappear, together or one load after the other.
LEMMA WipeLoses ==
  ASSUME CalmInv, Inv \/ GoneInv, Wipe
  PROVE  GoneInv'
<1>1. /\ TypeInv /\ ControlInv /\ RotationInv
  BY DEF Inv, CallInv, GoneInv
<1>2. /\ disk' = [s \in {} |-> <<>>] /\ directory' = FALSE
      /\ wipes' = wipes + 1 /\ wipes < MaxWipes /\ troubled' = (op # NoOp)
      /\ UNCHANGED <<index, segmentBytes, segmentDeadBytes, unreadable, partiallyRead, active,
                     appendsDisabled, loaded, op, frame, out, applied, pc, faults, restarts>>
  BY DEF Wipe, memory, sizes, quality, call
<1>3. DOMAIN disk' = {} /\ disk' \in [DOMAIN disk' -> Seq(Lines)]
  BY <1>2
<1>4. wipes \in Nat /\ wipes' \in Nat /\ wipes' # 0 /\ wipes' <= MaxWipes
  <2>1. wipes \in Nat /\ MaxWipes \in Nat
    BY <1>1, SegmentStoreAssumption DEF TypeInv, CallType, CallOK
  <2> QED BY <1>2, <2>1
<1>5. DiskType' /\ ObjectType'
  BY <1>1, <1>2, <1>3 DEF TypeInv, DiskType, ObjectType
<1>6. CallType'
  <2>1. troubled' \in BOOLEAN
    BY <1>2
  <2> QED BY <1>1, <1>2, <1>4, <2>1 DEF TypeInv, CallType, CallOK
<1>7. ControlInv'
  BY <1>1, <1>2, <1>4 DEF ControlInv, AfterLoadInv, Loading, Appending, Answering, Compacting
<1>8. RotationInv'
  <2>1. ~IsTorn(<<>>)
    BY DEF IsTorn
  <2> QED BY <1>1, <1>2, <1>3, <2>1 DEF RotationInv, Compacting, FileOf
<1>9. ASSUME loaded, Inv PROVE Believed
  <2>1. /\ TypeInv /\ LinesInv /\ SizeInv /\ IndexInv /\ DeadInv /\ TopInv /\ TrimInv /\ CompactInv
        /\ Readable = Segments /\ unreadable = {}
    BY <1>9 DEF Inv, ObjectInv, CalmInv, Readable
  <2>2. /\ segmentBytes \in [Segments -> Nat] /\ active \in Segments /\ frame \in Frames
    BY <2>1 DEF TypeInv, ObjectType, CallType
  <2>3. ASSUME NEW s \in Segments
        PROVE  /\ IsFiniteSet(LiveIn(s, index))
               /\ Cardinality(LiveIn(s, index)) <= segmentBytes[s]
               /\ pc # "trim" => segmentDeadBytes[s] <= segmentBytes[s]
               /\ segmentBytes[s] > 0 => s \in DOMAIN disk
    <3>1. /\ IsFiniteSet(LiveIn(s, index)) /\ Cardinality(LiveIn(s, index)) \in Nat
          /\ Cardinality(LiveIn(s, index)) <= Count(Files, s)
      BY <2>1, LiveCount
    <3>2. segmentBytes[s] = Count(Files, s) /\ (s \notin DOMAIN disk => Count(Files, s) = 0)
      BY <2>1, FilesAre DEF SizeInv
    <3>3. pc # "trim" => segmentDeadBytes[s] = segmentBytes[s] - Cardinality(LiveIn(s, index))
      BY <2>1 DEF DeadInv
    <3>4. segmentBytes[s] \in Nat
      BY <2>2
    <3> QED BY <3>1, <3>2, <3>3, <3>4
  <2>4. ASSUME ~appendsDisabled, NEW s \in Segments, segmentBytes[s] > 0 PROVE s <= active
    <3>1. CASE pc = "trim"
      BY <2>1, <2>3, <2>4, <3>1 DEF TrimInv
    <3>2. CASE pc # "trim"
      BY <2>1, <2>3, <2>4, <3>2 DEF TopInv
    <3> QED BY <3>1, <3>2
  <2>5. pc = "trim" => ~appendsDisabled /\ \A s \in Segments : segmentBytes[s] > 0 => s <= frame.highest
    BY <2>1, <2>3 DEF TrimInv
  <2>6. pc = "moved" => LiveIn(frame.target, index) = {}
    BY <2>1 DEF CompactInv
  <2> QED BY <2>3, <2>4, <2>5, <2>6 DEF Believed
<1>10. loaded => Believed
  BY <1>9 DEF GoneInv
<1>11. loaded' => Believed'
  BY <1>2, <1>10 DEF Believed, LiveIn
<1> QED BY <1>2, <1>3, <1>4, <1>5, <1>6, <1>7, <1>8, <1>11 DEF GoneInv, TypeInv

\* As long as the loss is not noticed.
LEMMA GoneKeeps ==
  ASSUME NoFaults, CalmInv, GoneInv, [Next]_vars
  PROVE  GoneInv' \/ (Inv' /\ TrimsAll' /\ ReclaimsAll')
<1>1. ~LoadFails /\ ~WriteLine /\ ~ProbeOpens
  BY WhenGone DEF LoadFails, WriteLine, ProbeOpens
<1>2. CASE Load
  BY <1>1, <1>2, GoneIsRead, GoneTrims, GoneFinishes, GoneCompacts DEF Load
<1>3. CASE Lookup \/ Callers \/ Crash \/ Wipe
  BY <1>3, GoneLooksUp, GoneInvokes, GoneCrashes, WipeLoses
<1>4. CASE AppendLineLocked
  BY <1>1, <1>4, GoneAppends, GoneRestores, GoneProbes DEF AppendLineLocked
<1>5. CASE CompactSegment
  BY <1>5, GoneCompacts
<1>6. CASE UNCHANGED vars
  <2>1. UNCHANGED <<disk, directory, index, segmentBytes, segmentDeadBytes, unreadable,
                    partiallyRead, active, appendsDisabled, loaded, op, pc, frame, out,
                    applied, troubled, faults, restarts, wipes>>
    BY <1>6 DEF vars, files, memory, sizes, quality, call, trouble, counters
  <2>2. DiskType' /\ ObjectType' /\ CallType'
    BY <2>1 DEF GoneInv, TypeInv, DiskType, ObjectType, CallType, CallOK
  <2>3. ControlInv' /\ RotationInv'
    BY <2>1 DEF GoneInv, ControlInv, AfterLoadInv, Loading, Appending, Answering, Compacting,
                RotationInv, FileOf
  <2>4. loaded' => Believed'
    BY <2>1 DEF GoneInv, Believed, LiveIn
  <2> QED BY <2>1, <2>2, <2>3, <2>4 DEF GoneInv, TypeInv
<1> QED BY <1>2, <1>3, <1>4, <1>5, <1>6 DEF Next, Step

\* Losing the files is noticed before a call is acknowledged that relies on them.
LEMMA WipeInvKeeps == ASSUME NoFaults, WipeInv, [Next]_vars PROVE WipeInv'
<1>1. CalmInv
  BY DEF WipeInv
<1>2. CalmInv'
  <2>1. TypeInv /\ LinesInv /\ ControlInv /\ ~MoveFails
    <3>1. CASE Inv
      BY <1>1, <3>1, NothingFails DEF Inv, CallInv
    <3>2. CASE GoneInv
      BY <1>1, <3>2, WhenGone DEF MoveFails
    <3> QED BY <3>1, <3>2 DEF WipeInv
  <2> QED BY <1>1, <2>1, StaysCalm
<1>3. CASE Inv /\ TrimsAll /\ ReclaimsAll /\ Wipe
  BY <1>1, <1>2, <1>3, WipeLoses DEF WipeInv
<1>4. CASE Inv /\ TrimsAll /\ ReclaimsAll /\ ~Wipe
  BY <1>1, <1>2, <1>4, StepKeeps, LoadsReclaim DEF WipeInv
<1>5. CASE GoneInv
  BY <1>1, <1>2, <1>5, GoneKeeps DEF WipeInv
<1> QED BY <1>3, <1>4, <1>5 DEF WipeInv

LEMMA WipeInvInit == ASSUME Init PROVE WipeInv
<1>1. Inv
  BY InitIsGood
<1> QED BY <1>1 DEF Init, WipeInv, CalmInv, TrimsAll, ReclaimsAll, Reclaiming, Compacting

LEMMA WipeInvReloads == ASSUME WipeInv PROVE ReloadsInTime
<1>1. CASE GoneInv
  <2>1. DOMAIN disk = {} /\ TypeInv
    BY <1>1 DEF GoneInv
  <2>2. ReloadReclaims
    BY <2>1 DEF ReloadReclaims
  <2>3. ASSUME NEW k \in DOMAIN index
        PROVE  ~(index[k].pos <= Len(FileOf(index[k].seg)))
    <3>1. index[k] \in Positions
      BY <2>1 DEF TypeInv, ObjectType
    <3>2. FileOf(index[k].seg) = <<>> /\ Len(<<>>) = 0
      BY <2>1 DEF FileOf
    <3> QED BY <3>1, <3>2 DEF Positions
  <2>4. WriteNoticesLoss
    BY <2>3 DEF WriteNoticesLoss
  <2> QED BY <2>2, <2>4 DEF ReloadsInTime
<1>2. CASE Inv /\ ReclaimsAll
  <2>1. ReloadReclaims
    <3> SUFFICES ASSUME pc = "reclaim", frame.reclaim = {}, NEW s \in DOMAIN disk \ {active}
                 PROVE  LiveIn(s, index) # {}
      BY DEF ReloadReclaims
    <3>1. s \in Segments
      BY <1>2 DEF Inv, TypeInv, DiskType
    <3>2. ~Unused(s)
      BY <1>2, <3>1 DEF ReclaimsAll, Reclaiming, Compacting
    <3> QED BY <3>2 DEF Unused
  <2>2. WriteNoticesLoss
    <3> SUFFICES ASSUME applied, NEW k \in DOMAIN index
                 PROVE  LET file == FileOf(index[k].seg)
                        IN  IsRecord(file[index[k].pos]) /\ file[index[k].pos].key = k
      BY DEF WriteNoticesLoss
    <3>1. Inv /\ loaded
      BY <1>2 DEF WipeInv, CalmInv, Compacting
    <3>2. PICK s : s = index[k].seg
      OBVIOUS
    <3>3. PICK i : i = index[k].pos
      OBVIOUS
    <3>4. LiveAt(Files, k, Readable, s, i) /\ FileOf(s) = Files[s] /\ IsRecord(FileOf(s)[i])
      BY <3>1, <3>2, <3>3, IndexedIs
    <3>5. FileOf(s)[i].key = k
      BY <3>4 DEF LiveAt, LastAt, RecordsOf
    <3> QED BY <3>2, <3>3, <3>4, <3>5
  <2> QED BY <2>1, <2>2 DEF ReloadsInTime
<1> QED BY <1>1, <1>2 DEF WipeInv

\* What reloading must not miss, it does not miss: while no file operation fails, but
\* however often the directory is removed and at whatever moment, opening the store
\* leaves no file without live records but the active one, and once a write is
\* acknowledged every indexed position holds a record of its key, in the files there
\* are now.
THEOREM ReloadsAreInTime == NoFaults /\ Spec => []ReloadsInTime
<1> SUFFICES ASSUME NoFaults PROVE Spec => []ReloadsInTime
  OBVIOUS
<1>1. Init => WipeInv
  BY WipeInvInit
<1>2. WipeInv /\ [Next]_vars => WipeInv'
  BY WipeInvKeeps
<1>3. WipeInv => ReloadsInTime
  BY WipeInvReloads
<1> QED BY <1>1, <1>2, <1>3, PTL DEF Spec


\* What the object remembers is exact, unless it remembers a file that is gone.
LEMMA GoneIsExact == ASSUME NoFaults, CalmInv, GoneInv PROVE BookkeepingIsExact
<1>1. TypeInv /\ DOMAIN disk = {}
  BY DEF GoneInv
<1>2. TypeOK
  <2>1. FilesOK
    BY <1>1 DEF TypeInv, DiskType, FilesOK
  <2>2. ObjectOK
    BY <1>1 DEF TypeInv, ObjectType, ObjectOK
  <2>3. FrameOK
    BY <1>1 DEF TypeInv, CallType, Frames, FrameOK
  <2> QED BY <1>1, <2>1, <2>2, <2>3 DEF TypeOK, TypeInv, CallType
<1>3. ~HasMissingSegment => \A s \in Segments : segmentBytes[s] = 0
  BY <1>1 DEF HasMissingSegment, TypeInv, ObjectType
<1>4. ASSUME loaded, ~HasMissingSegment PROVE index = ReadIndex(DOMAIN disk \ unreadable)
  <2>1. DOMAIN index = {}
    <3>1. ASSUME NEW k \in DOMAIN index PROVE FALSE
      <4>1. PICK s : s = index[k].seg
        OBVIOUS
      <4>2. index[k] \in Positions /\ segmentBytes[s] > 0
        BY <1>4, <4>1, WhenGone
      <4>3. s \in Segments
        BY <4>1, <4>2 DEF Positions
      <4> QED BY <1>3, <1>4, <4>2, <4>3
    <3> QED BY <3>1
  <2>2. index = [k \in {} |-> index[k]]
    BY <1>1, <2>1 DEF TypeInv, ObjectType
  <2>3. DOMAIN disk \ unreadable = {}
    BY <1>1
  <2>4. \A k : Occurrences(k, {}) = {}
    BY DEF Occurrences
  <2>5. ReadIndex({}) = [k \in {} |-> LastOf(Occurrences(k, {}))]
    BY <2>4 DEF ReadIndex
  <2> QED BY <2>2, <2>3, <2>5
<1>5. ASSUME loaded, ~HasMissingSegment, pc # "trim", NEW s \in Segments \ unreadable
      PROVE  /\ segmentBytes[s] = CompleteLength(FileOf(s))
             /\ segmentDeadBytes[s] = segmentBytes[s] - Cardinality(LiveIn(s, index))
  <2>1. segmentBytes[s] = 0 /\ FileOf(s) = <<>> /\ CompleteLength(<<>>) = 0
    BY <1>3, <1>5, WhenGone
  <2>2. segmentDeadBytes[s] <= 0 /\ segmentDeadBytes[s] \in Nat
    BY <1>1, <1>5, <2>1 DEF GoneInv, Believed, TypeInv, ObjectType
  <2>3. IsFiniteSet(LiveIn(s, index)) /\ Cardinality(LiveIn(s, index)) <= 0
    BY <1>5, <2>1 DEF GoneInv, Believed
  <2>4. Cardinality(LiveIn(s, index)) = 0
    BY <2>3, FS_CardinalityType
  <2> QED BY <2>1, <2>2, <2>4
<1>6. IndexExact
  BY <1>4 DEF IndexExact
<1>7. SizesExact
  BY <1>5 DEF SizesExact
<1> QED BY <1>2, <1>6, <1>7 DEF BookkeepingIsExact

\* There is no line to merge with.
LEMMA GoneIsSound == ASSUME NoFaults, CalmInv, GoneInv PROVE LogIsSound
<1>1. TypeInv /\ DOMAIN disk = {}
  BY DEF GoneInv
<1>2. NoMergedLine
  BY <1>1 DEF NoMergedLine
<1>3. ASSUME pc = "write", ~HasMissingSegment
      PROVE  /\ \A s \in DOMAIN disk : s <= active
             /\ active \notin unreadable
             /\ Len(FileOf(active)) = segmentBytes[active]
  <2>1. active \in Segments /\ segmentBytes[active] \in Nat /\ unreadable = {}
    BY <1>1, <1>3, WhenGone DEF TypeInv, ObjectType
  <2>2. segmentBytes[active] = 0
    BY <1>1, <1>3, <2>1 DEF HasMissingSegment
  <2>3. FileOf(active) = <<>> /\ Len(<<>>) = 0
    BY WhenGone
  <2> QED BY <1>1, <2>1, <2>2, <2>3
<1>4. AppendIsSafe
  BY <1>3 DEF AppendIsSafe
<1> QED BY <1>2, <1>4 DEF LogIsSound


-----------------------------------------------------------------------------
(* The store implements the durable map also then.                          *)

\* A load in the middle of a call found no files; and a call that is to end after
\* it has its answer.
Reloading == Loading /\ frame.afterLoad \in {"append", "return"}
ReloadsInv ==
  /\ Reloading => DOMAIN disk = {}
  /\ Reloading /\ pc # "load" => DOMAIN index = {}
  /\ Loading /\ frame.afterLoad = "return" =>
       IF op.kind = "get" THEN out = None ELSE out = "threw" /\ troubled

\* An append that is tried again and fails again has seen the directory go.
AttemptInv ==
  /\ frame.attempt = 1 => op # NoOp /\ (directory \/ troubled)
  /\ pc = "probe" => ~directory
  /\ pc = "restore" =>
       /\ frame.retry /\ segmentBytes[active] = 0
       /\ directory \/ troubled
       /\ frame.attempt = 1 => troubled

\* What AnswerInv says of a call, as far as it holds then.
KnownInv ==
  /\ Compacting /\ frame.afterCompact = "return" => applied
  /\ pc # "return" /\ ~(Loading /\ frame.afterLoad = "return") => out = "ok"
  /\ Appending /\ op.kind = "migrate" => op.key \notin DOMAIN index

WipeAnswerInv == ReloadsInv /\ AttemptInv /\ KnownInv

\* What is known whether the files are there or not.
LEMMA WipeFacts ==
  ASSUME NoFaults, WipeInv
  PROVE  /\ TypeInv /\ LinesInv /\ ControlInv /\ CalmInv /\ frame \in Frames /\ faults = 0
         /\ ~Breaks /\ ~LoadFails
         /\ pc # "load" => loaded
         /\ Inv \/ GoneInv
         /\ \A n \in Nat : Break(n) => n = 0
<1>1. TypeInv /\ LinesInv /\ ControlInv /\ CalmInv /\ (Inv \/ GoneInv)
  <2>1. CASE GoneInv
    BY <2>1, WhenGone DEF WipeInv
  <2>2. CASE Inv
    BY <2>2 DEF WipeInv, Inv, CallInv
  <2> QED BY <2>1, <2>2 DEF WipeInv
<1>2. faults = 0 /\ (pc # "load" => loaded) /\ frame \in Frames
  BY <1>1 DEF CalmInv, TypeInv, CallType
<1>3. ~Breaks /\ \A n \in Nat : Break(n) => n = 0
  BY <1>1, <1>2, NothingBreaks
<1>4. ~LoadFails
  BY <1>3 DEF LoadFails
<1> QED BY <1>1, <1>2, <1>3, <1>4

\* Most steps leave alone what AttemptInv speaks of.
LEMMA AttemptStays ==
  ASSUME AttemptInv, pc' \notin {"probe", "restore"}, frame'.attempt = frame.attempt,
         op' = op, directory => directory', troubled => troubled'
  PROVE  AttemptInv'
BY DEF AttemptInv

\* An empty directory has no index.
LEMMA NothingToRead == DOMAIN ReadIndex({}) = {}
<1>1. \A k : Occurrences(k, {}) = {}
  BY DEF Occurrences
<1>2. ReadIndex({}) = [k \in {} |-> LastOf(Occurrences(k, {}))]
  BY <1>1 DEF ReadIndex
<1> QED BY <1>2

\* Loading keeps it.
LEMMA LoadKnows == ASSUME NoFaults, WipeInv, WipeAnswerInv, Load PROVE WipeAnswerInv'
<1>1. /\ frame \in Frames /\ ~LoadFails /\ (\A n \in Nat : Break(n) => n = 0)
      /\ ReloadsInv /\ AttemptInv /\ KnownInv
      /\ TypeInv /\ ControlInv
  BY WipeFacts DEF WipeAnswerInv
<1>2. CASE LoadRead
  <2>1. /\ pc = "load" /\ pc' = "trim" /\ UNCHANGED <<disk, op, out, applied>> /\ directory' = TRUE
        /\ frame'.afterLoad = frame.afterLoad /\ frame'.attempt = frame.attempt
        /\ DOMAIN disk = {} => index' = ReadIndex({})
    BY <1>1, <1>2 DEF LoadRead, Frames
  <2>2. troubled => troubled'
    BY <1>2 DEF LoadRead, Break
  <2>3. DOMAIN disk = {} => DOMAIN index' = {}
    BY <2>1, NothingToRead
  <2>4. ReloadsInv'
    BY <1>1, <2>1, <2>2, <2>3 DEF ReloadsInv, Reloading, Loading, Compacting
  <2>5. AttemptInv'
    BY <1>1, <2>1, <2>2, AttemptStays
  <2>6. KnownInv'
    BY <1>1, <2>1 DEF KnownInv, Loading, Compacting, Appending
  <2> QED BY <2>4, <2>5, <2>6 DEF WipeAnswerInv
<1>3. CASE TrimSegment \/ TrimFails \/ LoadFinish \/ Reclaim
  <2>1. /\ pc \in {"trim", "reclaim"} /\ pc' \in {"trim", "reclaim", "compact"}
        /\ UNCHANGED <<index, op, out, applied, directory, troubled>>
        /\ frame'.afterLoad = frame.afterLoad /\ frame'.attempt = frame.attempt
        /\ pc' = "compact" => frame'.afterCompact = "reclaim"
    <3>1. CASE TrimSegment
      BY <1>1, <3>1 DEF TrimSegment, Works, trouble, Frames, memory
    <3>2. CASE TrimFails
      <4>1. Works
        BY <3>2, WipeFacts DEF TrimFails
      <4> QED BY <1>1, <3>2, <4>1 DEF TrimFails, Works, trouble, Frames, files
    <3>3. CASE LoadFinish
      BY <1>1, <3>3 DEF LoadFinish, Frames, trouble, files
    <3>4. CASE Reclaim
      BY <1>1, <3>4 DEF Reclaim, Frames, trouble, files, memory
    <3> QED BY <1>3, <3>1, <3>2, <3>3, <3>4
  <2>2. DOMAIN disk = {} => DOMAIN disk' = {}
    <3>1. CASE TrimSegment
      <4>1. CASE GoneInv
        <5>1. WithoutFile(Min(frame.trim)) = disk /\ ~directory
          BY <2>1, <4>1, WhenGone DEF WipeInv
        <5> QED BY <3>1, <5>1 DEF TrimSegment
      <4>2. CASE Inv
        <5>1. frame.trim \subseteq DOMAIN disk
          BY <3>1, <4>2 DEF Inv, TrimInv, TrimSegment
        <5> QED BY <3>1, <5>1 DEF TrimSegment
      <4> QED BY <4>1, <4>2, WipeFacts
    <3>2. CASE UNCHANGED disk
      BY <3>2
    <3> QED BY <1>3, <3>1, <3>2 DEF TrimFails, LoadFinish, Reclaim, files
  <2>3. ReloadsInv'
    BY <1>1, <2>1, <2>2 DEF ReloadsInv, Reloading, Loading, Compacting
  <2>4. AttemptInv'
    BY <1>1, <2>1, AttemptStays
  <2>5. KnownInv'
    BY <1>1, <2>1 DEF KnownInv, Loading, Compacting, Appending
  <2> QED BY <2>3, <2>4, <2>5 DEF WipeAnswerInv
<1>4. CASE LoadReturns
  <2>1. /\ pc = "reclaim" /\ pc' = frame.afterLoad /\ UNCHANGED <<index, op, out, applied, directory, troubled>>
        /\ frame'.afterLoad = "idle" /\ frame'.attempt = frame.attempt
    BY <1>1, <1>4 DEF LoadReturns, Frames, files, memory, trouble
  <2>2. pc' \in {"idle", "lookup", "append", "return"}
    BY <1>1, <2>1 DEF Frames
  <2>3. ReloadsInv'
    BY <2>1, <2>2 DEF ReloadsInv, Reloading, Loading, Compacting
  <2>4. AttemptInv'
    BY <1>1, <2>1, <2>2, AttemptStays
  <2>5. KnownInv'
    BY <1>1, <2>1, <2>2 DEF KnownInv, ReloadsInv, Reloading, Loading, Compacting, Appending
  <2> QED BY <2>3, <2>4, <2>5 DEF WipeAnswerInv
<1> QED BY <1>1, <1>2, <1>3, <1>4 DEF Load


\* A compaction keeps it.
LEMMA CompactKnows == ASSUME NoFaults, WipeInv, WipeAnswerInv, CompactSegment PROVE WipeAnswerInv'
<1>1. /\ frame \in Frames /\ ~Breaks /\ pc # "rewrite" /\ ReloadsInv /\ AttemptInv /\ KnownInv
      /\ ControlInv
  BY WipeFacts DEF WipeAnswerInv, CalmInv
<1>2. /\ pc \in {"compact", "moved"}
      /\ UNCHANGED <<op, out, applied, frame, directory, troubled>> /\ DOMAIN index' = DOMAIN index
      /\ pc' \in {"moved", "rewrite"} \/ pc' = frame.afterCompact
  <2>1. CASE CompactAborts \/ MoveFails \/ RewriteFails
    BY <1>1, <2>1
       DEF CompactAborts, MoveFails, RewriteFails, CompactReturns, Works, trouble, memory, files
  <2>2. CASE CompactMoves \/ MovedRemoves
    BY <2>2 DEF CompactMoves, MovedRemoves, CompactReturns, Works, trouble
  <2>3. CASE Rewrite
    BY <1>1, <2>3 DEF Rewrite, CompactReturns, Works, trouble
  <2>4. ~MovedRemoveFails
    BY <1>1 DEF MovedRemoveFails
  <2> QED BY <2>1, <2>2, <2>3, <2>4 DEF CompactSegment
<1>3. DOMAIN disk = {} => DOMAIN disk' = {}
  <2>1. CASE CompactAborts \/ MoveFails \/ RewriteFails
    BY <2>1 DEF CompactAborts, MoveFails, RewriteFails, files
  <2>2. CASE CompactMoves \/ Rewrite
    BY <1>1, <2>2 DEF CompactMoves, Rewrite, AllLiveFound
  <2>3. CASE MovedRemoves
    BY <2>3 DEF MovedRemoves, WithoutFile
  <2>4. ~MovedRemoveFails
    BY <1>1 DEF MovedRemoveFails
  <2> QED BY <2>1, <2>2, <2>3, <2>4 DEF CompactSegment
<1>4. frame.afterCompact \in {"reclaim", "rotated", "return"}
  BY <1>1, <1>2 DEF ControlInv, Compacting
<1>5. ReloadsInv'
  BY <1>1, <1>2, <1>3, <1>4 DEF ReloadsInv, Reloading, Loading, Compacting
<1>6. AttemptInv'
  BY <1>1, <1>2, <1>4, AttemptStays
<1>7. KnownInv'
  BY <1>1, <1>2, <1>4 DEF KnownInv, Loading, Compacting, Appending
<1> QED BY <1>5, <1>6, <1>7 DEF WipeAnswerInv

\* What a lookup has to read, but cannot, is gone.
LEMMA LookupMisses ==
  ASSUME NoFaults, WipeInv, LookupReadFails
  PROVE  GoneInv /\ MustReload
<1>1. /\ pc = "lookup" /\ op.key \in DOMAIN index
      /\ index[op.key].pos > Len(FileOf(index[op.key].seg))
      /\ loaded /\ TypeInv
  BY WipeFacts DEF LookupReadFails
<1>2. PICK k : k = op.key
  OBVIOUS
<1>3. PICK s : s = index[k].seg
  OBVIOUS
<1>4. PICK i : i = index[k].pos
  OBVIOUS
<1>5. index[k] \in Positions
  BY <1>1, <1>2 DEF TypeInv, ObjectType
<1>6. s \in Segments /\ i \in Nat
  BY <1>3, <1>4, <1>5 DEF Positions
<1>7. ~Inv
  <2>1. SUFFICES ASSUME Inv PROVE FALSE
    OBVIOUS
  <2>2. i <= Len(FileOf(s)) /\ FileOf(s) = Files[s]
    BY <1>1, <1>2, <1>3, <1>4, <2>1, IndexedIs
  <2>3. Files[s] \in Seq(Lines)
    BY <1>6, <2>1, FilesAre DEF Inv, LinesInv
  <2>4. Len(FileOf(s)) \in Nat
    BY <2>2, <2>3, LenProperties
  <2> QED BY <1>1, <1>2, <1>3, <1>4, <1>6, <2>2, <2>4
<1>8. GoneInv
  BY <1>7 DEF WipeInv
<1>9. segmentBytes[s] > 0
  BY <1>1, <1>2, <1>3, <1>8, WhenGone DEF WipeInv
<1>10. s \notin DOMAIN disk
  BY <1>8 DEF GoneInv
<1> QED BY <1>6, <1>8, <1>9, <1>10 DEF MustReload, HasMissingSegment

\* Looking up and returning keep it.
LEMMA LookupKnows == ASSUME NoFaults, WipeInv, WipeAnswerInv, Lookup PROVE WipeAnswerInv'
<1>1. /\ frame \in Frames /\ ~Breaks /\ ReloadsInv /\ AttemptInv /\ KnownInv
  BY WipeFacts DEF WipeAnswerInv
<1>2. CASE LookupWrite \/ LookupRead
  <2>1. /\ pc = "lookup" /\ pc' \in {"return", "append"}
        /\ pc' = "append" => out' = out /\ (op.kind = "migrate" => op.key \notin DOMAIN index)
        /\ UNCHANGED <<op, index, applied, frame, directory, troubled>>
    BY <1>2 DEF LookupWrite, LookupRead, NothingToWrite, memory, files, trouble
  <2>2. ReloadsInv'
    BY <2>1 DEF ReloadsInv, Reloading, Loading, Compacting
  <2>3. AttemptInv'
    BY <1>1, <2>1, AttemptStays
  <2>4. KnownInv'
    BY <1>1, <2>1 DEF KnownInv, Loading, Compacting, Appending
  <2> QED BY <2>2, <2>3, <2>4 DEF WipeAnswerInv
<1>3. CASE LookupReadFails
  <2>1. GoneInv /\ MustReload
    BY <1>3, LookupMisses
  <2>2. /\ pc = "lookup" /\ pc' = "load" /\ op.kind = "get" /\ out' = None
        /\ UNCHANGED <<op, disk, applied, troubled>> /\ directory' = TRUE
        /\ frame'.attempt = frame.attempt /\ frame'.afterLoad = "return"
    BY <1>1, <1>3, <2>1 DEF LookupReadFails, Frames, Works, trouble
  <2>3. DOMAIN disk = {}
    BY <2>1 DEF GoneInv
  <2>4. ReloadsInv'
    BY <2>2, <2>3 DEF ReloadsInv, Reloading, Loading, Compacting
  <2>5. AttemptInv'
    BY <1>1, <2>2, AttemptStays
  <2>6. KnownInv'
    BY <1>1, <2>2 DEF KnownInv, Loading, Compacting, Appending
  <2> QED BY <2>4, <2>5, <2>6 DEF WipeAnswerInv
<1>4. CASE Return
  <2>1. pc' = "idle" /\ out' = "ok" /\ frame'.attempt = 0
    BY <1>4 DEF Return, NoLocals
  <2> QED BY <2>1
          DEF WipeAnswerInv, ReloadsInv, AttemptInv, KnownInv, Reloading, Loading, Compacting, Appending
<1> QED BY <1>2, <1>3, <1>4 DEF Lookup

\* Calls, deaths and removals keep it.
LEMMA WorldKnows ==
  ASSUME NoFaults, WipeInv, WipeAnswerInv, Callers \/ Crash \/ Wipe
  PROVE  WipeAnswerInv'
<1>1. /\ frame \in Frames /\ ReloadsInv /\ AttemptInv /\ KnownInv
      /\ TypeInv /\ ControlInv
  BY WipeFacts DEF WipeAnswerInv
<1>2. CASE Callers
  <2>1. PICK kind, k, v : Invoke(kind, k, v)
    BY <1>2 DEF Callers, setDisk, getDisk, deleteDisk, migrateLegacyEntries
  <2>2. /\ pc' \in {"lookup", "load"} /\ out' = "ok"
        /\ frame'.attempt = 0 /\ frame'.afterLoad \in {"idle", "lookup"}
    BY <2>1 DEF Invoke, NoLocals
  <2> QED BY <2>2
          DEF WipeAnswerInv, ReloadsInv, AttemptInv, KnownInv, Reloading, Loading, Compacting, Appending
<1>3. CASE Crash
  <2>1. pc' = "load" /\ out' = "ok" /\ frame'.attempt = 0 /\ frame'.afterLoad = "idle"
    BY <1>3 DEF Crash, FreshObject, NoLocals
  <2> QED BY <2>1
          DEF WipeAnswerInv, ReloadsInv, AttemptInv, KnownInv, Reloading, Loading, Compacting, Appending
<1>4. CASE Wipe
  <2>1. /\ DOMAIN disk' = {}
        /\ UNCHANGED <<index, segmentBytes, active, pc, op, frame, out, applied>>
    BY <1>4 DEF Wipe, memory, sizes, call
  <2>2. directory' = FALSE
    BY <1>4 DEF Wipe
  <2>3. op # NoOp => troubled'
    BY <1>4 DEF Wipe
  <2>4. /\ pc \in {"probe", "restore"} => op # NoOp
        /\ op = NoOp /\ Loading => frame.afterLoad = "idle"
    BY <1>1, OpsAre DEF ControlInv, Appending, AfterLoadInv
  <2>5. ReloadsInv'
    BY <1>1, <2>1, <2>3, <2>4 DEF ReloadsInv, Reloading, Loading, Compacting
  <2>6. AttemptInv'
    BY <1>1, <2>1, <2>2, <2>3, <2>4 DEF AttemptInv
  <2>7. KnownInv'
    BY <1>1, <2>1 DEF KnownInv, Loading, Compacting, Appending
  <2> QED BY <2>5, <2>6, <2>7 DEF WipeAnswerInv
<1> QED BY <1>2, <1>3, <1>4


\* Without failures an append fails only where the directory is gone; what is then
\* listed is there or has no committed lines; and an empty segment can be restored.
LEMMA AppendMisses ==
  ASSUME NoFaults, WipeInv, WipeAnswerInv
  PROVE  /\ WriteFails => /\ UNCHANGED <<disk, directory, op, frame, out, applied, index, troubled>>
                          /\ ~directory /\ pc = "write" /\ pc' = "probe"
         /\ ~ProbeOpens /\ ~RestoreFails
         /\ ProbeFails => /\ GoneInv /\ ~directory /\ directory' = TRUE /\ troubled' = troubled
                          /\ MustReload \/ segmentBytes[active] = 0
<1>1. /\ frame \in Frames /\ ~Breaks /\ AttemptInv /\ ControlInv /\ TypeInv /\ LinesInv
      /\ pc # "load" => loaded
  BY WipeFacts DEF WipeAnswerInv
<1>2. ASSUME WriteFails
      PROVE  /\ UNCHANGED <<disk, directory, op, frame, out, applied, index, troubled>>
             /\ ~directory /\ pc = "write" /\ pc' = "probe"
  BY <1>1, <1>2 DEF WriteFails, Works, trouble, memory
<1>3. ~ProbeOpens
  BY <1>1 DEF ProbeOpens, AttemptInv
<1>4. ~RestoreFails
  <2>1. SUFFICES ASSUME RestoreFails PROVE FALSE
    OBVIOUS
  <2>2. /\ pc = "restore" /\ segmentBytes[active] = 0
        /\ segmentBytes[active] > CompleteLength(FileOf(active))
    BY <1>1, <2>1 DEF RestoreFails, AttemptInv
  <2>3. PICK s \in Segments : s = active
    BY <1>1 DEF TypeInv, ObjectType
  <2>4. Files[s] \in Seq(Lines) /\ FileOf(s) = Files[s]
    BY <1>1, <2>3, FilesAre
  <2>5. CompleteLength(FileOf(s)) \in Nat
    BY <2>4, FileFacts
  <2> QED BY <2>2, <2>3, <2>5
<1>5. ASSUME ProbeFails
      PROVE  /\ GoneInv /\ ~directory /\ directory' = TRUE /\ troubled' = troubled
             /\ MustReload \/ segmentBytes[active] = 0
  <2>1. pc = "probe" /\ ~directory /\ loaded
    BY <1>1, <1>5 DEF ProbeFails, AttemptInv
  <2>2. GoneInv
    BY <2>1 DEF WipeInv, Inv, CallInv
  <2>3. Works /\ directory' = TRUE
    BY <1>1, <1>5, <2>1 DEF ProbeFails
  <2>4. active \in Segments /\ segmentBytes[active] \in Nat /\ active \notin DOMAIN disk
    BY <1>1, <2>2 DEF TypeInv, ObjectType, GoneInv
  <2>5. MustReload \/ segmentBytes[active] = 0
    BY <2>4 DEF MustReload, HasMissingSegment
  <2> QED BY <2>1, <2>2, <2>3, <2>5 DEF Works, trouble
<1> QED BY <1>2, <1>3, <1>4, <1>5

\* Appending keeps it.
LEMMA AppendKnows == ASSUME NoFaults, WipeInv, WipeAnswerInv, AppendLineLocked PROVE WipeAnswerInv'
<1>1. /\ frame \in Frames /\ ReloadsInv /\ AttemptInv /\ KnownInv /\ ControlInv
  BY WipeFacts DEF WipeAnswerInv
<1>2. CASE AppendLine \/ AfterRotationCompact
  <2>1. /\ pc \in {"append", "rotated"} /\ pc' \in {"return", "write", "compact"}
        /\ pc' # "return" => out' = out
        /\ pc' = "compact" => frame'.afterCompact = "rotated"
        /\ frame'.attempt = frame.attempt
        /\ UNCHANGED <<op, index, applied, directory, troubled>>
    <3>1. CASE AppendLine
      BY <1>1, <3>1 DEF AppendLine, NextSegment, Throw, Frames, files, trouble
    <3>2. CASE AfterRotationCompact
      BY <3>2 DEF AfterRotationCompact, NextSegment, Throw, files, trouble
    <3> QED BY <1>2, <3>1, <3>2
  <2>2. ReloadsInv'
    BY <2>1 DEF ReloadsInv, Reloading, Loading, Compacting
  <2>3. AttemptInv'
    BY <1>1, <2>1, AttemptStays
  <2>4. KnownInv'
    BY <1>1, <2>1 DEF KnownInv, Loading, Compacting, Appending
  <2> QED BY <2>2, <2>3, <2>4 DEF WipeAnswerInv
<1>3. CASE WriteLine
  <2>1. /\ pc = "write" /\ applied' = TRUE
        /\ pc' = "return" \/ (pc' = "compact" /\ frame'.afterCompact = "return")
        /\ frame'.attempt = frame.attempt
        /\ UNCHANGED <<op, out, directory, troubled>>
    BY <1>1, <1>3 DEF WriteLine, Commit, Frames, trouble
  <2>2. ReloadsInv'
    BY <2>1 DEF ReloadsInv, Reloading, Loading, Compacting
  <2>3. AttemptInv'
    BY <1>1, <2>1, AttemptStays
  <2>4. KnownInv'
    BY <1>1, <2>1 DEF KnownInv, Loading, Compacting, Appending
  <2> QED BY <2>2, <2>3, <2>4 DEF WipeAnswerInv
<1>4. CASE WriteFails
  <2>1. /\ UNCHANGED <<disk, directory, op, frame, out, applied, index, troubled>>
        /\ ~directory /\ pc = "write" /\ pc' = "probe"
    BY <1>4, AppendMisses
  <2>2. ReloadsInv'
    BY <2>1 DEF ReloadsInv, Reloading, Loading, Compacting
  <2>3. AttemptInv'
    BY <1>1, <2>1 DEF AttemptInv
  <2>4. KnownInv'
    BY <1>1, <2>1 DEF KnownInv, Loading, Compacting, Appending
  <2> QED BY <2>2, <2>3, <2>4 DEF WipeAnswerInv
<1>5. CASE ProbeFails
  <2>1. /\ GoneInv /\ ~directory /\ directory' = TRUE /\ troubled' = troubled
        /\ MustReload \/ segmentBytes[active] = 0
    BY <1>5, AppendMisses
  <2>2. /\ pc = "probe" /\ op \in Ops /\ op.kind # "get" /\ op # NoOp /\ out = "ok"
        /\ frame.attempt = 1 => troubled
        /\ frame.attempt \in {0, 1}
    BY <1>1, <1>5, <2>1, OpsAre
       DEF ProbeFails, ControlInv, Appending, AttemptInv, KnownInv, Loading, Compacting, Frames
  <2>3. UNCHANGED <<disk, index, op, applied>>
    BY <1>5 DEF ProbeFails
  <2>4. CASE /\ frame' = [frame EXCEPT
                            !.afterLoad = IF frame.attempt = 0 THEN "append" ELSE "return",
                            !.attempt = 1]
             /\ pc' = "load"
             /\ out' = IF frame.attempt = 0 THEN out ELSE "threw"
    <3>1. /\ frame'.attempt = 1
          /\ IF frame.attempt = 0 THEN frame'.afterLoad = "append" /\ out' = "ok"
             ELSE frame'.afterLoad = "return" /\ out' = "threw" /\ troubled'
      BY <1>1, <2>1, <2>2, <2>4 DEF Frames
    <3>2. DOMAIN disk = {}
      BY <2>1 DEF GoneInv
    <3>3. ReloadsInv'
      BY <2>2, <2>3, <2>4, <3>1, <3>2 DEF ReloadsInv, Reloading, Loading, Compacting
    <3>4. AttemptInv'
      BY <2>1, <2>2, <2>3, <2>4, <3>1 DEF AttemptInv
    <3>5. KnownInv'
      BY <2>4, <3>1 DEF KnownInv, Loading, Compacting, Appending
    <3> QED BY <3>3, <3>4, <3>5 DEF WipeAnswerInv
  <2>5. CASE /\ segmentBytes[active] = 0 /\ pc' = "restore"
             /\ frame' = [frame EXCEPT !.retry = TRUE]
             /\ UNCHANGED <<active, sizes, partiallyRead, appendsDisabled, out>>
    <3>1. frame'.attempt = frame.attempt /\ frame'.retry /\ segmentBytes'[active'] = 0
      BY <1>1, <2>5 DEF Frames, sizes
    <3>2. ReloadsInv'
      BY <2>5 DEF ReloadsInv, Reloading, Loading, Compacting
    <3>3. AttemptInv'
      BY <2>1, <2>2, <2>3, <2>5, <3>1 DEF AttemptInv
    <3>4. KnownInv'
      BY <1>1, <2>2, <2>3, <2>5 DEF KnownInv, Loading, Compacting, Appending
    <3> QED BY <3>2, <3>3, <3>4 DEF WipeAnswerInv
  <2>6. ~Breaks
    BY WipeFacts
  <2>7. CASE MustReload
    <3>1. /\ frame' = [frame EXCEPT
                         !.afterLoad = IF frame.attempt = 0 THEN "append" ELSE "return",
                         !.attempt = 1]
          /\ pc' = "load"
          /\ out' = IF frame.attempt = 0 THEN out ELSE "threw"
      BY <1>5, <2>6, <2>7 DEF ProbeFails
    <3> QED BY <2>4, <3>1
  <2>8. CASE ~MustReload /\ segmentBytes[active] = 0
    <3>1. /\ segmentBytes[active] = 0 /\ pc' = "restore"
          /\ frame' = [frame EXCEPT !.retry = TRUE]
          /\ UNCHANGED <<active, sizes, partiallyRead, appendsDisabled, out>>
      BY <1>5, <2>8 DEF ProbeFails
    <3> QED BY <2>5, <3>1
  <2> QED BY <2>1, <2>7, <2>8
<1>6. CASE RestoreActiveSegment
  <2>1. /\ pc = "restore" /\ UNCHANGED <<directory, index, op, applied, troubled>>
        /\ frame.retry /\ (directory \/ troubled) /\ op \in Ops /\ op # NoOp
        /\ frame.attempt = 1 => troubled
    BY <1>1, <1>6, OpsAre DEF RestoreActiveSegment, Works, trouble, AttemptInv, ControlInv, Appending
  <2>2. \/ pc' = "append" /\ out' = out /\ frame'.attempt = 1
        \/ pc' = "return" /\ frame' = frame
    BY <1>1, <1>6 DEF RestoreActiveSegment, TryAgainOrThrow, Throw, Frames
  <2>3. ReloadsInv'
    BY <2>2 DEF ReloadsInv, Reloading, Loading, Compacting
  <2>4. AttemptInv'
    BY <1>1, <2>1, <2>2 DEF AttemptInv
  <2>5. KnownInv'
    BY <1>1, <2>1, <2>2 DEF KnownInv, Loading, Compacting, Appending
  <2> QED BY <2>3, <2>4, <2>5 DEF WipeAnswerInv
<1> QED BY <1>2, <1>3, <1>4, <1>5, <1>6, AppendMisses DEF AppendLineLocked


\* Every step keeps it.
LEMMA StepKnows == ASSUME NoFaults, WipeInv, WipeAnswerInv, [Next]_vars PROVE WipeAnswerInv'
<1>1. CASE Step
  BY <1>1, LoadKnows, LookupKnows, AppendKnows, CompactKnows DEF Step
<1>2. CASE Callers \/ Crash \/ Wipe
  BY <1>2, WorldKnows
<1>3. CASE UNCHANGED vars
  <2>1. UNCHANGED <<disk, directory, index, segmentBytes, active, op, pc, frame, out, applied, troubled>>
    BY <1>3 DEF vars, files, memory, sizes, call, trouble
  <2> QED BY <2>1
          DEF WipeAnswerInv, ReloadsInv, AttemptInv, KnownInv, Reloading, Loading, Compacting, Appending
<1> QED BY <1>1, <1>2, <1>3 DEF Next

LEMMA InitKnows == ASSUME Init PROVE WipeAnswerInv
<1>1. /\ pc = "load" /\ out = "ok" /\ frame.attempt = 0 /\ frame.afterLoad = "idle"
  BY DEF Init, NoLocals
<1> QED BY <1>1
        DEF WipeAnswerInv, ReloadsInv, AttemptInv, KnownInv, Reloading, Loading, Compacting, Appending

\* In the middle of most operations it is AnswerInv.
LEMMA AnswersKnown ==
  ASSUME NoFaults, WipeInv, WipeAnswerInv, pc \notin {"probe", "restore"},
         ~(Loading /\ frame.afterLoad = "return")
  PROVE  AnswerInv
BY DEF WipeInv, CalmInv, WipeAnswerInv, KnownInv, AnswerInv

\* No files, no contents.
LEMMA NoContents == DOMAIN disk = {} => Contents = [k \in Keys |-> None]
<1> SUFFICES ASSUME DOMAIN disk = {} PROVE Contents = [k \in Keys |-> None]
  OBVIOUS
<1>1. \A k : Occurrences(k, DOMAIN disk) = {}
  BY DEF Occurrences
<1> QED BY <1>1 DEF Contents

LEMMA NextNoContents == (DOMAIN disk = {} => Contents = [k \in Keys |-> None])'
BY NoContents, PTL

\* A step inside a call is internal to the store or gives an answer that the map may give.
LEMMA AnswersOrGoesOn ==
  ASSUME pc # "return", Contents' = Contents, UNCHANGED <<op, applied, restarts, wipes>>,
         pc' = "return" => /\ op \in Ops /\ out' \in Values \cup {None, "ok", "threw"}
                           /\ Map!MayAnswer(out', (troubled \/ appendsDisabled)')
  PROVE  Map!MapNext
<1>1. CASE pc' = "return"
  BY <1>1, StepAnswersCall
<1>2. CASE pc' # "return"
  BY <1>2, StepIsInternal
<1> QED BY <1>1, <1>2

\* Loading changes nothing of the map, and a call that ends with it has its answer.
LEMMA LoadMaps == ASSUME NoFaults, WipeInv, WipeAnswerInv, Load PROVE Map!MapNext
<1>1. /\ TypeInv /\ ControlInv /\ ~LoadFails /\ ReloadsInv /\ CalmInv /\ frame \in Frames
  BY WipeFacts DEF WipeAnswerInv
<1>2. CASE LoadRead \/ TrimFails \/ LoadFinish \/ Reclaim
  <2>1. /\ pc \in {"load", "trim", "reclaim"} /\ pc' \in {"trim", "reclaim", "compact"}
        /\ UNCHANGED <<disk, op, applied, restarts, wipes>>
    BY <1>2 DEF LoadRead, TrimFails, LoadFinish, Reclaim, files, counters
  <2> QED BY <2>1, ContentsAreOfFiles, StepIsInternal
<1>3. CASE TrimSegment
  <2>1. pc = "trim" /\ pc' = "trim" /\ UNCHANGED <<op, applied, restarts, wipes>>
    BY <1>3 DEF TrimSegment, counters
  <2>2. CASE Inv
    <3>1. Inv' /\ SameMeaning(Files, Files')
      BY <1>3, <2>2, TrimSegmentKeeps, TailsMeanNothing
    <3>2. Contents' = Contents
      BY <2>2, <3>1, ContentsStay
    <3> QED BY <2>1, <3>2, StepIsInternal
  <2>3. CASE GoneInv
    <3>1. WithoutFile(Min(frame.trim)) = disk /\ ~directory
      BY <2>1, <2>3, WhenGone DEF WipeInv
    <3>2. disk' = disk
      BY <1>3, <3>1 DEF TrimSegment
    <3> QED BY <2>1, <3>2, ContentsAreOfFiles, StepIsInternal
  <2> QED BY <2>2, <2>3, WipeFacts
<1>4. CASE LoadReturns
  <2>1. /\ pc = "reclaim" /\ Loading /\ pc' = frame.afterLoad /\ ~applied
        /\ UNCHANGED <<disk, op, out, applied, troubled, restarts, wipes>>
    BY <1>1, <1>4 DEF LoadReturns, Loading, CalmInv, Compacting, files, trouble, counters
  <2>2. Contents' = Contents
    BY <2>1, ContentsAreOfFiles
  <2>3. ASSUME pc' = "return"
        PROVE  /\ op \in Ops /\ out' \in Values \cup {None, "ok", "threw"}
               /\ Map!MayAnswer(out', (troubled \/ appendsDisabled)')
    <3>1. op \in Ops /\ op.key \in Keys
      BY <1>1, <2>1, <2>3 DEF ControlInv, AfterLoadInv, TypeInv, CallType, CallOK, Ops
    <3>2. CASE op.kind = "get"
      <4>1. out' = None /\ DOMAIN disk = {}
        BY <1>1, <2>1, <2>3, <3>2 DEF ReloadsInv, Reloading
      <4>2. Contents[op.key] = None
        BY <3>1, <4>1, NoContents
      <4> QED BY <3>1, <3>2, <4>1, <4>2 DEF Map!MayAnswer
    <3>3. CASE op.kind # "get"
      <4>1. out' = "threw" /\ troubled'
        BY <1>1, <2>1, <2>3, <3>3 DEF ReloadsInv
      <4> QED BY <2>1, <3>1, <4>1 DEF Map!MayAnswer
    <3> QED BY <3>2, <3>3
  <2> QED BY <2>1, <2>2, <2>3, AnswersOrGoesOn
<1> QED BY <1>1, <1>2, <1>3, <1>4 DEF Load

\* What is asked of files that are gone: nothing is there.
LEMMA GoneAnswers ==
  ASSUME NoFaults, CalmInv, GoneInv, WipeAnswerInv, Lookup
  PROVE  Map!MapNext
<1>1. /\ TypeInv /\ ControlInv /\ KnownInv /\ WipeInv
  BY WhenGone DEF WipeAnswerInv, WipeInv
<1>2. /\ Contents = [k \in Keys |-> None]
  BY NoContents DEF GoneInv
<1>3. pc = "lookup" => /\ loaded /\ op \in Ops /\ op.key \in Keys /\ out = "ok" /\ ~applied
  BY <1>1, WhenGone DEF ControlInv, Answering, Ops, KnownInv, Loading, Compacting, CalmInv
<1>4. loaded /\ op.key \in DOMAIN index => Blind
  <2>1. SUFFICES ASSUME loaded, op.key \in DOMAIN index PROVE Blind
    OBVIOUS
  <2>2. PICK k \in DOMAIN index : k = op.key
    BY <2>1
  <2>3. PICK s : s = index[k].seg
    OBVIOUS
  <2>4. index[k] \in Positions /\ segmentBytes[s] > 0
    BY <2>1, <2>2, <2>3, WhenGone
  <2>5. s \in Segments
    BY <2>3, <2>4 DEF Positions
  <2>6. s \notin DOMAIN disk
    BY DEF GoneInv
  <2> QED BY <2>4, <2>5, <2>6 DEF Blind, HasMissingSegment
<1>5. CASE LookupWrite
  <2>1. /\ pc = "lookup" /\ op.kind # "get" /\ Contents' = Contents
        /\ UNCHANGED <<op, applied, restarts, wipes, troubled, appendsDisabled>>
    BY <1>5, ContentsAreOfFiles DEF LookupWrite, files, counters, trouble, memory, quality
  <2>2. ASSUME pc' = "return"
        PROVE  /\ op \in Ops /\ out' \in Values \cup {None, "ok", "threw"}
               /\ Map!MayAnswer(out', (troubled \/ appendsDisabled)')
    <3>1. CASE NothingToWrite /\ UNCHANGED out
      BY <1>2, <1>3, <1>4, <2>1, <3>1 DEF Map!MayAnswer, NothingToWrite
    <3>2. CASE appendsDisabled /\ out' = "threw"
      BY <1>3, <2>1, <3>2 DEF Map!MayAnswer
    <3> QED BY <1>5, <2>2, <3>1, <3>2 DEF LookupWrite
  <2> QED BY <2>1, <2>2, AnswersOrGoesOn
<1>6. CASE LookupRead
  <2>1. /\ pc = "lookup" /\ op.kind = "get" /\ pc' = "return" /\ Contents' = Contents
        /\ UNCHANGED <<op, applied, restarts, wipes>>
    BY <1>6, ContentsAreOfFiles DEF LookupRead, files, counters
  <2>2. ~(op.key \in DOMAIN index /\ index[op.key].pos <= Len(FileOf(index[op.key].seg)))
    <3>1. SUFFICES ASSUME op.key \in DOMAIN index,
                          index[op.key].pos <= Len(FileOf(index[op.key].seg))
                   PROVE  FALSE
      OBVIOUS
    <3>2. FileOf(index[op.key].seg) = <<>> /\ Len(<<>>) = 0
      BY WhenGone
    <3>3. index[op.key] \in Positions
      BY <1>1, <3>1 DEF TypeInv, ObjectType
    <3> QED BY <3>1, <3>2, <3>3 DEF Positions
  <2>3. out' = None
    BY <1>6, <2>2 DEF LookupRead
  <2>4. Map!MayAnswer(out', (troubled \/ appendsDisabled)')
    BY <1>2, <1>3, <2>1, <2>3 DEF Map!MayAnswer
  <2> QED BY <1>3, <2>1, <2>3, <2>4, StepAnswersCall
<1>7. CASE LookupReadFails
  <2>1. MustReload
    BY <1>1, <1>7, LookupMisses
  <2>2. /\ pc = "lookup" /\ pc' = "load" /\ UNCHANGED <<disk, op, applied, restarts, wipes>>
    BY <1>7, <2>1 DEF LookupReadFails, counters
  <2> QED BY <2>2, ContentsAreOfFiles, StepIsInternal
<1>8. CASE Return
  <2>1. /\ pc = "return" /\ pc' = "idle" /\ op \in Ops /\ op' = NoOp /\ applied' = FALSE
        /\ Contents' = Contents /\ UNCHANGED <<restarts, wipes>>
    BY <1>1, <1>8, ContentsAreOfFiles DEF Return, files, counters, ControlInv, Answering
  <2>2. op # Map!NoCall /\ op' = Map!NoCall
    BY <2>1, OpsAre DEF Map!NoCall, NoOp
  <2>3. out # "pending"
    BY <1>1, SegmentStoreAssumption DEF TypeInv, CallType, CallOK
  <2>4. Map!Return
    BY <2>1, <2>2, <2>3 DEF Map!Return, Map!Pending
  <2> QED BY <2>4 DEF Map!MapNext, Blind
<1> QED BY <1>5, <1>6, <1>7, <1>8 DEF Lookup


\* An append that fails for good has met a removal during the call.
LEMMA AppendMaps ==
  ASSUME NoFaults, WipeInv, WipeInv', WipeAnswerInv, AppendLineLocked
  PROVE  Map!MapNext
<1>1. /\ TypeInv /\ ControlInv /\ AttemptInv /\ KnownInv /\ CalmInv /\ frame \in Frames
      /\ pc # "load" => loaded
      /\ pc \in {"append", "rotated", "write", "probe", "restore"}
  BY WipeFacts
     DEF WipeAnswerInv, AppendLineLocked, AppendLine, AfterRotationCompact, WriteLine, WriteFails,
         ProbeOpens, ProbeFails, RestoreActiveSegment, RestoreFails
<1>2. /\ op \in Ops /\ ~applied /\ out = "ok" /\ pc # "return"
  BY <1>1 DEF ControlInv, Appending, CalmInv, Compacting, KnownInv, Loading
<1>3. ASSUME Contents' = Contents, UNCHANGED <<op, applied, restarts, wipes>>,
             pc' = "return" => out' = "threw" /\ (troubled \/ appendsDisabled)'
      PROVE  Map!MapNext
  <2>1. pc' = "return" => Map!MayAnswer(out', (troubled \/ appendsDisabled)')
    BY <1>2, <1>3 DEF Map!MayAnswer
  <2> QED BY <1>2, <1>3, <2>1, AnswersOrGoesOn
<1>4. CASE AppendLine
  <2>1. UNCHANGED <<disk, op, applied, restarts, wipes>>
    BY <1>4 DEF AppendLine, files, counters
  <2>2. pc' = "return" => out' = "threw" /\ appendsDisabled'
    BY <1>4 DEF AppendLine, NextSegment, Throw
  <2> QED BY <1>3, <2>1, <2>2, ContentsAreOfFiles
<1>5. CASE AfterRotationCompact
  <2>1. UNCHANGED <<disk, op, applied, restarts, wipes>>
    BY <1>5 DEF AfterRotationCompact, files, counters
  <2>2. pc' = "return" => out' = "threw" /\ appendsDisabled'
    BY <1>5 DEF AfterRotationCompact, NextSegment, Throw
  <2> QED BY <1>3, <2>1, <2>2, ContentsAreOfFiles
<1>6. CASE WriteLine
  <2>1. pc = "write" /\ directory /\ ~(Loading /\ frame.afterLoad = "return")
    BY <1>6 DEF WriteLine, Loading, Compacting
  <2>2. Inv
    BY <2>1 DEF WipeInv, GoneInv
  <2>3. AnswerInv
    BY <2>1, AnswersKnown
  <2>4. Inv'
    BY <1>6, <2>2, WriteLineKeeps
  <2> QED BY <2>2, <2>3, <2>4, AppendRefines
<1>7. CASE WriteFails
  <2>1. UNCHANGED <<disk, op, applied, restarts, wipes>> /\ pc' = "probe"
    BY <1>7, AppendMisses DEF WriteFails, counters
  <2> QED BY <1>3, <2>1, ContentsAreOfFiles
<1>8. CASE ProbeFails
  <2>1. GoneInv /\ (MustReload \/ segmentBytes[active] = 0)
    BY <1>8, AppendMisses
  <2>2. UNCHANGED <<disk, op, applied, restarts, wipes>>
    BY <1>8 DEF ProbeFails, counters
  <2>3. pc' \in {"load", "restore"}
    BY <1>8, <2>1, WipeFacts DEF ProbeFails
  <2> QED BY <1>3, <2>2, <2>3, ContentsAreOfFiles
<1>9. CASE RestoreActiveSegment
  <2>1. /\ UNCHANGED <<op, applied, restarts, wipes, troubled>>
        /\ segmentBytes[active] = 0 /\ disk' = WithoutFile(active)
        /\ pc' = "return" => out' = "threw" /\ troubled'
    <3>1. /\ UNCHANGED <<op, applied, restarts, wipes>> /\ pc = "restore"
          /\ troubled' = troubled
      BY <1>9 DEF RestoreActiveSegment, Works, trouble, counters
    <3>2. /\ frame.retry /\ segmentBytes[active] = 0
          /\ frame.attempt = 1 => troubled
      BY <1>1, <3>1 DEF AttemptInv
    <3>3. disk' = WithoutFile(active)
      BY <1>9, <3>2 DEF RestoreActiveSegment
    <3>4. pc' = "return" => out' = "threw" /\ frame.attempt = 1
      <4>1. TryAgainOrThrow /\ frame.attempt \in {0, 1}
        BY <1>1, <1>9 DEF RestoreActiveSegment, Frames
      <4> QED BY <3>2, <4>1 DEF TryAgainOrThrow, Throw
    <3> QED BY <3>1, <3>2, <3>3, <3>4
  <2>2. CASE Inv
    <3>1. Inv' /\ SameMeaning(Files, Files')
      BY <1>9, <2>2, RestoreKeeps, TailsMeanNothing
    <3>2. Contents' = Contents
      BY <2>2, <3>1, ContentsStay
    <3> QED BY <1>3, <2>1, <3>2
  <2>3. CASE GoneInv
    <3>1. disk' = disk
      BY <1>1, <2>1, <2>3, WhenGone
    <3> QED BY <1>3, <2>1, <3>1, ContentsAreOfFiles
  <2> QED BY <2>2, <2>3, WipeFacts
<1> QED BY <1>4, <1>5, <1>6, <1>7, <1>8, <1>9, AppendMisses DEF AppendLineLocked

\* A compaction creates no file in an empty directory.
LEMMA CompactCreatesNothing ==
  ASSUME NoFaults, WipeInv, CompactSegment, DOMAIN disk = {}
  PROVE  DOMAIN disk' = {}
<1>1. ~Breaks /\ pc # "rewrite"
  BY WipeFacts DEF CalmInv
<1>2. CASE CompactAborts \/ MoveFails \/ RewriteFails
  BY <1>2 DEF CompactAborts, MoveFails, RewriteFails, files
<1>3. CASE CompactMoves \/ Rewrite
  BY <1>1, <1>3 DEF CompactMoves, Rewrite, AllLiveFound
<1>4. CASE MovedRemoves
  BY <1>4 DEF MovedRemoves, WithoutFile
<1> QED BY <1>1, <1>2, <1>3, <1>4 DEF CompactSegment, MovedRemoveFails

\* Nor does it change anything of the map.
LEMMA CompactMaps ==
  ASSUME NoFaults, WipeInv, WipeAnswerInv, CompactSegment
  PROVE  Map!MapNext
<1>1. CASE Inv /\ ~(Loading /\ frame.afterLoad = "return")
  <2>1. pc \notin {"probe", "restore"}
    BY DEF CompactSegment, CompactAborts, CompactMoves, MovedRemoves, MovedRemoveFails, MoveFails,
           Rewrite, RewriteFails
  <2>2. AnswerInv
    BY <1>1, <2>1, AnswersKnown
  <2>3. Inv'
    BY <1>1, CompactionFails, CompactMovesKeeps, MovedRemovesKeeps, RewriteKeeps
       DEF CompactSegment
  <2> QED BY <1>1, <2>2, <2>3, CompactRefines
<1>2. CASE DOMAIN disk = {}
  <2>1. ControlInv /\ KnownInv /\ ~Breaks
    BY WipeFacts DEF WipeAnswerInv
  <2>2. Contents' = Contents
    BY <1>2, CompactCreatesNothing, NoContents, NextNoContents
  <2>3. /\ Compacting
        /\ CompactReturns \/ pc' \in {"moved", "rewrite"}
        /\ UNCHANGED <<op, out, applied, restarts, wipes>>
    <3>1. CASE CompactAborts \/ MovedRemoveFails \/ MoveFails \/ RewriteFails
      BY <3>1 DEF CompactAborts, MovedRemoveFails, MoveFails, RewriteFails, Compacting, counters
    <3>2. CASE CompactMoves \/ MovedRemoves \/ Rewrite
      BY <3>2 DEF CompactMoves, MovedRemoves, Rewrite, Compacting, counters
    <3> QED BY <3>1, <3>2 DEF CompactSegment
  <2>4. pc # "return"
    BY <2>3 DEF Compacting
  <2>5. ASSUME pc' = "return"
        PROVE  /\ op \in Ops /\ out' \in Values \cup {None, "ok", "threw"}
               /\ Map!MayAnswer(out', (troubled \/ appendsDisabled)')
    <3>1. frame.afterCompact = "return"
      BY <2>3, <2>5 DEF CompactReturns
    <3>2. applied /\ op \in Ops /\ out = "ok"
      BY <2>1, <2>3, <3>1 DEF KnownInv, ControlInv, Answering, Loading, Compacting
    <3> QED BY <2>3, <3>2 DEF Map!MayAnswer
  <2> QED BY <2>2, <2>3, <2>4, <2>5, AnswersOrGoesOn
<1>3. (Inv /\ ~(Loading /\ frame.afterLoad = "return")) \/ DOMAIN disk = {}
  BY WipeFacts DEF GoneInv, WipeAnswerInv, ReloadsInv, Reloading
<1> QED BY <1>1, <1>2, <1>3

\* Calls begin, the process dies, and the directory is removed, as in the map.
LEMMA WorldMaps ==
  ASSUME NoFaults, WipeInv, WipeAnswerInv, Callers \/ Crash \/ Wipe
  PROVE  Map!MapNext
<1>1. TypeInv /\ ControlInv /\ CalmInv
  BY WipeFacts
<1>2. CASE Callers
  BY <1>1, <1>2, CallersRefine DEF CalmInv, Compacting
<1>3. CASE Crash
  <2>1. CASE Inv /\ pc = "write"
    <3>1. AnswerInv
      BY <2>1, AnswersKnown DEF Loading, Compacting
    <3>2. Inv'
      BY <1>3, <2>1, CrashKeeps
    <3> QED BY <1>3, <2>1, <3>1, <3>2, CrashRefines
  <2>2. CASE UNCHANGED disk
    <3>1. /\ op' = NoOp /\ applied' = FALSE /\ pc' = "load" /\ restarts' = restarts + 1
          /\ UNCHANGED wipes
      BY <1>3 DEF Crash, FreshObject
    <3>2. Map!Crash
      BY <2>2, <3>1, ContentsAreOfFiles DEF Map!Crash, Map!NoCall, Map!Pending, NoOp
    <3> QED BY <3>2 DEF Map!MapNext, Blind
  <2>3. Inv \/ ~directory \/ pc # "write"
    BY WipeFacts DEF GoneInv
  <2> QED BY <1>3, <2>1, <2>2, <2>3 DEF Crash
<1>4. CASE Wipe
  <2>1. /\ DOMAIN disk' = {} /\ wipes' = wipes + 1
        /\ UNCHANGED <<op, applied, out, pc, restarts>>
    BY <1>4 DEF Wipe, call
  <2>2. Contents' = [k \in Keys |-> None]
    BY <2>1, NextNoContents
  <2>3. Map!Wipe
    BY <2>1, <2>2 DEF Map!Wipe
  <2> QED BY <2>3 DEF Map!MapNext, Blind
<1> QED BY <1>2, <1>3, <1>4

\* Every step is one of the map or none.
LEMMA StepMaps ==
  ASSUME NoFaults, WipeInv, WipeInv', WipeAnswerInv, [Next]_vars
  PROVE  [Map!MapNext]_(Map!mapVars)
<1>1. CASE Load \/ AppendLineLocked \/ CompactSegment
  BY <1>1, LoadMaps, AppendMaps, CompactMaps
<1>2. CASE Lookup
  <2>1. CASE Inv
    <3>1. pc \in {"lookup", "return"}
      BY <1>2 DEF Lookup, LookupWrite, LookupRead, LookupReadFails, Return
    <3>2. AnswerInv
      BY <3>1, AnswersKnown DEF Loading, Compacting
    <3> QED BY <1>2, <2>1, <3>2, LookupRefines
  <2>2. CASE GoneInv
    BY <1>2, <2>2, GoneAnswers DEF WipeInv
  <2> QED BY <2>1, <2>2, WipeFacts
<1>3. CASE Callers \/ Crash \/ Wipe
  BY <1>3, WorldMaps
<1>4. CASE UNCHANGED vars
  <2>1. UNCHANGED <<disk, unreadable, segmentBytes, troubled, appendsDisabled, op, pc, out,
                    applied, restarts, wipes>>
    BY <1>4 DEF vars, files, memory, sizes, quality, call, trouble, counters
  <2>2. Contents' = Contents /\ Blind' = Blind
    BY <2>1, ContentsAreOfFiles DEF Blind, HasMissingSegment
  <2> QED BY <2>1, <2>2 DEF Map!mapVars
<1> QED BY <1>1, <1>2, <1>3, <1>4 DEF Next, Step


LEMMA WipeInvImplies == ASSUME NoFaults, WipeInv PROVE LogIsSound /\ BookkeepingIsExact
<1>1. CASE Inv
  BY <1>1, InvImpliesLog, InvImpliesBookkeeping
<1>2. CASE GoneInv
  BY <1>2, GoneIsSound, GoneIsExact DEF WipeInv
<1> QED BY <1>1, <1>2 DEF WipeInv

\* Without failures, the directory may be removed at any moment.
LEMMA MapUnfailing == NoFaults /\ Spec => ImplementsDurableMap
<1> SUFFICES ASSUME NoFaults PROVE Spec => ImplementsDurableMap
  OBVIOUS
<1>1. Init => WipeInv /\ WipeAnswerInv /\ Map!MapInit
  BY WipeInvInit, InitKnows, InitRefines
<1>2. WipeInv /\ [Next]_vars => WipeInv'
  BY WipeInvKeeps
<1>3. WipeInv /\ WipeAnswerInv /\ [Next]_vars => WipeAnswerInv'
  BY StepKnows
<1>4. WipeInv /\ WipeInv' /\ WipeAnswerInv /\ [Next]_vars => [Map!MapNext]_(Map!mapVars)
  BY StepMaps
<1> QED BY <1>1, <1>2, <1>3, <1>4, PTL DEF Spec, ImplementsDurableMap, Map!MapSpec

LEMMA LogUnfailing == NoFaults /\ Spec => []LogIsSound /\ []BookkeepingIsExact
<1> SUFFICES ASSUME NoFaults PROVE Spec => []LogIsSound /\ []BookkeepingIsExact
  OBVIOUS
<1>1. Init => WipeInv
  BY WipeInvInit
<1>2. WipeInv /\ [Next]_vars => WipeInv'
  BY WipeInvKeeps
<1>3. WipeInv => LogIsSound /\ BookkeepingIsExact
  BY WipeInvImplies
<1> QED BY <1>1, <1>2, <1>3, PTL DEF Spec

-----------------------------------------------------------------------------
(* The properties of the runs, as long as the platform does not remove the   *)
(* directory of a store whose file operations fail as well.                  *)

OneTrouble == NoWipes \/ NoFaults

\* No line is merged with a torn one, and a record is only ever appended above
\* everything else on the disk and at the offset that the index remembers,
\* through any deaths of the process, and any failures of the file system or
\* removals of the directory.
THEOREM LogStaysSound == OneTrouble /\ Spec => []LogIsSound
<1>1. CASE NoWipes
  BY <1>1, LogUnwiped
<1>2. CASE NoFaults
  BY <1>2, LogUnfailing
<1> QED BY <1>1, <1>2 DEF OneTrouble

\* Between any two file operations the object's index is what replaying the
\* files it could read would give, and its counters are their sizes and the
\* numbers of their dead lines; unless a segment is missing that the object
\* believes to have lines, which the next failing call notices.
THEOREM BookkeepingStaysExact == OneTrouble /\ Spec => []BookkeepingIsExact
<1>1. CASE NoWipes
  BY <1>1, BookkeepingUnwiped
<1>2. CASE NoFaults
  BY <1>2, LogUnfailing
<1> QED BY <1>1, <1>2 DEF OneTrouble

\* The store is the durable map it promises to be: through loading, rotation,
\* compaction, tombstones, deaths of the process, and failed and partial writes or
\* removals of the directory, every call takes effect at one instant or not at
\* all, and its answer is true.
THEOREM StoreImplementsMap == OneTrouble /\ Spec => ImplementsDurableMap
<1>1. CASE NoWipes
  BY <1>1, MapUnwiped
<1>2. CASE NoFaults
  BY <1>2, MapUnfailing
<1> QED BY <1>1, <1>2 DEF OneTrouble
=============================================================================
