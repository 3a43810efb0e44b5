--------------------------- MODULE ServicesProofs ----------------------------
(* The safety of the write-behind storage, of any number of stores and names, *)
(* writes, failed flushes and removals, and kills.                            *)
EXTENDS MCServices, FiniteSetTheorems, WellFoundedInduction, TLAPS

-----------------------------------------------------------------------------
(* What a map is without some of its keys.                                  *)

\* A set of numbers has a least member.
LEMMA LeastNatural ==
  ASSUME NEW T \in SUBSET Nat, T # {}
  PROVE  \E x \in T : \A y \in T : x <= y
<1>1. PICK x \in T : \A y \in T : ~ (<<y, x>> \in OpToRel(<, Nat))
  BY WFMin, NatLessThanWellFounded
<1>2. \A y \in T : ~ (y < x)
  <2> SUFFICES ASSUME NEW y \in T, y < x PROVE FALSE
    OBVIOUS
  <2>1. <<y, x>> \in OpToRel(<, Nat)
    BY DEF OpToRel
  <2> QED BY <1>1, <2>1
<1>3. \A y \in T : y \in Nat
  OBVIOUS
<1>4. \A y \in T : x <= y
  BY <1>2, <1>3
<1> QED BY <1>4

Entry == [key : Buffer!Keys, generation : Buffer!Generations]

\* No key has two entries.
OneEntryEach(q) == \A i, j \in 1..Len(q) : q[i].key = q[j].key => i = j

\* r has the first n entries of q but those of the keys of S.
Filters(S, q, n, r) ==
  /\ r \in Seq(Entry)
  /\ \A i \in 1..n : q[i].key \notin S => \E j \in 1..Len(r) : r[j] = q[i]
  /\ \A j \in 1..Len(r) : \E i \in 1..n : r[j] = q[i] /\ q[i].key \notin S
  /\ OneEntryEach(r)

\* An entry more, of a key that is not among the first n, keeps that.
LEMMA OneMoreFiltered ==
  ASSUME NEW S, NEW q \in Seq(Entry), OneEntryEach(q), NEW n \in 1..Len(q),
         NEW r, Filters(S, q, n - 1, r)
  PROVE  /\ q[n].key \in S => Filters(S, q, n, r)
         /\ q[n].key \notin S => Filters(S, q, n, Append(r, q[n]))
<1>1. Len(q) \in Nat /\ n \in Nat /\ q[n] \in Entry /\ \A i \in 1..n : i \in 1..(n - 1) \/ i = n
  OBVIOUS
<1>2. r \in Seq(Entry) /\ Len(r) \in Nat
  BY DEF Filters
<1>3. ASSUME q[n].key \in S PROVE Filters(S, q, n, r)
  <2>1. \A i \in 1..n : q[i].key \notin S => \E j \in 1..Len(r) : r[j] = q[i]
    BY <1>1, <1>3 DEF Filters
  <2>2. \A j \in 1..Len(r) : \E i \in 1..n : r[j] = q[i] /\ q[i].key \notin S
    <3> SUFFICES ASSUME NEW j \in 1..Len(r) PROVE \E i \in 1..n : r[j] = q[i] /\ q[i].key \notin S
      OBVIOUS
    <3>1. PICK i \in 1..(n - 1) : r[j] = q[i] /\ q[i].key \notin S
      BY DEF Filters
    <3> QED BY <1>1, <3>1
  <2> QED BY <1>2, <2>1, <2>2 DEF Filters
<1>4. ASSUME q[n].key \notin S PROVE Filters(S, q, n, Append(r, q[n]))
  <2> DEFINE w == Append(r, q[n])
  <2>1. w \in Seq(Entry) /\ Len(w) = Len(r) + 1 /\ w[Len(r) + 1] = q[n]
        /\ \A j \in 1..Len(r) : w[j] = r[j]
    BY <1>1, <1>2
  <2>2. \A j \in 1..Len(w) : j \in 1..Len(r) \/ j = Len(r) + 1
    BY <1>2, <2>1
  <2>3. Len(r) + 1 \in 1..Len(w) /\ \A j \in 1..Len(r) : j \in 1..Len(w)
    BY <1>2, <2>1
  <2> HIDE DEF w
  <2>4. \A i \in 1..n : q[i].key \notin S => \E j \in 1..Len(w) : w[j] = q[i]
    BY <1>1, <2>1, <2>3 DEF Filters
  <2>5. \A j \in 1..Len(w) : \E i \in 1..n : w[j] = q[i] /\ q[i].key \notin S
    <3> SUFFICES ASSUME NEW j \in 1..Len(w) PROVE \E i \in 1..n : w[j] = q[i] /\ q[i].key \notin S
      OBVIOUS
    <3>1. CASE j = Len(r) + 1
      BY <1>1, <1>4, <2>1, <3>1
    <3>2. CASE j \in 1..Len(r)
      <4>1. PICK i \in 1..(n - 1) : r[j] = q[i] /\ q[i].key \notin S
        BY <3>2 DEF Filters
      <4> QED BY <1>1, <2>1, <3>2, <4>1
    <3> QED BY <2>2, <3>1, <3>2
  <2>6. \A j \in 1..Len(r) : r[j].key # q[n].key
    <3> SUFFICES ASSUME NEW j \in 1..Len(r), r[j].key = q[n].key PROVE FALSE
      OBVIOUS
    <3>1. PICK i \in 1..(n - 1) : r[j] = q[i]
      BY DEF Filters
    <3>2. i \in 1..Len(q) /\ i # n /\ q[i].key = q[n].key
      BY <1>1, <3>1
    <3> QED BY <3>2 DEF OneEntryEach
  <2>7. OneEntryEach(w)
    BY <2>1, <2>2, <2>6 DEF OneEntryEach, Filters
  <2> QED BY <2>1, <2>4, <2>5, <2>7 DEF Filters, w
<1> QED BY <1>3, <1>4

\* The function Without is defined by: of each length the prefix, filtered.
Prefixes(S, q, m, f) ==
  f = [n \in 0..m |-> IF n = 0 THEN <<>>
                      ELSE IF q[n].key \in S THEN f[n - 1] ELSE Append(f[n - 1], q[n])]

\* There is such a function of every length, and it filters.
LEMMA PrefixesExist ==
  ASSUME NEW S, NEW q \in Seq(Entry), OneEntryEach(q)
  PROVE  \A m \in 0..Len(q) : \E f : Prefixes(S, q, m, f)
<1> DEFINE T == {m \in 0..Len(q) : ~ \E f : Prefixes(S, q, m, f)}
<1> SUFFICES ASSUME T # {} PROVE FALSE
  OBVIOUS
<1>1. T \in SUBSET Nat /\ Len(q) \in Nat
  OBVIOUS
<1>2. PICK m \in T : \A i \in T : m <= i
  <2> HIDE DEF T
  <2> QED BY <1>1, LeastNatural
<1>3. m \in 0..Len(q)
  OBVIOUS
<1>4. CASE m = 0
  <2> DEFINE f == [n \in 0..0 |-> <<>>]
  <2>1. Prefixes(S, q, 0, f)
    BY DEF Prefixes
  <2> HIDE DEF f
  <2> QED BY <1>4, <2>1
<1>5. CASE m # 0
  <2>1. m - 1 \in 0..Len(q) /\ ~ (m <= m - 1)
    BY <1>1, <1>3, <1>5
  <2>2. PICK f : Prefixes(S, q, m - 1, f)
    BY <1>2, <2>1
  <2> DEFINE next == IF q[m].key \in S THEN f[m - 1] ELSE Append(f[m - 1], q[m])
  <2> DEFINE g == [n \in 0..m |-> IF n = m THEN next ELSE f[n]]
  <2>3. \A n \in 0..m : g[n] = IF n = 0 THEN <<>>
                               ELSE IF q[n].key \in S THEN g[n - 1] ELSE Append(g[n - 1], q[n])
    <3> SUFFICES ASSUME NEW n \in 0..m
                 PROVE  g[n] = IF n = 0 THEN <<>>
                               ELSE IF q[n].key \in S THEN g[n - 1] ELSE Append(g[n - 1], q[n])
      OBVIOUS
    <3>1. CASE n = m
      <4>1. g[n] = next /\ m - 1 \in 0..m /\ m - 1 # m
        BY <1>1, <1>3, <1>5, <3>1
      <4>2. g[m - 1] = f[m - 1]
        BY <4>1
      <4> HIDE DEF g
      <4> QED BY <1>5, <3>1, <4>1, <4>2
    <3>2. CASE n # m
      <4>1. n \in 0..(m - 1) /\ g[n] = f[n]
        BY <1>1, <1>3, <3>2
      <4>2. f[n] = IF n = 0 THEN <<>>
                   ELSE IF q[n].key \in S THEN f[n - 1] ELSE Append(f[n - 1], q[n])
        BY <2>2, <4>1 DEF Prefixes
      <4>3. n # 0 => n - 1 \in 0..m /\ n - 1 # m
        BY <1>1, <1>3, <4>1
      <4>4. n # 0 => g[n - 1] = f[n - 1]
        BY <4>3
      <4> HIDE DEF g
      <4> QED BY <4>1, <4>2, <4>4
    <3> QED BY <3>1, <3>2
  <2>4. g = [n \in 0..m |-> g[n]]
    OBVIOUS
  <2>5. Prefixes(S, q, m, g)
    <3> HIDE DEF g
    <3> QED BY <2>3, <2>4 DEF Prefixes
  <2> HIDE DEF g
  <2> QED BY <2>5
<1> QED BY <1>4, <1>5

LEMMA PrefixesFilter ==
  ASSUME NEW S, NEW q \in Seq(Entry), OneEntryEach(q), NEW f, Prefixes(S, q, Len(q), f)
  PROVE  \A n \in 0..Len(q) : Filters(S, q, n, f[n])
<1> DEFINE T == {n \in 0..Len(q) : ~ Filters(S, q, n, f[n])}
<1> SUFFICES ASSUME T # {} PROVE FALSE
  OBVIOUS
<1>1. T \in SUBSET Nat /\ Len(q) \in Nat
  OBVIOUS
<1>2. PICK m \in T : \A i \in T : m <= i
  <2> HIDE DEF T
  <2> QED BY <1>1, LeastNatural
<1>3. m \in 0..Len(q)
  OBVIOUS
<1>4. f[0] = <<>> /\ (m # 0 => f[m] = IF q[m].key \in S THEN f[m - 1] ELSE Append(f[m - 1], q[m]))
  <2>1. 0 \in 0..Len(q) /\ m \in 0..Len(q)
    BY <1>1, <1>3
  <2>2. \A n \in 0..Len(q) : f[n] = IF n = 0 THEN <<>>
                      ELSE IF q[n].key \in S THEN f[n - 1] ELSE Append(f[n - 1], q[n])
    BY DEF Prefixes
  <2> QED BY <2>1, <2>2
<1>5. CASE m = 0
  <2>1. Filters(S, q, 0, <<>>)
    BY DEF Filters, OneEntryEach
  <2> QED BY <1>4, <1>5, <2>1
<1>6. CASE m # 0
  <2>1. m - 1 \in 0..Len(q) /\ ~ (m <= m - 1) /\ m \in 1..Len(q)
    BY <1>1, <1>3, <1>6
  <2>2. Filters(S, q, m - 1, f[m - 1])
    BY <1>2, <2>1
  <2>3. Filters(S, q, m, f[m])
    BY <1>4, <1>6, <2>1, <2>2, OneMoreFiltered
  <2> QED BY <2>3
<1> QED BY <1>5, <1>6

\* The map without S has the entries of the other keys.
LEMMA WithoutFilters ==
  ASSUME NEW S, pendingDiskWrites \in Seq(Entry), OneEntryEach(pendingDiskWrites)
  PROVE  Filters(S, pendingDiskWrites, Len(pendingDiskWrites), Buffer!Without(S))
<1> DEFINE q == pendingDiskWrites
           f == CHOOSE u : Prefixes(S, q, Len(q), u)
<1>1. Buffer!Without(S) = f[Len(q)]
  BY DEF Buffer!Without, Prefixes
<1>2. Len(q) \in 0..Len(q)
  OBVIOUS
<1>3. Prefixes(S, q, Len(q), f)
  BY <1>2, PrefixesExist
<1> HIDE DEF f
<1> QED BY <1>1, <1>2, <1>3, PrefixesFilter

-----------------------------------------------------------------------------
(* The write-behind storage.                                                *)

BufferTypes ==
  /\ pendingDiskWrites \in Seq(Entry) /\ OneEntryEach(pendingDiskWrites)
  /\ nextDiskWriteGeneration \in 0..MaxWrites
  /\ flushTimer \in BOOLEAN /\ flushRetryAttempt \in 0..Buffer!LastRetry
  /\ disk \in [Buffer!Keys -> 0..MaxWrites] /\ kills \in 0..MaxKills
  /\ latest \in [Buffer!Keys -> 0..MaxWrites] /\ unsure \subseteq Buffer!Keys
  /\ mayHold \in [Buffer!Keys -> SUBSET (0..MaxWrites)]

\* What waits may reach the disk at any failing flush.
PendingMayBeWritten ==
  \A i \in 1..Len(pendingDiskWrites) :
    pendingDiskWrites[i].generation \in mayHold[pendingDiskWrites[i].key]

\* An entry is what its key reads, and without one the disk is.
ReadsBack(k) ==
  /\ \A i \in 1..Len(pendingDiskWrites) :
       pendingDiskWrites[i].key = k => pendingDiskWrites[i].generation = latest[k]
  /\ (\A i \in 1..Len(pendingDiskWrites) : pendingDiskWrites[i].key # k) => disk[k] = latest[k]

BufferInv ==
  /\ BufferTypes /\ PendingMayBeWritten
  /\ \A k \in Buffer!Keys \ unsure : ReadsBack(k)
  /\ Buffer!DiskIsRecent /\ Buffer!TimerGuardsPending

LEMMA SameCardinality == ASSUME NEW S PROVE Buffer!Cardinality(S) = Cardinality(S)
  BY DEF Buffer!Cardinality, Cardinality

\* What the run checks follows.
LEMMA BufferInvSuffices == ASSUME BufferInv, Buffer!WriteBehindAssumption PROVE BufferHolds
<1>1. Buffer!TypeOK
  <2>1. ASSUME NEW k \in Buffer!Keys PROVE Buffer!Cardinality(Buffer!Positions(k)) <= 1
    <3>1. CASE Buffer!Positions(k) = {}
      BY <3>1, SameCardinality, FS_EmptySet
    <3>2. CASE Buffer!Positions(k) # {}
      <4>1. PICK i \in 1..Len(pendingDiskWrites) : pendingDiskWrites[i].key = k
        BY <3>2 DEF Buffer!Positions
      <4>2. Buffer!Positions(k) = {i}
        BY <4>1 DEF Buffer!Positions, BufferInv, BufferTypes, OneEntryEach
      <4> QED BY <4>2, SameCardinality, FS_Singleton
    <3> QED BY <3>1, <3>2
  <2> QED BY <2>1 DEF Buffer!TypeOK, BufferInv, BufferTypes, Entry
<1>2. Buffer!ReadsLatest
  <2> SUFFICES ASSUME NEW k \in Buffer!Keys \ unsure PROVE Buffer!getRaw(k) = latest[k]
    BY DEF Buffer!ReadsLatest
  <2>1. CASE Buffer!Positions(k) = {}
    BY <2>1 DEF Buffer!getRaw, Buffer!Positions, BufferInv, ReadsBack
  <2>2. CASE Buffer!Positions(k) # {}
    <3> DEFINE i == CHOOSE p \in Buffer!Positions(k) : TRUE
    <3>1. i \in Buffer!Positions(k)
      BY <2>2
    <3>2. Buffer!getRaw(k) = pendingDiskWrites[i].generation
      BY <2>2 DEF Buffer!getRaw
    <3> HIDE DEF i
    <3> QED BY <3>1, <3>2 DEF Buffer!Positions, BufferInv, ReadsBack
  <2> QED BY <2>1, <2>2
<1> QED BY <1>1, <1>2 DEF BufferHolds, BufferInv

\* The disk after some entries were written.
LEMMA WrittenIs ==
  ASSUME BufferTypes, NEW n \in 0..Len(pendingDiskWrites), NEW k \in Buffer!Keys
  PROVE  /\ \A i \in 1..n : pendingDiskWrites[i].key = k
                              => Buffer!Written(n)[k] = pendingDiskWrites[i].generation
         /\ (\A i \in 1..n : pendingDiskWrites[i].key # k) => Buffer!Written(n)[k] = disk[k]
         /\ Buffer!Written(n) \in [Buffer!Keys -> 0..MaxWrites]
<1>1. Len(pendingDiskWrites) \in Nat /\ 1..n \subseteq 1..Len(pendingDiskWrites)
      /\ \A i \in 1..n : pendingDiskWrites[i] \in Entry
  BY DEF BufferTypes
<1>2. ASSUME NEW c \in Buffer!Keys, NEW i \in 1..n, pendingDiskWrites[i].key = c
      PROVE  (CHOOSE m \in 1..n : pendingDiskWrites[m].key = c) = i
  BY <1>1, <1>2 DEF BufferTypes, OneEntryEach
<1>3. ASSUME NEW c \in Buffer!Keys
      PROVE  /\ \A i \in 1..n : pendingDiskWrites[i].key = c
                    => Buffer!Written(n)[c] = pendingDiskWrites[i].generation
             /\ (\A i \in 1..n : pendingDiskWrites[i].key # c) => Buffer!Written(n)[c] = disk[c]
  BY <1>2 DEF Buffer!Written
<1>4. ASSUME NEW c \in Buffer!Keys PROVE Buffer!Written(n)[c] \in 0..MaxWrites
  <2>1. CASE \E i \in 1..n : pendingDiskWrites[i].key = c
    BY <1>1, <1>3, <2>1 DEF Entry, Buffer!Generations
  <2>2. CASE \A i \in 1..n : pendingDiskWrites[i].key # c
    BY <1>3, <2>2 DEF BufferTypes
  <2> QED BY <2>1, <2>2
<1> QED BY <1>3, <1>4 DEF Buffer!Written


\* A write takes the place of the key's entry or the last one.
LEMMA PutIs ==
  ASSUME BufferTypes, NEW k \in Buffer!Keys, NEW g \in Buffer!Generations
  PROVE  LET q == Buffer!Put(k, g) IN
         /\ q \in Seq(Entry) /\ OneEntryEach(q) /\ q # <<>>
         /\ \E i \in 1..Len(q) : q[i] = [key |-> k, generation |-> g]
         /\ \A i \in 1..Len(pendingDiskWrites) : pendingDiskWrites[i].key # k
              => \E j \in 1..Len(q) : q[j] = pendingDiskWrites[i]
         /\ \A j \in 1..Len(q) : \/ q[j] = [key |-> k, generation |-> g]
                                 \/ /\ q[j].key # k
                                    /\ \E i \in 1..Len(pendingDiskWrites) : q[j] = pendingDiskWrites[i]
<1> DEFINE q == Buffer!Put(k, g)
           p == pendingDiskWrites
           new == [key |-> k, generation |-> g]
<1>1. p \in Seq(Entry) /\ OneEntryEach(p) /\ Len(p) \in Nat /\ new \in Entry /\ new.key = k
      /\ DOMAIN p = 1..Len(p)
  BY DEF BufferTypes, Entry
<1>2. CASE Buffer!Positions(k) = {}
  <2>1. q = Append(p, new)
    BY <1>2 DEF Buffer!Put
  <2>2. \A i \in 1..Len(p) : p[i].key # k
    BY <1>2 DEF Buffer!Positions
  <2>3. q \in Seq(Entry) /\ Len(q) = Len(p) + 1 /\ q[Len(p) + 1] = new
        /\ \A j \in 1..Len(p) : q[j] = p[j]
    BY <1>1, <2>1
  <2>4. \A j \in 1..Len(q) : j \in 1..Len(p) \/ j = Len(p) + 1
    BY <1>1, <2>3
  <2>5. Len(p) + 1 \in 1..Len(q) /\ \A j \in 1..Len(p) : j \in 1..Len(q)
    BY <1>1, <2>3
  <2> HIDE DEF q, p, new
  <2>6. OneEntryEach(q)
    BY <1>1, <2>2, <2>3, <2>4 DEF OneEntryEach
  <2>7. q # <<>>
    BY <1>1, <2>3
  <2> QED BY <1>1, <2>2, <2>3, <2>4, <2>5, <2>6, <2>7 DEF q, p, new
<1>3. CASE Buffer!Positions(k) # {}
  <2>1. q = [i \in 1..Len(p) |-> IF i \in Buffer!Positions(k) THEN new ELSE p[i]]
    BY <1>1, <1>3 DEF Buffer!Put
  <2>2. PICK m \in 1..Len(p) : p[m].key = k
    BY <1>3 DEF Buffer!Positions
  <2>3. Buffer!Positions(k) = {m}
    BY <1>1, <2>2 DEF Buffer!Positions, OneEntryEach
  <2>4. q = [i \in 1..Len(p) |-> IF i = m THEN new ELSE p[i]]
    BY <2>1, <2>3
  <2> HIDE DEF q, p, new
  <2>5. Len(q) = Len(p) /\ q \in Seq(Entry) /\ q # <<>>
    BY <1>1, <2>2, <2>4
  <2>6. q[m] = new /\ \A i \in 1..Len(p) : i # m => q[i] = p[i] /\ q[i].key # k
    BY <1>1, <2>2, <2>4 DEF OneEntryEach
  <2>7. OneEntryEach(q)
    BY <1>1, <2>5, <2>6 DEF OneEntryEach
  <2> QED BY <1>1, <2>2, <2>5, <2>6, <2>7 DEF q, p, new
<1> QED BY <1>2, <1>3

LEMMA SetKeepsBuffer ==
  ASSUME BufferInv, Buffer!WriteBehindAssumption, NEW k \in Buffer!Keys, Buffer!set(k)
  PROVE  BufferInv'
<1> DEFINE g == nextDiskWriteGeneration + 1
           q == Buffer!Put(k, g)
<1>1. /\ nextDiskWriteGeneration' = g /\ pendingDiskWrites' = q /\ flushTimer' = TRUE
      /\ latest' = [latest EXCEPT ![k] = g] /\ unsure' = unsure \ {k}
      /\ mayHold' = [mayHold EXCEPT ![k] = @ \cup {g}]
      /\ UNCHANGED <<flushRetryAttempt, disk, kills>>
      /\ g \in Buffer!Generations /\ g \in 0..MaxWrites
  BY DEF Buffer!set, BufferInv, BufferTypes, Buffer!Generations, Buffer!WriteBehindAssumption
<1>2. BufferTypes
  BY DEF BufferInv
<1> HIDE DEF g, q
<1>3. /\ q \in Seq(Entry) /\ OneEntryEach(q) /\ q # <<>>
      /\ \E i \in 1..Len(q) : q[i] = [key |-> k, generation |-> g]
      /\ \A i \in 1..Len(pendingDiskWrites) : pendingDiskWrites[i].key # k
           => \E j \in 1..Len(q) : q[j] = pendingDiskWrites[i]
      /\ \A j \in 1..Len(q) : \/ q[j] = [key |-> k, generation |-> g]
                              \/ /\ q[j].key # k
                                 /\ \E i \in 1..Len(pendingDiskWrites) : q[j] = pendingDiskWrites[i]
  BY <1>1, <1>2, PutIs DEF q
<1>4. BufferTypes'
  BY <1>1, <1>2, <1>3 DEF BufferTypes
<1>5. mayHold'[k] = mayHold[k] \cup {g} /\ latest'[k] = g
      /\ \A c \in Buffer!Keys \ {k} : mayHold'[c] = mayHold[c] /\ latest'[c] = latest[c]
  BY <1>1, <1>2 DEF BufferTypes
<1>6. PendingMayBeWritten'
  <2> SUFFICES ASSUME NEW j \in 1..Len(q) PROVE q[j].generation \in mayHold'[q[j].key]
    BY <1>1 DEF PendingMayBeWritten
  <2>1. CASE q[j] = [key |-> k, generation |-> g]
    BY <1>5, <2>1
  <2>2. CASE q[j].key # k /\ \E i \in 1..Len(pendingDiskWrites) : q[j] = pendingDiskWrites[i]
    <3>1. q[j] \in Entry /\ q[j].generation \in mayHold[q[j].key]
      BY <1>3, <2>2 DEF BufferInv, PendingMayBeWritten
    <3> QED BY <1>5, <2>2, <3>1 DEF Entry
  <2> QED BY <1>3, <2>1, <2>2
<1>7. \A c \in Buffer!Keys \ unsure' : ReadsBack(c)'
  <2> SUFFICES ASSUME NEW c \in Buffer!Keys, c \notin unsure' PROVE ReadsBack(c)'
    OBVIOUS
  <2>1. CASE c = k
    BY <1>1, <1>3, <1>5, <2>1 DEF ReadsBack
  <2>2. CASE c # k
    <3>1. ReadsBack(c)
      BY <1>1, <2>2 DEF BufferInv
    <3>2. disk'[c] = disk[c] /\ latest'[c] = latest[c]
      BY <1>1, <1>5, <2>2
    <3>3. ASSUME NEW j \in 1..Len(q), q[j].key = c PROVE q[j].generation = latest[c]
      <4>1. PICK i \in 1..Len(pendingDiskWrites) : q[j] = pendingDiskWrites[i]
        BY <1>3, <2>2, <3>3
      <4> QED BY <3>1, <3>3, <4>1 DEF ReadsBack
    <3>4. ASSUME \A j \in 1..Len(q) : q[j].key # c PROVE disk[c] = latest[c]
      <4>1. \A i \in 1..Len(pendingDiskWrites) : pendingDiskWrites[i].key # c
        BY <1>3, <2>2, <3>4
      <4> QED BY <3>1, <4>1 DEF ReadsBack
    <3> QED BY <1>1, <3>2, <3>3, <3>4 DEF ReadsBack
  <2> QED BY <2>1, <2>2
<1>8. Buffer!DiskIsRecent'
  BY <1>1, <1>5 DEF BufferInv, Buffer!DiskIsRecent
<1>9. Buffer!TimerGuardsPending'
  BY <1>1, <1>3 DEF Buffer!TimerGuardsPending
<1> QED BY <1>4, <1>6, <1>7, <1>8, <1>9 DEF BufferInv

\* A flush that writes everything, fails somewhere, or has nothing to write.
LEMMA FlushKeepsBuffer ==
  ASSUME BufferInv, Buffer!FlushOutcome
  PROVE  BufferInv'
<1> DEFINE p == pendingDiskWrites
<1>1. BufferTypes /\ Len(p) \in Nat /\ Len(p) \in 0..Len(p)
  BY DEF BufferInv, BufferTypes
<1>2. CASE Buffer!FlushSucceeds
  <2>1. /\ disk' = Buffer!Written(Len(p)) /\ pendingDiskWrites' = <<>> /\ flushTimer' = FALSE
        /\ flushRetryAttempt' = 0
        /\ mayHold' = [c \in Buffer!Keys |-> IF Buffer!Positions(c) = {} THEN mayHold[c] ELSE {disk'[c]}]
        /\ UNCHANGED <<nextDiskWriteGeneration, kills, latest, unsure>>
    BY <1>2 DEF Buffer!FlushSucceeds
  <2>2. disk' \in [Buffer!Keys -> 0..MaxWrites]
    <3>1. CASE Buffer!Keys = {}
      BY <2>1, <3>1 DEF Buffer!Written
    <3>2. CASE Buffer!Keys # {}
      BY <1>1, <2>1, <3>2, WrittenIs
    <3> QED BY <3>1, <3>2
  <2>3. BufferTypes'
    <3>1. <<>> \in Seq(Entry) /\ OneEntryEach(<<>>) /\ Buffer!LastRetry \in Nat
      BY DEF OneEntryEach, Buffer!LastRetry
    <3>2. mayHold' \in [Buffer!Keys -> SUBSET (0..MaxWrites)]
      BY <1>1, <2>1, <2>2 DEF BufferTypes
    <3>3. pendingDiskWrites' \in Seq(Entry) /\ OneEntryEach(pendingDiskWrites')
      <4>1. pendingDiskWrites' = <<>>
        BY <2>1
      <4> QED BY <3>1, <4>1
    <3>4. flushTimer' \in BOOLEAN /\ flushRetryAttempt' \in 0..Buffer!LastRetry
      <4>1. flushTimer' = FALSE /\ flushRetryAttempt' = 0
        BY <2>1
      <4>2. flushTimer' \in BOOLEAN
        BY <4>1
      <4> QED BY <3>1, <4>1, <4>2
    <3> QED BY <1>1, <2>1, <2>2, <3>2, <3>3, <3>4 DEF BufferTypes
  <2>4. ASSUME NEW c \in Buffer!Keys \ unsure' PROVE ReadsBack(c)'
    <3>1. ReadsBack(c)
      BY <2>1, <2>4 DEF BufferInv
    <3>2. disk'[c] = latest[c]
      <4>1. CASE \A i \in 1..Len(p) : p[i].key # c
        BY <1>1, <2>1, <3>1, <4>1, WrittenIs DEF ReadsBack
      <4>2. CASE \E i \in 1..Len(p) : p[i].key = c
        BY <1>1, <2>1, <3>1, <4>2, WrittenIs DEF ReadsBack
      <4> QED BY <4>1, <4>2
    <3> QED BY <2>1, <3>2 DEF ReadsBack
  <2>5. Buffer!DiskIsRecent'
    <3> SUFFICES ASSUME NEW c \in Buffer!Keys PROVE disk'[c] \in mayHold'[c]
      BY DEF Buffer!DiskIsRecent
    <3>1. CASE Buffer!Positions(c) = {}
      BY <1>1, <2>1, <3>1, WrittenIs DEF Buffer!Positions, BufferInv, Buffer!DiskIsRecent
    <3>2. CASE Buffer!Positions(c) # {}
      BY <2>1, <3>2
    <3> QED BY <3>1, <3>2
  <2> QED BY <2>1, <2>3, <2>4, <2>5 DEF BufferInv, PendingMayBeWritten, Buffer!TimerGuardsPending
<1>3. ASSUME NEW n \in 0..Len(p), Buffer!FlushFails(n) PROVE BufferInv'
  <2>1. /\ p # <<>> /\ disk' = Buffer!Written(n) /\ flushTimer' = TRUE
        /\ flushRetryAttempt' = IF flushRetryAttempt < Buffer!LastRetry THEN flushRetryAttempt + 1
                                ELSE Buffer!LastRetry
        /\ UNCHANGED <<pendingDiskWrites, nextDiskWriteGeneration, kills, latest, unsure, mayHold>>
    BY <1>3 DEF Buffer!FlushFails, Buffer!observed
  <2>2. disk' \in [Buffer!Keys -> 0..MaxWrites]
    <3>1. CASE Buffer!Keys = {}
      BY <2>1, <3>1 DEF Buffer!Written
    <3>2. CASE Buffer!Keys # {}
      BY <1>1, <2>1, <3>2, WrittenIs
    <3> QED BY <3>1, <3>2
  <2>3. BufferTypes'
    BY <1>1, <2>1, <2>2 DEF BufferTypes, Buffer!LastRetry
  <2>4. \A i \in 1..n : i \in 1..Len(p)
    BY <1>1
  <2>5. ASSUME NEW c \in Buffer!Keys \ unsure' PROVE ReadsBack(c)'
    <3>1. ReadsBack(c)
      BY <2>1, <2>5 DEF BufferInv
    <3> QED BY <1>1, <2>1, <2>4, <2>5, <3>1, WrittenIs DEF ReadsBack
  <2>6. Buffer!DiskIsRecent'
    <3> SUFFICES ASSUME NEW c \in Buffer!Keys PROVE disk'[c] \in mayHold[c]
      BY <2>1 DEF Buffer!DiskIsRecent
    <3>1. CASE \A i \in 1..n : p[i].key # c
      BY <1>1, <2>1, <3>1, WrittenIs DEF BufferInv, Buffer!DiskIsRecent
    <3>2. CASE \E i \in 1..n : p[i].key = c
      BY <1>1, <2>1, <2>4, <3>2, WrittenIs DEF BufferInv, PendingMayBeWritten
    <3> QED BY <3>1, <3>2
  <2> QED BY <2>1, <2>3, <2>5, <2>6 DEF BufferInv, PendingMayBeWritten, Buffer!TimerGuardsPending
<1>4. CASE Buffer!FlushNothing
  <2>1. pendingDiskWrites = <<>> /\ flushTimer' = FALSE /\ flushRetryAttempt' = 0
        /\ UNCHANGED <<pendingDiskWrites, nextDiskWriteGeneration, disk, kills, latest, unsure, mayHold>>
    BY <1>4 DEF Buffer!FlushNothing, Buffer!observed
  <2>2. BufferTypes'
    <3>1. flushTimer' \in BOOLEAN /\ flushRetryAttempt' \in 0..Buffer!LastRetry
      <4>1. flushTimer' = FALSE /\ flushRetryAttempt' = 0
        BY <2>1
      <4>2. 0 \in 0..Buffer!LastRetry
        BY DEF Buffer!LastRetry
      <4>3. flushTimer' \in BOOLEAN
        BY <4>1
      <4> QED BY <4>1, <4>2, <4>3
    <3> QED BY <1>1, <2>1, <3>1 DEF BufferTypes
  <2>3. \A c \in Buffer!Keys \ unsure' : ReadsBack(c)'
    BY <2>1 DEF BufferInv, ReadsBack
  <2> QED BY <2>1, <2>2, <2>3 DEF BufferInv, PendingMayBeWritten, Buffer!TimerGuardsPending,
                                  Buffer!DiskIsRecent
<1> QED BY <1>2, <1>3, <1>4 DEF Buffer!FlushOutcome


\* A removal of the keys of S, of which the native storage removed those of gone:
\* all that are there, unless it threw.
LEMMA RemovalKeepsBuffer ==
  ASSUME BufferInv, NEW S \in SUBSET Buffer!Keys, NEW gone \in SUBSET S, NEW threw \in BOOLEAN,
         Buffer!Discard(S), Buffer!Removed(S, gone, threw),
         threw = FALSE => \A k \in S \ gone : disk[k] = 0,
         MaxWrites \in Nat
  PROVE  BufferInv'
<1> DEFINE p == pendingDiskWrites
           q == Buffer!Without(S)
<1>1. BufferTypes /\ Len(p) \in Nat
  BY DEF BufferInv, BufferTypes
<1>2. /\ pendingDiskWrites' = q
      /\ flushTimer' = IF q = <<>> THEN FALSE ELSE flushTimer
      /\ flushRetryAttempt' = IF q = <<>> THEN 0 ELSE flushRetryAttempt
      /\ UNCHANGED <<nextDiskWriteGeneration, kills>>
  BY DEF Buffer!Discard, Buffer!Removed
<1>3. /\ q \in Seq(Entry) /\ OneEntryEach(q)
      /\ \A i \in 1..Len(p) : p[i].key \notin S => \E j \in 1..Len(q) : q[j] = p[i]
      /\ \A j \in 1..Len(q) : \E i \in 1..Len(p) : q[j] = p[i] /\ p[i].key \notin S
  BY <1>1, WithoutFilters DEF BufferTypes, Filters
<1> HIDE DEF q
<1>4. \A k \in Buffer!Keys :
        /\ disk'[k] = IF k \in gone THEN 0 ELSE disk[k]
        /\ latest'[k] = IF k \in S THEN 0 ELSE latest[k]
        /\ mayHold'[k] = IF k \notin S THEN mayHold[k]
                         ELSE IF threw THEN mayHold[k] \cup {0} ELSE {0}
  BY DEF Buffer!Removed
<1>5. unsure' = IF threw THEN unsure \cup S ELSE unsure \ S
  BY DEF Buffer!Removed
<1>6. BufferTypes'
  <2>1. pendingDiskWrites' \in Seq(Entry) /\ OneEntryEach(pendingDiskWrites')
    BY <1>2, <1>3
  <2>2. flushTimer' \in BOOLEAN
    <3>1. flushTimer \in BOOLEAN /\ flushTimer' = IF q = <<>> THEN FALSE ELSE flushTimer
      BY <1>1, <1>2 DEF BufferTypes
    <3> QED BY <3>1
  <2>3. flushRetryAttempt' \in 0..Buffer!LastRetry
    <3>1. flushRetryAttempt \in 0..Buffer!LastRetry /\ 0 \in 0..Buffer!LastRetry
      BY <1>1 DEF BufferTypes, Buffer!LastRetry
    <3>2. flushRetryAttempt' = 0 \/ flushRetryAttempt' = flushRetryAttempt
      BY <1>2
    <3> QED BY <3>1, <3>2
  <2>4. 0 \in 0..MaxWrites
    OBVIOUS
  <2>5. disk' \in [Buffer!Keys -> 0..MaxWrites]
    BY <1>1, <2>4 DEF Buffer!Removed, BufferTypes
  <2>6. latest' \in [Buffer!Keys -> 0..MaxWrites]
    BY <1>1, <2>4 DEF Buffer!Removed, BufferTypes
  <2>7. mayHold' \in [Buffer!Keys -> SUBSET (0..MaxWrites)]
    <3>1. \A k \in Buffer!Keys : mayHold'[k] \in SUBSET (0..MaxWrites)
      BY <1>1, <1>4, <2>4 DEF BufferTypes
    <3>2. mayHold' = [k \in Buffer!Keys |-> mayHold'[k]]
      BY DEF Buffer!Removed
    <3> QED BY <3>1, <3>2
  <2>8. unsure' \subseteq Buffer!Keys
    BY <1>1, <1>5 DEF BufferTypes
  <2> QED BY <1>1, <1>2, <2>1, <2>2, <2>3, <2>5, <2>6, <2>7, <2>8 DEF BufferTypes
<1>7. PendingMayBeWritten'
  <2> SUFFICES ASSUME NEW j \in 1..Len(q) PROVE q[j].generation \in mayHold'[q[j].key]
    BY <1>2 DEF PendingMayBeWritten
  <2>1. PICK i \in 1..Len(p) : q[j] = p[i] /\ p[i].key \notin S
    BY <1>3
  <2>2. p[i].generation \in mayHold[p[i].key] /\ p[i].key \in Buffer!Keys
    <3>1. p \in Seq(Entry) /\ p[i] \in Entry
      BY <1>1 DEF BufferTypes
    <3> QED BY <3>1 DEF BufferInv, PendingMayBeWritten, Entry
  <2> QED BY <1>4, <2>1, <2>2
<1>8. ASSUME NEW k \in Buffer!Keys, k \notin unsure' PROVE ReadsBack(k)'
  <2>1. CASE k \in S
    <3>1. threw = FALSE
      BY <1>5, <1>8, <2>1
    <3>2. disk'[k] = 0 /\ latest'[k] = 0
      BY <1>4, <2>1, <3>1
    <3>3. \A j \in 1..Len(q) : q[j].key # k
      BY <1>3, <2>1
    <3> QED BY <1>2, <3>2, <3>3 DEF ReadsBack
  <2>2. CASE k \notin S
    <3>1. ReadsBack(k)
      BY <1>5, <1>8, <2>2 DEF BufferInv
    <3>2. disk'[k] = disk[k] /\ latest'[k] = latest[k]
      BY <1>4, <2>2
    <3>3. ASSUME NEW j \in 1..Len(q), q[j].key = k PROVE q[j].generation = latest[k]
      <4>1. PICK i \in 1..Len(p) : q[j] = p[i]
        BY <1>3
      <4> QED BY <3>1, <3>3, <4>1 DEF ReadsBack
    <3>4. ASSUME \A j \in 1..Len(q) : q[j].key # k PROVE disk[k] = latest[k]
      <4>1. \A i \in 1..Len(p) : p[i].key # k
        BY <1>3, <2>2, <3>4
      <4> QED BY <3>1, <4>1 DEF ReadsBack
    <3> QED BY <1>2, <3>2, <3>3, <3>4 DEF ReadsBack
  <2> QED BY <2>1, <2>2
<1>9. Buffer!DiskIsRecent'
  <2> SUFFICES ASSUME NEW k \in Buffer!Keys PROVE disk'[k] \in mayHold'[k]
    BY DEF Buffer!DiskIsRecent
  <2>1. disk[k] \in mayHold[k]
    BY DEF BufferInv, Buffer!DiskIsRecent
  <2>2. CASE k \notin S
    BY <1>4, <2>1, <2>2
  <2>3. CASE k \in S /\ threw = TRUE
    BY <1>4, <2>1, <2>3
  <2>4. CASE k \in S /\ threw = FALSE
    BY <1>4, <2>4
  <2> QED BY <2>2, <2>3, <2>4
<1>10. Buffer!TimerGuardsPending'
  <2>1. p = <<>> => q = <<>>
    <3> SUFFICES ASSUME p = <<>> PROVE q = <<>>
      OBVIOUS
    <3>1. Len(p) = 0 /\ \A j \in 1..Len(q) : FALSE
      BY <1>3
    <3>2. Len(q) = 0
      BY <1>3, <3>1
    <3> QED BY <1>3, <3>2
  <2>2. CASE q = <<>>
    <3>1. flushTimer' = FALSE /\ flushRetryAttempt' = 0 /\ pendingDiskWrites' = <<>>
      BY <1>2, <2>2
    <3> QED BY <3>1 DEF Buffer!TimerGuardsPending
  <2>3. CASE q # <<>>
    <3>1. flushTimer' = flushTimer /\ pendingDiskWrites' # <<>> /\ flushTimer = TRUE
      BY <1>1, <1>2, <2>1, <2>3 DEF BufferInv, Buffer!TimerGuardsPending, BufferTypes
    <3> QED BY <3>1 DEF Buffer!TimerGuardsPending
  <2> QED BY <2>2, <2>3
<1> QED BY <1>6, <1>7, <1>8, <1>9, <1>10 DEF BufferInv

LEMMA KillKeepsBuffer == ASSUME BufferInv, Buffer!Kill, MaxKills \in Nat PROVE BufferInv'
<1>1. /\ pendingDiskWrites' = <<>> /\ latest' = disk /\ unsure' = {} /\ kills' = kills + 1
      /\ kills < MaxKills /\ mayHold' = [k \in Buffer!Keys |-> {disk[k]}]
      /\ UNCHANGED <<nextDiskWriteGeneration, disk>>
  BY DEF Buffer!Kill
<1>2. flushTimer' = FALSE /\ flushRetryAttempt' = 0
  BY DEF Buffer!Kill
<1>3. BufferTypes'
  <2>1. <<>> \in Seq(Entry) /\ OneEntryEach(<<>>) /\ 0 \in 0..Buffer!LastRetry
    BY DEF OneEntryEach, Buffer!LastRetry
  <2>2. pendingDiskWrites' \in Seq(Entry) /\ OneEntryEach(pendingDiskWrites')
    <3>1. pendingDiskWrites' = <<>>
      BY <1>1
    <3> QED BY <2>1, <3>1
  <2>3. flushTimer' \in BOOLEAN
    BY <1>2
  <2>4. flushRetryAttempt' \in 0..Buffer!LastRetry
    BY <1>2, <2>1
  <2>5. disk' \in [Buffer!Keys -> 0..MaxWrites] /\ latest' \in [Buffer!Keys -> 0..MaxWrites]
        /\ mayHold' \in [Buffer!Keys -> SUBSET (0..MaxWrites)]
    BY <1>1 DEF BufferInv, BufferTypes
  <2>6. kills' \in 0..MaxKills
    BY <1>1 DEF BufferInv, BufferTypes
  <2> QED BY <1>1, <2>2, <2>3, <2>4, <2>5, <2>6 DEF BufferInv, BufferTypes
<1>4. \A k \in Buffer!Keys : ReadsBack(k)'
  BY <1>1 DEF ReadsBack
<1>5. PendingMayBeWritten' /\ Buffer!DiskIsRecent'
  BY <1>1 DEF PendingMayBeWritten, Buffer!DiskIsRecent
<1>6. Buffer!TimerGuardsPending'
  <2>1. pendingDiskWrites' = <<>>
    BY <1>1
  <2> QED BY <1>2, <2>1 DEF Buffer!TimerGuardsPending
<1> QED BY <1>3, <1>4, <1>5, <1>6 DEF BufferInv

-----------------------------------------------------------------------------
(* The composition: a step of the run is one of the storage, or it stutters. *)

LEMMA BufferRuns == Spec => Buffer!Spec
<1>1. Init => Buffer!Init
  BY DEF Init
<1>2. UNCHANGED buffering => UNCHANGED Buffer!vars
  BY DEF buffering, Buffer!vars, Buffer!buffer, Buffer!observed
<1>3. [Next]_vars => [Buffer!Next]_Buffer!vars
  <2> SUFFICES ASSUME [Next]_vars PROVE Buffer!Next \/ UNCHANGED buffering
    BY <1>2
  <2>1. CASE BufferStep
    BY <2>1 DEF BufferStep
  <2>2. CASE StoreStep
    BY <2>2 DEF StoreStep
  <2>3. CASE WorkerStep
    BY <2>3 DEF WorkerStep
  <2>4. CASE TransportStep
    BY <2>4 DEF TransportStep
  <2>5. CASE LifecycleStep
    BY <2>5 DEF LifecycleStep
  <2>6. CASE FlagsStep
    BY <2>6 DEF FlagsStep
  <2>7. CASE UNCHANGED vars
    BY <2>7 DEF vars
  <2> QED BY <2>1, <2>2, <2>3, <2>4, <2>5, <2>6, <2>7 DEF Next
<1> QED BY <1>1, <1>3, PTL DEF Spec, Buffer!Spec

\* Wherever flushes and removals of the write-behind storage break off and whenever
\* the process dies: a read returns what was last written or removed, the disk is
\* no older than the last completed flush or removal left it, and the timer is set
\* while there is something to write, and only then.
THEOREM WritesAreBuffered == Spec => []BufferHolds
<1>1. Buffer!WriteBehindAssumption
  BY ServicesAssumption
<1>2. Buffer!Init => BufferInv
  <2> SUFFICES ASSUME Buffer!Init PROVE BufferInv
    OBVIOUS
  <2>1. BufferTypes
    <3>1. <<>> \in Seq(Entry) /\ OneEntryEach(<<>>)
      BY DEF OneEntryEach
    <3>2. flushTimer \in BOOLEAN
      BY DEF Buffer!Init
    <3> QED BY <1>1, <3>1, <3>2 DEF Buffer!Init, BufferTypes, Buffer!WriteBehindAssumption,
                                    Buffer!LastRetry
  <2>2. Buffer!TimerGuardsPending
    BY DEF Buffer!Init, Buffer!TimerGuardsPending
  <2> QED BY <2>1, <2>2 DEF Buffer!Init, BufferInv, PendingMayBeWritten, ReadsBack,
                            Buffer!DiskIsRecent
<1>3. BufferInv /\ [Buffer!Next]_Buffer!vars => BufferInv'
  <2> SUFFICES ASSUME BufferInv, [Buffer!Next]_Buffer!vars PROVE BufferInv'
    OBVIOUS
  <2>1. CASE \E k \in Buffer!Keys : Buffer!set(k)
    BY <1>1, <2>1, SetKeepsBuffer
  <2>2. ASSUME NEW k \in Buffer!Keys, Buffer!remove(k) PROVE BufferInv'
    <3>1. Buffer!Discard({k}) /\ {k} \in SUBSET Buffer!Keys
      BY <2>2 DEF Buffer!remove
    <3>2. CASE Buffer!Removed({k}, {k}, FALSE)
      <4>1. \A c \in {k} \ {k} : disk[c] = 0
        OBVIOUS
      <4> QED BY <1>1, <3>1, <3>2, <4>1, RemovalKeepsBuffer DEF Buffer!WriteBehindAssumption
    <3>3. CASE \E gone \in SUBSET {k} : Buffer!Removed({k}, gone, TRUE)
      BY <1>1, <3>1, <3>3, RemovalKeepsBuffer DEF Buffer!WriteBehindAssumption
    <3> QED BY <2>2, <3>2, <3>3 DEF Buffer!remove
  <2>3. ASSUME NEW s \in Stores, Buffer!reset(s) PROVE BufferInv'
    <3> DEFINE S == Buffer!KeysOf(s)
               there == Buffer!Stored(s)
    <3>1. Buffer!Discard(S) /\ S \in SUBSET Buffer!Keys /\ there \in SUBSET S
          /\ \A c \in S \ there : disk[c] = 0
      BY <2>3 DEF Buffer!reset, Buffer!KeysOf, Buffer!Stored
    <3>2. Buffer!Removed(S, there, FALSE) \/ \E gone \in SUBSET there : Buffer!Removed(S, gone, TRUE)
      BY <2>3 DEF Buffer!reset
    <3> HIDE DEF S, there
    <3>3. CASE Buffer!Removed(S, there, FALSE)
      BY <1>1, <3>1, <3>3, RemovalKeepsBuffer DEF Buffer!WriteBehindAssumption
    <3>4. CASE \E gone \in SUBSET there : Buffer!Removed(S, gone, TRUE)
      BY <1>1, <3>1, <3>4, RemovalKeepsBuffer DEF Buffer!WriteBehindAssumption
    <3> QED BY <3>2, <3>3, <3>4
  <2>4. CASE Buffer!TimerFires \/ Buffer!flushPendingDiskWrites
    BY <2>4, FlushKeepsBuffer DEF Buffer!TimerFires, Buffer!flushPendingDiskWrites
  <2>5. CASE Buffer!Kill
    BY <1>1, <2>5, KillKeepsBuffer DEF Buffer!WriteBehindAssumption
  <2>6. CASE UNCHANGED Buffer!vars
    <3>1. UNCHANGED <<pendingDiskWrites, nextDiskWriteGeneration, flushRetryAttempt, disk, kills,
                      latest, unsure, mayHold>> /\ flushTimer' = flushTimer
      BY <2>6 DEF Buffer!vars, Buffer!buffer, Buffer!observed
    <3> QED BY <3>1 DEF BufferInv, BufferTypes, PendingMayBeWritten, ReadsBack,
                        Buffer!DiskIsRecent, Buffer!TimerGuardsPending
  <2> QED BY <2>1, <2>2, <2>3, <2>4, <2>5, <2>6 DEF Buffer!Next
<1>4. BufferInv => BufferHolds
  BY <1>1, BufferInvSuffices
<1> QED BY <1>2, <1>3, <1>4, BufferRuns, PTL DEF Buffer!Spec
=============================================================================
