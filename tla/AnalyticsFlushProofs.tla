------------------------ MODULE AnalyticsFlushProofs ------------------------
(* What TLAPS proves of AnalyticsFlush, for any destinations, events and    *)
(* number of operations, failures and switches of the network.              *)
EXTENDS AnalyticsFlush, SequenceTheorems, TLAPS

-----------------------------------------------------------------------------
(* The inductive invariant.                                                 *)

OperationType ==
    [phase : {"idle", "queued", "core", "waiting", "settled", "released"},
     after : Operations \cup {Nothing}, error : BOOLEAN, round : {0, 1, 2},
     ahead : [Destinations -> Nat], moved : BOOLEAN, sawDrop : BOOLEAN,
     result : {"none", "failed", "remaining", "dropped", "ok"},
     started : [Destinations -> SUBSET Events]]

\* The types, of which TypeOK leaves some out.
TypeInv ==
    /\ {networkEnabled, down, unsaved, flushActive} \subseteq BOOLEAN
    /\ tracked \subseteq Events
    /\ queue \in [Destinations -> SUBSET Events]
    /\ sent \in [Destinations -> SUBSET Events]
    /\ dropped \in [Destinations -> SUBSET Events]
    /\ scheduleId \in [Destinations -> Timers \cup {Nothing}]
    /\ flushId \in [Destinations -> Timers \cup {Nothing}]
    /\ armed \in [Destinations -> SUBSET Timers]
    /\ calls \in [Destinations -> Seq(CallOf)]
    /\ flushChain \in Operations \cup {Nothing}
    /\ op \in [Operations -> OperationType]

Done(o) == op[o].phase \in {"settled", "released"}

\* Operations are called in their order, and an operation that has started, or
\* waits for no other, has only such before it that are done.
OrderInv ==
    /\ \A o \in Operations : \A p \in 1 .. o - 1 :
          /\ op[o].phase # "idle" => op[p].phase # "idle"
          /\ op[o].phase \notin {"idle", "queued"} => Done(p)
          /\ op[o].phase = "queued" /\ op[o].after = Nothing => Done(p)
    /\ \A o \in Operations : op[o].phase = "queued" => op[o].after \in {Nothing, o - 1}
    /\ flushActive => flushChain # Nothing /\ op[flushChain].phase # "idle"
    /\ flushChain # Nothing => \A o \in Operations : o > flushChain => op[o].phase = "idle"
    /\ ~flushActive => \A o \in Operations : op[o].phase = "idle" \/ Done(o)

\* Only the first call of a destination is sending.  It serves the timer that
\* flushId names, if there is one; no other timer may fire than that and the
\* scheduled one, and the scheduled one will fire or has just done so.
DestinationInv(d) ==
    /\ \A i \in 1 .. Len(calls[d]) :
          IF calls[d][i].phase = "sending"
          THEN i = 1 /\ flushId[d] \in {Nothing, calls[d][i].timer}
          ELSE calls[d][i].timer = Nothing /\ calls[d][i].batch = {}
    /\ flushId[d] # Nothing => calls[d] # <<>> /\ calls[d][1].phase = "sending"
    /\ armed[d] \subseteq {scheduleId[d], flushId[d]}
    /\ scheduleId[d] # Nothing =>
          /\ \A i \in 1 .. Len(calls[d]) : calls[d][i].timer # scheduleId[d]
          /\ \/ scheduleId[d] \in armed[d]
             \/ \E i \in 1 .. Len(calls[d]) : calls[d][i].phase = "waiting"
    /\ queue[d] # {} => scheduleId[d] # Nothing \/ calls[d] # <<>>
TimerInv == \A d \in Destinations : DestinationInv(d)

\* An event is held, sent or dropped; what a request carries has no answer yet.
EventInv ==
    \A d \in Destinations :
        /\ queue[d] \cup sent[d] \cup dropped[d] \subseteq tracked
        /\ queue[d] \cap (sent[d] \cup dropped[d]) = {}
        /\ \A i \in 1 .. Len(calls[d]) :
              /\ calls[d][i].batch \cap (sent[d] \cup dropped[d]) = {}
              /\ calls[d][i].batch \subseteq tracked

\* What an operation has counted of the chains is still there, and is all there
\* is unless the chain has moved or the client was torn down.
WatchInv ==
    \A o \in Operations, d \in Destinations :
        op[o].phase = "waiting" =>
            /\ op[o].ahead[d] <= Len(calls[d])
            /\ ~down /\ ~op[o].moved => op[o].ahead[d] = Len(calls[d])

\* What an operation started with is held or sent unless it saw a drop; its
\* result is known when it has settled.
ResultInv ==
    \A o \in Operations :
        /\ Running(o) /\ o \in WithResult /\ ~op[o].sawDrop =>
              \A d \in Destinations : op[o].started[d] \subseteq queue[d] \cup sent[d]
        /\ op[o].phase # "settled" => op[o].result = "none"

\* What it did and why, for a caller that was told ok.
Inv == /\ TypeInv /\ OrderInv /\ TimerInv /\ EventInv
       /\ WatchInv /\ ResultInv /\ OkMeansSent

-----------------------------------------------------------------------------
(* The operators of the model.                                              *)

\* The first call leaves a chain.
LEMMA WithoutFirst ==
  ASSUME TypeInv, NEW d \in Destinations, calls[d] # <<>>
  PROVE  /\ Without(d, 1) \in Seq(CallOf)
         /\ Len(calls[d]) >= 1
         /\ Len(Without(d, 1)) = Len(calls[d]) - 1
         /\ \A j \in 1 .. Len(Without(d, 1)) :
               /\ j + 1 \in 1 .. Len(calls[d])
               /\ Without(d, 1)[j] = calls[d][j + 1]
<1>1. calls[d] \in Seq(CallOf)
  BY DEF TypeInv
<1>2. Len(calls[d]) \in Nat /\ Len(calls[d]) >= 1 /\ DOMAIN calls[d] = 1 .. Len(calls[d])
  BY <1>1, EmptySeq, LenProperties
<1>3. \A j \in 1 .. Len(calls[d]) : calls[d][j] \in CallOf
  BY <1>1, ElementOfSeq
<1>4. Without(d, 1) = [j \in 1 .. Len(calls[d]) - 1 |-> calls[d][j + 1]]
  BY <1>2 DEF Without
<1>5. Without(d, 1) \in [1 .. Len(calls[d]) - 1 -> CallOf]
  BY <1>2, <1>3, <1>4
<1>6. Without(d, 1) \in Seq(CallOf) /\ Len(Without(d, 1)) = Len(calls[d]) - 1
  <2>1. Len(calls[d]) - 1 \in Nat
    BY <1>2
  <2>2. Without(d, 1) \in Seq(CallOf)
    BY <1>5, <2>1, SeqDef
  <2>3. Len(Without(d, 1)) \in Nat /\ DOMAIN Without(d, 1) = 1 .. Len(Without(d, 1))
    BY <2>2, LenProperties
  <2>4. DOMAIN Without(d, 1) = 1 .. Len(calls[d]) - 1
    BY <1>4
  <2>5. 1 .. Len(Without(d, 1)) = 1 .. Len(calls[d]) - 1
    BY <2>3, <2>4
  <2> QED BY <2>1, <2>2, <2>3, <2>5
<1> QED BY <1>2, <1>4, <1>6

\* A call joins a chain.
LEMMA Joined ==
  ASSUME TypeInv, NEW d \in Destinations, NEW o \in Operations \cup {Nothing}
  PROVE  LET c == Append(calls[d], Waiting(o)) IN
         /\ c \in Seq(CallOf)
         /\ Len(calls[d]) \in Nat
         /\ Len(c) = Len(calls[d]) + 1
         /\ \A j \in 1 .. Len(calls[d]) : c[j] = calls[d][j]
         /\ c[Len(calls[d]) + 1] = Waiting(o)
<1>1. calls[d] \in Seq(CallOf) /\ Waiting(o) \in CallOf
  BY DEF TypeInv, Waiting, CallOf
<1> QED BY <1>1, AppendProperties, LenProperties

\* Three timers are enough to have one that nobody refers to.
LEMMA FreshIsFresh ==
  ASSUME TypeInv, NEW d \in Destinations, DestinationInv(d)
  PROVE  /\ Fresh(d) \in Timers /\ Fresh(d) # Nothing
         /\ Fresh(d) \notin armed[d] \cup {scheduleId[d], flushId[d]}
         /\ \A i \in 1 .. Len(calls[d]) : calls[d][i].timer # Fresh(d)
<1> DEFINE IsFresh(t) == /\ t \notin armed[d] \cup {scheduleId[d], flushId[d]}
                         /\ \A i \in DOMAIN calls[d] : calls[d][i].timer # t
           flushing == IF calls[d] = <<>> THEN Nothing ELSE calls[d][1].timer
<1>1. calls[d] \in Seq(CallOf) /\ DOMAIN calls[d] = 1 .. Len(calls[d])
  BY LenProperties DEF TypeInv
<1>2. \A i \in 1 .. Len(calls[d]) : calls[d][i].timer \in {Nothing, flushing}
  <2> SUFFICES ASSUME NEW i \in 1 .. Len(calls[d])
               PROVE  calls[d][i].timer \in {Nothing, flushing}
    OBVIOUS
  <2>1. calls[d] # <<>>
    BY <1>1, EmptySeq
  <2> QED BY <2>1 DEF DestinationInv
<1>3. flushId[d] \in {Nothing, flushing}
  <2>1. CASE flushId[d] = Nothing
    BY <2>1
  <2>2. CASE flushId[d] # Nothing
    <3>1. calls[d] # <<>> /\ calls[d][1].phase = "sending"
      BY <2>2 DEF DestinationInv
    <3>2. 1 \in 1 .. Len(calls[d])
      BY <1>1, <3>1, EmptySeq, LenProperties
    <3> QED BY <3>1, <3>2 DEF DestinationInv
  <2> QED BY <2>1, <2>2
<1>4. armed[d] \subseteq {scheduleId[d], flushId[d]}
  BY DEF DestinationInv
<1>5. PICK t \in Timers : t # scheduleId[d] /\ t # flushing
  BY FlushAssumption
<1>6. t # Nothing
  BY <1>5, FlushAssumption
<1>7. IsFresh(t)
  BY <1>1, <1>2, <1>3, <1>4, <1>5, <1>6
<1>8. Fresh(d) = CHOOSE x \in Timers : IsFresh(x)
  BY DEF Fresh
<1>9. Fresh(d) \in Timers /\ IsFresh(Fresh(d))
  <2> HIDE DEF IsFresh
  <2> QED BY <1>5, <1>7, <1>8
<1>10. Fresh(d) # Nothing
  BY <1>9, FlushAssumption
<1> QED BY <1>1, <1>9, <1>10

\* What the end of a call tells the operations.
LEMMA EndedIs ==
  ASSUME TypeInv, NEW d \in Destinations, NEW i, NEW rejected
  PROVE  /\ Ended(d, i, rejected, op) \in [Operations -> OperationType]
         /\ \A o \in Operations :
               /\ \A f \in {"phase", "after", "round", "moved", "sawDrop", "result", "started"} :
                     Ended(d, i, rejected, op)[o][f] = op[o][f]
               /\ \A e \in Destinations : Ended(d, i, rejected, op)[o].ahead[e] =
                     IF op[o].phase = "waiting" /\ e = d /\ op[o].ahead[d] > 0
                     THEN op[o].ahead[d] - 1 ELSE op[o].ahead[e]
<1> DEFINE E == Ended(d, i, rejected, op)
<1>1. E = [o \in Operations |->
        LET q == IF o = calls[d][i].by /\ op[o].phase = "core"
                 THEN [op[o] EXCEPT !.error = @ \/ rejected] ELSE op[o]
        IN  IF q.phase = "waiting" /\ q.ahead[d] > 0
            THEN [q EXCEPT !.ahead[d] = @ - 1] ELSE q]
  BY DEF Ended
<1>2. ASSUME NEW o \in Operations
      PROVE  /\ E[o] \in OperationType
             /\ \A f \in {"phase", "after", "round", "moved", "sawDrop", "result", "started"} :
                     E[o][f] = op[o][f]
             /\ \A e \in Destinations : E[o].ahead[e] =
                     IF op[o].phase = "waiting" /\ e = d /\ op[o].ahead[d] > 0
                     THEN op[o].ahead[d] - 1 ELSE op[o].ahead[e]
  <2>1. op[o] \in OperationType
    BY DEF TypeInv
  <2>2. CASE op[o].phase = "waiting"
    <3>1. CASE op[o].ahead[d] > 0
      <4>1. E[o] = [op[o] EXCEPT !.ahead[d] = @ - 1]
        BY <1>1, <2>2, <3>1
      <4>2. op[o].ahead \in [Destinations -> Nat] /\ op[o].ahead[d] - 1 \in Nat
        BY <2>1, <3>1 DEF OperationType
      <4> HIDE DEF E
      <4> QED BY <2>1, <2>2, <3>1, <4>1, <4>2 DEF OperationType
    <3>2. CASE ~(op[o].ahead[d] > 0)
      <4>1. E[o] = op[o]
        BY <1>1, <2>2, <3>2
      <4> HIDE DEF E
      <4> QED BY <2>1, <2>2, <3>2, <4>1 DEF OperationType
    <3> QED BY <3>1, <3>2
  <2>3. CASE op[o].phase # "waiting"
    <3>1. \/ E[o] = op[o]
          \/ E[o] = [op[o] EXCEPT !.error = @ \/ rejected]
      BY <1>1, <2>1, <2>3 DEF OperationType
    <3>2. op[o].error \in BOOLEAN
      BY <2>1 DEF OperationType
    <3>3. (op[o].error \/ rejected) \in BOOLEAN
      OBVIOUS
    <3> HIDE DEF E
    <3> QED BY <2>1, <2>3, <3>1, <3>3 DEF OperationType
  <2> QED BY <2>2, <2>3
<1> QED BY <1>1, <1>2

\* A new call outdates what the operations have counted.
LEMMA OutdatedIs ==
  ASSUME TypeInv
  PROVE  /\ Outdated(op) \in [Operations -> OperationType]
         /\ \A o \in Operations :
               /\ \A f \in {"phase", "after", "error", "round", "ahead", "sawDrop", "result",
                            "started"} : Outdated(op)[o][f] = op[o][f]
               /\ op[o].phase = "waiting" => Outdated(op)[o].moved
<1> SUFFICES ASSUME NEW o \in Operations
             PROVE  /\ Outdated(op)[o] \in OperationType
                    /\ \A f \in {"phase", "after", "error", "round", "ahead", "sawDrop", "result",
                                 "started"} : Outdated(op)[o][f] = op[o][f]
                    /\ op[o].phase = "waiting" => Outdated(op)[o].moved
  BY DEF Outdated
<1>1. op[o] \in OperationType
  BY DEF TypeInv
<1>2. Outdated(op)[o] = IF op[o].phase = "waiting" THEN [op[o] EXCEPT !.moved = TRUE] ELSE op[o]
  BY DEF Outdated
<1>3. CASE op[o].phase = "waiting"
  <2>1. Outdated(op)[o] = [op[o] EXCEPT !.moved = TRUE]
    BY <1>2, <1>3
  <2> QED BY <1>1, <2>1 DEF OperationType
<1>4. CASE op[o].phase # "waiting"
  BY <1>1, <1>2, <1>4
<1> QED BY <1>3, <1>4

-----------------------------------------------------------------------------
(* The order of the operations.                                             *)

\* It depends on phases and on who waits for whom.
LEMMA OrderKept ==
  ASSUME TypeInv, OrderInv, UNCHANGED chainVars,
         \A o \in Operations : op'[o].phase = op[o].phase /\ op'[o].after = op[o].after
  PROVE  OrderInv'
<1>1. \A o \in Operations : \A p \in 1 .. o - 1 : p \in Operations
  BY FlushAssumption DEF Operations
<1>2. flushActive' = flushActive /\ flushChain' = flushChain
  BY DEF chainVars
<1>3. flushChain \in Operations \cup {Nothing}
  BY DEF TypeInv
<1>4. \A o \in Operations : Done(o)' <=> Done(o)
  BY DEF Done
<1>5. \A o \in Operations : \A p \in 1 .. o - 1 :
          /\ op'[o].phase # "idle" => op'[p].phase # "idle"
          /\ op'[o].phase \notin {"idle", "queued"} => Done(p)'
          /\ op'[o].phase = "queued" /\ op'[o].after = Nothing => Done(p)'
  BY <1>1, <1>4 DEF OrderInv
<1>6. \A o \in Operations : op'[o].phase = "queued" => op'[o].after \in {Nothing, o - 1}
  BY DEF OrderInv
<1>7. /\ flushActive' => flushChain' # Nothing /\ op'[flushChain'].phase # "idle"
      /\ flushChain' # Nothing => \A o \in Operations : o > flushChain' => op'[o].phase = "idle"
  BY <1>2, <1>3 DEF OrderInv
<1>8. ~flushActive' => \A o \in Operations : op'[o].phase = "idle" \/ Done(o)'
  BY <1>2, <1>4 DEF OrderInv
<1> QED BY <1>5, <1>6, <1>7, <1>8 DEF OrderInv

\* Nobody runs when an operation may start, and nobody but the one that runs
\* has started and is not done.
LEMMA OneRuns ==
  ASSUME OrderInv, NEW o \in Operations, NEW p \in Operations, p # o,
         MayStart(o) \/ op[o].phase \notin {"idle", "queued"}
  PROVE  /\ p < o => Done(p)
         /\ MayStart(o) \/ Running(o) => ~Running(p)
<1>1. /\ o \in Nat /\ p \in Nat /\ o >= 1 /\ p >= 1
      /\ \A q \in Operations : \A r \in 1 .. q - 1 : r \in Operations
  BY FlushAssumption DEF Operations
<1>2. CASE p < o
  <2>1. p \in 1 .. o - 1
    BY <1>1, <1>2
  <2>2. Done(p)
    <3>1. CASE op[o].phase \notin {"idle", "queued"}
      BY <2>1, <3>1 DEF OrderInv
    <3>2. CASE MayStart(o) /\ op[o].after = Nothing
      BY <2>1, <3>2 DEF OrderInv, MayStart
    <3>3. CASE MayStart(o) /\ op[o].after # Nothing
      <4>1. op[o].after = o - 1 /\ o - 1 \in Operations /\ Done(o - 1)
        BY <3>3, <1>1, <1>2 DEF OrderInv, MayStart, Operations, Done
      <4>2. CASE p = o - 1
        BY <4>1, <4>2
      <4>3. CASE p # o - 1
        <5>1. p \in 1 .. (o - 1) - 1
          BY <1>1, <1>2, <4>3
        <5> QED BY <4>1, <5>1 DEF OrderInv, Done
      <4> QED BY <4>2, <4>3
    <3> QED BY <3>1, <3>2, <3>3
  <2> QED BY <2>2, <1>1 DEF Done, Running
<1>3. CASE p > o
  <2>1. o \in 1 .. p - 1
    BY <1>1, <1>3
  <2>2. Running(p) => Done(o)
    BY <2>1 DEF OrderInv, Running
  <2>3. CASE Running(p) /\ MayStart(o)
    BY <2>2, <2>3 DEF MayStart, Done
  <2>4. CASE Running(p) /\ Running(o)
    BY <2>2, <2>4 DEF Running, Done
  <2> QED BY <1>1, <1>3, <2>2, <2>3, <2>4
<1> QED BY <1>1, <1>2, <1>3

\* An operation that may goes on, and the chain is idle only if it was the last.
LEMMA OrderMoves ==
  ASSUME TypeInv, OrderInv, NEW o \in Operations,
         MayStart(o) \/ op[o].phase \notin {"idle", "queued"},
         op'[o].phase \notin {"idle", "queued"}, Done(o) => Done(o)',
         \A p \in Operations \ {o} : op'[p].phase = op[p].phase /\ op'[p].after = op[p].after,
         flushChain' = flushChain,
         \/ flushActive' = flushActive
         \/ flushActive' = FALSE /\ flushChain = o /\ Done(o)'
  PROVE  OrderInv'
<1>1. \A q \in Operations : \A r \in 1 .. q - 1 : r \in Operations /\ r < q /\ r # q
  BY FlushAssumption DEF Operations
<1>2. /\ flushChain \in Operations \cup {Nothing} /\ Nothing \notin Operations
      /\ Operations \subseteq Nat
  BY FlushAssumption DEF TypeInv, Operations
<1>3. \A p \in Operations \ {o} : Done(p)' <=> Done(p)
  BY DEF Done
<1>4. op[o].phase # "idle"
  BY DEF MayStart
<1>5. \A p \in Operations : p < o => Done(p) /\ p # o
  BY OneRuns, <1>2
<1>6. ASSUME NEW q \in Operations, NEW p \in 1 .. q - 1
      PROVE  /\ op'[q].phase # "idle" => op'[p].phase # "idle"
             /\ op'[q].phase \notin {"idle", "queued"} => Done(p)'
             /\ op'[q].phase = "queued" /\ op'[q].after = Nothing => Done(p)'
  <2>1. p \in Operations /\ p < q /\ p # q
    BY <1>1
  <2>2. CASE q = o
    <3>1. Done(p) /\ p # o
      BY <1>5, <2>1, <2>2
    <3> QED BY <1>3, <2>1, <2>2, <3>1 DEF Done
  <2>3. CASE q # o /\ p = o
    BY <2>1, <2>3 DEF OrderInv
  <2>4. CASE q # o /\ p # o
    BY <1>3, <2>1, <2>4 DEF OrderInv
  <2> QED BY <2>2, <2>3, <2>4
<1>7. \A q \in Operations : op'[q].phase = "queued" => op'[q].after \in {Nothing, q - 1}
  BY DEF OrderInv
<1>8. flushActive' => flushChain' # Nothing /\ op'[flushChain'].phase # "idle"
  <2> SUFFICES ASSUME flushActive'
               PROVE  flushChain # Nothing /\ op'[flushChain].phase # "idle"
    OBVIOUS
  <2>1. flushActive /\ flushChain # Nothing /\ op[flushChain].phase # "idle"
    BY DEF OrderInv
  <2> QED BY <1>2, <2>1
<1>9. flushChain' # Nothing => \A q \in Operations : q > flushChain' => op'[q].phase = "idle"
  BY <1>2, <1>4 DEF OrderInv
<1>10. ~flushActive' => \A q \in Operations : op'[q].phase = "idle" \/ Done(q)'
  <2>1. CASE flushActive' = flushActive
    <3> SUFFICES ASSUME ~flushActive, NEW q \in Operations
                 PROVE  op'[q].phase = "idle" \/ Done(q)'
      BY <2>1
    <3>1. op[q].phase = "idle" \/ Done(q)
      BY DEF OrderInv
    <3> QED BY <1>3, <1>4, <3>1
  <2>2. CASE flushChain = o /\ Done(o)'
    <3> SUFFICES ASSUME NEW q \in Operations
                 PROVE  op'[q].phase = "idle" \/ Done(q)'
      OBVIOUS
    <3>1. CASE q < o
      BY <1>3, <1>5, <3>1
    <3>2. CASE q > o
      <4>1. op[q].phase = "idle"
        BY <1>2, <2>2, <3>2 DEF OrderInv
      <4> QED BY <1>2, <3>2, <4>1
    <3> QED BY <1>2, <2>2, <3>1, <3>2
  <2> QED BY <2>1, <2>2
<1> QED BY <1>6, <1>7, <1>8, <1>9, <1>10 DEF OrderInv

-----------------------------------------------------------------------------
(* What keeps the other parts of the invariant.                             *)

\* An answer or a loss of events takes nothing from what has been sent.
LEMMA ResultKept ==
  ASSUME ResultInv, OkMeansSent,
         \A o \in Operations : \A f \in {"phase", "sawDrop", "result", "started"} :
            op'[o][f] = op[o][f],
         \A d \in Destinations : /\ queue[d] \cup sent[d] \subseteq queue'[d] \cup sent'[d]
                                 /\ sent[d] \subseteq sent'[d]
  PROVE  ResultInv' /\ OkMeansSent'
<1>1. \A o \in Operations : /\ op'[o].phase = op[o].phase /\ op'[o].sawDrop = op[o].sawDrop
                            /\ op'[o].result = op[o].result /\ op'[o].started = op[o].started
  OBVIOUS
<1>2. ResultInv'
  BY <1>1 DEF ResultInv, Running
<1>3. OkMeansSent'
  BY <1>1, FlushAssumption DEF OkMeansSent
<1> QED BY <1>2, <1>3

\* Chains and snapshots of them that nobody has touched.
LEMMA WatchKept ==
  ASSUME WatchInv, UNCHANGED <<calls, down>>,
         \A o \in Operations : \A f \in {"phase", "moved", "ahead"} : op'[o][f] = op[o][f]
  PROVE  WatchInv'
<1>1. \A o \in Operations : /\ op'[o].phase = op[o].phase /\ op'[o].moved = op[o].moved
                            /\ op'[o].ahead = op[o].ahead
  OBVIOUS
<1> QED BY <1>1 DEF WatchInv

\* A destination that nobody has touched.
LEMMA DestinationKept ==
  ASSUME NEW d \in Destinations, DestinationInv(d), calls'[d] = calls[d], queue'[d] = queue[d],
         scheduleId'[d] = scheduleId[d], flushId'[d] = flushId[d], armed'[d] = armed[d]
  PROVE  DestinationInv(d)'
BY DEF DestinationInv

\* schedule() leaves the destination with a timer that none of its calls serves.
LEMMA Schedules ==
  ASSUME TypeInv, NEW d \in Destinations, DestinationInv(d),
         NEW held \in {Nothing, scheduleId[d]}, NEW set
  PROVE  /\ Scheduled(d, held) \in Timers /\ Scheduled(d, held) # Nothing
         /\ \A i \in 1 .. Len(calls[d]) : calls[d][i].timer # Scheduled(d, held)
         /\ held # Nothing => Scheduled(d, held) = scheduleId[d] /\ ArmedBy(d, held, set) = set
         /\ held = Nothing => ArmedBy(d, held, set) = set \cup {Scheduled(d, held)}
<1>1. scheduleId[d] \in Timers \cup {Nothing}
  BY DEF TypeInv
<1>2. CASE held = Nothing
  BY <1>2, FreshIsFresh DEF Scheduled, ArmedBy
<1>3. CASE held # Nothing
  BY <1>1, <1>3 DEF Scheduled, ArmedBy, DestinationInv
<1> QED BY <1>2, <1>3

-----------------------------------------------------------------------------
(* The steps of the application.                                            *)

LEMMA TrackStep ==
  ASSUME Inv, NEW e \in Events, Track(e)
  PROVE  Inv'
<1> USE DEF Inv
<1>1. /\ ~down /\ e \notin tracked /\ tracked' = tracked \cup {e}
      /\ queue' = [d \in Destinations |-> queue[d] \cup {e}]
      /\ scheduleId' = [d \in Destinations |-> Scheduled(d, scheduleId[d])]
      /\ armed' = [d \in Destinations |-> ArmedBy(d, scheduleId[d], armed[d])]
      /\ unsaved' = TRUE
      /\ UNCHANGED <<networkEnabled, down, sent, dropped, flushId, calls, chainVars, op>>
  BY DEF Track
<1>2. \A d \in Destinations :
        /\ Scheduled(d, scheduleId[d]) \in Timers /\ Scheduled(d, scheduleId[d]) # Nothing
        /\ \A i \in 1 .. Len(calls[d]) : calls[d][i].timer # Scheduled(d, scheduleId[d])
        /\ scheduleId[d] # Nothing => /\ Scheduled(d, scheduleId[d]) = scheduleId[d]
                                      /\ ArmedBy(d, scheduleId[d], armed[d]) = armed[d]
        /\ scheduleId[d] = Nothing =>
              ArmedBy(d, scheduleId[d], armed[d]) = armed[d] \cup {Scheduled(d, scheduleId[d])}
  BY Schedules DEF TimerInv
<1>3. TypeInv'
  <2>1. ASSUME NEW d \in Destinations
        PROVE  ArmedBy(d, scheduleId[d], armed[d]) \in SUBSET Timers
    <3>1. armed[d] \in SUBSET Timers
      BY DEF TypeInv
    <3> QED BY <1>2, <3>1
  <2>2. queue' \in [Destinations -> SUBSET Events] /\ tracked' \subseteq Events
    BY <1>1 DEF TypeInv
  <2>3. /\ scheduleId' \in [Destinations -> Timers \cup {Nothing}]
        /\ armed' \in [Destinations -> SUBSET Timers]
    BY <1>1, <1>2, <2>1
  <2> QED BY <1>1, <2>2, <2>3 DEF TypeInv, chainVars
<1>4. OrderInv'
  BY <1>1, OrderKept
<1>5. TimerInv'
  <2> SUFFICES ASSUME NEW d \in Destinations PROVE DestinationInv(d)'
    BY DEF TimerInv
  <2>1. DestinationInv(d) /\ armed[d] \subseteq Timers /\ Nothing \notin Timers
    BY FlushAssumption DEF TimerInv, TypeInv
  <2>2. /\ scheduleId'[d] = Scheduled(d, scheduleId[d])
        /\ armed'[d] = ArmedBy(d, scheduleId[d], armed[d])
        /\ calls' = calls /\ flushId' = flushId
    BY <1>1
  <2> QED BY SMTT(60), <1>2, <2>1, <2>2 DEF DestinationInv
<1>6. EventInv'
  BY <1>1 DEF EventInv
<1>7. WatchInv'
  BY <1>1, WatchKept
<1>8. ResultInv' /\ OkMeansSent'
  BY <1>1, ResultKept
<1> QED BY <1>3, <1>4, <1>5, <1>6, <1>7, <1>8

LEMMA SwitchStep ==
  ASSUME Inv, NEW enabled \in BOOLEAN, setNetworkEnabled(enabled)
  PROVE  Inv'
<1> USE DEF Inv
<1>1. /\ networkEnabled' = enabled
      /\ UNCHANGED <<down, unsaved, tracked, destinationVars, calls, chainVars, op>>
  BY DEF setNetworkEnabled
<1>2. TypeInv'
  BY <1>1 DEF TypeInv, destinationVars, chainVars
<1>3. OrderInv'
  BY <1>1, OrderKept
<1>4. TimerInv'
  BY <1>1, DestinationKept DEF TimerInv, destinationVars
<1>5. EventInv'
  BY <1>1 DEF EventInv, destinationVars
<1>6. WatchInv'
  BY <1>1, WatchKept
<1>7. ResultInv' /\ OkMeansSent'
  BY <1>1, ResultKept DEF destinationVars
<1> QED BY <1>2, <1>3, <1>4, <1>5, <1>6, <1>7

\* The operation waits for the last one that was called, if any still runs.
LEMMA CallStep ==
  ASSUME Inv, NEW o \in Operations, Call(o)
  PROVE  Inv'
<1> USE DEF Inv
<1>1. /\ op[o].phase = "idle" /\ \A p \in 1 .. o - 1 : op[p].phase # "idle"
      /\ op' = [op EXCEPT ![o] = [@ EXCEPT !.phase = "queued", !.after = Before]]
      /\ flushActive' = TRUE /\ flushChain' = o
      /\ UNCHANGED <<networkEnabled, down, unsaved, tracked, destinationVars, calls>>
  BY DEF Call
<1>2. /\ Before \in Operations \cup {Nothing} /\ op[o] \in OperationType
      /\ Operations \subseteq Nat /\ Nothing \notin Operations
      /\ Before # Nothing => flushActive /\ Before = flushChain
      /\ \A q \in Operations : \A r \in 1 .. q - 1 : r \in Operations /\ r < q /\ r # q
  <2>1. /\ Before \in Operations \cup {Nothing} /\ op[o] \in OperationType
        /\ Before # Nothing => flushActive /\ Before = flushChain
    BY DEF Before, TypeInv
  <2>2. /\ Operations \subseteq Nat /\ Nothing \notin Operations
        /\ \A q \in Operations : \A r \in 1 .. q - 1 : r \in Operations /\ r < q /\ r # q
    BY FlushAssumption DEF Operations
  <2> QED BY <2>1, <2>2
<1>3. /\ op'[o] \in OperationType /\ op'[o].phase = "queued" /\ op'[o].after = Before
      /\ op'[o].result = op[o].result
      /\ \A p \in Operations \ {o} : op'[p] = op[p]
  BY <1>1, <1>2 DEF TypeInv, OperationType
<1>4. TypeInv'
  <2>1. op' \in [Operations -> OperationType]
    BY <1>1, <1>3 DEF TypeInv
  <2> QED BY <1>1, <2>1 DEF TypeInv, destinationVars
<1>5. OrderInv'
  <2>1. Before # Nothing => Before = o - 1
    <3> SUFFICES ASSUME Before # Nothing PROVE Before = o - 1
      OBVIOUS
    <3>1. Before = flushChain /\ Before \in Operations /\ op[Before].phase # "idle"
      BY <1>2 DEF OrderInv
    <3>2. Before < o
      <4>1. \A p \in 1 .. Before - 1 : op[p].phase # "idle"
        BY <1>2, <3>1 DEF OrderInv
      <4>2. Before # o
        BY <1>1, <3>1
      <4>3. ~(o < Before)
        BY <1>1, <1>2, <3>1, <4>1 DEF Operations
      <4> QED BY <1>2, <3>1, <4>2, <4>3
    <3>3. ~(Before < o - 1)
      <4> SUFFICES ASSUME Before < o - 1 PROVE FALSE
        OBVIOUS
      <4>1. o - 1 \in 1 .. o - 1 /\ o - 1 \in Operations
        BY <1>2, <3>1, FlushAssumption DEF Operations
      <4>2. op[o - 1].phase = "idle"
        BY <1>2, <3>1, <4>1 DEF OrderInv
      <4> QED BY <1>1, <4>1, <4>2
    <3> QED BY <1>2, <3>1, <3>2, <3>3
  <2>2. Before = Nothing => \A p \in 1 .. o - 1 : Done(p)
    <3> SUFFICES ASSUME Before = Nothing, NEW p \in 1 .. o - 1 PROVE Done(p)
      OBVIOUS
    <3>1. p \in Operations /\ op[p].phase # "idle"
      BY <1>1, <1>2
    <3>2. ~flushActive
      BY DEF Before, OrderInv
    <3> QED BY <3>1, <3>2 DEF OrderInv
  <2>3. ASSUME NEW q \in Operations, NEW p \in 1 .. q - 1
        PROVE  /\ op'[q].phase # "idle" => op'[p].phase # "idle"
               /\ op'[q].phase \notin {"idle", "queued"} => Done(p)'
               /\ op'[q].phase = "queued" /\ op'[q].after = Nothing => Done(p)'
    <3>1. p \in Operations /\ p < q /\ p # q
      BY <1>2
    <3>2. CASE q = o
      BY <1>1, <1>3, <2>2, <3>1, <3>2 DEF Done
    <3>3. CASE q # o /\ p = o
      BY <1>1, <1>3, <3>1, <3>3 DEF OrderInv
    <3>4. CASE q # o /\ p # o
      BY <1>3, <3>1, <3>4 DEF OrderInv, Done
    <3> QED BY <3>2, <3>3, <3>4
  <2>4. \A q \in Operations : op'[q].phase = "queued" => op'[q].after \in {Nothing, q - 1}
    BY <1>3, <2>1 DEF OrderInv
  <2>5. ASSUME NEW q \in Operations, q > o PROVE op'[q].phase = "idle"
    <3>1. o \in 1 .. q - 1
      BY <2>5, <1>2, FlushAssumption DEF Operations
    <3>2. op[q].phase = "idle"
      BY <1>1, <3>1 DEF OrderInv
    <3> QED BY <1>2, <1>3, <2>5, <3>2
  <2> QED BY <1>1, <1>2, <1>3, <2>3, <2>4, <2>5 DEF OrderInv
<1>6. TimerInv'
  BY <1>1, DestinationKept DEF TimerInv, destinationVars
<1>7. EventInv'
  BY <1>1 DEF EventInv, destinationVars
<1>8. WatchInv'
  BY <1>1, <1>3 DEF WatchInv
<1>9. ResultInv'
  BY <1>1, <1>3 DEF ResultInv, Running, destinationVars
<1>10. OkMeansSent'
  <2>1. op'[o].result # "ok"
    BY <1>1, <1>3 DEF ResultInv
  <2> QED BY <1>1, <1>3, <2>1, FlushAssumption DEF OkMeansSent, destinationVars
<1> QED BY <1>4, <1>5, <1>6, <1>7, <1>8, <1>9, <1>10

-----------------------------------------------------------------------------
(* The steps of the operations.                                             *)

\* What an operation that goes on to `waiting' counts is what is there.
LEMMA WatchingIs ==
  ASSUME TypeInv, NEW o \in Operations, NEW round \in {0, 1, 2}
  PROVE  /\ Watching(o, op, round) \in [Operations -> OperationType]
         /\ \A p \in Operations \ {o} : Watching(o, op, round)[p] = op[p]
         /\ Watching(o, op, round)[o].phase = "waiting"
         /\ \A f \in {"sawDrop", "result", "started"} : Watching(o, op, round)[o][f] = op[o][f]
         /\ \A d \in Destinations : Watching(o, op, round)[o].ahead[d] = Chained(d)
<1>1. op[o] \in OperationType
  BY DEF TypeInv
<1>2. [d \in Destinations |-> Chained(d)] \in [Destinations -> Nat]
  BY LenProperties DEF TypeInv, Chained
<1>3. Watching(o, op, round)[o] = [op[o] EXCEPT !.phase = "waiting", !.round = round,
        !.moved = FALSE, !.ahead = [d \in Destinations |-> Chained(d)]]
  BY DEF Watching, TypeInv
<1>4. /\ Watching(o, op, round)[o] \in OperationType
      /\ Watching(o, op, round)[o].phase = "waiting"
      /\ \A f \in {"sawDrop", "result", "started"} : Watching(o, op, round)[o][f] = op[o][f]
      /\ Watching(o, op, round)[o].ahead = [d \in Destinations |-> Chained(d)]
  BY <1>1, <1>2, <1>3 DEF OperationType
<1>5. \A p \in Operations \ {o} : Watching(o, op, round)[p] = op[p]
  BY DEF Watching, TypeInv
<1>6. Watching(o, op, round) \in [Operations -> OperationType]
  BY <1>4, <1>5 DEF Watching, TypeInv
<1> QED BY <1>4, <1>5, <1>6

\* The operation waits for the chains, for the first time or again.
LEMMA WatchingStep ==
  ASSUME Inv, NEW o \in Operations, Running(o), NEW round \in {0, 1, 2},
         op' = Watching(o, op, round), unsaved' \in BOOLEAN,
         UNCHANGED <<networkEnabled, down, tracked, destinationVars, calls, chainVars>>
  PROVE  Inv'
<1> USE DEF Inv
<1>1. /\ op' \in [Operations -> OperationType]
      /\ \A p \in Operations \ {o} : op'[p] = op[p]
      /\ op'[o].phase = "waiting"
      /\ op'[o].sawDrop = op[o].sawDrop /\ op'[o].result = op[o].result
      /\ op'[o].started = op[o].started
      /\ \A d \in Destinations : op'[o].ahead[d] = Chained(d)
  BY WatchingIs
<1>2. TypeInv'
  BY <1>1 DEF TypeInv, destinationVars, chainVars
<1>3. OrderInv'
  BY <1>1, OrderMoves DEF Running, Done, chainVars
<1>4. TimerInv'
  BY DestinationKept DEF TimerInv, destinationVars
<1>5. EventInv'
  BY DEF EventInv, destinationVars
<1>6. WatchInv'
  <2>1. \A d \in Destinations :
           /\ Len(calls[d]) \in Nat /\ Chained(d) \in {0, Len(calls[d])}
           /\ ~down => Chained(d) = Len(calls[d])
    BY LenProperties DEF TypeInv, Chained
  <2> QED BY <1>1, <2>1 DEF WatchInv
<1>7. ResultInv'
  BY <1>1 DEF ResultInv, Running, destinationVars
<1>8. OkMeansSent'
  BY <1>1, FlushAssumption DEF OkMeansSent, destinationVars
<1> QED BY <1>2, <1>3, <1>4, <1>5, <1>6, <1>7, <1>8

\* One that has not run settles with an error only.
Settles(o) == \E error \in BOOLEAN : Settle(o, error) /\ (error \/ Running(o))

\* An operation that settles is the only one that runs, so that a teardown
\* takes nothing from another one's count.
LEMMA SettleStep ==
  ASSUME Inv, NEW o \in Operations, Running(o) \/ MayStart(o), Settles(o), unsaved' \in BOOLEAN,
         UNCHANGED <<networkEnabled, tracked, calls, chainVars>>
  PROVE  Inv'
<1> USE DEF Inv
<1>0. PICK error \in BOOLEAN : Settle(o, error) /\ (error \/ Running(o))
  BY DEF Settles
<1> DEFINE result == Result(o, error, op[o].sawDrop)
<1>1. op' = [op EXCEPT ![o] = [@ EXCEPT !.phase = "settled", !.error = error, !.result = result]]
  BY <1>0 DEF Settle
<1>2. /\ sent' = sent /\ dropped' = dropped /\ down' \in BOOLEAN /\ (~down' => ~down)
      /\ \A d \in Destinations :
            \/ /\ queue'[d] = queue[d] /\ scheduleId'[d] = scheduleId[d]
               /\ flushId'[d] = flushId[d] /\ armed'[d] = armed[d]
            \/ /\ queue'[d] = {} /\ scheduleId'[d] = Nothing /\ flushId'[d] = Nothing
               /\ armed'[d] = armed[d] \ {scheduleId[d], flushId[d]}
      /\ queue' \in [Destinations -> SUBSET Events]
      /\ scheduleId' \in [Destinations -> Timers \cup {Nothing}]
      /\ flushId' \in [Destinations -> Timers \cup {Nothing}]
      /\ armed' \in [Destinations -> SUBSET Timers]
  <2>1. CASE Teardown(o)
    <3>1. /\ sent' = sent /\ dropped' = dropped /\ down' = TRUE
          /\ armed' = [d \in Destinations |-> armed[d] \ {scheduleId[d], flushId[d]}]
          /\ scheduleId' = [d \in Destinations |-> Nothing]
          /\ flushId' = [d \in Destinations |-> Nothing]
          /\ queue' = [d \in Destinations |-> {}]
      BY <1>0, <2>1 DEF Settle, teardown
    <3>2. armed' \in [Destinations -> SUBSET Timers]
      BY <3>1 DEF TypeInv
    <3> QED BY <3>1, <3>2
  <2>2. CASE ~Teardown(o)
    BY <1>0, <2>2 DEF Settle, destinationVars, TypeInv
  <2> QED BY <2>1, <2>2
<1>3. result \in {"none", "failed", "remaining", "dropped", "ok"}
  BY DEF Result
<1>4. /\ op'[o] \in OperationType /\ op'[o].phase = "settled" /\ op'[o].result = result
      /\ op'[o].started = op[o].started
      /\ \A p \in Operations \ {o} : op'[p] = op[p]
  <2>1. op[o] \in OperationType
    BY DEF TypeInv
  <2> HIDE DEF result
  <2> QED BY <1>1, <1>3, <2>1 DEF TypeInv, OperationType
<1>5. \A p \in Operations \ {o} : ~Running(p)
  BY OneRuns DEF Running
<1>6. TypeInv'
  <2>1. op' \in [Operations -> OperationType]
    BY <1>1, <1>4 DEF TypeInv
  <2> QED BY <1>2, <2>1 DEF TypeInv, chainVars
<1>7. OrderInv'
  BY <1>4, OrderMoves DEF Running, Done, chainVars
<1>8. TimerInv'
  <2> SUFFICES ASSUME NEW d \in Destinations PROVE DestinationInv(d)'
    BY DEF TimerInv
  <2>1. DestinationInv(d)
    BY DEF TimerInv
  <2>2. CASE /\ queue'[d] = queue[d] /\ scheduleId'[d] = scheduleId[d]
             /\ flushId'[d] = flushId[d] /\ armed'[d] = armed[d]
    BY <2>1, <2>2, DestinationKept
  <2>3. CASE /\ queue'[d] = {} /\ scheduleId'[d] = Nothing /\ flushId'[d] = Nothing
             /\ armed'[d] = armed[d] \ {scheduleId[d], flushId[d]}
    BY <2>1, <2>3 DEF DestinationInv
  <2> QED BY <1>2, <2>2, <2>3
<1>9. EventInv'
  <2>1. \A d \in Destinations : queue'[d] \subseteq queue[d]
    BY <1>2
  <2> QED BY <1>2, <2>1 DEF EventInv
<1>10. WatchInv'
  BY <1>2, <1>4 DEF WatchInv
<1>11. ResultInv'
  BY <1>4, <1>5 DEF ResultInv, Running
<1>12. OkMeansSent'
  <2>1. ASSUME o \in WithResult, result = "ok", NEW d \in Destinations
        PROVE  op[o].started[d] \subseteq sent[d]
    <3>1. ~error /\ queue[d] = {} /\ ~op[o].sawDrop
      BY <2>1 DEF Result
    <3>2. Running(o)
      BY <1>0, <3>1
    <3> QED BY <2>1, <3>1, <3>2 DEF ResultInv
  <2> HIDE DEF result
  <2> QED BY <1>2, <1>4, <2>1, FlushAssumption DEF OkMeansSent
<1> QED BY <1>6, <1>7, <1>8, <1>9, <1>10, <1>11, <1>12

\* An operation starts when nobody runs; it then holds what the destinations do.
LEMMA StartStep ==
  ASSUME Inv, NEW o \in Operations, Start(o)
  PROVE  Inv'
<1> USE DEF Inv
<1>1. MayStart(o) /\ UNCHANGED <<networkEnabled, tracked, chainVars, switches>>
  BY DEF Start
<1>2. CASE Drain(FALSE) /\ Settle(o, TRUE) /\ UNCHANGED calls
  <2>1. Settles(o)
    BY <1>2 DEF Settles
  <2> QED BY <1>1, <1>2, <2>1, SettleStep DEF Drain
<1>3. CASE /\ Drain(TRUE)
           /\ calls' = [d \in Destinations |->
                          IF down THEN calls[d] ELSE Append(calls[d], Waiting(o))]
           /\ op' = [Outdated(op) EXCEPT ![o] =
                       [@ EXCEPT !.phase = "core", !.after = Nothing, !.started = queue]]
           /\ UNCHANGED <<down, destinationVars>>
  <2>1. /\ Outdated(op)[o] \in OperationType
        /\ Outdated(op)[o].result = op[o].result /\ op[o].phase = "queued"
    BY <1>1, OutdatedIs DEF MayStart
  <2>2. /\ op'[o] \in OperationType /\ op'[o].phase = "core" /\ op'[o].started = queue
        /\ op'[o].result = op[o].result
        /\ \A p \in Operations \ {o} : op'[p] = Outdated(op)[p]
    <3>1. op'[o] = [Outdated(op)[o] EXCEPT !.phase = "core", !.after = Nothing, !.started = queue]
      BY <1>3, OutdatedIs
    <3>2. queue \in [Destinations -> SUBSET Events]
      BY DEF TypeInv
    <3>3. \A p \in Operations \ {o} : op'[p] = Outdated(op)[p]
      BY <1>3, OutdatedIs
    <3> QED BY <2>1, <3>1, <3>2, <3>3 DEF OperationType
  <2>3. \A p \in Operations \ {o} :
          /\ \A f \in {"phase", "after", "sawDrop", "result", "started", "ahead"} :
                op'[p][f] = op[p][f]
          /\ op[p].phase = "waiting" => op'[p].moved
    BY <2>2, OutdatedIs
  <2>4. /\ calls' \in [Destinations -> Seq(CallOf)]
        /\ \A d \in Destinations :
              /\ Len(calls[d]) \in Nat
              /\ Len(calls'[d]) \in {Len(calls[d]), Len(calls[d]) + 1}
              /\ \A i \in 1 .. Len(calls[d]) : calls'[d][i] = calls[d][i]
              /\ \A i \in 1 .. Len(calls'[d]) :
                    i \in 1 .. Len(calls[d]) \/ calls'[d][i] = Waiting(o)
    <3>1. \A d \in Destinations : Len(calls[d]) \in Nat
      BY LenProperties DEF TypeInv
    <3>2. ASSUME NEW d \in Destinations
          PROVE  /\ calls'[d] \in Seq(CallOf)
                 /\ Len(calls'[d]) \in {Len(calls[d]), Len(calls[d]) + 1}
                 /\ \A i \in 1 .. Len(calls[d]) : calls'[d][i] = calls[d][i]
                 /\ \A i \in 1 .. Len(calls'[d]) :
                       i \in 1 .. Len(calls[d]) \/ calls'[d][i] = Waiting(o)
      <4>1. CASE down
        BY <1>3, <4>1 DEF TypeInv
      <4>2. CASE ~down
        BY <1>3, <3>1, <4>2, Joined
      <4> QED BY <4>1, <4>2
    <3> QED BY <1>3, <3>1, <3>2
  <2>5. TypeInv'
    <3>1. op' \in [Operations -> OperationType]
      BY <1>3, <2>2, OutdatedIs
    <3> QED BY <1>1, <1>3, <2>4, <3>1 DEF TypeInv, destinationVars, chainVars, Drain
  <2>6. OrderInv'
    BY <1>1, <2>1, <2>2, <2>3, OrderMoves DEF Done, chainVars
  <2>7. TimerInv'
    <3> SUFFICES ASSUME NEW d \in Destinations PROVE DestinationInv(d)'
      BY DEF TimerInv
    <3>1. DestinationInv(d) /\ queue' = queue /\ scheduleId' = scheduleId /\ flushId' = flushId
          /\ armed' = armed
      BY <1>3 DEF TimerInv, destinationVars
    <3>2. /\ Waiting(o).phase = "waiting" /\ Waiting(o).timer = Nothing
          /\ Waiting(o).batch = {}
      BY DEF Waiting
    <3>3. /\ calls[d] # <<>> => calls'[d] # <<>> /\ calls'[d][1] = calls[d][1]
          /\ \A i \in 1 .. Len(calls[d]) : i \in 1 .. Len(calls'[d])
      <4>1. calls[d] \in Seq(CallOf) /\ calls'[d] \in Seq(CallOf)
        BY <2>4 DEF TypeInv
      <4>2. \A i \in 1 .. Len(calls[d]) : i \in 1 .. Len(calls'[d])
        BY <2>4
      <4>3. ASSUME calls[d] # <<>> PROVE calls'[d] # <<>> /\ calls'[d][1] = calls[d][1]
        <5>1. 1 \in 1 .. Len(calls[d])
          BY <4>1, <4>3, EmptySeq
        <5> QED BY <2>4, <4>2, <5>1, EmptySeq
      <4> QED BY <4>2, <4>3
    <3> QED BY SMTT(60), <2>4, <3>1, <3>2, <3>3 DEF DestinationInv
  <2>8. EventInv'
    <3>1. Waiting(o).batch = {}
      BY DEF Waiting
    <3> QED BY <1>1, <1>3, <2>4, <3>1 DEF EventInv, destinationVars
  <2>9. WatchInv'
    <3> SUFFICES ASSUME NEW p \in Operations, op'[p].phase = "waiting", NEW d \in Destinations
                 PROVE  op'[p].ahead[d] <= Len(calls'[d]) /\ op'[p].moved
      BY DEF WatchInv
    <3>1. p # o /\ op[p].phase = "waiting" /\ op'[p].moved /\ op'[p].ahead = op[p].ahead
      BY <2>2, <2>3
    <3>2. op[p].ahead[d] \in Nat /\ op[p].ahead[d] <= Len(calls[d])
      BY <3>1 DEF WatchInv, TypeInv, OperationType
    <3> QED BY <2>4, <3>1, <3>2
  <2>10. ResultInv'
    BY <1>3, <2>1, <2>2, <2>3 DEF ResultInv, Running, destinationVars
  <2>11. OkMeansSent'
    <3>1. op'[o].result # "ok"
      BY <2>1, <2>2 DEF ResultInv
    <3> QED BY <1>3, <2>3, <3>1, FlushAssumption DEF OkMeansSent, destinationVars
  <2> QED BY <2>5, <2>6, <2>7, <2>8, <2>9, <2>10, <2>11
<1> QED BY <1>2, <1>3 DEF Start

\* The operations' other steps.
LEMMA OperationStep ==
  ASSUME Inv, NEW o \in Operations, CoreEnds(o) \/ WaitAgain(o) \/ Finish(o) \/ Release(o)
  PROVE  Inv'
<1> USE DEF Inv
<1>1. op[o].round \in {0, 1, 2} /\ op[o].error \in BOOLEAN /\ unsaved \in BOOLEAN
  BY DEF TypeInv, OperationType
<1>2. CASE CoreEnds(o) \/ WaitAgain(o)
  BY <1>1, <1>2, WatchingStep DEF CoreEnds, CoreEnded, WaitAgain, Running
<1>3. CASE Finish(o)
  <2>0. /\ Running(o) /\ unsaved' \in BOOLEAN
        /\ UNCHANGED <<networkEnabled, tracked, calls, chainVars>>
    BY <1>3 DEF Finish, Drain, Running
  <2>1. CASE Settle(o, op[o].error) \/ Settle(o, TRUE)
    <3>1. Settles(o)
      BY <1>1, <2>0, <2>1 DEF Settles
    <3> QED BY <2>0, <3>1, SettleStep
  <2>2. CASE op' = Watching(o, op, 2) /\ UNCHANGED <<down, destinationVars>>
    BY <2>0, <2>2, WatchingStep
  <2> QED BY <1>3, <2>1, <2>2 DEF Finish
<1>4. CASE Release(o)
  <2>1. /\ op[o].phase = "settled" /\ flushChain' = flushChain
        /\ op' = [op EXCEPT ![o] = [Idle EXCEPT !.phase = "released", !.error = op[o].error]]
        /\ flushActive' = IF IsLast(o) THEN FALSE ELSE flushActive
        /\ UNCHANGED <<networkEnabled, down, unsaved, tracked, destinationVars, calls>>
    BY <1>4 DEF Release
  <2>2. /\ op'[o] = [Idle EXCEPT !.phase = "released", !.error = op[o].error]
        /\ \A p \in Operations \ {o} : op'[p] = op[p]
    BY <2>1 DEF TypeInv
  <2>3. op'[o] \in OperationType /\ op'[o].phase = "released" /\ op'[o].result = "none"
    <3>1. op'[o] = [phase |-> "released", after |-> Nothing, error |-> op[o].error, round |-> 0,
                    ahead |-> [d \in Destinations |-> 0], moved |-> FALSE, sawDrop |-> FALSE,
                    result |-> "none", started |-> [d \in Destinations |-> {}]]
      BY <2>2 DEF Idle
    <3> QED BY <1>1, <3>1 DEF OperationType
  <2>4. TypeInv'
    <3>1. op' \in [Operations -> OperationType]
      BY <2>1, <2>3 DEF TypeInv
    <3> QED BY <2>1, <3>1 DEF TypeInv, destinationVars
  <2>5. OrderInv'
    BY <2>1, <2>2, <2>3, OrderMoves DEF Done, IsLast
  <2>6. TimerInv'
    BY <2>1, DestinationKept DEF TimerInv, destinationVars
  <2>7. EventInv'
    BY <2>1 DEF EventInv, destinationVars
  <2>8. WatchInv'
    BY <2>1, <2>2, <2>3 DEF WatchInv
  <2>9. ResultInv'
    BY <2>1, <2>2, <2>3 DEF ResultInv, Running, destinationVars
  <2>10. OkMeansSent'
    BY <2>1, <2>2, <2>3, FlushAssumption DEF OkMeansSent, destinationVars
  <2> QED BY <2>4, <2>5, <2>6, <2>7, <2>8, <2>9, <2>10
<1> QED BY <1>2, <1>3, <1>4

-----------------------------------------------------------------------------
(* The steps of a destination.                                              *)

\* Its timer fires; that timer is the scheduled one or serves the first call.
LEMMA FireStep ==
  ASSUME Inv, NEW d \in Destinations, NEW t \in Timers, Fire(d, t)
  PROVE  Inv'
<1> USE DEF Inv
<1>1. /\ t \in armed[d] /\ armed' = [armed EXCEPT ![d] = @ \ {t}]
      /\ calls' = [calls EXCEPT ![d] = Append(@, Waiting(Nothing))]
      /\ op' = Outdated(op)
      /\ UNCHANGED <<networkEnabled, down, unsaved, tracked, queue, sent, dropped,
                     scheduleId, flushId, chainVars>>
  BY DEF Fire
<1>2. /\ op' \in [Operations -> OperationType]
      /\ \A o \in Operations :
            /\ \A f \in {"phase", "after", "sawDrop", "result", "started", "ahead"} :
                  op'[o][f] = op[o][f]
            /\ op[o].phase = "waiting" => op'[o].moved
  BY <1>1, OutdatedIs
<1>3. /\ \A e \in Destinations \ {d} : calls'[e] = calls[e] /\ armed'[e] = armed[e]
      /\ calls'[d] = Append(calls[d], Waiting(Nothing))
      /\ armed'[d] = armed[d] \ {t}
  BY <1>1 DEF TypeInv
<1>4. /\ calls'[d] \in Seq(CallOf) /\ Len(calls[d]) \in Nat
      /\ Len(calls'[d]) = Len(calls[d]) + 1
      /\ \A i \in 1 .. Len(calls[d]) : calls'[d][i] = calls[d][i]
      /\ calls'[d][Len(calls[d]) + 1] = Waiting(Nothing)
  BY <1>3, Joined
<1>5. /\ Waiting(Nothing).phase = "waiting" /\ Waiting(Nothing).timer = Nothing
      /\ Waiting(Nothing).batch = {}
  BY DEF Waiting
<1>6. TypeInv'
  <2>1. calls' \in [Destinations -> Seq(CallOf)]
    BY <1>1, <1>3, <1>4 DEF TypeInv
  <2>2. armed' \in [Destinations -> SUBSET Timers]
    BY <1>1 DEF TypeInv
  <2> QED BY <1>1, <1>2, <2>1, <2>2 DEF TypeInv, chainVars
<1>7. OrderInv'
  BY <1>1, <1>2, OrderKept
<1>8. TimerInv'
  <2>1. ASSUME NEW e \in Destinations, e # d PROVE DestinationInv(e)'
    BY <1>1, <1>3, <2>1, DestinationKept DEF TimerInv
  <2>2. DestinationInv(d)'
    <3>1. DestinationInv(d) /\ scheduleId' = scheduleId /\ flushId' = flushId /\ queue' = queue
      BY <1>1 DEF TimerInv
    <3>2. calls'[d] # <<>> /\ Len(calls'[d]) \in 1 .. Len(calls'[d])
      BY <1>4, EmptySeq
    <3>3. \A i \in 1 .. Len(calls'[d]) :
            \/ i \in 1 .. Len(calls[d]) /\ calls'[d][i] = calls[d][i]
            \/ i = Len(calls'[d]) /\ calls'[d][i] = Waiting(Nothing)
      BY <1>4
    <3>4. calls[d] # <<>> => calls'[d][1] = calls[d][1]
      <4>1. calls[d] # <<>> => 1 \in 1 .. Len(calls[d])
        BY EmptySeq DEF TypeInv
      <4> QED BY <1>4, <4>1
    <3>5. \A i \in 1 .. Len(calls'[d]) :
            IF calls'[d][i].phase = "sending"
            THEN i = 1 /\ flushId'[d] \in {Nothing, calls'[d][i].timer}
            ELSE calls'[d][i].timer = Nothing /\ calls'[d][i].batch = {}
      BY SMTT(60), <1>5, <3>1, <3>3 DEF DestinationInv
    <3>6. flushId'[d] # Nothing => calls'[d] # <<>> /\ calls'[d][1].phase = "sending"
      BY <3>1, <3>2, <3>4 DEF DestinationInv
    <3>7. armed'[d] \subseteq {scheduleId'[d], flushId'[d]}
      BY <1>3, <3>1 DEF DestinationInv
    <3>8. \A i \in 1 .. Len(calls'[d]) : scheduleId'[d] # Nothing => calls'[d][i].timer # scheduleId'[d]
      BY <1>5, <3>1, <3>3 DEF DestinationInv
    <3>9. calls'[d][Len(calls'[d])].phase = "waiting"
      BY <1>4, <1>5
    <3> QED BY <3>2, <3>5, <3>6, <3>7, <3>8, <3>9 DEF DestinationInv
  <2> QED BY <2>1, <2>2 DEF TimerInv
<1>9. EventInv'
  <2>1. \A e \in Destinations : \A i \in 1 .. Len(calls'[e]) :
          \/ i \in 1 .. Len(calls[e]) /\ calls'[e][i] = calls[e][i]
          \/ calls'[e][i].batch = {}
    BY <1>3, <1>4, <1>5
  <2> QED BY <1>1, <2>1 DEF EventInv
<1>10. WatchInv'
  <2> SUFFICES ASSUME NEW o \in Operations, op'[o].phase = "waiting", NEW e \in Destinations
               PROVE  op'[o].ahead[e] <= Len(calls'[e]) /\ op'[o].moved
    BY DEF WatchInv
  <2>1. op[o].phase = "waiting" /\ op'[o].moved /\ op'[o].ahead = op[o].ahead
    BY <1>2
  <2>2. op[o].ahead[e] \in Nat /\ op[o].ahead[e] <= Len(calls[e])
    BY <2>1 DEF WatchInv, TypeInv, OperationType
  <2> QED BY <1>3, <1>4, <2>1, <2>2
<1>11. ResultInv' /\ OkMeansSent'
  BY <1>1, <1>2, ResultKept
<1> QED BY <1>6, <1>7, <1>8, <1>9, <1>10, <1>11

\* A call that waited becomes the request: the scheduled timer is its own.
LEMMA BeginStep ==
  ASSUME Inv, NEW d \in Destinations, NEW i \in DOMAIN calls[d], Begin(d, i)
  PROVE  Inv'
<1> USE DEF Inv
<1>1. /\ calls[d] \in Seq(CallOf) /\ DOMAIN calls[d] = 1 .. Len(calls[d])
      /\ calls[d][1] \in CallOf /\ 1 \in 1 .. Len(calls[d]) /\ i = 1 /\ calls[d] # <<>>
      /\ Len(calls[d]) \in Nat
  <2>1. i = 1 /\ calls[d] \in Seq(CallOf)
    BY DEF Begin, CanBegin, TypeInv
  <2> QED BY <2>1, LenProperties, ElementOfSeq, EmptySeq
<1>2. DestinationInv(d) /\ calls[d][1].phase = "waiting" /\ flushId[d] = Nothing
  BY <1>1 DEF TimerInv, DestinationInv, Begin
<1> DEFINE request == [calls[d][1] EXCEPT !.phase = "sending", !.timer = scheduleId[d],
                                          !.batch = queue[d]]
<1>3. /\ calls' = [calls EXCEPT ![d] = [calls[d] EXCEPT ![1] = request]]
      /\ flushId' = [flushId EXCEPT ![d] = scheduleId[d]]
      /\ scheduleId' = [scheduleId EXCEPT ![d] = Nothing]
      /\ UNCHANGED <<networkEnabled, down, unsaved, tracked, queue, sent, dropped, armed,
                     chainVars, op>>
  BY <1>1, <1>2 DEF Begin, TypeInv
<1>4. /\ request \in CallOf /\ request.phase = "sending" /\ request.timer = scheduleId[d]
      /\ request.batch = queue[d]
  <2>1. /\ calls[d][1] \in CallOf /\ scheduleId[d] \in Timers \cup {Nothing}
        /\ queue[d] \in SUBSET Events
    BY <1>1 DEF TypeInv
  <2> QED BY <2>1 DEF CallOf
<1> HIDE DEF request
<1>5. /\ calls'[d] \in Seq(CallOf) /\ Len(calls'[d]) = Len(calls[d])
      /\ calls'[d][1] = request
      /\ \A j \in 2 .. Len(calls[d]) : calls'[d][j] = calls[d][j]
      /\ \A e \in Destinations \ {d} : calls'[e] = calls[e]
  <2>1. calls'[d] = [calls[d] EXCEPT ![1] = request]
    BY <1>3 DEF TypeInv
  <2>2. \A e \in Destinations \ {d} : calls'[e] = calls[e]
    BY <1>3 DEF TypeInv
  <2> QED BY <1>1, <1>4, <2>1, <2>2, ExceptSeq
<1>6. TypeInv'
  <2>1. calls' \in [Destinations -> Seq(CallOf)]
    BY <1>3, <1>5 DEF TypeInv
  <2>2. /\ flushId' \in [Destinations -> Timers \cup {Nothing}]
        /\ scheduleId' \in [Destinations -> Timers \cup {Nothing}]
    BY <1>3 DEF TypeInv
  <2> QED BY <1>3, <2>1, <2>2 DEF TypeInv, chainVars
<1>7. OrderInv'
  BY <1>3, OrderKept
<1>8. TimerInv'
  <2>1. ASSUME NEW e \in Destinations, e # d PROVE DestinationInv(e)'
    BY <1>3, <1>5, <2>1, DestinationKept DEF TimerInv, TypeInv
  <2>2. DestinationInv(d)'
    <3>1. flushId'[d] = scheduleId[d] /\ scheduleId'[d] = Nothing /\ armed' = armed
      BY <1>3 DEF TypeInv
    <3>2. calls'[d] # <<>>
      BY <1>1, <1>5, EmptySeq
    <3>3. Nothing \notin armed[d]
      BY FlushAssumption DEF TypeInv
    <3>4. \A j \in 1 .. Len(calls'[d]) : j = 1 \/ j \in 2 .. Len(calls[d])
      BY <1>1, <1>5
    <3> QED BY <1>1, <1>2, <1>4, <1>5, <3>1, <3>2, <3>3, <3>4 DEF DestinationInv
  <2> QED BY <2>1, <2>2 DEF TimerInv
<1>9. EventInv'
  <2>1. \A e \in Destinations : \A j \in 1 .. Len(calls'[e]) :
          \/ j \in 1 .. Len(calls[e]) /\ calls'[e][j] = calls[e][j]
          \/ e = d /\ calls'[e][j].batch = queue[e]
    BY <1>1, <1>4, <1>5
  <2> QED BY <1>3, <2>1 DEF EventInv
<1>10. WatchInv'
  BY <1>3, <1>5 DEF WatchInv
<1>11. ResultInv' /\ OkMeansSent'
  BY <1>3, ResultKept
<1> QED BY <1>6, <1>7, <1>8, <1>9, <1>10, <1>11

\* The first call leaves the chain, and the operations that count it follow.
LEMMA Leaves ==
  ASSUME TypeInv, WatchInv, NEW d \in Destinations, calls[d] # <<>>,
         calls' = [calls EXCEPT ![d] = Without(d, 1)], down' = down,
         \A o \in Operations :
            /\ op'[o].phase = op[o].phase /\ op'[o].moved = op[o].moved
            /\ \A e \in Destinations : op'[o].ahead[e] =
                  IF op[o].phase = "waiting" /\ e = d /\ op[o].ahead[d] > 0
                  THEN op[o].ahead[d] - 1 ELSE op[o].ahead[e]
  PROVE  /\ calls' \in [Destinations -> Seq(CallOf)]
         /\ WatchInv'
         /\ \A e \in Destinations \ {d} : calls'[e] = calls[e]
         /\ Len(calls[d]) \in Nat
         /\ Len(calls'[d]) = Len(calls[d]) - 1
         /\ \A j \in 1 .. Len(calls'[d]) :
               j + 1 \in 2 .. Len(calls[d]) /\ calls'[d][j] = calls[d][j + 1]
         /\ \A j \in 2 .. Len(calls[d]) :
               j - 1 \in 1 .. Len(calls'[d]) /\ calls'[d][j - 1] = calls[d][j]
<1>1. /\ calls'[d] = Without(d, 1)
      /\ \A e \in Destinations \ {d} : calls'[e] = calls[e]
  BY DEF TypeInv
<1>2. /\ calls'[d] \in Seq(CallOf)
      /\ Len(calls[d]) >= 1 /\ Len(calls'[d]) = Len(calls[d]) - 1
      /\ \A j \in 1 .. Len(calls'[d]) :
            j + 1 \in 1 .. Len(calls[d]) /\ calls'[d][j] = calls[d][j + 1]
  BY <1>1, WithoutFirst
<1>3. calls' \in [Destinations -> Seq(CallOf)]
  BY <1>2 DEF TypeInv
<1>4. \A e \in Destinations : Len(calls[e]) \in Nat
  BY LenProperties DEF TypeInv
<1>5. WatchInv'
  <2> SUFFICES ASSUME NEW o \in Operations, NEW e \in Destinations, op[o].phase = "waiting"
               PROVE  /\ op'[o].ahead[e] <= Len(calls'[e])
                      /\ ~down /\ ~op'[o].moved => op'[o].ahead[e] = Len(calls'[e])
    BY DEF WatchInv
  <2>1. /\ op[o].ahead[e] \in Nat
        /\ op[o].ahead[e] <= Len(calls[e])
        /\ ~down /\ ~op[o].moved => op[o].ahead[e] = Len(calls[e])
    BY DEF WatchInv, TypeInv, OperationType
  <2>2. CASE e # d
    <3>1. op'[o].ahead[e] = op[o].ahead[e] /\ calls'[e] = calls[e]
      BY <1>1, <2>2
    <3> QED BY <2>1, <3>1
  <2>3. CASE e = d
    <3>1. op'[o].ahead[d] = IF op[o].ahead[d] > 0 THEN op[o].ahead[d] - 1 ELSE op[o].ahead[d]
      BY <2>3
    <3> QED BY <1>2, <1>4, <2>1, <2>3, <3>1
  <2> QED BY <2>2, <2>3
<1>6. \A j \in 1 .. Len(calls'[d]) :
        j + 1 \in 2 .. Len(calls[d]) /\ calls'[d][j] = calls[d][j + 1]
  BY <1>2, <1>4
<1>7. \A j \in 2 .. Len(calls[d]) :
        j - 1 \in 1 .. Len(calls'[d]) /\ calls'[d][j - 1] = calls[d][j]
  <2> SUFFICES ASSUME NEW j \in 2 .. Len(calls[d])
               PROVE  j - 1 \in 1 .. Len(calls'[d]) /\ calls'[d][j - 1] = calls[d][j]
    OBVIOUS
  <2>1. j - 1 \in 1 .. Len(calls'[d]) /\ (j - 1) + 1 = j
    BY <1>2, <1>4
  <2> QED BY <1>2, <2>1
<1> QED BY <1>1, <1>2, <1>3, <1>4, <1>5, <1>6, <1>7

\* While the network is off the call only sets the timer again.
LEMMA DeferStep ==
  ASSUME Inv, NEW d \in Destinations, NEW i \in DOMAIN calls[d], Defer(d, i)
  PROVE  Inv'
<1> USE DEF Inv
<1>1. /\ 1 \in 1 .. Len(calls[d]) /\ i = 1 /\ calls[d] # <<>> /\ Len(calls[d]) \in Nat
      /\ DestinationInv(d) /\ calls[d][1].phase = "waiting"
  <2>1. i = 1 /\ calls[d] \in Seq(CallOf) /\ calls[d][1].phase = "waiting"
    BY DEF Defer, CanBegin, TypeInv
  <2>2. calls[d] # <<>> /\ DOMAIN calls[d] = 1 .. Len(calls[d]) /\ Len(calls[d]) \in Nat
    BY <2>1, LenProperties, EmptySeq
  <2> QED BY <2>1, <2>2 DEF TimerInv
<1>2. /\ scheduleId' = [scheduleId EXCEPT ![d] = IF Rearms(d) THEN Fresh(d) ELSE Nothing]
      /\ armed' = [armed EXCEPT ![d] =
                     (@ \ {scheduleId[d]}) \cup (IF Rearms(d) THEN {Fresh(d)} ELSE {})]
      /\ calls' = [calls EXCEPT ![d] = Without(d, 1)]
      /\ UNCHANGED <<networkEnabled, down, tracked, queue, sent, dropped, flushId, chainVars>>
      /\ unsaved' \in BOOLEAN
  BY <1>1 DEF Defer, deferDestinationFlush, Drain
<1>3. PICK saves \in BOOLEAN : op' = Ended(d, 1, ~saves, op)
  BY <1>1 DEF Defer
<1>4. /\ op' \in [Operations -> OperationType]
      /\ \A o \in Operations :
            /\ \A f \in {"phase", "after", "round", "moved", "sawDrop", "result", "started"} :
                  op'[o][f] = op[o][f]
            /\ \A e \in Destinations : op'[o].ahead[e] =
                  IF op[o].phase = "waiting" /\ e = d /\ op[o].ahead[d] > 0
                  THEN op[o].ahead[d] - 1 ELSE op[o].ahead[e]
  BY <1>3, EndedIs
<1>5. /\ calls' \in [Destinations -> Seq(CallOf)] /\ WatchInv'
      /\ \A e \in Destinations \ {d} : calls'[e] = calls[e]
      /\ Len(calls'[d]) = Len(calls[d]) - 1
      /\ \A j \in 1 .. Len(calls'[d]) :
            j + 1 \in 2 .. Len(calls[d]) /\ calls'[d][j] = calls[d][j + 1]
  BY ZenonT(120), <1>1, <1>2, <1>4, Leaves
<1>6. /\ Fresh(d) \in Timers /\ Fresh(d) # Nothing
      /\ \A j \in 1 .. Len(calls[d]) : calls[d][j].timer # Fresh(d)
  BY <1>1, FreshIsFresh
<1>7. TypeInv'
  <2>1. scheduleId' \in [Destinations -> Timers \cup {Nothing}]
    BY <1>2, <1>6 DEF TypeInv
  <2>2. armed' \in [Destinations -> SUBSET Timers]
    BY <1>2, <1>6 DEF TypeInv
  <2> QED BY <1>2, <1>4, <1>5, <2>1, <2>2 DEF TypeInv, chainVars
<1>8. OrderInv'
  BY <1>2, <1>4, OrderKept
<1>9. TimerInv'
  <2>1. ASSUME NEW e \in Destinations, e # d PROVE DestinationInv(e)'
    BY <1>2, <1>5, <2>1, DestinationKept DEF TimerInv, TypeInv
  <2>2. DestinationInv(d)'
    <3>1. /\ scheduleId'[d] = IF queue[d] # {} THEN Fresh(d) ELSE Nothing
          /\ armed'[d] = (armed[d] \ {scheduleId[d]}) \cup (IF queue[d] # {} THEN {Fresh(d)} ELSE {})
          /\ queue' = queue /\ flushId' = flushId
      BY <1>2 DEF TypeInv, Rearms
    <3>2. flushId[d] = Nothing /\ armed[d] \subseteq {scheduleId[d]}
      <4>1. Nothing \notin armed[d]
        BY FlushAssumption DEF TypeInv
      <4> QED BY <1>1, <4>1 DEF DestinationInv
    <3>3. \A j \in 1 .. Len(calls'[d]) : /\ calls'[d][j].phase # "sending"
                                         /\ calls'[d][j].timer = Nothing
                                         /\ calls'[d][j].batch = {}
      <4>1. \A j \in 2 .. Len(calls[d]) : j \in 1 .. Len(calls[d]) /\ j # 1
        BY <1>1
      <4> QED BY <1>1, <1>5, <4>1 DEF DestinationInv
    <3> QED BY <1>6, <3>1, <3>2, <3>3 DEF DestinationInv
  <2> QED BY <2>1, <2>2 DEF TimerInv
<1>10. EventInv'
  <2>1. \A e \in Destinations : \A j \in 1 .. Len(calls'[e]) :
          \E k \in 1 .. Len(calls[e]) : calls'[e][j] = calls[e][k]
    <3>1. \A j \in 2 .. Len(calls[d]) : j \in 1 .. Len(calls[d])
      BY <1>1
    <3> QED BY <1>5, <3>1
  <2> QED BY <1>2, <2>1 DEF EventInv
<1>11. ResultInv' /\ OkMeansSent'
  BY <1>2, <1>4, ResultKept
<1> QED BY <1>5, <1>7, <1>8, <1>9, <1>10, <1>11

\* The answers of the request: they take events from the queue only, tell those
\* that count of a drop, and what is left is scheduled.
LEMMA AnswerStep ==
  ASSUME Inv, NEW d \in Destinations, NEW i \in DOMAIN calls[d], NEW rejects \in BOOLEAN,
         NEW good \in SUBSET calls[d][i].batch, NEW bad \in SUBSET (calls[d][i].batch \ good),
         Answer(d, i, good, bad, rejects)
  PROVE  Inv'
<1> USE DEF Inv
<1> DEFINE call == calls[d][1]
           left == queue[d] \ (good \cup bad)
           held == IF rejects THEN Nothing ELSE scheduleId[d]
           set == armed[d] \ ((IF rejects THEN {flushId[d], scheduleId[d]} ELSE {}) \cup {call.timer})
<1>1. /\ 1 \in 1 .. Len(calls[d]) /\ i = 1 /\ calls[d] # <<>> /\ Len(calls[d]) \in Nat
      /\ DestinationInv(d) /\ call.phase = "sending" /\ call \in CallOf
  <2>1. calls[d] \in Seq(CallOf)
    BY DEF TypeInv
  <2>2. calls[d] # <<>> /\ DOMAIN calls[d] = 1 .. Len(calls[d]) /\ Len(calls[d]) \in Nat
    BY <2>1, LenProperties, EmptySeq
  <2>3. i = 1 /\ call.phase = "sending"
    BY <2>2 DEF Answer, TimerInv, DestinationInv
  <2> QED BY <2>1, <2>2, <2>3, ElementOfSeq DEF TimerInv
<1>2. /\ queue' = [queue EXCEPT ![d] = left]
      /\ sent' = [sent EXCEPT ![d] = @ \cup good]
      /\ dropped' = [dropped EXCEPT ![d] = @ \cup bad]
      /\ flushId' = [flushId EXCEPT ![d] = Nothing]
      /\ scheduleId' = [scheduleId EXCEPT ![d] = IF left # {} THEN Scheduled(d, held) ELSE held]
      /\ armed' = [armed EXCEPT ![d] = IF left # {} THEN ArmedBy(d, held, set) ELSE set]
      /\ calls' = [calls EXCEPT ![d] = Without(d, 1)]
      /\ unsaved' \in BOOLEAN
      /\ UNCHANGED <<networkEnabled, down, tracked, chainVars>>
  BY <1>1 DEF Answer, Recovers, Cleared
<1>3. PICK saves \in BOOLEAN :
        op' = LET p == Ended(d, 1, rejects \/ ~saves, op) IN
              [o \in Operations |->
                 IF o \in WithResult /\ Running(o) /\ bad # {}
                 THEN [p[o] EXCEPT !.sawDrop = TRUE] ELSE p[o]]
  BY <1>1 DEF Answer
<1> HIDE DEF held, set, left
<1>4. /\ op' \in [Operations -> OperationType]
      /\ \A o \in Operations :
            /\ \A f \in {"phase", "after", "round", "moved", "result", "started"} :
                  op'[o][f] = op[o][f]
            /\ op'[o].sawDrop = (op[o].sawDrop \/ (o \in WithResult /\ Running(o) /\ bad # {}))
            /\ \A e \in Destinations : op'[o].ahead[e] =
                  IF op[o].phase = "waiting" /\ e = d /\ op[o].ahead[d] > 0
                  THEN op[o].ahead[d] - 1 ELSE op[o].ahead[e]
  <2> DEFINE p == Ended(d, 1, rejects \/ ~saves, op)
  <2>1. /\ p \in [Operations -> OperationType]
        /\ \A o \in Operations :
              /\ \A f \in {"phase", "after", "round", "moved", "sawDrop", "result", "started"} :
                    p[o][f] = op[o][f]
              /\ \A e \in Destinations : p[o].ahead[e] =
                    IF op[o].phase = "waiting" /\ e = d /\ op[o].ahead[d] > 0
                    THEN op[o].ahead[d] - 1 ELSE op[o].ahead[e]
    BY EndedIs
  <2>2. \A o \in Operations : op'[o] =
          IF o \in WithResult /\ Running(o) /\ bad # {} THEN [p[o] EXCEPT !.sawDrop = TRUE] ELSE p[o]
    BY <1>3
  <2>3. DOMAIN op' = Operations /\ op' = [o \in Operations |-> op'[o]]
    BY <1>3
  <2> HIDE DEF p
  <2>4. ASSUME NEW o \in Operations
        PROVE  /\ op'[o] \in OperationType
               /\ \A f \in {"phase", "after", "round", "moved", "result", "started", "ahead"} :
                     op'[o][f] = p[o][f]
               /\ op'[o].sawDrop = (op[o].sawDrop \/ (o \in WithResult /\ Running(o) /\ bad # {}))
    <3>1. p[o] \in OperationType /\ p[o].sawDrop = op[o].sawDrop /\ p[o].sawDrop \in BOOLEAN
      BY <2>1 DEF OperationType
    <3>2. CASE o \in WithResult /\ Running(o) /\ bad # {}
      <4>1. op'[o] = [p[o] EXCEPT !.sawDrop = TRUE]
        BY <2>2, <3>2
      <4> QED BY <3>1, <3>2, <4>1 DEF OperationType
    <3>3. CASE ~(o \in WithResult /\ Running(o) /\ bad # {})
      <4>1. op'[o] = p[o]
        BY <2>2, <3>3
      <4> QED BY <3>1, <3>3, <4>1
    <3> QED BY <3>2, <3>3
  <2> QED BY <2>1, <2>3, <2>4
<1>5. /\ calls' \in [Destinations -> Seq(CallOf)] /\ WatchInv'
      /\ \A e \in Destinations \ {d} : calls'[e] = calls[e]
      /\ Len(calls'[d]) = Len(calls[d]) - 1
      /\ \A j \in 1 .. Len(calls'[d]) :
            j + 1 \in 2 .. Len(calls[d]) /\ calls'[d][j] = calls[d][j + 1]
      /\ \A j \in 2 .. Len(calls[d]) :
            j - 1 \in 1 .. Len(calls'[d]) /\ calls'[d][j - 1] = calls[d][j]
  BY ZenonT(120), <1>1, <1>2, <1>4, Leaves
<1>waits. \A j \in 1 .. Len(calls'[d]) :
            calls'[d][j].phase # "sending" /\ calls'[d][j].timer = Nothing /\ calls'[d][j].batch = {}
  <2>1. \A j \in 2 .. Len(calls[d]) : j \in 1 .. Len(calls[d]) /\ j # 1
    BY <1>1
  <2> QED BY SMTT(60), <1>1, <1>5, <2>1 DEF DestinationInv
<1>6. /\ held \in {Nothing, scheduleId[d]}
      /\ Scheduled(d, held) \in Timers /\ Scheduled(d, held) # Nothing
      /\ \A j \in 1 .. Len(calls[d]) : calls[d][j].timer # Scheduled(d, held)
      /\ held # Nothing => Scheduled(d, held) = scheduleId[d] /\ ArmedBy(d, held, set) = set
      /\ held = Nothing => ArmedBy(d, held, set) = set \cup {Scheduled(d, held)}
  <2>1. held \in {Nothing, scheduleId[d]}
    BY DEF held
  <2> QED BY <1>1, <2>1, Schedules
<1>7. /\ good \subseteq call.batch /\ bad \subseteq call.batch /\ good \cap bad = {}
      /\ call.batch \subseteq Events
  BY <1>1 DEF CallOf
<1>8. TypeInv'
  <2>1. /\ queue' \in [Destinations -> SUBSET Events] /\ sent' \in [Destinations -> SUBSET Events]
        /\ dropped' \in [Destinations -> SUBSET Events]
    BY <1>2, <1>7 DEF TypeInv, left
  <2>2. /\ flushId' \in [Destinations -> Timers \cup {Nothing}]
        /\ scheduleId' \in [Destinations -> Timers \cup {Nothing}]
    BY <1>2, <1>6 DEF TypeInv
  <2>3. armed' \in [Destinations -> SUBSET Timers]
    <3>1. armed[d] \subseteq Timers
      BY DEF TypeInv
    <3>2. set \subseteq Timers
      BY <3>1 DEF set
    <3>3. ArmedBy(d, held, set) \subseteq Timers
      BY <1>6, <3>2
    <3> QED BY <1>2, <3>2, <3>3 DEF TypeInv
  <2> QED BY <1>2, <1>4, <1>5, <2>1, <2>2, <2>3 DEF TypeInv, chainVars
<1>9. OrderInv'
  BY <1>2, <1>4, OrderKept
<1>10. TimerInv'
  <2>1. ASSUME NEW e \in Destinations, e # d PROVE DestinationInv(e)'
    BY <1>2, <1>5, <2>1, DestinationKept DEF TimerInv, TypeInv
  <2>2. DestinationInv(d)'
    <3>1. /\ scheduleId'[d] = (IF left # {} THEN Scheduled(d, held) ELSE held)
          /\ armed'[d] = (IF left # {} THEN ArmedBy(d, held, set) ELSE set)
          /\ queue'[d] = left /\ flushId'[d] = Nothing
      BY <1>2 DEF TypeInv
    <3>2. set \subseteq {held}
      <4>1. Nothing \notin armed[d] /\ armed[d] \subseteq {scheduleId[d], flushId[d]}
        BY <1>1, FlushAssumption DEF TypeInv, DestinationInv
      <4>2. flushId[d] \in {Nothing, call.timer}
        BY <1>1 DEF DestinationInv
      <4> QED BY <4>1, <4>2 DEF set, held
    <3>4. CASE held = Nothing
      <4>1. Nothing \notin set
        BY FlushAssumption DEF TypeInv, set
      <4> QED BY <1>6, <1>waits, <3>1, <3>2, <3>4, <4>1 DEF DestinationInv
    <3>5. CASE held # Nothing
      <4>1. /\ held = scheduleId[d] /\ scheduleId'[d] = held /\ armed'[d] = set
            /\ set = armed[d] \ {call.timer}
        BY <1>6, <3>1, <3>5 DEF held, set
      <4>2. held # call.timer
        BY <1>1, <3>5, <4>1 DEF DestinationInv
      <4>3. \/ held \in set
            \/ \E j \in 1 .. Len(calls'[d]) : calls'[d][j].phase = "waiting"
        <5>1. CASE scheduleId[d] \in armed[d]
          BY <4>1, <4>2, <5>1
        <5>2. ASSUME NEW k \in 1 .. Len(calls[d]), calls[d][k].phase = "waiting"
              PROVE  \E j \in 1 .. Len(calls'[d]) : calls'[d][j].phase = "waiting"
          <6>1. k \in 2 .. Len(calls[d])
            BY <1>1, <5>2
          <6> QED BY <1>5, <5>2, <6>1
        <5> QED BY <1>1, <3>5, <4>1, <5>1, <5>2 DEF DestinationInv
      <4> QED BY <1>waits, <3>1, <3>2, <3>5, <4>1, <4>3 DEF DestinationInv
    <3> QED BY <3>4, <3>5
  <2> QED BY <2>1, <2>2 DEF TimerInv
<1>11. EventInv'
  <2> SUFFICES ASSUME NEW e \in Destinations
               PROVE  /\ queue'[e] \cup sent'[e] \cup dropped'[e] \subseteq tracked
                      /\ queue'[e] \cap (sent'[e] \cup dropped'[e]) = {}
                      /\ \A j \in 1 .. Len(calls'[e]) :
                            /\ calls'[e][j].batch \cap (sent'[e] \cup dropped'[e]) = {}
                            /\ calls'[e][j].batch \subseteq tracked
    BY <1>2 DEF EventInv
  <2>1. CASE e # d
    BY <1>2, <1>5, <2>1 DEF EventInv, TypeInv
  <2>2. CASE e = d
    <3>1. queue'[d] = left /\ sent'[d] = sent[d] \cup good /\ dropped'[d] = dropped[d] \cup bad
      BY <1>2 DEF TypeInv
    <3>2. call.batch \subseteq tracked
      BY <1>1 DEF EventInv
    <3> QED BY <1>7, <1>waits, <2>2, <3>1, <3>2 DEF EventInv, left
  <2> QED BY <2>1, <2>2
<1>12. ResultInv'
  <2>1. \A o \in Operations : op'[o].phase = op[o].phase /\ op'[o].started = op[o].started
                              /\ op'[o].result = op[o].result /\ op[o].sawDrop \in BOOLEAN
    BY <1>4 DEF TypeInv, OperationType
  <2>2. ASSUME NEW o \in Operations, Running(o), o \in WithResult, ~op'[o].sawDrop,
               NEW e \in Destinations
        PROVE  op'[o].started[e] \subseteq queue'[e] \cup sent'[e]
    <3>1. ~op[o].sawDrop /\ bad = {}
      BY <1>4, <2>2
    <3>2. op'[o].started[e] \subseteq queue[e] \cup sent[e]
      BY <2>1, <2>2, <3>1 DEF ResultInv
    <3>3. queue[e] \cup sent[e] \subseteq queue'[e] \cup sent'[e]
      BY <1>2, <3>1 DEF TypeInv, left
    <3> QED BY <3>2, <3>3
  <2> QED BY <2>1, <2>2 DEF ResultInv, Running
<1>13. OkMeansSent'
  <2>1. \A e \in Destinations : sent[e] \subseteq sent'[e]
    BY <1>2 DEF TypeInv
  <2>2. \A o \in Operations : op'[o].started = op[o].started /\ op'[o].result = op[o].result
    BY <1>4
  <2> QED BY <2>1, <2>2, FlushAssumption DEF OkMeansSent
<1> QED BY <1>5, <1>8, <1>9, <1>10, <1>11, <1>12, <1>13

-----------------------------------------------------------------------------
(* The theorems.                                                            *)

LEMMA InvInit == Init => Inv
<1> SUFFICES ASSUME Init PROVE Inv
  OBVIOUS
<1> USE DEF Init
<1>1. \A o \in Operations : op[o] = Idle
  OBVIOUS
<1>2. Idle.phase = "idle" /\ Idle.result = "none"
  BY DEF Idle
<1>3. \A d \in Destinations : /\ calls[d] = <<>> /\ Len(calls[d]) = 0 /\ calls[d] \in Seq(CallOf)
                              /\ queue[d] = {} /\ armed[d] = {} /\ sent[d] = {} /\ dropped[d] = {}
                              /\ scheduleId[d] = Nothing /\ flushId[d] = Nothing
  BY EmptySeq
<1>4. TypeInv
  <2>1. Idle \in OperationType
    BY DEF Idle, OperationType
  <2>2. op \in [Operations -> OperationType] /\ calls \in [Destinations -> Seq(CallOf)]
    BY <2>1, <1>3
  <2> QED BY <2>2 DEF TypeInv
<1>5. \A o \in Operations : \A p \in 1 .. o - 1 : p \in Operations
  BY FlushAssumption DEF Operations
<1>6. OrderInv
  BY <1>1, <1>2, <1>5 DEF OrderInv, Done
<1>7. TimerInv
  BY <1>3 DEF TimerInv, DestinationInv
<1>8. EventInv
  BY <1>3 DEF EventInv
<1>9. WatchInv
  BY <1>1, <1>2 DEF WatchInv
<1>10. ResultInv
  BY <1>1, <1>2 DEF ResultInv, Running
<1>11. OkMeansSent
  BY <1>1, <1>2, FlushAssumption DEF OkMeansSent
<1> QED BY <1>4, <1>6, <1>7, <1>8, <1>9, <1>10, <1>11 DEF Inv

LEMMA InvNext == Inv /\ [Next]_vars => Inv'
<1> SUFFICES ASSUME Inv, [Next]_vars PROVE Inv'
  OBVIOUS
<1>1. CASE UNCHANGED vars
  <2>1. UNCHANGED <<networkEnabled, down, unsaved, tracked, queue, sent, dropped, scheduleId,
                    flushId, armed, calls, flushActive, flushChain, op>>
    BY <1>1 DEF vars, destinationVars, chainVars
  <2>2. TypeInv' /\ OrderInv' /\ ResultInv' /\ OkMeansSent'
    BY <2>1 DEF Inv, TypeInv, OrderInv, Done, ResultInv, Running, OkMeansSent
  <2>3. TimerInv' /\ EventInv' /\ WatchInv'
    BY <2>1 DEF Inv, TimerInv, DestinationInv, EventInv, WatchInv
  <2> QED BY <2>2, <2>3 DEF Inv
<1>2. CASE Application
  BY <1>2, TrackStep, CallStep, SwitchStep DEF Application
<1>3. CASE Callback
  BY <1>3, DeferStep, BeginStep, StartStep, OperationStep DEF Callback
<1>4. ASSUME NEW d \in Destinations, NEW t \in Timers, Fire(d, t) PROVE Inv'
  BY <1>4, FireStep
<1>5. ASSUME NEW d \in Destinations, Answers(d) PROVE Inv'
  <2>1. PICK i \in DOMAIN calls[d], rejects \in BOOLEAN :
          \E good \in SUBSET calls[d][i].batch :
             \E bad \in SUBSET (calls[d][i].batch \ good) : Answer(d, i, good, bad, rejects)
    BY <1>5 DEF Answers
  <2> QED BY <2>1, AnswerStep
<1> QED BY <1>1, <1>2, <1>3, <1>4, <1>5 DEF Next

LEMMA Invariance == Spec => []Inv
BY InvInit, InvNext, PTL DEF Spec

\* Operations run one at a time, however they are called, fail and settle
\* (enqueueFlush and the callback that finds the chain idle).
THEOREM OperationsRunAlone == Spec => []OneOperation
<1>1. Inv => OneOperation
  <2> SUFFICES ASSUME Inv, NEW o \in Operations, NEW p \in Operations, Running(o), Running(p), o # p
               PROVE  FALSE
    BY DEF OneOperation
  <2> QED BY OneRuns DEF Inv, Running
<1> QED BY <1>1, Invariance, PTL

\* No event that a destination holds is left without a timer or a flush, and no
\* timer is left that the destination does not know of, in whatever order flushes
\* are deferred, rejected and overlap (recoverDestinationFlush,
\* deferDestinationFlush).
THEOREM EventsAreScheduled == Spec => []NothingStranded
<1>1. Inv => NothingStranded
  <2> SUFFICES ASSUME Inv, NEW d \in Destinations
               PROVE  /\ queue[d] # {} => scheduleId[d] \in armed[d] \/ calls[d] # <<>>
                      /\ armed[d] \subseteq {scheduleId[d], flushId[d]}
    BY DEF NothingStranded, NoneStranded, NoStrayTimer
  <2>1. DestinationInv(d) /\ calls[d] \in Seq(CallOf)
    BY DEF Inv, TimerInv, TypeInv
  <2>2. calls[d] = <<>> => 1 .. Len(calls[d]) = {}
    BY EmptySeq
  <2> QED BY <2>1, <2>2 DEF DestinationInv
<1> QED BY <1>1, Invariance, PTL

\* An event is in one request at a time and is not sent again once answered, and
\* flushWithResult says ok only of events that were sent (performFlush and the
\* collector of outcomes).
THEOREM CallersAreToldTheTruth == Spec => []ResultsAreTrue
<1>1. ASSUME Inv PROVE ResultsAreTrue
  <2>1. \A d \in Destinations : /\ calls[d] \in Seq(CallOf) /\ DOMAIN calls[d] = 1 .. Len(calls[d])
                                /\ \A i \in 1 .. Len(calls[d]) : calls[d][i] \in CallOf
    BY <1>1, LenProperties, ElementOfSeq DEF Inv, TypeInv
  <2>2. TypeOK
    <3>1. /\ {networkEnabled, down, unsaved, flushActive} \subseteq BOOLEAN
          /\ tracked \subseteq Events
          /\ {queue, sent, dropped} \subseteq [Destinations -> SUBSET Events]
          /\ {scheduleId, flushId} \subseteq [Destinations -> Timers \cup {Nothing}]
          /\ armed \in [Destinations -> SUBSET Timers]
          /\ flushChain \in Operations \cup {Nothing}
      BY <1>1 DEF Inv, TypeInv
    <3>2. \A o \in Operations : op[o].phase = "waiting" =>
             \A d \in Destinations : op[o].ahead[d] <= Len(calls[d])
      BY <1>1 DEF Inv, WatchInv
    <3> QED BY <2>1, <3>1, <3>2 DEF TypeOK
  <2>3. SentOnce
    <3> SUFFICES ASSUME NEW d \in Destinations, NEW i \in DOMAIN calls[d],
                        calls[d][i].phase = "sending"
                 PROVE  /\ calls[d][i].batch \cap (sent[d] \cup dropped[d]) = {}
                        /\ \A j \in DOMAIN calls[d] : calls[d][j].phase = "sending" => i = j
      BY DEF SentOnce
    <3> QED BY <1>1, <2>1 DEF Inv, EventInv, TimerInv, DestinationInv
  <2> QED BY <1>1, <2>2, <2>3 DEF Inv, ResultsAreTrue
<1> QED BY <1>1, Invariance, PTL

\* When an operation that has flushed settles, every chain has ended, also those
\* that grew while it waited, unless a shutdown had emptied the list of them, and
\* without an error everything is saved (waitForDestinationFlushes and the second
\* drain).
THEOREM SettlingIsFinal == Spec => SettledIsDone
<1> DEFINE Settled(o) == op[o].phase = "waiting" /\ op'[o].phase = "settled"
           Ok(o) == /\ down \/ \A d \in Destinations : calls'[d] = <<>>
                    /\ op'[o].error \/ ~unsaved'
<1>1. ASSUME Inv, [Next]_vars, NEW o \in Operations, Settled(o) PROVE Ok(o)
  <2>1. CASE Finish(o)
    <3>1. AllQuiet(o) /\ IsStill(o) /\ calls' = calls
      BY <2>1 DEF Finish
    <3>2. ~down => \A d \in Destinations : Len(calls[d]) = 0
      BY <1>1, <3>1 DEF AllQuiet, IsStill, Inv, WatchInv
    <3>3. ~down => \A d \in Destinations : calls'[d] = <<>>
      <4>1. \A d \in Destinations : calls[d] \in Seq(CallOf)
        BY <1>1 DEF Inv, TypeInv
      <4> QED BY <3>1, <3>2, <4>1, EmptySeq
    <3>4. op'[o].error \/ ~unsaved'
      <4>1. CASE Drain(TRUE)
        BY <4>1 DEF Drain
      <4>2. CASE Settle(o, TRUE)
        <5>1. op[o] \in OperationType /\ op \in [Operations -> OperationType]
          BY <1>1 DEF Inv, TypeInv
        <5>2. op'[o] = [op[o] EXCEPT !.phase = "settled", !.error = TRUE,
                                     !.result = Result(o, TRUE, op[o].sawDrop)]
          BY <4>2, <5>1 DEF Settle
        <5> QED BY <5>1, <5>2 DEF OperationType
      <4> QED BY <2>1, <4>1, <4>2 DEF Finish
    <3> QED BY <3>3, <3>4
  <2>2. ASSUME ~Finish(o) PROVE FALSE
    <3> USE <1>1, <2>2
    <3>1. TypeInv
      BY DEF Inv
    <3>2. CASE UNCHANGED op
      BY <3>2 DEF Settled
    <3>3. ASSUME NEW p \in Operations, p # o,
                 \E x : op' = [op EXCEPT ![p] = x]
          PROVE  FALSE
      BY <3>1, <3>3 DEF TypeInv, Settled
    <3>4. CASE Application
      <4>1. ASSUME NEW p \in Operations, Call(p) PROVE FALSE
        <5>1. op[p].phase = "idle" /\ op' = [op EXCEPT ![p] = [@ EXCEPT !.phase = "queued", !.after = Before]]
          BY <4>1 DEF Call
        <5> QED BY <3>3, <5>1 DEF Settled
      <4> QED BY <3>2, <3>4, <4>1 DEF Application, Track, setNetworkEnabled
    <3>5. ASSUME NEW p \in Operations, Start(p) PROVE FALSE
      <4>1. op[p].phase = "queued" /\ p # o
        BY <3>5 DEF Start, MayStart, Settled
      <4>2. CASE Settle(p, TRUE)
        BY <3>3, <4>1, <4>2 DEF Settle
      <4>3. CASE op' = [Outdated(op) EXCEPT ![p] =
                          [@ EXCEPT !.phase = "core", !.after = Nothing, !.started = queue]]
        <5>1. op'[o] = Outdated(op)[o] /\ Outdated(op)[o].phase = op[o].phase
          BY <3>1, <4>1, <4>3, OutdatedIs
        <5> QED BY <5>1 DEF Settled
      <4> QED BY <3>5, <4>2, <4>3 DEF Start
    <3>6. ASSUME NEW p \in Operations, CoreEnds(p) \/ WaitAgain(p) \/ Finish(p) PROVE FALSE
      <4>1. CASE Finish(p) /\ (Settle(p, TRUE) \/ Settle(p, op[p].error))
        BY <2>2, <3>3, <4>1 DEF Settle
      <4>2. ASSUME NEW round \in {0, 1, 2}, op' = Watching(p, op, round) PROVE FALSE
        <5>1. p = o => op'[o].phase = "waiting"
          BY <3>1, <4>2, WatchingIs
        <5>2. p # o => op'[o] = op[o]
          BY <3>1, <4>2, WatchingIs
        <5> QED BY <5>1, <5>2 DEF Settled
      <4>3. op[p].round \in {0, 1, 2}
        BY <3>1 DEF TypeInv, OperationType
      <4> QED BY <3>6, <4>1, <4>2, <4>3 DEF CoreEnds, WaitAgain, Finish
    <3>7. ASSUME NEW p \in Operations, Release(p) PROVE FALSE
      <4>1. op[p].phase = "settled" /\ p # o
        BY <3>7 DEF Release, Settled
      <4> QED BY <3>3, <3>7, <4>1 DEF Release
    <3>8. ASSUME \A q \in Operations : op'[q].phase = op[q].phase PROVE FALSE
      BY <3>8 DEF Settled
    <3>9. ASSUME NEW d \in Destinations, NEW i \in DOMAIN calls[d], Defer(d, i) \/ Begin(d, i)
          PROVE  FALSE
      <4>1. op' = op \/ \E rejected \in BOOLEAN : op' = Ended(d, i, rejected, op)
        BY <3>9 DEF Defer, Begin
      <4> QED BY <3>1, <3>8, <4>1, EndedIs
    <3>10. ASSUME NEW d \in Destinations, NEW t \in Timers, Fire(d, t) PROVE FALSE
      BY <3>1, <3>8, <3>10, OutdatedIs DEF Fire
    <3>11. ASSUME NEW d \in Destinations, Answers(d) PROVE FALSE
      <4>1. PICK i, rejects, good, bad : Answer(d, i, good, bad, rejects)
        BY <3>11 DEF Answers
      <4>2. PICK saves \in BOOLEAN :
              op' = LET q == Ended(d, i, rejects \/ ~saves, op) IN
                    [p \in Operations |->
                       IF p \in WithResult /\ Running(p) /\ bad # {}
                       THEN [q[p] EXCEPT !.sawDrop = TRUE] ELSE q[p]]
        BY <4>1 DEF Answer
      <4> DEFINE q == Ended(d, i, rejects \/ ~saves, op)
      <4>3. q[o] \in OperationType /\ q[o].phase = op[o].phase
        BY <3>1, EndedIs
      <4>4. op'[o] = q[o] \/ op'[o] = [q[o] EXCEPT !.sawDrop = TRUE]
        BY <4>2
      <4> HIDE DEF q
      <4>5. op'[o].phase = op[o].phase
        BY <4>3, <4>4 DEF OperationType
      <4> QED BY <4>5 DEF Settled
    <3>12. UNCHANGED vars => UNCHANGED op
      BY DEF vars
    <3> QED BY <3>2, <3>4, <3>5, <3>6, <3>7, <3>9, <3>10, <3>11, <3>12 DEF Next, Callback
  <2> QED BY <2>1, <2>2
<1>2. Inv /\ [Next]_vars =>
         [\A o \in Operations :
            op[o].phase = "waiting" /\ op'[o].phase = "settled" =>
               /\ down \/ \A d \in Destinations : calls'[d] = <<>>
               /\ op'[o].error \/ ~unsaved']_vars
  BY <1>1
<1> QED BY <1>2, Invariance, PTL DEF Spec, SettledIsDone
=============================================================================
