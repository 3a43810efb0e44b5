---------------------------- MODULE WorkerProofs ----------------------------
(* What TLAPS proves of Worker, for any number of threads, ids, listeners  *)
(* and requests.                                                           *)
EXTENDS Worker, FiniteSetTheorems, WellFoundedInduction, TLAPS

\* A nonempty bounded set of generations has a newest element, so the choice
\* that stands for back() is the maximum it claims to be.
LEMMA NewestIsMaximum ==
  ASSUME NEW n \in Nat, NEW S \in SUBSET (1..n), S # {}
  PROVE  /\ Newest(S) \in S
         /\ \A h \in S : h <= Newest(S)
<1> DEFINE T == {k \in 0..n : n - k \in S}
<1>0. \A h \in S : h \in 1..n /\ n - h \in 0..n /\ n - (n - h) = h
  <2> SUFFICES ASSUME NEW h \in S PROVE h \in 1..n /\ n - h \in 0..n /\ n - (n - h) = h
    OBVIOUS
  <2>1. h \in 1..n
    OBVIOUS
  <2> QED BY <2>1
<1>1. T \subseteq Nat /\ T # {}
  <2>1. PICK h \in S : TRUE
    OBVIOUS
  <2>2. n - h \in T
    BY <1>0, <2>1
  <2>3. T \subseteq Nat
    OBVIOUS
  <2> HIDE DEF T
  <2> QED BY <2>2, <2>3
<1>2. \E x \in T : \A y \in T : x <= y
  <2> HIDE DEF T
  <2>1. PICK x \in T : \A y \in T : ~ (<<y, x>> \in OpToRel(<, Nat))
    BY <1>1, WFMin, NatLessThanWellFounded
  <2>2. \A y \in T : ~ (y < x)
    <3> SUFFICES ASSUME NEW y \in T, y < x PROVE FALSE
      OBVIOUS
    <3>1. <<y, x>> \in OpToRel(<, Nat)
      BY <1>1 DEF OpToRel
    <3> QED BY <2>1, <3>1
  <2> QED BY <1>1, <2>2
<1>3. PICK x \in T : \A y \in T : x <= y
  BY <1>2
<1>4. n - x \in S /\ \A h \in S : h <= n - x
  BY <1>0, <1>3
<1>5. \E g \in S : \A h \in S : h <= g
  BY <1>4
<1> QED BY <1>5 DEF Newest

\* The number of threads that f puts at a place.
Count(f, place) == Cardinality({u \in Threads : f[u] = place})

\* Counting threads gives a number: there are finitely many.
LEMMA CountIsNat == \A f, place : Count(f, place) \in Nat
<1> SUFFICES ASSUME NEW f, NEW place PROVE Count(f, place) \in Nat
  OBVIOUS
<1> QED BY WorkerAssumption, FS_Subset, FS_CardinalityType DEF Count

\* One thread moves: how many are at a place changes by what that thread does.
LEMMA OneThreadMoves ==
  ASSUME NEW t \in Threads, NEW f, NEW to, f = [u \in Threads |-> f[u]], NEW place
  PROVE  /\ f[t] # place /\ to = place => Count([f EXCEPT ![t] = to], place) = Count(f, place) + 1
         /\ f[t] = place /\ to # place => Count([f EXCEPT ![t] = to], place) = Count(f, place) - 1
         /\ f[t] # place /\ to # place => Count([f EXCEPT ![t] = to], place) = Count(f, place)
<1> DEFINE g == [f EXCEPT ![t] = to]
           F == {u \in Threads : f[u] = place}
           G == {u \in Threads : g[u] = place}
<1>1. IsFiniteSet(F)
  BY WorkerAssumption, FS_Subset
<1>2. CASE f[t] # place /\ to = place
  <2>1. G = F \cup {t} /\ t \notin F
    BY <1>2
  <2>2. Cardinality(G) = Cardinality(F) + 1
    BY <1>1, <2>1, FS_AddElement
  <2> QED BY <1>2, <2>2 DEF Count
<1>3. CASE f[t] = place /\ to # place
  <2>1. G = F \ {t} /\ t \in F
    BY <1>3
  <2>2. Cardinality(G) = Cardinality(F) - 1
    BY <1>1, <2>1, FS_RemoveElement
  <2> QED BY <1>3, <2>2 DEF Count
<1>4. CASE f[t] # place /\ to # place
  <2>1. G = F
    BY <1>4
  <2> QED BY <1>4, <2>1 DEF Count
<1> QED BY <1>2, <1>3, <1>4

-----------------------------------------------------------------------------
(* Types                                                                   *)

\* inFlightCount_ can be decremented only because it counts the threads inside
\* the HTTP adapter, so the type of the counter needs this.
InFlightExact == inFlightCount = Cardinality(At("http"))

TypeInv == TypeOK /\ InFlightExact

\* A worker is constructed with variables of their types and nothing in flight.
LEMMA TypeInit == Init => TypeInv
<1> SUFFICES ASSUME Init PROVE TypeInv
  OBVIOUS
<1>1. TypeOK
  BY WorkerAssumption DEF Init, TypeOK, Holding, Generations
<1>2. At("http") = {}
  BY DEF Init, At
<1> QED BY <1>1, <1>2, FS_EmptySet DEF Init, TypeInv, InFlightExact

\* The two ways to write how many threads perform an HTTP exchange.
LEMMA AtIsCount == Cardinality(At("http")) = Count(pc, "http")
BY DEF At, Count

\* cancel marks a generation of the id that was not retired.
LEMMA MarkedIsActive ==
  ASSUME TypeOK, NEW id \in Ids, activeGenerations[id] # {}
  PROVE  /\ Marked(id) \in activeGenerations[id] /\ Marked(id) \in Generations
         /\ \A h \in activeGenerations[id] : h <= Marked(id)
<1>1. activeGenerations[id] \in SUBSET (1..MaxRequests) /\ MaxRequests \in Nat
  BY WorkerAssumption DEF TypeOK, Generations
<1> QED BY <1>1, NewestIsMaximum DEF Marked, Generations

\* The newest queued generation of an id is queued, and none of the others is newer.
LEMMA NewestQueued ==
  ASSUME TypeOK, NEW id \in Ids, QueuedOf(id) # {}
  PROVE  /\ Newest(QueuedOf(id)) \in QueuedOf(id) /\ Newest(QueuedOf(id)) \in Generations
         /\ \A h \in QueuedOf(id) : h <= Newest(QueuedOf(id))
<1>0. \A i \in 1..Len(queue) : queue[i].generation \in 1..MaxRequests
  <2>1. \A i \in 1..Len(queue) : queue[i] \in Requests
    BY DEF TypeOK
  <2> QED BY <2>1 DEF Requests, Generations
<1>1. QueuedOf(id) \in SUBSET (1..MaxRequests) /\ MaxRequests \in Nat
  BY <1>0, WorkerAssumption DEF QueuedOf
<1> QED BY <1>1, NewestIsMaximum DEF Generations

\* What TakeFront takes and leaves is of the types of the queue.
LEMMA FrontIsRequest ==
  ASSUME TypeOK, queue # <<>>
  PROVE  /\ Head(queue) \in Requests /\ Tail(queue) \in Seq(Requests)
         /\ Head(queue).generation \in Generations /\ Head(queue).size \in Nat
         /\ Len(queue) - 1 \in Nat
<1>1. Head(queue) \in Requests /\ Tail(queue) \in Seq(Requests) /\ Len(queue) - 1 \in Nat
  BY DEF TypeOK
<1> QED BY <1>1, WorkerAssumption DEF Requests

\* No step of the worker breaks a type, and none of its counters goes below zero.
LEMMA TypeStep == TypeInv /\ [Next]_vars => TypeInv'
<1> SUFFICES ASSUME TypeInv, [Next]_vars PROVE TypeInv'
  OBVIOUS
<1> USE DEF TypeInv
<1>0. InFlightExact' <=> inFlightCount' = Count(pc', "http")
  BY DEF InFlightExact, At, Count
<1>00. inFlightCount = Count(pc, "http") /\ pc = [u \in Threads |-> pc[u]]
  BY AtIsCount DEF InFlightExact, TypeOK
<1>1. ASSUME NEW id \in Ids, NEW size \in Sizes, enqueue(id, size) PROVE TypeInv'
  <2>1. nextGeneration + 1 \in Generations
    BY <1>1, WorkerAssumption DEF enqueue, TypeOK, Generations
  <2>2. [generation |-> nextGeneration + 1, id |-> id, size |-> size] \in Requests
    BY <2>1 DEF Requests
  <2>3. TypeOK'
    BY <1>1, <2>1, <2>2, WorkerAssumption DEF enqueue, TypeOK, threads, Generations
  <2> QED BY <1>0, <1>00, <1>1, <2>3 DEF enqueue, threads
<1>2. ASSUME NEW id \in Ids, cancel(id) PROVE TypeInv'
  <2>1. cancelled' \subseteq Generations
    BY <1>2, MarkedIsActive DEF cancel, TypeOK
  <2>2. cancelledQueued' \subseteq Generations
    BY <1>2, NewestQueued DEF cancel, TypeOK
  <2>3. TypeOK'
    BY <1>2, <2>1, <2>2 DEF cancel, TypeOK, counts, control, threads
  <2> QED BY <1>0, <1>00, <1>2, <2>3 DEF cancel, counts, threads
<1>3. ASSUME NEW l \in Listeners, addOnComplete(l) \/ unsubscribe(l) PROVE TypeInv'
  <2>1. TypeOK'
    BY <1>3 DEF addOnComplete, unsubscribe, TypeOK, shared, counts, control, threads, observed
  <2> QED BY <1>0, <1>00, <1>3, <2>1 DEF addOnComplete, unsubscribe, counts, threads
<1>4. ASSUME NotifyOne PROVE TypeInv'
  <2>1. TypeOK'
    BY <1>4 DEF NotifyOne, TypeOK, Holding, shared, counts, observed
  <2>2. inFlightCount' = inFlightCount
    BY <1>4 DEF NotifyOne, counts
  <2>3. ASSUME NEW t \in Threads, pc[t] = "waiting", pc' = [pc EXCEPT ![t] = "check"]
        PROVE  Count(pc', "http") = Count(pc, "http")
    BY <1>00, <2>3, OneThreadMoves
  <2> QED BY <1>0, <1>00, <1>4, <2>1, <2>2, <2>3 DEF NotifyOne
<1>5. ASSUME Stopping PROVE TypeInv'
  <2>1. CASE StopBegins
    <3>1. TypeOK'
      BY <2>1 DEF StopBegins, TypeOK, shared, counts, threads, observed
    <3> QED BY <1>0, <1>00, <2>1, <3>1 DEF StopBegins, counts, threads
  <2>2. CASE NotifyAll
    <3>1. TypeOK'
      BY <2>2 DEF NotifyAll, TypeOK, Holding, shared, counts, observed
    <3>2. {u \in Threads : pc'[u] = "http"} = {u \in Threads : pc[u] = "http"}
      BY <2>2 DEF NotifyAll
    <3> QED BY <1>0, <1>00, <2>2, <3>1, <3>2 DEF NotifyAll, counts, Count
  <2>3. CASE Joined
    <3>1. TypeOK'
      BY <2>3 DEF Joined, TypeOK, shared, counts, threads, observed
    <3> QED BY <1>0, <1>00, <2>3, <3>1 DEF Joined, counts, threads
  <2> QED BY <1>5, <2>1, <2>2, <2>3 DEF Stopping
<1>6. ASSUME NEW t \in Threads, TakeFront(t), TakeCancelled(t) \/ TakeToSend(t)
      PROVE  TypeInv'
  <2>1. /\ Head(queue) \in Requests /\ Tail(queue) \in Seq(Requests)
        /\ Head(queue).generation \in Generations /\ Head(queue).size \in Nat
        /\ Len(queue) - 1 \in Nat
    BY <1>6, FrontIsRequest DEF TakeFront
  <2>2. pendingBodyBytes' \in Nat
    BY <1>6, <2>1 DEF TakeFront, TypeOK
  <2>3. CASE TakeCancelled(t)
    <3>1. TypeOK'
      BY <1>6, <2>1, <2>2, <2>3 DEF TakeCancelled, TakeFront, TypeOK, Holding, control
    <3>2. pc[t] = "check" /\ pc' = [pc EXCEPT ![t] = "drop"] /\ inFlightCount' = inFlightCount
      BY <1>6, <2>3 DEF TakeCancelled, TakeFront
    <3>3. Count(pc', "http") = Count(pc, "http")
      BY <1>00, <3>2, OneThreadMoves
    <3> QED BY <1>0, <1>00, <3>1, <3>2, <3>3
  <2>4. CASE TakeToSend(t)
    <3>1. TypeOK'
      BY <1>6, <2>1, <2>2, <2>4 DEF TakeToSend, TakeFront, TypeOK, Holding, control
    <3>2. Count(pc', "http") = Count(pc, "http") + 1
      BY <1>00, <1>6, <2>4, OneThreadMoves DEF TakeToSend, TakeFront
    <3> QED BY <1>0, <1>00, <2>4, <3>1, <3>2 DEF TakeToSend
  <2> QED BY <1>6, <2>3, <2>4
<1>7. ASSUME NEW t \in Threads, HttpReturns(t) PROVE TypeInv'
  <2>1. Count(pc', "http") = Count(pc, "http") - 1
    BY <1>00, <1>7, OneThreadMoves DEF HttpReturns
  <2>2. InFlightExact' /\ inFlightCount' \in Nat
    BY <1>0, <1>00, <1>7, <2>1, CountIsNat DEF HttpReturns
  <2>3. TypeOK'
    BY <1>7, <2>2 DEF HttpReturns, TypeOK, Holding, shared, control, observed
  <2> QED BY <2>2, <2>3
<1>8. ASSUME NEW t \in Threads, NEW to \in (Holding \ {"http"}) \cup {"check", "waiting", "exited"},
             pc[t] # "http", pc' = [pc EXCEPT ![t] = to], inFlightCount' = inFlightCount, TypeOK'
      PROVE  TypeInv'
  <2>1. Count(pc', "http") = Count(pc, "http")
    BY <1>00, <1>8, OneThreadMoves
  <2> QED BY <1>0, <1>00, <1>8, <2>1
<1>9. ASSUME NEW t \in Threads, Wait(t) \/ SpuriousWake(t) \/ Exit(t) PROVE TypeInv'
  <2>1. TypeOK'
    BY <1>9 DEF Wait, SpuriousWake, Exit, TypeOK, Holding, shared, counts, control, observed
  <2> QED BY <1>8, <1>9, <2>1 DEF Wait, SpuriousWake, Exit, counts
<1>10. ASSUME NEW t \in Threads, Retire(t) \/ Snapshot(t) \/ Loop(t) PROVE TypeInv'
  <2>1. request[t] \in Requests \/ Loop(t)
    BY <1>10 DEF Retire, Snapshot, TypeOK, Holding
  <2>2. CASE Retire(t)
    <3>1. TypeOK'
      BY <1>10, <2>2 DEF Retire, TypeOK, Holding, counts, control, observed
    <3> QED BY <1>8, <2>2, <3>1 DEF Retire, counts, Holding
  <2>3. CASE Snapshot(t)
    <3>1. request[t].generation \in Generations
      BY <2>3 DEF Snapshot, TypeOK, Holding, Requests
    <3>2. TypeOK'
      BY <2>3, <3>1 DEF Snapshot, TypeOK, Holding, shared, counts, control
    <3> QED BY <1>8, <2>3, <3>2 DEF Snapshot, counts, Holding
  <2>4. CASE Loop(t)
    <3>1. TypeOK'
      BY <2>4 DEF Loop, TypeOK, Holding, shared, counts, control, observed
    <3> QED BY <1>8, <2>4, <3>1 DEF Loop, counts
  <2> QED BY <1>10, <2>2, <2>3, <2>4
<1>11. ASSUME NEW t \in Threads, NEW l \in Listeners, Callback(t, l) PROVE TypeInv'
  <2>1. request[t].generation \in Generations
    BY <1>11 DEF Callback, TypeOK, Holding, Requests
  <2>2. TypeOK'
    BY <1>11, <2>1 DEF Callback, TypeOK, shared, counts, control
  <2> QED BY <1>0, <1>00, <1>11, <2>2 DEF Callback, counts
<1>12. ASSUME UNCHANGED vars PROVE TypeInv'
  <2>1. TypeOK'
    BY <1>12 DEF vars, TypeOK, shared, counts, control, threads, observed
  <2> QED BY <1>0, <1>00, <1>12, <2>1 DEF vars, counts, threads
<1> QED
  BY <1>1, <1>2, <1>3, <1>4, <1>5, <1>6, <1>7, <1>9, <1>10, <1>11, <1>12
     DEF Next, ThreadStep, TakeCancelled, TakeToSend

\* Every variable keeps its type, the counters never going below zero.
THEOREM TypeCorrect == Spec => []TypeOK
<1>1. Spec => []TypeInv
  BY TypeInit, TypeStep, PTL DEF Spec
<1>2. TypeInv => TypeOK
  BY DEF TypeInv
<1> QED BY <1>1, <1>2, PTL

-----------------------------------------------------------------------------
(* No wake-up is lost                                                      *)

\* No step leaves a thread waiting beside a request that nobody comes for.
LEMMA WakeupStep == TypeInv /\ NoWaiterForgotten /\ [Next]_vars => NoWaiterForgotten'
<1> SUFFICES ASSUME TypeInv, NoWaiterForgotten, [Next]_vars,
                    NEW w \in Threads, pc'[w] = "waiting"
             PROVE  Len(queue') <= notifications' + Count(pc', "check")
  BY DEF NoWaiterForgotten, At, Count
<1>0. /\ pc = [u \in Threads |-> pc[u]] /\ notifications \in Nat /\ Len(queue) \in Nat
      /\ queue \in Seq(Requests)
  BY DEF TypeInv, TypeOK
<1>1. (\E u \in Threads : pc[u] = "waiting") => Len(queue) <= notifications + Count(pc, "check")
  BY DEF NoWaiterForgotten, At, Count
<1>2. Count(pc, "check") \in Nat /\ Count(pc', "check") \in Nat
  BY CountIsNat
\* Steps that move no thread to the condition variable or away from the queue.
<1>3. ASSUME queue' = queue, notifications' = notifications, UNCHANGED pc
      PROVE  Len(queue') <= notifications' + Count(pc', "check")
  BY <1>1, <1>3
<1>4. ASSUME queue' = queue, notifications' = notifications, pc[w] = "waiting",
             Count(pc', "check") >= Count(pc, "check")
      PROVE  Len(queue') <= notifications' + Count(pc', "check")
  BY <1>0, <1>1, <1>2, <1>4
<1>5. ASSUME NEW id \in Ids, NEW size \in Sizes, enqueue(id, size)
      PROVE  Len(queue') <= notifications' + Count(pc', "check")
  <2>1. Len(queue') = Len(queue) + 1 /\ notifications' = notifications + 1 /\ pc' = pc
    BY <1>0, <1>5 DEF enqueue, threads
  <2> QED BY <1>0, <1>1, <1>2, <2>1
<1>6. ASSUME NotifyOne PROVE Len(queue') <= notifications' + Count(pc', "check")
  <2>1. PICK t \in Threads : pc[t] = "waiting" /\ pc' = [pc EXCEPT ![t] = "check"]
    BY <1>6 DEF NotifyOne
  <2>2. Count(pc', "check") = Count(pc, "check") + 1
    BY <1>0, <2>1, OneThreadMoves
  <2>3. queue' = queue /\ notifications' = notifications - 1
    BY <1>6 DEF NotifyOne, shared
  <2> QED BY <1>0, <1>1, <1>2, <2>1, <2>2, <2>3
<1>7. CASE NotifyAll
  <2>1. pc'[w] # "waiting"
    BY <1>7 DEF NotifyAll
  <2> QED BY <2>1
<1>8. ASSUME NEW t \in Threads, Wait(t) \/ Exit(t)
      PROVE  Len(queue') <= notifications' + Count(pc', "check")
  <2>1. queue' = <<>> /\ notifications' \in Nat
    BY <1>0, <1>8 DEF Wait, Exit, shared, control
  <2> QED BY <1>2, <2>1
<1>9. ASSUME NEW t \in Threads, TakeCancelled(t) \/ TakeToSend(t)
      PROVE  Len(queue') <= notifications' + Count(pc', "check")
  <2>1. pc[t] = "check" /\ queue # <<>> /\ queue' = Tail(queue) /\ notifications' = notifications
    BY <1>9 DEF TakeCancelled, TakeToSend, TakeFront, control
  <2>2. PICK to \in {"drop", "http"} : pc' = [pc EXCEPT ![t] = to]
    BY <1>9 DEF TakeCancelled, TakeToSend
  <2>3. pc[w] = "waiting"
    BY <1>0, <2>2
  <2>4. Count(pc', "check") = Count(pc, "check") - 1
    BY <1>0, <2>1, <2>2, OneThreadMoves
  <2>5. Len(queue') = Len(queue) - 1
    BY <1>0, <2>1
  <2> QED BY <1>0, <1>1, <1>2, <2>1, <2>3, <2>4, <2>5
<1>10. ASSUME NEW t \in Threads, SpuriousWake(t) \/ HttpReturns(t) \/ Retire(t) \/ Snapshot(t) \/ Loop(t)
       PROVE  Len(queue') <= notifications' + Count(pc', "check")
  <2>1. queue' = queue /\ notifications' = notifications
    BY <1>10 DEF SpuriousWake, HttpReturns, Retire, Snapshot, Loop, shared, control
  <2>2. CASE SpuriousWake(t) \/ Loop(t)
    <3>1. pc[t] # "check" /\ pc' = [pc EXCEPT ![t] = "check"]
      BY <2>2 DEF SpuriousWake, Loop
    <3>2. Count(pc', "check") = Count(pc, "check") + 1
      BY <1>0, <3>1, OneThreadMoves
    <3>3. pc[w] = "waiting"
      BY <1>0, <3>1
    <3> QED BY <1>2, <1>4, <2>1, <3>2, <3>3
  <2>3. ASSUME pc[t] # "check",
               \/ pc' = [pc EXCEPT ![t] = "retire"]
               \/ pc' = [pc EXCEPT ![t] = "notify"]
               \/ pc' = [pc EXCEPT ![t] = "calling"]
        PROVE  Len(queue') <= notifications' + Count(pc', "check")
    <3>1. Count(pc', "check") = Count(pc, "check")
      BY <1>0, <2>3, OneThreadMoves
    <3>2. pc[w] = "waiting"
      BY <1>0, <2>3
    <3> QED BY <1>2, <1>4, <2>1, <3>1, <3>2
  <2> QED BY <1>10, <2>2, <2>3 DEF HttpReturns, Retire, Snapshot
<1>11. ASSUME NEW id \in Ids, cancel(id)
       PROVE  Len(queue') <= notifications' + Count(pc', "check")
  BY <1>3, <1>11 DEF cancel, control, threads
<1>12. ASSUME NEW l \in Listeners, addOnComplete(l) \/ unsubscribe(l)
       PROVE  Len(queue') <= notifications' + Count(pc', "check")
  BY <1>3, <1>12 DEF addOnComplete, unsubscribe, shared, control, threads
<1>13. ASSUME StopBegins \/ Joined PROVE Len(queue') <= notifications' + Count(pc', "check")
  BY <1>3, <1>13 DEF StopBegins, Joined, shared, threads
<1>14. ASSUME NEW t \in Threads, NEW l \in Listeners, Callback(t, l)
       PROVE  Len(queue') <= notifications' + Count(pc', "check")
  BY <1>3, <1>14 DEF Callback, shared, control
<1>15. CASE UNCHANGED vars
  BY <1>3, <1>15 DEF vars, shared, control, threads
<1> QED
  BY <1>5, <1>6, <1>7, <1>8, <1>9, <1>10, <1>11, <1>12, <1>13, <1>14, <1>15
     DEF Next, ThreadStep, Stopping

\* While a thread waits, every queued request has a wake-up under way: the push
\* and its notify_one, the wait that releases the mutex, and notify_all leave no
\* order in which a request is queued and nobody comes for it.
THEOREM NoWakeupLost == Spec => []NoWaiterForgotten
<1>1. Init => NoWaiterForgotten
  BY DEF Init, NoWaiterForgotten
<1>2. Spec => [](TypeInv /\ NoWaiterForgotten)
  BY <1>1, TypeInit, TypeStep, WakeupStep, PTL DEF Spec
<1> QED BY <1>2, PTL

-----------------------------------------------------------------------------
(* Requests are told apart by their generation                             *)

\* Generations grow along the queue, and what was ever taken is older than what
\* is queued.  Two threads never hold the same request.
Ordered ==
  /\ \A i \in 1..Len(queue) : queue[i].generation <= nextGeneration
  /\ \A i, j \in 1..Len(queue) : i < j => queue[i].generation < queue[j].generation
  /\ \A t \in Threads : pc[t] \in Unretired =>
       /\ request[t].generation \in sent \cup dropped
       /\ \A u \in Threads \ {t} : pc[u] \in Unretired =>
            request[u].generation # request[t].generation
  /\ \A g \in sent \cup dropped :
       g <= nextGeneration /\ \A i \in 1..Len(queue) : g < queue[i].generation

\* For a request in the queue, the mark says whether it was cancelled.
MarksExact ==
  /\ \A g \in cancelled \cup cancelledQueued : g <= nextGeneration
  /\ \A i \in 1..Len(queue) :
       queue[i].generation \in cancelled <=> queue[i].generation \in cancelledQueued

AnswersInv == TypeInv /\ Ordered /\ TracksUnanswered /\ MarksExact
              /\ CancelledNeverSent /\ DropsWereCancelled

\* What pushing and taking do to the positions of the queue.
LEMMA Pushed ==
  ASSUME TypeInv, NEW id \in Ids, NEW size \in Sizes, enqueue(id, size)
  PROVE  /\ Len(queue') = Len(queue) + 1 /\ Len(queue) \in Nat
         /\ \A i \in 1..Len(queue) : queue'[i] = queue[i]
         /\ queue'[Len(queue) + 1] =
              [generation |-> nextGeneration + 1, id |-> id, size |-> size]
BY DEF TypeInv, TypeOK, enqueue

\* What taking the front leaves in the queue, and where.
LEMMA Taken ==
  ASSUME TypeInv, NEW t \in Threads, TakeFront(t)
  PROVE  /\ Len(queue') = Len(queue) - 1 /\ Len(queue) \in Nat \ {0}
         /\ \A i \in 1..Len(queue') : queue'[i] = queue[i + 1]
         /\ Head(queue) = queue[1]
BY DEF TypeInv, TypeOK, TakeFront

\* Pushing and taking keep the generations of the queue increasing, above what was
\* taken before and with one holder each.
LEMMA OrderedStep == TypeInv /\ Ordered /\ [Next]_vars => Ordered'
<1> SUFFICES ASSUME TypeInv, Ordered, [Next]_vars PROVE Ordered'
  OBVIOUS
<1>0. /\ nextGeneration \in Nat /\ pc \in [Threads -> Holding \cup {"check", "waiting", "exited"}]
      /\ request \in [Threads -> Requests \cup {Nothing}] /\ sent \in SUBSET Nat /\ dropped \in SUBSET Nat
      /\ \A i \in 1..Len(queue) : queue[i].generation \in Nat
  <2>1. \A i \in 1..Len(queue) : queue[i] \in Requests
    BY DEF TypeInv, TypeOK
  <2>2. \A i \in 1..Len(queue) : queue[i].generation \in Nat
    BY <2>1, WorkerAssumption DEF Requests, Generations
  <2>3. sent \in SUBSET Nat /\ dropped \in SUBSET Nat /\ nextGeneration \in Nat
    BY WorkerAssumption DEF TypeInv, TypeOK, Generations
  <2> QED BY <2>2, <2>3 DEF TypeInv, TypeOK
<1>1. ASSUME NEW id \in Ids, NEW size \in Sizes, enqueue(id, size) PROVE Ordered'
  <2>1. nextGeneration' = nextGeneration + 1 /\ UNCHANGED <<pc, request, sent, dropped>>
    BY <1>1 DEF enqueue, threads
  <2>2. /\ Len(queue') = Len(queue) + 1 /\ Len(queue) \in Nat
        /\ \A i \in 1..Len(queue) : queue'[i] = queue[i]
        /\ queue'[Len(queue) + 1].generation = nextGeneration + 1
    <3>1. /\ Len(queue') = Len(queue) + 1 /\ Len(queue) \in Nat
          /\ \A i \in 1..Len(queue) : queue'[i] = queue[i]
          /\ queue'[Len(queue) + 1] =
               [generation |-> nextGeneration + 1, id |-> id, size |-> size]
      BY <1>1, Pushed
    <3> QED BY <3>1
  <2>3. \A i \in 1..Len(queue') : i \in 1..Len(queue) \/ i = Len(queue) + 1
    BY <2>2
  <2>4. \A i \in 1..Len(queue') : queue'[i].generation <= nextGeneration'
    BY <1>0, <2>1, <2>2, <2>3 DEF Ordered
  <2>5. \A i, j \in 1..Len(queue') : i < j => queue'[i].generation < queue'[j].generation
    BY <1>0, <2>2, <2>3 DEF Ordered
  <2>6. \A g \in sent \cup dropped :
          g <= nextGeneration' /\ \A i \in 1..Len(queue') : g < queue'[i].generation
    BY SMTT(60), <1>0, <2>1, <2>2, <2>3 DEF Ordered
  <2> QED BY <2>1, <2>4, <2>5, <2>6 DEF Ordered
<1>2. ASSUME NEW t \in Threads, TakeFront(t), TakeCancelled(t) \/ TakeToSend(t) PROVE Ordered'
  <2> DEFINE h == queue[1].generation
  <2>1. /\ Len(queue') = Len(queue) - 1 /\ Len(queue) \in Nat \ {0}
        /\ \A i \in 1..Len(queue') : queue'[i] = queue[i + 1]
        /\ Head(queue) = queue[1]
    BY <1>2, Taken
  <2>2. \A i \in 1..Len(queue') : i + 1 \in 1..Len(queue) /\ 1 \in 1..Len(queue)
    BY <2>1
  <2>3. nextGeneration' = nextGeneration
    BY <1>2 DEF TakeCancelled, TakeToSend, control
  <2>4. sent' \cup dropped' = sent \cup dropped \cup {h}
    BY <1>2, <2>1 DEF TakeCancelled, TakeToSend
  <2>a. /\ \A i \in 1..Len(queue) : queue[i].generation <= nextGeneration
        /\ \A i, j \in 1..Len(queue) : i < j => queue[i].generation < queue[j].generation
        /\ \A g \in sent \cup dropped :
             g <= nextGeneration /\ \A i \in 1..Len(queue) : g < queue[i].generation
    BY DEF Ordered
  <2>5. \A i \in 1..Len(queue') : queue'[i].generation <= nextGeneration' /\ h < queue'[i].generation
    <3> SUFFICES ASSUME NEW i \in 1..Len(queue')
                 PROVE  queue'[i].generation <= nextGeneration' /\ h < queue'[i].generation
      OBVIOUS
    <3>1. i + 1 \in 1..Len(queue) /\ 1 \in 1..Len(queue) /\ 1 < i + 1 /\ queue'[i] = queue[i + 1]
      BY <2>1, <2>2
    <3> QED BY <2>3, <2>a, <3>1
  <2>6. \A i, j \in 1..Len(queue') : i < j => queue'[i].generation < queue'[j].generation
    <3> SUFFICES ASSUME NEW i \in 1..Len(queue'), NEW j \in 1..Len(queue'), i < j
                 PROVE  queue'[i].generation < queue'[j].generation
      OBVIOUS
    <3>1. /\ i + 1 \in 1..Len(queue) /\ j + 1 \in 1..Len(queue) /\ i + 1 < j + 1
          /\ queue'[i] = queue[i + 1] /\ queue'[j] = queue[j + 1]
      BY <2>1, <2>2
    <3> QED BY <2>a, <3>1
  <2>7. \A g \in sent' \cup dropped' :
          g <= nextGeneration' /\ \A i \in 1..Len(queue') : g < queue'[i].generation
    <3>1. h <= nextGeneration' /\ \A i \in 1..Len(queue') : h < queue'[i].generation
      BY <2>2, <2>3, <2>5, <2>a, <2>1
    <3>2. ASSUME NEW g \in sent \cup dropped
          PROVE  g <= nextGeneration' /\ \A i \in 1..Len(queue') : g < queue'[i].generation
      BY <2>1, <2>2, <2>3, <2>a
    <3> QED BY <2>4, <3>1, <3>2
  <2>8. /\ request'[t].generation = h
        /\ \A u \in Threads \ {t} : request'[u] = request[u] /\ pc'[u] = pc[u]
    BY <1>0, <1>2, <2>1 DEF TakeFront, TakeCancelled, TakeToSend
  <2>9. \A u \in Threads \ {t} : pc[u] \in Unretired => request[u].generation < h
    <3>1. \A u \in Threads : pc[u] \in Unretired => request[u].generation \in sent \cup dropped
      BY DEF Ordered
    <3>2. \A g \in sent \cup dropped : g < h
      <4>1. 1 \in 1..Len(queue)
        BY <2>1
      <4> QED BY <2>a, <4>1
    <3> HIDE DEF h
    <3> QED BY <3>1, <3>2
  <2>10. \A u \in Threads : pc'[u] \in Unretired =>
           /\ request'[u].generation \in sent' \cup dropped'
           /\ \A v \in Threads \ {u} : pc'[v] \in Unretired =>
                request'[v].generation # request'[u].generation
    <3>1. \A u \in Threads \ {t} : pc'[u] \in Unretired =>
            /\ request'[u].generation \in sent \cup dropped /\ request'[u].generation # h
            /\ \A v \in Threads \ {u, t} : pc'[v] \in Unretired =>
                 request'[v].generation # request'[u].generation
      <4>1. \A u \in Threads \ {t} : pc[u] \in Unretired => request[u].generation # h
        <5> SUFFICES ASSUME NEW u \in Threads \ {t}, pc[u] \in Unretired, request[u].generation = h
                     PROVE  FALSE
          OBVIOUS
        <5>1. h \in Nat /\ h < h
          BY <1>0, <2>1, <2>9
        <5> QED BY <5>1
      <4> HIDE DEF h
      <4> QED BY <2>8, <4>1 DEF Ordered
    <3> HIDE DEF h
    <3> QED BY <2>4, <2>8, <3>1
  <2> QED BY <2>5, <2>6, <2>7, <2>10 DEF Ordered
\* Every other step leaves the queue alone, and no thread comes to hold anything.
<1>3. ASSUME UNCHANGED <<queue, nextGeneration, sent, dropped>>,
             \A u \in Threads : pc'[u] \in Unretired => pc[u] \in Unretired /\ request'[u] = request[u]
      PROVE  Ordered'
  BY <1>3 DEF Ordered
<1>4. ASSUME NEW t \in Threads, HttpReturns(t) \/ Retire(t) \/ Snapshot(t) \/ Loop(t)
                                \/ Wait(t) \/ SpuriousWake(t) \/ Exit(t)
                                \/ \E l \in Listeners : Callback(t, l)
      PROVE  Ordered'
  <2>1. UNCHANGED <<queue, nextGeneration, sent, dropped>>
    BY <1>4 DEF HttpReturns, Retire, Snapshot, Loop, Wait, SpuriousWake, Exit, Callback,
                shared, control, observed
  <2>2. \A u \in Threads : pc'[u] \in Unretired => pc[u] \in Unretired /\ request'[u] = request[u]
    BY <1>0, <1>4 DEF HttpReturns, Retire, Snapshot, Loop, Wait, SpuriousWake, Exit, Callback,
                Unretired, shared, control, observed
  <2> QED BY <1>3, <2>1, <2>2
<1>5. ASSUME NotifyOne \/ Stopping PROVE Ordered'
  <2>1. UNCHANGED <<queue, nextGeneration, sent, dropped>>
    BY <1>5 DEF NotifyOne, Stopping, StopBegins, NotifyAll, Joined, shared, observed
  <2>2. \A u \in Threads : pc'[u] \in Unretired => pc[u] \in Unretired /\ request'[u] = request[u]
    BY <1>0, <1>5 DEF NotifyOne, Stopping, StopBegins, NotifyAll, Joined, Unretired, threads
  <2> QED BY <1>3, <2>1, <2>2
<1>6. ASSUME NEW id \in Ids, cancel(id) PROVE Ordered'
  BY <1>3, <1>6 DEF cancel, control, threads
<1>7. ASSUME NEW l \in Listeners, addOnComplete(l) \/ unsubscribe(l) PROVE Ordered'
  BY <1>3, <1>7 DEF addOnComplete, unsubscribe, shared, control, threads, observed
<1>8. CASE UNCHANGED vars
  BY <1>3, <1>8 DEF vars, shared, control, threads, observed
<1> QED
  BY <1>1, <1>2, <1>4, <1>5, <1>6, <1>7, <1>8 DEF Next, ThreadStep, TakeCancelled, TakeToSend

\* No step loses an entry of activeGenerations_, keeps one too long, or leaves a mark
\* without its request.
LEMMA TracksStep == TypeInv /\ Ordered /\ TracksUnanswered /\ [Next]_vars => TracksUnanswered'
<1> SUFFICES ASSUME TypeInv, Ordered, TracksUnanswered, [Next]_vars PROVE TracksUnanswered'
  OBVIOUS
<1>0. /\ pc \in [Threads -> Holding \cup {"check", "waiting", "exited"}]
      /\ request \in [Threads -> Requests \cup {Nothing}]
      /\ activeGenerations \in [Ids -> SUBSET Generations]
  BY DEF TypeInv, TypeOK
<1>1. /\ \A id \in Ids : activeGenerations[id] = QueuedOf(id) \cup HeldOf(id)
      /\ \A g \in cancelled : \E id \in Ids : g \in activeGenerations[id]
  BY DEF TracksUnanswered
<1>2. ASSUME NEW id \in Ids, NEW size \in Sizes, enqueue(id, size) PROVE TracksUnanswered'
  <2> DEFINE g == nextGeneration + 1
             r == [generation |-> g, id |-> id, size |-> size]
  <2>1. /\ activeGenerations' = [activeGenerations EXCEPT ![id] = @ \cup {g}]
        /\ UNCHANGED <<cancelled, pc, request>>
    BY <1>2 DEF enqueue, threads
  <2>2. /\ Len(queue') = Len(queue) + 1 /\ Len(queue) \in Nat
        /\ \A i \in 1..Len(queue) : queue'[i] = queue[i]
        /\ queue'[Len(queue) + 1] = r
    BY <1>2, Pushed
  <2>3. r.generation = g /\ r.id = id
    OBVIOUS
  <2>4. \A x \in Ids : HeldOf(x)' = HeldOf(x)
    BY <2>1 DEF HeldOf
  <2>5. QueuedOf(id)' = QueuedOf(id) \cup {g}
    <3> HIDE DEF r, g
    <3> QED BY <2>2, <2>3 DEF QueuedOf
  <2>6. \A x \in Ids \ {id} : QueuedOf(x)' = QueuedOf(x)
    <3> HIDE DEF r, g
    <3> QED BY <2>2, <2>3 DEF QueuedOf
  <2>7. \A x \in Ids : activeGenerations'[x] = QueuedOf(x)' \cup HeldOf(x)'
    BY <1>0, <1>1, <2>1, <2>4, <2>5, <2>6
  <2>8. \A x \in Ids : activeGenerations[x] \subseteq activeGenerations'[x]
    BY <1>0, <2>1
  <2> QED BY <1>1, <2>1, <2>7, <2>8 DEF TracksUnanswered
<1>3. ASSUME NEW t \in Threads, TakeFront(t), TakeCancelled(t) \/ TakeToSend(t)
      PROVE  TracksUnanswered'
  <2>1. /\ Len(queue') = Len(queue) - 1 /\ Len(queue) \in Nat \ {0}
        /\ \A i \in 1..Len(queue') : queue'[i] = queue[i + 1]
        /\ Head(queue) = queue[1]
    BY <1>3, Taken
  <2>2. /\ activeGenerations' = activeGenerations /\ cancelled' \subseteq cancelled
        /\ pc[t] \notin Unretired /\ pc'[t] \in Unretired /\ request'[t] = queue[1]
        /\ \A u \in Threads \ {t} : pc'[u] = pc[u] /\ request'[u] = request[u]
    BY <1>0, <1>3, <2>1 DEF TakeFront, TakeCancelled, TakeToSend, Unretired
  <2>3. \A x \in Ids : QueuedOf(x) \cup HeldOf(x) = QueuedOf(x)' \cup HeldOf(x)'
    <3> SUFFICES ASSUME NEW x \in Ids PROVE QueuedOf(x) \cup HeldOf(x) = QueuedOf(x)' \cup HeldOf(x)'
      OBVIOUS
    <3>1. \A i \in 1..Len(queue) : i = 1 \/ (i - 1 \in 1..Len(queue') /\ queue'[i - 1] = queue[i])
      BY <2>1
    <3>2. 1 \in 1..Len(queue) /\ \A i \in 1..Len(queue') : i + 1 \in 1..Len(queue)
      BY <2>1
    <3>3. CASE queue[1].id = x
      <4>1. HeldOf(x)' = HeldOf(x) \cup {queue[1].generation}
        BY <2>2, <3>3 DEF HeldOf
      <4>2. QueuedOf(x) = QueuedOf(x)' \cup {queue[1].generation}
        BY SMTT(60), <2>1, <3>1, <3>2, <3>3 DEF QueuedOf
      <4> QED BY <4>1, <4>2
    <3>4. CASE queue[1].id # x
      <4>1. HeldOf(x)' = HeldOf(x)
        BY <2>2, <3>4 DEF HeldOf
      <4>2. QueuedOf(x) = QueuedOf(x)'
        BY <2>1, <3>1, <3>2, <3>4 DEF QueuedOf
      <4> QED BY <4>1, <4>2
    <3> QED BY <3>3, <3>4
  <2> QED BY <1>1, <2>2, <2>3 DEF TracksUnanswered
<1>4. ASSUME NEW t \in Threads, Retire(t) PROVE TracksUnanswered'
  <2>0. PICK x \in Ids, g \in Generations : x = request[t].id /\ g = request[t].generation
    <3>1. request[t] \in Requests
      BY <1>4 DEF TypeInv, TypeOK, Retire, Holding
    <3> QED BY <3>1 DEF Requests
  <2>1. /\ queue' = queue /\ cancelled' = cancelled \ {g} /\ request' = request
        /\ activeGenerations' = [activeGenerations EXCEPT ![x] = @ \ {g}]
        /\ pc[t] \in Unretired /\ pc'[t] \notin Unretired
        /\ \A u \in Threads \ {t} : pc'[u] = pc[u]
    BY <1>0, <1>4, <2>0 DEF Retire, Unretired
  <2>3. \A u \in Threads \ {t} : pc[u] \in Unretired => request[u].generation # g
    BY <2>0, <2>1 DEF Ordered
  <2>4. \A i \in 1..Len(queue) : queue[i].generation # g
    <3>1. g \in sent \cup dropped
      BY <2>0, <2>1 DEF Ordered
    <3>2. g \in Nat
      BY WorkerAssumption DEF Generations
    <3>3. \A i \in 1..Len(queue) : g < queue[i].generation
      BY <3>1 DEF Ordered
    <3> QED BY <3>2, <3>3
  <2>5. \A y \in Ids : QueuedOf(y)' = QueuedOf(y) /\ g \notin QueuedOf(y)
    BY <2>1, <2>4 DEF QueuedOf
  <2>6. HeldOf(x)' = HeldOf(x) \ {g}
    BY <2>0, <2>1, <2>3 DEF HeldOf
  <2>7. \A y \in Ids \ {x} : HeldOf(y)' = HeldOf(y)
    BY <2>0, <2>1 DEF HeldOf
  <2>8. \A y \in Ids : activeGenerations'[y] = QueuedOf(y)' \cup HeldOf(y)'
    <3>1. activeGenerations'[x] = activeGenerations[x] \ {g}
      BY <1>0, <2>1
    <3>2. activeGenerations'[x] = QueuedOf(x)' \cup HeldOf(x)'
      BY <1>1, <2>5, <2>6, <3>1
    <3>3. \A y \in Ids \ {x} : activeGenerations'[y] = activeGenerations[y]
      BY <1>0, <2>1
    <3>4. \A y \in Ids \ {x} : activeGenerations'[y] = QueuedOf(y)' \cup HeldOf(y)'
      BY <1>1, <2>5, <2>7, <3>3
    <3> QED BY <3>2, <3>4
  <2>9. \A h \in cancelled' : \E y \in Ids : h \in activeGenerations'[y]
    BY <1>0, <1>1, <2>1
  <2> QED BY <2>8, <2>9 DEF TracksUnanswered
\* Every other step leaves the queue and the held requests as they were.
<1>5. ASSUME queue' = queue, activeGenerations' = activeGenerations,
             \A g \in cancelled' : g \in cancelled \/ \E id \in Ids : g \in activeGenerations[id],
             \A u \in Threads : /\ pc'[u] \in Unretired <=> pc[u] \in Unretired
                                /\ pc[u] \in Unretired => request'[u] = request[u]
      PROVE  TracksUnanswered'
  <2>1. \A id \in Ids : QueuedOf(id)' = QueuedOf(id) /\ HeldOf(id)' = HeldOf(id)
    BY <1>5 DEF QueuedOf, HeldOf
  <2> QED BY <1>1, <1>5, <2>1 DEF TracksUnanswered
<1>6. ASSUME NEW id \in Ids, cancel(id) PROVE TracksUnanswered'
  <2>1. Marked(id) \in activeGenerations[id]
    BY <1>6, MarkedIsActive DEF cancel, TypeInv
  <2>2. UNCHANGED <<queue, activeGenerations, pc, request>> /\ cancelled' = cancelled \cup {Marked(id)}
    BY <1>6 DEF cancel, threads
  <2> QED BY <1>5, <2>1, <2>2
<1>7. ASSUME NEW t \in Threads, HttpReturns(t) \/ Snapshot(t) \/ Loop(t)
                                \/ Wait(t) \/ SpuriousWake(t) \/ Exit(t)
                                \/ \E l \in Listeners : Callback(t, l)
      PROVE  TracksUnanswered'
  <2>1. UNCHANGED shared
    BY <1>7 DEF HttpReturns, Snapshot, Loop, Wait, SpuriousWake, Exit, Callback
  <2>2. \A u \in Threads : /\ pc'[u] \in Unretired <=> pc[u] \in Unretired
                           /\ pc[u] \in Unretired => request'[u] = request[u]
    BY <1>0, <1>7 DEF HttpReturns, Snapshot, Loop, Wait, SpuriousWake, Exit, Callback, Unretired
  <2> QED BY <1>5, <2>1, <2>2 DEF shared
<1>8. ASSUME NotifyOne \/ Stopping PROVE TracksUnanswered'
  <2>1. UNCHANGED shared
    BY <1>8 DEF NotifyOne, Stopping, StopBegins, NotifyAll, Joined
  <2>2. \A u \in Threads : /\ pc'[u] \in Unretired <=> pc[u] \in Unretired
                           /\ pc[u] \in Unretired => request'[u] = request[u]
    BY <1>0, <1>8 DEF NotifyOne, Stopping, StopBegins, NotifyAll, Joined, Unretired, threads
  <2> QED BY <1>5, <2>1, <2>2 DEF shared
<1>9. ASSUME NEW l \in Listeners, addOnComplete(l) \/ unsubscribe(l) PROVE TracksUnanswered'
  BY <1>5, <1>9 DEF addOnComplete, unsubscribe, shared, threads
<1>10. CASE UNCHANGED vars
  BY <1>5, <1>10 DEF vars, shared, threads
<1> QED
  BY <1>2, <1>3, <1>4, <1>6, <1>7, <1>8, <1>9, <1>10 DEF Next, ThreadStep, TakeCancelled, TakeToSend

\* A cancel marks the newest queued request of its id if there is one: those
\* that were taken are older.
LEMMA CancelMarksQueued ==
  ASSUME TypeInv, Ordered, TracksUnanswered, NEW id \in Ids, activeGenerations[id] # {}
  PROVE  IF QueuedOf(id) = {}
         THEN \A i \in 1..Len(queue) : queue[i].generation # Marked(id)
         ELSE Marked(id) = Newest(QueuedOf(id))
<1>1. /\ Marked(id) \in activeGenerations[id] /\ Marked(id) \in Generations
      /\ \A h \in activeGenerations[id] : h <= Marked(id)
  BY MarkedIsActive DEF TypeInv
<1>2. activeGenerations[id] = QueuedOf(id) \cup HeldOf(id)
  BY DEF TracksUnanswered
<1>3. \A h \in HeldOf(id) : h \in Nat /\ \A i \in 1..Len(queue) : h < queue[i].generation
  <2>1. \A h \in HeldOf(id) : h \in sent \cup dropped
    BY DEF Ordered, HeldOf
  <2>2. \A h \in sent \cup dropped : h \in Nat
    BY WorkerAssumption DEF TypeInv, TypeOK, Generations
  <2>3. \A h \in sent \cup dropped : \A i \in 1..Len(queue) : h < queue[i].generation
    BY DEF Ordered
  <2> QED BY <2>1, <2>2, <2>3
<1>4. CASE QueuedOf(id) = {}
  BY <1>1, <1>2, <1>3, <1>4
<1>5. CASE QueuedOf(id) # {}
  <2> DEFINE q == Newest(QueuedOf(id))
  <2>1. q \in QueuedOf(id) /\ q \in Generations /\ \A h \in QueuedOf(id) : h <= q
    BY <1>5, NewestQueued DEF TypeInv
  <2>2. \A h \in HeldOf(id) : h < q
    BY <1>3, <2>1 DEF QueuedOf
  <2> HIDE DEF q
  <2>3. q \in Nat /\ Marked(id) \in Nat
    BY <1>1, <2>1, WorkerAssumption DEF Generations
  <2>4. q <= Marked(id) /\ Marked(id) <= q
    BY <1>1, <1>2, <1>3, <2>1, <2>2, <2>3
  <2>5. q = Marked(id)
    BY <2>3, <2>4
  <2> QED BY <1>5, <2>5 DEF q
<1> QED BY <1>4, <1>5

\* A step marks exactly what callers cancelled while it was queued, and drops it.
LEMMA MarksStep ==
  TypeInv /\ Ordered /\ TracksUnanswered /\ MarksExact /\ CancelledNeverSent
          /\ DropsWereCancelled /\ [Next]_vars
    => MarksExact' /\ CancelledNeverSent' /\ DropsWereCancelled'
<1> DEFINE Goal == MarksExact' /\ CancelledNeverSent' /\ DropsWereCancelled'
<1> SUFFICES ASSUME TypeInv, Ordered, TracksUnanswered, MarksExact, CancelledNeverSent,
                    DropsWereCancelled, [Next]_vars
             PROVE  Goal
  OBVIOUS
<1>0. /\ nextGeneration \in Nat /\ cancelled \in SUBSET Nat /\ cancelledQueued \in SUBSET Nat
      /\ cancelledQueued \cap sent = {} /\ running \in BOOLEAN
      /\ running => dropped \subseteq cancelledQueued
  BY WorkerAssumption DEF TypeInv, TypeOK, Generations, CancelledNeverSent, DropsWereCancelled
<1>00. /\ \A g \in cancelled \cup cancelledQueued : g <= nextGeneration
       /\ \A i \in 1..Len(queue) :
            queue[i].generation \in cancelled <=> queue[i].generation \in cancelledQueued
  BY DEF MarksExact
<1>1. ASSUME NEW id \in Ids, NEW size \in Sizes, enqueue(id, size) PROVE Goal
  <2>1. /\ nextGeneration' = nextGeneration + 1
        /\ UNCHANGED <<cancelled, cancelledQueued, sent, dropped, running>>
    BY <1>1 DEF enqueue
  <2>2. /\ Len(queue') = Len(queue) + 1 /\ Len(queue) \in Nat
        /\ \A i \in 1..Len(queue) : queue'[i] = queue[i]
        /\ queue'[Len(queue) + 1].generation = nextGeneration + 1
    <3>1. /\ Len(queue') = Len(queue) + 1 /\ Len(queue) \in Nat
          /\ \A i \in 1..Len(queue) : queue'[i] = queue[i]
          /\ queue'[Len(queue) + 1] =
               [generation |-> nextGeneration + 1, id |-> id, size |-> size]
      BY <1>1, Pushed
    <3> QED BY <3>1
  <2>3. nextGeneration + 1 \notin cancelled \cup cancelledQueued
    BY <1>0, <1>00
  <2>4. \A i \in 1..Len(queue') : i \in 1..Len(queue) \/ i = Len(queue) + 1
    BY <2>2
  <2>5. MarksExact'
    BY <1>0, <1>00, <2>1, <2>2, <2>3, <2>4 DEF MarksExact
  <2> QED BY <2>1, <2>5 DEF CancelledNeverSent, DropsWereCancelled
<1>2. ASSUME NEW id \in Ids, cancel(id) PROVE Goal
  <2>1. /\ cancelled' = cancelled \cup {Marked(id)} /\ activeGenerations[id] # {}
        /\ UNCHANGED <<queue, nextGeneration, sent, dropped, running>>
    BY <1>2 DEF cancel, control
  <2>2. /\ \A i \in 1..Len(queue) : queue[i].generation <= nextGeneration
        /\ \A g \in sent \cup dropped :
             g <= nextGeneration /\ \A i \in 1..Len(queue) : g < queue[i].generation
    BY DEF Ordered
  <2>3. CASE QueuedOf(id) = {}
    <3>1. \A i \in 1..Len(queue) : queue[i].generation # Marked(id)
      BY <2>1, <2>3, CancelMarksQueued
    <3>2. cancelledQueued' = cancelledQueued
      BY <1>2, <2>3 DEF cancel
    <3>3. Marked(id) <= nextGeneration
      <4>1. Marked(id) \in HeldOf(id)
        BY <2>1, <2>3, MarkedIsActive DEF TypeInv, TracksUnanswered
      <4>2. Marked(id) \in sent \cup dropped
        BY <4>1 DEF HeldOf, Ordered
      <4> QED BY <2>2, <4>2
    <3>4. MarksExact'
      BY <1>00, <2>1, <3>1, <3>2, <3>3 DEF MarksExact
    <3> QED BY <2>1, <3>2, <3>4 DEF CancelledNeverSent, DropsWereCancelled
  <2>4. CASE QueuedOf(id) # {}
    <3>1. Marked(id) = Newest(QueuedOf(id)) /\ Marked(id) \in QueuedOf(id)
      BY <2>1, <2>4, CancelMarksQueued, NewestQueued DEF TypeInv
    <3>2. cancelledQueued' = cancelledQueued \cup {Marked(id)}
      BY <1>2, <2>4, <3>1 DEF cancel
    <3>3. PICK i \in 1..Len(queue) : Marked(id) = queue[i].generation
      BY <3>1 DEF QueuedOf
    <3>4. MarksExact'
      BY <1>00, <2>1, <2>2, <3>2, <3>3 DEF MarksExact
    <3>5. Marked(id) \notin sent
      <4>1. Marked(id) \in Nat
        BY <2>1, MarkedIsActive, WorkerAssumption DEF TypeInv, Generations
      <4>2. \A g \in sent : g < Marked(id)
        BY <2>2, <3>3
      <4> QED BY <4>1, <4>2
    <3> QED BY <1>0, <2>1, <3>2, <3>4, <3>5 DEF CancelledNeverSent, DropsWereCancelled
  <2> QED BY <2>3, <2>4
<1>3. ASSUME NEW t \in Threads, TakeFront(t), TakeCancelled(t) \/ TakeToSend(t) PROVE Goal
  <2>1. /\ Len(queue') = Len(queue) - 1 /\ Len(queue) \in Nat \ {0}
        /\ \A i \in 1..Len(queue') : queue'[i] = queue[i + 1]
        /\ Head(queue) = queue[1]
    BY <1>3, Taken
  <2> DEFINE h == queue[1].generation
  <2>2. UNCHANGED <<nextGeneration, running, cancelledQueued>>
    BY <1>3 DEF TakeCancelled, TakeToSend, control
  <2>3. \A i \in 1..Len(queue') : i + 1 \in 1..Len(queue) /\ queue'[i].generation # h
    <3>1. \A i \in 1..Len(queue') : 1 \in 1..Len(queue) /\ i + 1 \in 1..Len(queue) /\ 1 < i + 1
      BY <2>1
    <3>2. \A i \in 1..Len(queue') : h < queue[i + 1].generation
      BY <3>1 DEF Ordered
    <3>3. h \in Nat
      <4>1. queue[1] \in Requests
        BY <2>1 DEF TypeInv, TypeOK
      <4> QED BY <4>1, WorkerAssumption DEF Requests, Generations
    <3> HIDE DEF h
    <3> QED BY <2>1, <3>1, <3>2, <3>3
  <2>4. cancelled' \subseteq cancelled /\ cancelled \subseteq cancelled' \cup {h}
    BY <1>3, <2>1 DEF TakeCancelled, TakeToSend
  <2>5. 1 \in 1..Len(queue)
    BY <2>1
  <2>6. MarksExact'
    <3>1. \A i \in 1..Len(queue') :
            queue'[i].generation \in cancelled' <=> queue'[i].generation \in cancelledQueued
      BY <1>00, <2>1, <2>3, <2>4
    <3> QED BY <1>00, <2>2, <2>4, <3>1 DEF MarksExact
  <2>7. CASE TakeCancelled(t)
    <3>1. dropped' = dropped \cup {h} /\ sent' = sent /\ (~running \/ h \in cancelled)
      BY <2>1, <2>7 DEF TakeCancelled, MayDrop
    <3>2. running => h \in cancelledQueued
      BY <1>00, <2>5, <3>1
    <3> QED BY <1>0, <2>2, <2>6, <3>1, <3>2 DEF CancelledNeverSent, DropsWereCancelled
  <2>8. CASE TakeToSend(t)
    <3>1. sent' = sent \cup {h} /\ dropped' = dropped /\ h \notin cancelled
      BY <2>1, <2>8 DEF TakeToSend, MayDrop
    <3>2. h \notin cancelledQueued
      BY <1>00, <2>5, <3>1
    <3> QED BY <1>0, <2>2, <2>6, <3>1, <3>2 DEF CancelledNeverSent, DropsWereCancelled
  <2> QED BY <1>3, <2>7, <2>8
<1>4. ASSUME NEW t \in Threads, Retire(t) PROVE Goal
  <2>1. /\ cancelled' = cancelled \ {request[t].generation}
        /\ UNCHANGED <<queue, nextGeneration, running, sent, dropped, cancelledQueued>>
    BY <1>4 DEF Retire, control, observed
  <2>2. \A i \in 1..Len(queue) : queue[i].generation # request[t].generation
    <3>1. request[t].generation \in sent \cup dropped
      BY <1>4 DEF Retire, Ordered, Unretired
    <3>2. request[t].generation \in Nat
      <4>1. \A g \in sent \cup dropped : g \in Nat
        BY WorkerAssumption DEF TypeInv, TypeOK, Generations
      <4> QED BY <3>1, <4>1
    <3>3. \A i \in 1..Len(queue) : request[t].generation < queue[i].generation
      BY <3>1 DEF Ordered
    <3> QED BY <3>2, <3>3
  <2>3. MarksExact'
    BY <1>00, <2>1, <2>2 DEF MarksExact
  <2> QED BY <2>1, <2>3 DEF CancelledNeverSent, DropsWereCancelled
\* The other steps touch none of this, but for the flag that a stop clears.
<1>5. ASSUME UNCHANGED <<queue, nextGeneration, cancelled, cancelledQueued, sent, dropped>>,
             running' = running \/ running' = FALSE
      PROVE  Goal
  <2>1. MarksExact' /\ CancelledNeverSent'
    BY <1>5 DEF MarksExact, CancelledNeverSent
  <2>2. running' => running
    BY <1>5, Zenon
  <2>3. DropsWereCancelled'
    BY <1>5, <2>2 DEF DropsWereCancelled
  <2> QED BY <2>1, <2>3
<1>6. ASSUME NEW t \in Threads, HttpReturns(t) \/ Snapshot(t) \/ Loop(t)
                                \/ Wait(t) \/ SpuriousWake(t) \/ Exit(t)
                                \/ \E l \in Listeners : Callback(t, l)
      PROVE  Goal
  BY <1>5, <1>6 DEF HttpReturns, Snapshot, Loop, Wait, SpuriousWake, Exit, Callback,
                    shared, control, observed
<1>7. ASSUME NotifyOne \/ Stopping PROVE Goal
  BY <1>5, <1>7 DEF NotifyOne, Stopping, StopBegins, NotifyAll, Joined, shared, observed
<1>8. ASSUME NEW l \in Listeners, addOnComplete(l) \/ unsubscribe(l) PROVE Goal
  BY <1>5, <1>8 DEF addOnComplete, unsubscribe, shared, control, observed
<1>9. CASE UNCHANGED vars
  BY <1>5, <1>9 DEF vars, shared, control, observed
<1> QED
  BY <1>1, <1>2, <1>3, <1>4, <1>6, <1>7, <1>8, <1>9 DEF Next, ThreadStep, TakeCancelled, TakeToSend

\* The strengthened invariant holds of the specification.
LEMMA AnswersInductive == Spec => []AnswersInv
<1>1. Init => AnswersInv
  <2> SUFFICES ASSUME Init PROVE AnswersInv
    OBVIOUS
  <2>1. Len(queue) = 0 /\ 1..Len(queue) = {}
    BY DEF Init
  <2>2. \A id \in Ids : QueuedOf(id) = {} /\ HeldOf(id) = {}
    BY <2>1 DEF Init, QueuedOf, HeldOf, Unretired
  <2>3. Ordered /\ MarksExact
    BY <2>1 DEF Init, Ordered, MarksExact, Unretired
  <2>4. TracksUnanswered /\ CancelledNeverSent /\ DropsWereCancelled
    BY <2>2 DEF Init, TracksUnanswered, CancelledNeverSent, DropsWereCancelled
  <2> QED BY <2>3, <2>4, TypeInit DEF AnswersInv
<1>2. AnswersInv /\ [Next]_vars => AnswersInv'
  BY TypeStep, OrderedStep, TracksStep, MarksStep DEF AnswersInv
<1> QED BY <1>1, <1>2, PTL DEF Spec

\* activeGenerations_ and cancelledGenerations_ hold exactly what is unanswered:
\* no entry leaks, and no mark is left to hit a later request of the same id.
LEMMA NothingLeaks == Spec => []TracksUnanswered
<1>1. AnswersInv => TracksUnanswered
  BY DEF AnswersInv
<1> QED BY <1>1, AnswersInductive, PTL

\* A request cancelled while it is queued is never given to the HTTP adapter, and
\* until the worker stops only what a caller cancelled is reported cancelled.
THEOREM CancelIsExact == Spec => []CancelsAreExact
<1>1. AnswersInv => CancelsAreExact
  BY DEF AnswersInv, CancelsAreExact
<1> QED BY <1>1, AnswersInductive, PTL


-----------------------------------------------------------------------------
(* Each listener hears of a request once                                   *)

\* Nobody has been told of a request that no thread has taken, or that a thread
\* has taken and not completed; two threads never answer for the same one.
CallsInv ==
  /\ completed \subseteq sent \cup dropped
  /\ \A l \in Listeners : received[l] \subseteq completed
  /\ \A t \in Threads : pc[t] \in Holding =>
       /\ request[t].generation \in sent \cup dropped
       /\ request[t].generation \in completed <=> pc[t] = "calling"
       /\ \A u \in Threads \ {t} : pc[u] \in Holding =>
            request[u].generation # request[t].generation
  /\ \A t \in Threads : toCall[t] # {} => pc[t] = "calling"
  /\ OncePerListener

\* Taking a request, telling the listeners of it and going back to the queue keep
\* the answered requests apart from the others.
LEMMA CallsStep ==
  ASSUME TypeInv, Ordered, CallsInv, [Next]_vars
  PROVE  CallsInv'
<1>0. /\ pc \in [Threads -> Holding \cup {"check", "waiting", "exited"}]
      /\ request \in [Threads -> Requests \cup {Nothing}]
      /\ toCall \in [Threads -> SUBSET Listeners] /\ listeners \in SUBSET Listeners
      /\ received \in [Listeners -> SUBSET Generations]
  BY DEF TypeInv, TypeOK
<1>1. ASSUME NEW t \in Threads, TakeFront(t), TakeCancelled(t) \/ TakeToSend(t)
      PROVE  CallsInv'
  <2> DEFINE h == queue[1].generation
  <2>1. Head(queue) = queue[1] /\ 1 \in 1..Len(queue)
    BY <1>1, Taken
  <2>2. h \notin sent \cup dropped
    <3>1. \A g \in sent \cup dropped : g < h
      BY <2>1 DEF Ordered
    <3>2. h \in Nat
      <4>1. queue[1] \in Requests
        BY <2>1 DEF TypeInv, TypeOK
      <4> QED BY <4>1, WorkerAssumption DEF Requests, Generations
    <3> HIDE DEF h
    <3> QED BY <3>1, <3>2
  <2>3. /\ UNCHANGED <<completed, received, toCall>>
        /\ sent' \cup dropped' = sent \cup dropped \cup {h}
        /\ pc[t] = "check" /\ pc'[t] \in {"drop", "http"} /\ request'[t].generation = h
        /\ \A u \in Threads \ {t} : request'[u] = request[u] /\ pc'[u] = pc[u]
    BY <1>0, <1>1, <2>1 DEF TakeFront, TakeCancelled, TakeToSend
  <2> HIDE DEF h
  <2>4. h \notin completed /\ toCall[t] = {}
    BY <2>2, <2>3 DEF CallsInv
  <2>5. \A u \in Threads : pc'[u] \in Holding =>
           /\ request'[u].generation \in sent' \cup dropped'
           /\ request'[u].generation \in completed' <=> pc'[u] = "calling"
           /\ \A v \in Threads \ {u} : pc'[v] \in Holding =>
                request'[v].generation # request'[u].generation
    <3> SUFFICES ASSUME NEW u \in Threads, pc'[u] \in Holding
                 PROVE  /\ request'[u].generation \in sent' \cup dropped'
                        /\ request'[u].generation \in completed' <=> pc'[u] = "calling"
                        /\ \A v \in Threads \ {u} : pc'[v] \in Holding =>
                             request'[v].generation # request'[u].generation
      OBVIOUS
    <3>1. CASE u = t
      BY <2>2, <2>3, <2>4, <3>1 DEF CallsInv
    <3>2. CASE u # t
      <4>1. ASSUME NEW v \in Threads \ {u}, pc'[v] \in Holding
            PROVE  request'[v].generation # request'[u].generation
        <5>1. CASE v = t
          BY <2>2, <2>3, <3>2, <5>1 DEF CallsInv
        <5>2. CASE v # t
          BY <2>3, <3>2, <4>1, <5>2 DEF CallsInv
        <5> QED BY <5>1, <5>2
      <4>2. /\ request'[u].generation \in sent' \cup dropped'
            /\ request'[u].generation \in completed' <=> pc'[u] = "calling"
        BY <2>3, <3>2 DEF CallsInv
      <4> QED BY <4>1, <4>2
    <3> QED BY <3>1, <3>2
  <2>6. OncePerListener'
    BY <2>3, <2>4 DEF CallsInv, OncePerListener
  <2> QED BY <2>3, <2>4, <2>5, <2>6 DEF CallsInv
<1>2. ASSUME NEW t \in Threads, Snapshot(t)
      PROVE  CallsInv'
  <2>1. /\ UNCHANGED <<sent, dropped, received, request>>
        /\ completed' = completed \cup {request[t].generation}
        /\ pc[t] = "notify" /\ pc'[t] = "calling" /\ pc[t] \in Holding
        /\ toCall'[t] \subseteq Listeners
        /\ \A u \in Threads \ {t} : pc'[u] = pc[u] /\ toCall'[u] = toCall[u]
    BY <1>0, <1>2 DEF Snapshot, Holding
  <2>2. request[t].generation \in sent \cup dropped /\ request[t].generation \notin completed
    BY <2>1 DEF CallsInv
  <2>3. \A u \in Threads : pc'[u] \in Holding =>
           /\ request'[u].generation \in sent' \cup dropped'
           /\ request'[u].generation \in completed' <=> pc'[u] = "calling"
           /\ \A v \in Threads \ {u} : pc'[v] \in Holding =>
                request'[v].generation # request'[u].generation
    BY <2>1, <2>2 DEF CallsInv
  <2>4. OncePerListener'
    <3> SUFFICES ASSUME NEW u \in Threads, NEW l \in toCall'[u]
                 PROVE  request[u].generation \notin received[l]
      BY <2>1 DEF OncePerListener
    <3>1. CASE u = t
      BY <2>1, <2>2, <3>1 DEF CallsInv
    <3>2. CASE u # t
      BY <2>1, <3>2 DEF CallsInv, OncePerListener
    <3> QED BY <3>1, <3>2
  <2> QED BY <2>1, <2>2, <2>3, <2>4 DEF CallsInv
<1>3. ASSUME NEW t \in Threads, NEW l \in Listeners, Callback(t, l)
      PROVE  CallsInv'
  <2>1. /\ UNCHANGED <<sent, dropped, completed, request, pc>>
        /\ pc[t] = "calling" /\ l \in toCall[t] /\ pc[t] \in Holding
        /\ toCall'[t] = toCall[t] \ {l} /\ received'[l] = received[l] \cup {request[t].generation}
        /\ \A u \in Threads \ {t} : toCall'[u] = toCall[u]
        /\ \A m \in Listeners \ {l} : received'[m] = received[m]
    BY <1>0, <1>3 DEF Callback, Holding
  <2>2. request[t].generation \in completed
    BY <2>1 DEF CallsInv
  <2>3. \A u \in Threads \ {t} : toCall[u] # {} =>
          request[u].generation # request[t].generation
    BY <2>1 DEF CallsInv, Holding
  <2>4. OncePerListener'
    <3> SUFFICES ASSUME NEW u \in Threads, NEW m \in toCall'[u]
                 PROVE  request[u].generation \notin received'[m]
      BY <2>1 DEF OncePerListener
    <3>1. m \in toCall[u] /\ m \in Listeners /\ (u = t => m # l)
      BY <1>0, <2>1
    <3>2. request[u].generation \notin received[m]
      BY <3>1 DEF CallsInv, OncePerListener
    <3> QED BY <2>1, <2>3, <3>1, <3>2
  <2>5. \A m \in Listeners : received'[m] \subseteq completed
    BY <2>1, <2>2 DEF CallsInv
  <2>6. \A u \in Threads : toCall'[u] # {} => pc[u] = "calling"
    BY <2>1 DEF CallsInv
  <2> QED BY <2>1, <2>4, <2>5, <2>6 DEF CallsInv
<1>4. ASSUME NEW t \in Threads, Loop(t)
      PROVE  CallsInv'
  <2>1. /\ UNCHANGED <<sent, dropped, completed, received, toCall>>
        /\ pc'[t] = "check" /\ toCall[t] = {}
        /\ \A u \in Threads \ {t} : pc'[u] = pc[u] /\ request'[u] = request[u]
    BY <1>0, <1>4 DEF Loop, observed
  <2>2. \A u \in Threads : toCall'[u] # {} => u # t
    BY <2>1
  <2>3. OncePerListener'
    BY <2>1, <2>2 DEF CallsInv, OncePerListener
  <2> QED BY <2>1, <2>2, <2>3 DEF CallsInv, Holding
\* Every other step moves no thread into or out of "calling", and starts none.
<1>5. ASSUME UNCHANGED <<sent, dropped, completed, received, toCall, request>>,
             \A u \in Threads : pc'[u] \in Holding => pc[u] \in Holding,
             \A u \in Threads : pc'[u] = "calling" <=> pc[u] = "calling"
      PROVE  CallsInv'
  BY <1>5 DEF CallsInv, OncePerListener
<1>6. ASSUME NEW t \in Threads, HttpReturns(t) \/ Retire(t) \/ Wait(t) \/ SpuriousWake(t) \/ Exit(t)
      PROVE  CallsInv'
  <2>1. UNCHANGED <<sent, dropped, completed, received, toCall, request>>
    BY <1>6 DEF HttpReturns, Retire, Wait, SpuriousWake, Exit, observed
  <2>2. /\ \A u \in Threads : pc'[u] \in Holding => pc[u] \in Holding
        /\ \A u \in Threads : pc'[u] = "calling" <=> pc[u] = "calling"
    BY <1>0, <1>6 DEF HttpReturns, Retire, Wait, SpuriousWake, Exit, Holding
  <2> QED BY <1>5, <2>1, <2>2
<1>7. ASSUME NotifyOne \/ Stopping
      PROVE  CallsInv'
  <2>1. UNCHANGED <<sent, dropped, completed, received, toCall, request>>
    BY <1>7 DEF NotifyOne, Stopping, StopBegins, NotifyAll, Joined, threads, observed
  <2>2. /\ \A u \in Threads : pc'[u] \in Holding => pc[u] \in Holding
        /\ \A u \in Threads : pc'[u] = "calling" <=> pc[u] = "calling"
    BY <1>0, <1>7 DEF NotifyOne, Stopping, StopBegins, NotifyAll, Joined, threads, Holding
  <2> QED BY <1>5, <2>1, <2>2
<1>8. ASSUME NEW id \in Ids, cancel(id) \/ \E size \in Sizes : enqueue(id, size)
      PROVE  CallsInv'
  BY <1>5, <1>8 DEF cancel, enqueue, threads
<1>9. ASSUME NEW l \in Listeners, addOnComplete(l) \/ unsubscribe(l)
      PROVE  CallsInv'
  BY <1>5, <1>9 DEF addOnComplete, unsubscribe, threads, observed
<1>10. CASE UNCHANGED vars
  BY <1>5, <1>10 DEF vars, threads, observed
<1> QED
  BY <1>1, <1>2, <1>3, <1>4, <1>6, <1>7, <1>8, <1>9, <1>10
     DEF Next, ThreadStep, TakeCancelled, TakeToSend

\* No listener is called twice for a request: not when a cancel meets the thread
\* that takes it, nor when one thread calls listeners while others do.
LEMMA HeardOnce == Spec => []OncePerListener
<1>1. Init => CallsInv
  BY DEF Init, CallsInv, OncePerListener, Holding
<1>2. AnswersInv => TypeInv /\ Ordered
  BY DEF AnswersInv
<1>3. TypeInv /\ Ordered /\ CallsInv /\ [Next]_vars => CallsInv'
  BY CallsStep
<1>4. CallsInv => OncePerListener
  BY DEF CallsInv
<1> QED BY <1>1, <1>2, <1>3, <1>4, AnswersInductive, PTL DEF Spec

\* A request is on the books of the queue until it is answered, and every
\* listener hears of it once, whatever callers, threads and cancels do.
THEOREM EachIsAnsweredOnce == Spec => []AnsweredOnce
BY NothingLeaks, HeardOnce, PTL DEF AnsweredOnce


-----------------------------------------------------------------------------
(* The counters.                                                           *)

\* A set of naturals that is not empty has a least element: what replaces an
\* induction in the lemmas on sums.
LEMMA LeastNatural ==
  ASSUME NEW T \in SUBSET Nat, T # {}
  PROVE  \E x \in T : \A y \in T : x <= y
<1>1. PICK x \in T : \A y \in T : ~ (<<y, x>> \in OpToRel(<, Nat))
  BY WFMin, NatLessThanWellFounded
<1>2. \A y \in T : ~ (y < x)
  <2> SUFFICES ASSUME NEW y \in T, y < x PROVE FALSE
    OBVIOUS
  <2>1. <<y, x>> \in OpToRel(<, Nat)
    BY DEF OpToRel
  <2> QED BY <1>1, <2>1
<1>3. \A y \in T : y \in Nat
  OBVIOUS
<1>4. \A y \in T : x <= y
  BY <1>2, <1>3
<1> QED BY <1>4

\* Bodies have sizes; f is the function of the sums of their prefixes.
Bodies(q) == /\ Len(q) \in Nat
             /\ \A n \in 1..Len(q) : q[n].size \in Nat
SumsTo(q, m, f) == f = [n \in 0..m |-> IF n = 0 THEN 0 ELSE f[n - 1] + q[n].size]

\* There is such a function for every prefix.
LEMMA SumsExist ==
  ASSUME NEW q, Bodies(q)
  PROVE  \A m \in 0..Len(q) : \E f : SumsTo(q, m, f)
<1> DEFINE T == {m \in 0..Len(q) : ~ \E f : SumsTo(q, m, f)}
<1> SUFFICES ASSUME T # {} PROVE FALSE
  OBVIOUS
<1>1. T \in SUBSET Nat /\ T \subseteq 0..Len(q)
  BY DEF Bodies
<1>2. PICK m \in T : \A k \in T : m <= k
  <2> HIDE DEF T
  <2> QED BY <1>1, LeastNatural
<1>3. m \in 0..Len(q) /\ Len(q) \in Nat
  BY DEF Bodies
<1>4. CASE m = 0
  <2> DEFINE f == [n \in 0..0 |-> 0]
  <2>1. SumsTo(q, 0, f)
    BY DEF SumsTo
  <2> HIDE DEF f
  <2> QED BY <1>4, <2>1
<1>5. CASE m # 0
  <2>1. m - 1 \in 0..Len(q) /\ ~ (m <= m - 1)
    BY <1>3, <1>5
  <2>2. PICK f : SumsTo(q, m - 1, f)
    BY <1>2, <2>1
  <2> DEFINE g == [n \in 0..m |-> IF n = m THEN f[m - 1] + q[m].size ELSE f[n]]
  <2>3. \A n \in 0..m : g[n] = IF n = 0 THEN 0 ELSE g[n - 1] + q[n].size
    <3> SUFFICES ASSUME NEW n \in 0..m PROVE g[n] = IF n = 0 THEN 0 ELSE g[n - 1] + q[n].size
      OBVIOUS
    <3>1. CASE n = m
      <4>1. g[n] = f[m - 1] + q[m].size /\ m - 1 \in 0..m /\ m - 1 # m
        BY <1>3, <1>5, <3>1
      <4>2. g[m - 1] = f[m - 1]
        BY <4>1
      <4> QED BY <1>5, <3>1, <4>1, <4>2
    <3>2. CASE n # m
      <4>1. n \in 0..(m - 1) /\ g[n] = f[n]
        BY <1>3, <3>2
      <4>2. f[n] = IF n = 0 THEN 0 ELSE f[n - 1] + q[n].size
        BY <2>2, <4>1 DEF SumsTo
      <4>3. n # 0 => n - 1 \in 0..m /\ n - 1 # m
        BY <1>3, <4>1
      <4>4. n # 0 => g[n - 1] = f[n - 1]
        BY <4>3
      <4> HIDE DEF g
      <4> QED BY <4>1, <4>2, <4>4
    <3> QED BY <3>1, <3>2
  <2>4. g = [n \in 0..m |-> g[n]]
    OBVIOUS
  <2>5. SumsTo(q, m, g)
    <3> HIDE DEF g
    <3> QED BY <2>3, <2>4 DEF SumsTo
  <2> HIDE DEF g
  <2> QED BY <2>5
<1> QED BY <1>4, <1>5

\* Bytes is the last value of that function, whose equation this states.
LEMMA BytesIsSum ==
  ASSUME NEW q, Bodies(q)
  PROVE  \E f : /\ Bytes(q) = f[Len(q)] /\ f[0] = 0
                /\ \A n \in 1..Len(q) : f[n] = f[n - 1] + q[n].size
<1> DEFINE f == CHOOSE u : SumsTo(q, Len(q), u)
<1>1. Bytes(q) = f[Len(q)]
  BY DEF Bytes, SumsTo
<1>2. Len(q) \in 0..Len(q) /\ Len(q) \in Nat
  BY DEF Bodies
<1>3. SumsTo(q, Len(q), f)
  BY <1>2, SumsExist
<1> HIDE DEF f
<1>4. f[0] = 0
  BY <1>2, <1>3 DEF SumsTo
<1>5. \A n \in 1..Len(q) : f[n] = f[n - 1] + q[n].size
  BY <1>2, <1>3 DEF SumsTo
<1> QED BY <1>1, <1>4, <1>5


\* A body at the end adds its size, and the sum of bodies is a natural number.
LEMMA BytesAppended ==
  ASSUME NEW q, Bodies(q), NEW r, Len(r) = Len(q) + 1, r[Len(r)].size \in Nat,
         \A n \in 1..Len(q) : r[n] = q[n]
  PROVE  Bytes(r) = Bytes(q) + r[Len(r)].size
<1>0. Len(q) \in Nat /\ Len(r) \in Nat /\ Bodies(r)
  <2>1. \A n \in 1..Len(r) : n \in 1..Len(q) \/ n = Len(r)
    BY DEF Bodies
  <2> QED BY <2>1 DEF Bodies
<1>1. PICK f : /\ Bytes(q) = f[Len(q)] /\ f[0] = 0
               /\ \A n \in 1..Len(q) : f[n] = f[n - 1] + q[n].size
  BY BytesIsSum
<1>2. PICK g : /\ Bytes(r) = g[Len(r)] /\ g[0] = 0
               /\ \A n \in 1..Len(r) : g[n] = g[n - 1] + r[n].size
  BY <1>0, BytesIsSum
<1>3. \A n \in 0..Len(q) : g[n] = f[n]
  <2> DEFINE T == {n \in 0..Len(q) : g[n] # f[n]}
  <2> SUFFICES ASSUME T # {} PROVE FALSE
    OBVIOUS
  <2>1. T \in SUBSET Nat
    BY <1>0
  <2>2. PICK n \in T : \A k \in T : n <= k
    <3> HIDE DEF T
    <3> QED BY <2>1, LeastNatural
  <2>3. n \in 1..Len(q) /\ n \in 1..Len(r)
    BY <1>0, <1>1, <1>2
  <2>4. n - 1 \in 0..Len(q) /\ ~ (n <= n - 1)
    BY <1>0, <2>3
  <2>5. g[n - 1] = f[n - 1]
    BY <2>2, <2>4
  <2> QED BY <1>1, <1>2, <2>3, <2>5
<1>4. Len(r) \in 1..Len(r) /\ Len(r) - 1 = Len(q) /\ Len(q) \in 0..Len(q)
  BY <1>0
<1> QED BY <1>1, <1>2, <1>3, <1>4

\* Taking the first body away subtracts its size.
LEMMA BytesTaken ==
  ASSUME NEW q, Bodies(q), NEW r, Len(q) = Len(r) + 1, Len(r) \in Nat,
         \A n \in 1..Len(r) : r[n] = q[n + 1]
  PROVE  Bytes(q) = q[1].size + Bytes(r)
<1>0. Bodies(r) /\ Len(q) \in Nat
  <2>1. \A n \in 1..Len(r) : n + 1 \in 1..Len(q)
    BY DEF Bodies
  <2> QED BY <2>1 DEF Bodies
<1>1. PICK f : /\ Bytes(q) = f[Len(q)] /\ f[0] = 0
               /\ \A n \in 1..Len(q) : f[n] = f[n - 1] + q[n].size
  BY BytesIsSum
<1>2. PICK g : /\ Bytes(r) = g[Len(r)] /\ g[0] = 0
               /\ \A n \in 1..Len(r) : g[n] = g[n - 1] + r[n].size
  BY <1>0, BytesIsSum
<1>3. 1 \in 1..Len(q) /\ q[1].size \in Nat /\ f[1] = q[1].size
  <2>1. 1 \in 1..Len(q) /\ 1 - 1 = 0
    BY <1>0
  <2>2. q[1].size \in Nat
    BY <2>1 DEF Bodies
  <2>3. f[1] = f[1 - 1] + q[1].size
    BY <1>1, <2>1
  <2> QED BY <1>1, <2>1, <2>2, <2>3
<1>4. \A n \in 0..Len(r) : g[n] \in Nat /\ f[n + 1] = q[1].size + g[n]
  <2> DEFINE T == {n \in 0..Len(r) : ~ (g[n] \in Nat /\ f[n + 1] = q[1].size + g[n])}
  <2> SUFFICES ASSUME T # {} PROVE FALSE
    OBVIOUS
  <2>1. T \in SUBSET Nat
    BY <1>0
  <2>2. PICK n \in T : \A k \in T : n <= k
    <3> HIDE DEF T
    <3> QED BY <2>1, LeastNatural
  <2>3. n # 0
    BY <1>2, <1>3
  <2>4. n \in 1..Len(r) /\ n + 1 \in 1..Len(q) /\ n - 1 \in 0..Len(r) /\ ~ (n <= n - 1)
        /\ (n - 1) + 1 = n /\ (n + 1) - 1 = n
    BY <1>0, <2>3
  <2>5. g[n - 1] \in Nat /\ f[n] = q[1].size + g[n - 1]
    <3>1. n - 1 \notin T
      <4> HIDE DEF T
      <4> QED BY <2>2, <2>4
    <3> QED BY <2>4, <3>1
  <2>6. g[n] = g[n - 1] + q[n + 1].size /\ f[n + 1] = f[n] + q[n + 1].size
        /\ q[n + 1].size \in Nat
    BY <1>1, <1>2, <2>4 DEF Bodies
  <2>7. g[n] \in Nat /\ f[n + 1] = q[1].size + g[n]
    <3>1. ASSUME NEW x \in Nat, NEW y \in Nat, NEW z \in Nat
          PROVE  (z + x) + y = z + (x + y) /\ x + y \in Nat
      OBVIOUS
    <3>2. g[n] \in Nat
      BY <2>5, <2>6
    <3>3. f[n + 1] = (q[1].size + g[n - 1]) + q[n + 1].size
      BY <2>5, <2>6
    <3>4. f[n + 1] = q[1].size + (g[n - 1] + q[n + 1].size)
      BY <1>3, <2>5, <2>6, <3>1, <3>3
    <3> QED BY <2>6, <3>2, <3>4
  <2> QED BY <2>7
<1>5. Len(r) \in 0..Len(r) /\ Len(r) + 1 = Len(q)
  BY <1>0
<1> QED BY <1>1, <1>2, <1>4, <1>5

\* The sum is a natural number, and none of no bodies.
LEMMA BytesIsNat == ASSUME NEW q, Bodies(q) PROVE Bytes(q) \in Nat /\ (Len(q) = 0 => Bytes(q) = 0)
<1>0. Len(q) \in Nat
  BY DEF Bodies
<1>1. PICK f : /\ Bytes(q) = f[Len(q)] /\ f[0] = 0
               /\ \A n \in 1..Len(q) : f[n] = f[n - 1] + q[n].size
  BY BytesIsSum
<1>2. \A n \in 0..Len(q) : f[n] \in Nat
  <2> DEFINE T == {n \in 0..Len(q) : f[n] \notin Nat}
  <2> SUFFICES ASSUME T # {} PROVE FALSE
    OBVIOUS
  <2>1. T \in SUBSET Nat
    BY <1>0
  <2>2. PICK n \in T : \A k \in T : n <= k
    <3> HIDE DEF T
    <3> QED BY <2>1, LeastNatural
  <2>3. n \in 1..Len(q) /\ n - 1 \in 0..Len(q) /\ ~ (n <= n - 1)
    BY <1>0, <1>1
  <2>4. f[n - 1] \in Nat
    BY <2>2, <2>3
  <2>5. f[n] = f[n - 1] + q[n].size /\ q[n].size \in Nat
    BY <1>1, <2>3 DEF Bodies
  <2>6. f[n] \in Nat
    BY <2>4, <2>5
  <2> QED BY <2>6
<1> QED BY <1>0, <1>1, <1>2


\* The published numbers are those of the queue.
QueueCounted ==
  /\ queueSize = Len(queue) /\ queueSize <= MaxQueued
  /\ pendingBodyBytes = Bytes(queue)
  /\ pendingBodyBytes > MaxQueuedBytes => Len(queue) = 1

\* The queue's bodies have sizes.
LEMMA QueueHasBodies == ASSUME TypeOK PROVE Bodies(queue)
<1>1. \A n \in 1..Len(queue) : queue[n] \in Requests
  BY DEF TypeOK
<1>2. \A n \in 1..Len(queue) : queue[n].size \in Nat
  BY <1>1, WorkerAssumption DEF Requests
<1>3. Len(queue) \in Nat
  BY DEF TypeOK
<1> QED BY <1>2, <1>3 DEF Bodies

\* An accepted request is counted, and exceeds the limit of bytes only alone.
LEMMA EnqueueCounts ==
  ASSUME TypeOK, QueueCounted, NEW id \in Ids, NEW size \in Sizes, enqueue(id, size)
  PROVE  QueueCounted'
<1> DEFINE r == [generation |-> nextGeneration + 1, id |-> id, size |-> size]
<1>1. /\ queue' = Append(queue, r) /\ queueSize' = Len(queue) + 1
      /\ pendingBodyBytes' = pendingBodyBytes + size /\ Accepts(size)
  BY DEF enqueue
<1>2. size \in Nat /\ r.size = size /\ Len(queue) \in Nat /\ queue \in Seq(Requests)
  BY WorkerAssumption DEF TypeOK
<1>3. r \in Requests
  <2>1. nextGeneration + 1 \in Generations
    BY WorkerAssumption DEF enqueue, TypeOK, Generations
  <2> QED BY <2>1 DEF Requests
<1> HIDE DEF r
<1>4. Len(queue') = Len(queue) + 1 /\ queue'[Len(queue')] = r
      /\ \A n \in 1..Len(queue) : queue'[n] = queue[n]
  BY <1>1, <1>2, <1>3
<1>5. Bytes(queue') = Bytes(queue) + size
  BY <1>2, <1>4, BytesAppended, QueueHasBodies
<1>6. Bytes(queue) \in Nat /\ (Len(queue) = 0 => Bytes(queue) = 0)
  BY BytesIsNat, QueueHasBodies
<1>7. queueSize' <= MaxQueued
  BY <1>1, <1>2, WorkerAssumption DEF Accepts
<1>8. pendingBodyBytes' > MaxQueuedBytes => Len(queue') = 1
  <2>1. CASE queue = <<>>
    BY <1>2, <1>4, <2>1
  <2>2. CASE size <= MaxQueuedBytes /\ pendingBodyBytes <= MaxQueuedBytes - size
    BY <1>1, <1>2, <1>6, <2>2, WorkerAssumption DEF QueueCounted
  <2> QED BY <1>1, <2>1, <2>2 DEF Accepts
<1> QED BY <1>1, <1>4, <1>5, <1>7, <1>8 DEF QueueCounted

\* A taken request is no longer counted.
LEMMA TakingCounts ==
  ASSUME TypeOK, QueueCounted, NEW t \in Threads, TakeFront(t)
  PROVE  QueueCounted'
<1>1. /\ queue # <<>> /\ queue' = Tail(queue) /\ queueSize' = Len(queue) - 1
      /\ pendingBodyBytes' = IF Head(queue).size <= pendingBodyBytes
                             THEN pendingBodyBytes - Head(queue).size ELSE 0
  BY DEF TakeFront
<1>2. /\ Len(queue) \in Nat /\ Len(queue) # 0 /\ Len(queue) = Len(queue') + 1
      /\ Len(queue') \in Nat /\ Head(queue) = queue[1]
      /\ \A n \in 1..Len(queue') : queue'[n] = queue[n + 1]
  BY <1>1 DEF TypeOK
<1>3. Bodies(queue) /\ Bodies(queue')
  <2>1. Bodies(queue)
    BY QueueHasBodies
  <2>2. \A n \in 1..Len(queue') : n + 1 \in 1..Len(queue)
    BY <1>2
  <2> QED BY <1>2, <2>1, <2>2 DEF Bodies
<1>4. Bytes(queue) = queue[1].size + Bytes(queue')
  BY <1>2, <1>3, BytesTaken
<1>5. Bytes(queue') \in Nat /\ queue[1].size \in Nat /\ (Len(queue') = 0 => Bytes(queue') = 0)
  <2>1. 1 \in 1..Len(queue)
    BY <1>2
  <2> QED BY <1>3, <2>1, BytesIsNat DEF Bodies
<1>6. pendingBodyBytes' = Bytes(queue')
  BY <1>1, <1>2, <1>4, <1>5 DEF QueueCounted
<1>7. pendingBodyBytes' > MaxQueuedBytes => Len(queue') = 1
  <2>1. CASE Len(queue) = 1
    <3>1. Len(queue') = 0 /\ pendingBodyBytes' = 0 /\ MaxQueuedBytes \in Nat
      <4>1. Len(queue') = 0
        <5>1. \A n \in Nat : 1 = n + 1 => n = 0
          OBVIOUS
        <5>2. 1 = Len(queue') + 1 /\ Len(queue') \in Nat
          BY <1>2, <2>1
        <5> QED BY <5>1, <5>2
      <4> QED BY <1>5, <1>6, <4>1, WorkerAssumption
    <3>2. ~ (0 > MaxQueuedBytes)
      BY <3>1
    <3> QED BY <3>1, <3>2
  <2>2. CASE Len(queue) # 1
    BY <1>4, <1>5, <1>6, <2>2, WorkerAssumption DEF QueueCounted
  <2> QED BY <2>1, <2>2
<1>8. queueSize' = Len(queue') /\ queueSize' <= MaxQueued
  BY <1>1, <1>2, WorkerAssumption DEF QueueCounted
<1> QED BY <1>6, <1>7, <1>8 DEF QueueCounted

\* No other step touches the queue or its numbers.
LEMMA CountedStep == TypeInv /\ QueueCounted /\ [Next]_vars => QueueCounted'
<1> SUFFICES ASSUME TypeInv, QueueCounted, [Next]_vars PROVE QueueCounted'
  OBVIOUS
<1>1. ASSUME UNCHANGED <<queue, queueSize, pendingBodyBytes>> PROVE QueueCounted'
  BY <1>1 DEF QueueCounted
<1>2. ASSUME NEW id \in Ids, NEW size \in Sizes, enqueue(id, size) PROVE QueueCounted'
  BY <1>2, EnqueueCounts DEF TypeInv
<1>3. ASSUME NEW t \in Threads, TakeCancelled(t) \/ TakeToSend(t) PROVE QueueCounted'
  BY <1>3, TakingCounts DEF TypeInv, TakeCancelled, TakeToSend
<1>4. ASSUME UNCHANGED vars \/ NotifyOne \/ Stopping
             \/ (\E id \in Ids : cancel(id)) \/ (\E l \in Listeners : addOnComplete(l) \/ unsubscribe(l))
      PROVE  UNCHANGED <<queue, queueSize, pendingBodyBytes>>
  BY <1>4 DEF vars, shared, counts, NotifyOne, Stopping, StopBegins, NotifyAll, Joined, cancel,
              addOnComplete, unsubscribe
<1>5. ASSUME NEW t \in Threads,
             \/ Wait(t) \/ Exit(t) \/ HttpReturns(t) \/ Retire(t) \/ Snapshot(t) \/ Loop(t)
             \/ SpuriousWake(t) \/ \E l \in Listeners : Callback(t, l)
      PROVE  UNCHANGED <<queue, queueSize, pendingBodyBytes>>
  BY <1>5 DEF shared, counts, Wait, Exit, HttpReturns, Retire, Snapshot, Loop, SpuriousWake, Callback
<1> QED BY <1>1, <1>2, <1>3, <1>4, <1>5 DEF Next, ThreadStep

\* What other threads read without the mutex is true of the queue and of the
\* threads at every step: the length, the bytes of the queued bodies, however
\* many were pushed and taken, and the exchanges in flight; and the limit of
\* queued bytes is only ever exceeded by a body that is queued alone.
THEOREM CountersAreExact == Spec => []CountersAgree
<1>1. Init => QueueCounted
  <2> SUFFICES ASSUME Init PROVE QueueCounted
    OBVIOUS
  <2>1. Len(queue) = 0 /\ Bodies(queue)
    BY DEF Init, Bodies
  <2>2. Bytes(queue) = 0
    BY <2>1, BytesIsNat
  <2> QED BY <2>1, <2>2, WorkerAssumption DEF Init, QueueCounted
<1>2. TypeInv /\ QueueCounted => CountersAgree
  BY DEF TypeInv, InFlightExact, QueueCounted, CountersAgree
<1> QED BY <1>1, <1>2, TypeInit, TypeStep, CountedStep, PTL DEF Spec
=============================================================================
