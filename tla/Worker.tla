------------------------------- MODULE Worker -------------------------------
(***************************************************************************)
(* HybridAmplitudeWorker: the native request queue and the threads that    *)
(* serve it (cpp/bindings/HybridAmplitudeWorker.cpp).                      *)
(*                                                                         *)
(* Callers enqueue and cancel under queueMutex_; a thread takes a request  *)
(* under the mutex, performs it without, retires its generation under the  *)
(* mutex again and then calls the listeners of a snapshot.  Every critical *)
(* section is one step, and so is everything between two of them.          *)
(*                                                                         *)
(* A generation's vector in activeGenerations_ is filled in increasing     *)
(* order, so a set stands for it and back() is its maximum.                *)
(***************************************************************************)
EXTENDS Integers, Sequences, FiniteSets

CONSTANTS Threads,         \* the worker threads
          Ids,             \* request ids chosen by the callers
          Listeners,       \* completion callbacks that are ever registered
          Sizes,           \* body sizes
          MaxQueued,       \* kMaxQueuedRequests
          MaxQueuedBytes,  \* kMaxQueuedBytes
          MaxRequests,     \* bound: requests accepted in a run
          Nothing          \* no request

ASSUME WorkerAssumption ==
  /\ Threads # {} /\ IsFiniteSet(Threads)
  /\ Sizes \subseteq Nat
  /\ MaxQueued \in Nat \ {0} /\ MaxQueuedBytes \in Nat /\ MaxRequests \in Nat

VARIABLES
  queue,              \* queue_, first in first out
  activeGenerations,  \* request id -> generations not retired yet
  cancelled,          \* cancelledGenerations_
  nextGeneration,
  running,
  queueSize, pendingBodyBytes, inFlightCount,   \* the published counters
  notifications,      \* callers that pushed and have not called notify_one yet
  stop,               \* how far stopWorkers is
  pc, request,        \* per thread: where it is, and the request it holds
  toCall,             \* per thread: listeners of its snapshot not called yet
  listeners,          \* the registry
  (* what is observed of the run *)
  sent,               \* generations given to the HTTP adapter
  dropped,            \* generations reported as cancelled
  cancelledQueued,    \* generations a cancel was aimed at while they were queued
  completed,          \* generations whose listeners are being or were called
  audience,           \* generation -> listeners registered since it was pushed
  received            \* listener -> generations it was called with

shared   == <<queue, activeGenerations, cancelled>>
counts   == <<queueSize, pendingBodyBytes, inFlightCount>>
control  == <<nextGeneration, running, notifications, stop>>
threads  == <<pc, request, toCall>>
observed == <<sent, dropped, cancelledQueued, completed, audience, received>>
vars == <<shared, counts, control, threads, listeners, observed>>

Generations == 1..MaxRequests
Requests == [generation : Generations, id : Ids, size : Sizes]

\* Threads between taking a request and finding the next one.
Holding == {"http", "drop", "retire", "notify", "calling"}
\* Those that have not retired its generation.
Unretired == {"http", "drop", "retire"}

Init ==
  /\ queue = <<>>
  /\ activeGenerations = [id \in Ids |-> {}]
  /\ cancelled = {}
  /\ nextGeneration = 0
  /\ running = TRUE
  /\ queueSize = 0 /\ pendingBodyBytes = 0 /\ inFlightCount = 0
  /\ notifications = 0
  /\ stop = "no"
  /\ pc = [t \in Threads |-> "check"]
  /\ request = [t \in Threads |-> Nothing]
  /\ toCall = [t \in Threads |-> {}]
  /\ listeners = {}
  /\ sent = {} /\ dropped = {} /\ cancelledQueued = {}
  /\ completed = {}
  /\ audience = [g \in Generations |-> {}]
  /\ received = [l \in Listeners |-> {}]

-----------------------------------------------------------------------------
(* Callers                                                                 *)

Accepts_OnlyItsOwnSize(size) ==
  Len(queue) < MaxQueued /\ (queue = <<>> \/ size <= MaxQueuedBytes)

\* The queue accepts one body of any size when it is empty.
Accepts(size) ==
  /\ Len(queue) < MaxQueued
  /\ \/ queue = <<>>
     \/ size <= MaxQueuedBytes /\ pendingBodyBytes <= MaxQueuedBytes - size

enqueue_WakesFromEmptyOnly(id, size) ==
  LET g == nextGeneration + 1
  IN /\ stop = "no"
     /\ nextGeneration < MaxRequests
     /\ Accepts(size)
     /\ nextGeneration' = g
     /\ activeGenerations' = [activeGenerations EXCEPT ![id] = @ \cup {g}]
     /\ queue' = Append(queue, [generation |-> g, id |-> id, size |-> size])
     /\ queueSize' = Len(queue) + 1
     /\ pendingBodyBytes' = pendingBodyBytes + size
     /\ notifications' = notifications + IF queue = <<>> THEN 1 ELSE 0
     /\ audience' = [audience EXCEPT ![g] = listeners]
     /\ UNCHANGED <<cancelled, running, stop, inFlightCount, threads, listeners,
                    sent, dropped, cancelledQueued, completed, received>>

\* A request that is not accepted is an exception and changes nothing.
enqueue(id, size) ==
  LET g == nextGeneration + 1
  IN /\ stop = "no"
     /\ nextGeneration < MaxRequests
     /\ Accepts(size)
     /\ nextGeneration' = g
     /\ activeGenerations' = [activeGenerations EXCEPT ![id] = @ \cup {g}]
     /\ queue' = Append(queue, [generation |-> g, id |-> id, size |-> size])
     /\ queueSize' = Len(queue) + 1
     /\ pendingBodyBytes' = pendingBodyBytes + size
     /\ notifications' = notifications + 1
     /\ audience' = [audience EXCEPT ![g] = listeners]
     /\ UNCHANGED <<cancelled, running, stop, inFlightCount, threads, listeners,
                    sent, dropped, cancelledQueued, completed, received>>

\* notify_one, after the mutex was released: one waiting thread looks again.
NotifyOne ==
  /\ notifications > 0
  /\ notifications' = notifications - 1
  /\ \/ /\ \A t \in Threads : pc[t] # "waiting"
        /\ UNCHANGED pc
     \/ \E t \in Threads :
          /\ pc[t] = "waiting"
          /\ pc' = [pc EXCEPT ![t] = "check"]
  /\ UNCHANGED <<shared, counts, nextGeneration, running, stop, request, toCall,
                 listeners, observed>>

Newest(S) == CHOOSE g \in S : \A h \in S : h <= g

\* The generation a cancel marks: back() of the id's vector.
Marked_Oldest(id) == CHOOSE g \in activeGenerations[id] : \A h \in activeGenerations[id] : g <= h
Marked(id) == Newest(activeGenerations[id])

\* The generations of an id that are still queued: the caller means the newest.
QueuedOf(id) == {queue[i].generation : i \in {j \in 1..Len(queue) : queue[j].id = id}}

\* A cancel marks the latest generation of the id, whether it is queued or in
\* flight, and nothing when there is none.
cancel(id) ==
  /\ stop = "no"
  /\ activeGenerations[id] # {}
  /\ cancelled' = cancelled \cup {Marked(id)}
  /\ cancelledQueued' = IF QueuedOf(id) = {} THEN cancelledQueued
                        ELSE cancelledQueued \cup {Newest(QueuedOf(id))}
  /\ UNCHANGED <<queue, activeGenerations, counts, control, threads, listeners,
                 sent, dropped, completed, audience, received>>

addOnComplete(l) ==
  /\ stop = "no" /\ l \notin listeners
  /\ listeners' = listeners \cup {l}
  /\ UNCHANGED <<shared, counts, control, threads, observed>>

\* A callback already in a snapshot is still called.
unsubscribe(l) ==
  /\ l \in listeners
  /\ listeners' = listeners \ {l}
  /\ audience' = [g \in Generations |-> audience[g] \ {l}]
  /\ UNCHANGED <<shared, counts, control, threads, sent, dropped,
                 cancelledQueued, completed, received>>

-----------------------------------------------------------------------------
(* stopWorkers, from the destructor                                        *)

StopBegins ==
  /\ stop = "no" /\ notifications = 0
  /\ running' = FALSE
  /\ stop' = "notify"
  /\ UNCHANGED <<shared, counts, nextGeneration, notifications, threads, listeners, observed>>

NotifyAll ==
  /\ stop = "notify"
  /\ stop' = "join"
  /\ pc' = [t \in Threads |-> IF pc[t] = "waiting" THEN "check" ELSE pc[t]]
  /\ UNCHANGED <<shared, counts, nextGeneration, running, notifications, request,
                 toCall, listeners, observed>>

Joined ==
  /\ stop = "join"
  /\ \A t \in Threads : pc[t] = "exited"
  /\ stop' = "stopped"
  /\ UNCHANGED <<shared, counts, nextGeneration, running, notifications, threads,
                 listeners, observed>>

-----------------------------------------------------------------------------
(* workerLoop                                                              *)

\* The predicate of the wait is false: the mutex is released and the thread
\* waits in one step.
Wait(t) ==
  /\ pc[t] = "check" /\ queue = <<>> /\ running
  /\ pc' = [pc EXCEPT ![t] = "waiting"]
  /\ UNCHANGED <<shared, counts, control, request, toCall, listeners, observed>>

\* A condition variable may wake a thread for no reason.
SpuriousWake(t) ==
  /\ pc[t] = "waiting"
  /\ pc' = [pc EXCEPT ![t] = "check"]
  /\ UNCHANGED <<shared, counts, control, request, toCall, listeners, observed>>

Exit_LeavesQueue(t) ==
  /\ pc[t] = "check" /\ ~running
  /\ pc' = [pc EXCEPT ![t] = "exited"]
  /\ UNCHANGED <<shared, counts, control, request, toCall, listeners, observed>>

Exit(t) ==
  /\ pc[t] = "check" /\ queue = <<>> /\ ~running
  /\ pc' = [pc EXCEPT ![t] = "exited"]
  /\ UNCHANGED <<shared, counts, control, request, toCall, listeners, observed>>

TakeFront_LeavesIt(t) ==
  /\ pc[t] = "check" /\ queue # <<>>
  /\ request' = [request EXCEPT ![t] = Head(queue)]
  /\ UNCHANGED <<queue, queueSize, pendingBodyBytes>>

\* What every taking of the oldest request does, under the mutex.
TakeFront(t) ==
  /\ pc[t] = "check" /\ queue # <<>>
  /\ request' = [request EXCEPT ![t] = Head(queue)]
  /\ queue' = Tail(queue)
  /\ queueSize' = Len(queue) - 1
  /\ pendingBodyBytes' =
       IF Head(queue).size <= pendingBodyBytes THEN pendingBodyBytes - Head(queue).size ELSE 0

MayDrop(g) == ~running \/ g \in cancelled

TakeCancelled(t) ==
  /\ TakeFront(t)
  /\ MayDrop(Head(queue).generation)
  /\ pc' = [pc EXCEPT ![t] = "drop"]
  /\ cancelled' = IF running THEN cancelled \ {Head(queue).generation} ELSE cancelled
  /\ dropped' = dropped \cup {Head(queue).generation}
  /\ UNCHANGED <<activeGenerations, inFlightCount, control, toCall, listeners,
                 sent, cancelledQueued, completed, audience, received>>

TakeToSend(t) ==
  /\ TakeFront(t)
  /\ ~MayDrop(Head(queue).generation)
  /\ pc' = [pc EXCEPT ![t] = "http"]
  /\ inFlightCount' = inFlightCount + 1
  /\ sent' = sent \cup {Head(queue).generation}
  /\ UNCHANGED <<activeGenerations, cancelled, control, toCall, listeners,
                 dropped, cancelledQueued, completed, audience, received>>

\* performHttpRequest returned or threw; both end in a completion.
HttpReturns(t) ==
  /\ pc[t] = "http"
  /\ inFlightCount' = inFlightCount - 1
  /\ pc' = [pc EXCEPT ![t] = "retire"]
  /\ UNCHANGED <<shared, queueSize, pendingBodyBytes, control, request, toCall,
                 listeners, observed>>

Retire_CountsDropped(t) ==
  /\ pc[t] \in {"drop", "retire"}
  /\ LET r == request[t]
     IN /\ cancelled' = cancelled \ {r.generation}
        /\ activeGenerations' = [activeGenerations EXCEPT ![r.id] = @ \ {r.generation}]
  /\ inFlightCount' = IF pc[t] = "drop" THEN inFlightCount - 1 ELSE inFlightCount
  /\ pc' = [pc EXCEPT ![t] = "notify"]
  /\ UNCHANGED <<queue, queueSize, pendingBodyBytes, control, request, toCall,
                 listeners, observed>>

\* retireGeneration, under the mutex.
Retire(t) ==
  /\ pc[t] \in {"drop", "retire"}
  /\ LET r == request[t]
     IN /\ cancelled' = cancelled \ {r.generation}
        /\ activeGenerations' = [activeGenerations EXCEPT ![r.id] = @ \ {r.generation}]
  /\ pc' = [pc EXCEPT ![t] = "notify"]
  /\ UNCHANGED <<queue, counts, control, request, toCall, listeners, observed>>

\* notifyComplete: a snapshot of the listeners, then one call after the other.
Snapshot(t) ==
  /\ pc[t] = "notify"
  /\ toCall' = [toCall EXCEPT ![t] = listeners]
  /\ completed' = completed \cup {request[t].generation}
  /\ pc' = [pc EXCEPT ![t] = "calling"]
  /\ UNCHANGED <<shared, counts, control, request, listeners, sent, dropped,
                 cancelledQueued, audience, received>>

Callback(t, l) ==
  /\ pc[t] = "calling" /\ l \in toCall[t]
  /\ toCall' = [toCall EXCEPT ![t] = @ \ {l}]
  /\ received' = [received EXCEPT ![l] = @ \cup {request[t].generation}]
  /\ UNCHANGED <<shared, counts, control, pc, request, listeners, sent, dropped,
                 cancelledQueued, completed, audience>>

Loop(t) ==
  /\ pc[t] = "calling" /\ toCall[t] = {}
  /\ pc' = [pc EXCEPT ![t] = "check"]
  /\ request' = [request EXCEPT ![t] = Nothing]
  /\ UNCHANGED <<shared, counts, control, toCall, listeners, observed>>

-----------------------------------------------------------------------------
ThreadStep(t) ==
  \/ Wait(t) \/ Exit(t) \/ TakeCancelled(t) \/ TakeToSend(t) \/ HttpReturns(t)
  \/ Retire(t) \/ Snapshot(t) \/ Loop(t)
  \/ \E l \in Listeners : Callback(t, l)

Stopping == StopBegins \/ NotifyAll \/ Joined

Next ==
  \/ \E id \in Ids : cancel(id) \/ \E size \in Sizes : enqueue(id, size)
  \/ \E l \in Listeners : addOnComplete(l) \/ unsubscribe(l)
  \/ NotifyOne
  \/ Stopping
  \/ \E t \in Threads : ThreadStep(t) \/ SpuriousWake(t)

Spec == Init /\ [][Next]_vars

\* The threads run, an HTTP exchange ends (the adapters bound it by the
\* request's timeout), a caller that pushed goes on to notify, and a destructor
\* that has begun is not abandoned.  Nobody has to enqueue, cancel or stop.
FairSpec ==
  /\ Spec
  /\ \A t \in Threads : WF_vars(ThreadStep(t))
  /\ WF_vars(NotifyOne)
  /\ WF_vars(NotifyAll) /\ WF_vars(Joined)

-----------------------------------------------------------------------------
(* Properties                                                              *)

TypeOK ==
  /\ queue \in Seq(Requests)
  /\ activeGenerations \in [Ids -> SUBSET Generations]
  /\ cancelled \subseteq Generations
  /\ nextGeneration \in 0..MaxRequests /\ running \in BOOLEAN
  /\ queueSize \in Nat /\ pendingBodyBytes \in Nat /\ inFlightCount \in Nat
  /\ notifications \in Nat
  /\ stop \in {"no", "notify", "join", "stopped"}
  /\ pc \in [Threads -> Holding \cup {"check", "waiting", "exited"}]
  /\ request \in [Threads -> Requests \cup {Nothing}]
  /\ \A t \in Threads : pc[t] \in Holding => request[t] \in Requests
  /\ toCall \in [Threads -> SUBSET Listeners]
  /\ listeners \subseteq Listeners
  /\ sent \subseteq Generations /\ dropped \subseteq Generations
  /\ cancelledQueued \subseteq Generations /\ completed \subseteq Generations
  /\ audience \in [Generations -> SUBSET Listeners]
  /\ received \in [Listeners -> SUBSET Generations]

At(place) == {t \in Threads : pc[t] = place}

\* No wake-up is lost: while a thread waits on the condition variable, every
\* queued request has a thread on its way to the queue or a notify_one that is
\* still to come.  One notification per push and the wait that releases the
\* mutex atomically are what this rests on.
NoWaiterForgotten ==
  (\E t \in Threads : pc[t] = "waiting") => Len(queue) <= notifications + Cardinality(At("check"))

\* Generations of an id that a thread has taken and not retired.
HeldOf(id) == {request[t].generation : t \in {u \in Threads : /\ pc[u] \in Unretired
                                                              /\ request[u].id = id}}

\* activeGenerations_ names exactly the requests that are queued or held, and a
\* cancel mark never outlives its request: nothing accumulates, and a late
\* cancel cannot hit a later request that reuses the id.
TracksUnanswered ==
  /\ \A id \in Ids : activeGenerations[id] = QueuedOf(id) \cup HeldOf(id)
  /\ cancelled \subseteq UNION {activeGenerations[id] : id \in Ids}

\* A request that was still queued when it was cancelled never reaches the
\* HTTP adapter, whatever else was pushed, taken or cancelled since.
CancelledNeverSent == cancelledQueued \cap sent = {}

\* Until the worker is stopped, a request is reported as cancelled only if a
\* caller cancelled it, an older or a newer one under the same id does not count.
DropsWereCancelled == running => dropped \subseteq cancelledQueued

\* A cancel stops the request it was for, in time, and no other.
CancelsAreExact == CancelledNeverSent /\ DropsWereCancelled

\* The sizes of all bodies of q.
Bytes(q) ==
  LET upTo[n \in 0..Len(q)] == IF n = 0 THEN 0 ELSE upTo[n - 1] + q[n].size
  IN upTo[Len(q)]

\* The counters other threads read without the mutex agree with the queue, and
\* the queued bodies exceed kMaxQueuedBytes only as a single body.
CountersAgree ==
  /\ queueSize = Len(queue) /\ queueSize <= MaxQueued
  /\ pendingBodyBytes = Bytes(queue)
  /\ pendingBodyBytes > MaxQueuedBytes => Len(queue) = 1
  /\ inFlightCount = Cardinality(At("http"))

\* No listener hears of a request twice: a dropped request is not performed
\* after all, and no two threads take the same one.
OncePerListener ==
  \A t \in Threads : \A l \in toCall[t] : request[t].generation \notin received[l]

\* A request is on the books until it is answered, and is answered once.
AnsweredOnce == TracksUnanswered /\ OncePerListener

\* Every request that was accepted is answered to each listener that was
\* registered then and stays registered, also when the worker is stopped.
EveryListenerHears ==
  \A g \in Generations : \A l \in Listeners :
    l \in audience[g] ~> (g \in received[l] \/ l \notin audience[g])

\* The destructor's joins return: no thread sleeps through the stop.
StopCompletes == stop = "notify" ~> stop = "stopped"
=============================================================================
