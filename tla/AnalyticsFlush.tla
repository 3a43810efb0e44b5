--------------------------- MODULE AnalyticsFlush ---------------------------
(***************************************************************************)
(* The flushes of the analytics client (src/analytics/react-native-client  *)
(* .ts).  flush() and flushWithResult() run one after the other on         *)
(* flushChain.  Each asks every destination to flush; the destination's    *)
(* own timer asks too, and `state.chain' lets one request run at a time.   *)
(* While the network is switched off a guarded destination only sets its   *)
(* timer again.  A rejected flush must leave the events scheduled.         *)
(*                                                                         *)
(* The destination itself (queue, timer, flush) and the timeline belong to *)
(* @amplitude/analytics-core and are modelled as the client uses them: a   *)
(* flush takes the queue, moves the timer from scheduleId to flushId, and  *)
(* when the answers are in drops what was answered and sets the timer if   *)
(* events are left.  Lengths of timers are left out: a timer that is set   *)
(* may fire at any time.  Steps are the stretches of code between two      *)
(* awaits, or groups of them when only promise callbacks lie between; a    *)
(* timer fires only when no promise callback is due.                       *)
(***************************************************************************)
EXTENDS Naturals, FiniteSets, Sequences

CONSTANTS
    Destinations,       \* destination plugins of the timeline
    Guarded,            \* those whose transport obeys setNetworkEnabled
    Events,             \* the events the application may track
    MaxOperations,      \* bound: calls of flush, flushWithResult and shutdown
    WithResult,         \* which of them, in order, are flushWithResult,
    Closing,            \* and which the final flush of shutdown
    Timers,             \* ids that setTimeout may return for a destination: as
                        \* many as may be referred to at once, and one more
    Nothing,            \* no timer, no operation
    MaxFailures,        \* bound: answers that keep events or reject, and
                        \* drains of the native storage that throw
    MaxSwitches         \* bound: calls of setNetworkEnabled

Operations == 1 .. MaxOperations

ASSUME FlushAssumption ==
    /\ IsFiniteSet(Destinations) /\ Guarded \subseteq Destinations
    /\ WithResult \subseteq Operations /\ Closing \subseteq Operations
    /\ WithResult \cap Closing = {}
    /\ Nothing \notin Timers \cup Operations
    /\ \E s, t, u \in Timers : s # t /\ t # u /\ s # u
    /\ {MaxOperations, MaxFailures, MaxSwitches} \subseteq Nat

VARIABLES
    networkEnabled,     \* the switch of network.ts
    down,               \* teardown has run
    unsaved,            \* the write-behind storage holds pending writes
    tracked,            \* events given to the timeline
    queue,              \* queue[d]: events the destination holds
    sent, dropped,      \* per destination: events answered well, or badly
    scheduleId, flushId,\* per destination: its timer, that of its running flush
    armed,              \* per destination: timers that will fire
    calls,              \* per destination: calls of destination.flush on state.chain
    flushActive, flushChain,
    op,                 \* op[o]: where an operation stands
    failures, switches

destinationVars == <<queue, sent, dropped, scheduleId, flushId, armed>>
chainVars == <<flushActive, flushChain>>
bounds == <<failures, switches>>
vars == <<networkEnabled, down, unsaved, tracked, destinationVars, calls,
          chainVars, op, bounds>>

-----------------------------------------------------------------------------
(* What a call of destination.flush and an operation remember.             *)

Idle == [phase |-> "idle", after |-> Nothing, error |-> FALSE, round |-> 0,
         ahead |-> [d \in Destinations |-> 0],
         moved |-> FALSE, sawDrop |-> FALSE, result |-> "none",
         started |-> [d \in Destinations |-> {}]]

\* A call made by an operation o, or by the destination's timer (Nothing).
Waiting(o) == [by |-> o, phase |-> "waiting", timer |-> Nothing, batch |-> {}]

Init ==
    /\ networkEnabled \in BOOLEAN /\ down = FALSE /\ unsaved = FALSE
    /\ tracked = {}
    /\ queue = [d \in Destinations |-> {}]
    /\ sent = [d \in Destinations |-> {}]
    /\ dropped = [d \in Destinations |-> {}]
    /\ scheduleId = [d \in Destinations |-> Nothing]
    /\ flushId = [d \in Destinations |-> Nothing]
    /\ armed = [d \in Destinations |-> {}]
    /\ calls = [d \in Destinations |-> <<>>]
    /\ flushActive = FALSE /\ flushChain = Nothing
    /\ op = [o \in Operations |-> Idle]
    /\ failures = 0 /\ switches = 0

Running(o) == op[o].phase \in {"core", "waiting"}

-----------------------------------------------------------------------------
(* The destination, as far as the client relies on it.                     *)

\* The timer ids that a destination may be given: those nobody refers to.
Fresh(d) == CHOOSE t \in Timers :
    /\ t \notin armed[d] \cup {scheduleId[d], flushId[d]}
    /\ \A i \in DOMAIN calls[d] : calls[d][i].timer # t

\* schedule(): keeps a timer that is set already, even if it has just fired.
\* `held' and `set' are the timer and the set timers before it.
Scheduled(d, held) == IF held = Nothing THEN Fresh(d) ELSE held
ArmedBy(d, held, set) == IF held = Nothing THEN set \cup {Fresh(d)} ELSE set

\* An application tracks an event: each destination queues and saves it.
Track(e) ==
    /\ ~down /\ e \notin tracked
    /\ tracked' = tracked \cup {e}
    /\ queue' = [d \in Destinations |-> queue[d] \cup {e}]
    /\ scheduleId' = [d \in Destinations |-> Scheduled(d, scheduleId[d])]
    /\ armed' = [d \in Destinations |-> ArmedBy(d, scheduleId[d], armed[d])]
    /\ unsaved' = TRUE
    /\ UNCHANGED <<networkEnabled, down, sent, dropped, flushId, calls,
                   chainVars, op, bounds>>

-----------------------------------------------------------------------------
(* The replaced destination.flush: one call at a time.                     *)

\* The operations whose snapshot of the chains a new call of `d' outdates.
Outdated(p) == [o \in Operations |->
    IF p[o].phase = "waiting" THEN [p[o] EXCEPT !.moved = TRUE] ELSE p[o]]

\* A call waits for those before it.
CanBegin_AtOnce(d, i) == TRUE
CanBegin(d, i) == i = 1

\* flushPendingDiskWrites: everything is saved, or it throws.
Drain(saves) ==
    /\ saves \/ (unsaved /\ failures < MaxFailures)
    /\ failures' = IF saves THEN failures ELSE failures + 1
    /\ unsaved' = ~saves

\* A call ends: it leaves the chain, and the operation that made it hears
\* of a rejection.  Calls of the timer swallow it.
Ended(d, i, rejected, p) ==
    LET by == calls[d][i].by IN
    [o \in Operations |->
        LET q == IF o = by /\ p[o].phase = "core"
                 THEN [p[o] EXCEPT !.error = @ \/ rejected] ELSE p[o]
        IN  IF q.phase = "waiting" /\ q.ahead[d] > 0
            THEN [q EXCEPT !.ahead[d] = @ - 1] ELSE q]

Without(d, i) == [j \in 1 .. Len(calls[d]) - 1 |->
    IF j < i THEN calls[d][j] ELSE calls[d][j + 1]]

\* The network is off for this destination: nothing is sent, the timer is
\* set anew if events wait.
IsOff(d) == ~networkEnabled /\ d \in Guarded

Rearms(d) == queue[d] # {}

deferDestinationFlush(d) ==
    /\ scheduleId' = [scheduleId EXCEPT ![d] = IF Rearms(d) THEN Fresh(d) ELSE Nothing]
    /\ armed' = [armed EXCEPT ![d] =
                   (@ \ {scheduleId[d]}) \cup (IF Rearms(d) THEN {Fresh(d)} ELSE {})]

Defer(d, i) ==
    /\ i \in DOMAIN calls[d] /\ calls[d][i].phase = "waiting" /\ CanBegin(d, i)
    /\ IsOff(d)
    /\ deferDestinationFlush(d)
    /\ \E saves \in BOOLEAN :
          /\ Drain(saves)
          /\ op' = Ended(d, i, ~saves, op)
    /\ calls' = [calls EXCEPT ![d] = Without(d, i)]
    /\ UNCHANGED <<networkEnabled, down, tracked, queue, sent, dropped, flushId,
                   chainVars, switches>>

\* runDestinationFlush up to its await: the original flush takes the queue,
\* unless a flush is running already.
Begin(d, i) ==
    /\ i \in DOMAIN calls[d] /\ calls[d][i].phase = "waiting" /\ CanBegin(d, i)
    /\ ~IsOff(d)
    /\ LET timer == IF flushId[d] # Nothing THEN flushId[d] ELSE scheduleId[d]
           batch == IF flushId[d] # Nothing THEN {} ELSE queue[d]
       IN  calls' = [calls EXCEPT ![d][i] =
                       [@ EXCEPT !.phase = "sending", !.timer = timer, !.batch = batch]]
    /\ flushId' = [flushId EXCEPT ![d] = IF @ = Nothing THEN scheduleId[d] ELSE @]
    /\ scheduleId' = [scheduleId EXCEPT ![d] = Nothing]
    /\ UNCHANGED <<networkEnabled, down, unsaved, tracked, queue, sent, dropped,
                   armed, chainVars, op, bounds>>

Recovers_Never(d) == FALSE

\* recoverDestinationFlush: both timers are cleared, events are scheduled.
Recovers(d) == TRUE

\* The timer that the flush has served is cleared.
Cleared(call) == {call.timer}

\* The answers of a batch: `good' was sent, `bad' given up, the rest is kept;
\* `rejects' when the original flush throws.  Then runDestinationFlush goes on.
Answer(d, i, good, bad, rejects) ==
    /\ i \in DOMAIN calls[d] /\ calls[d][i].phase = "sending"
    /\ LET call == calls[d][i]
           left == queue[d] \ (good \cup bad)
           kept == call.batch \ (good \cup bad)
           held == IF rejects /\ Recovers(d) THEN Nothing ELSE scheduleId[d]
           recovered == IF rejects /\ Recovers(d) THEN {flushId[d], scheduleId[d]} ELSE {}
           set == armed[d] \ (recovered \cup Cleared(call))
           again == left # {} /\ (~rejects \/ Recovers(d))
       IN
       /\ queue' = [queue EXCEPT ![d] = left]
       /\ sent' = [sent EXCEPT ![d] = @ \cup good]
       /\ dropped' = [dropped EXCEPT ![d] = @ \cup bad]
       /\ flushId' = [flushId EXCEPT ![d] =
                        IF rejects /\ ~Recovers(d) THEN @ ELSE Nothing]
       /\ scheduleId' = [scheduleId EXCEPT ![d] =
                           IF again THEN Scheduled(d, held) ELSE held]
       /\ armed' = [armed EXCEPT ![d] = IF again THEN ArmedBy(d, held, set) ELSE set]
       /\ calls' = [calls EXCEPT ![d] = Without(d, i)]
       /\ \E saves \in BOOLEAN :
             /\ saves \/ unsaved \/ good \cup bad # {}
             /\ failures' = failures + (IF kept # {} \/ rejects THEN 1 ELSE 0)
                                     + (IF saves THEN 0 ELSE 1)
             /\ failures' <= MaxFailures
             /\ unsaved' = ~saves
             /\ op' = LET p == Ended(d, i, rejects \/ ~saves, op) IN
                      [o \in Operations |->
                         IF o \in WithResult /\ Running(o) /\ bad # {}
                         THEN [p[o] EXCEPT !.sawDrop = TRUE] ELSE p[o]]
    /\ UNCHANGED <<networkEnabled, down, tracked, chainVars, switches>>

-----------------------------------------------------------------------------
(* The operations: enqueueFlush, performFlush and what awaits them.        *)

\* The operation is called, a flush also after a shutdown.  It runs at once or
\* after the one before it.
Before == IF flushActive THEN flushChain ELSE Nothing

Call(o) ==
    /\ op[o].phase = "idle" /\ (o \in Closing => ~down)
    /\ \A p \in 1 .. o - 1 : op[p].phase # "idle"
    /\ op' = [op EXCEPT ![o] = [@ EXCEPT !.phase = "queued", !.after = Before]]
    /\ flushActive' = TRUE /\ flushChain' = o
    /\ UNCHANGED <<networkEnabled, down, unsaved, tracked, destinationVars, calls,
                   bounds>>

\* teardown: timers are cleared and the queues emptied (what they held is on
\* disk for the next start).
Teardown(o) == o \in Closing
teardown ==
    /\ down' = TRUE
    /\ armed' = [d \in Destinations |-> armed[d] \ {scheduleId[d], flushId[d]}]
    /\ scheduleId' = [d \in Destinations |-> Nothing]
    /\ flushId' = [d \in Destinations |-> Nothing]
    /\ queue' = [d \in Destinations |-> {}]

\* What flushWithResult reports.
Result(o, error, saw) ==
    IF o \notin WithResult THEN "none"
    ELSE IF error THEN "failed"
    ELSE IF \E d \in Destinations : queue[d] # {} THEN "remaining"
    ELSE IF saw THEN "dropped" ELSE "ok"

\* The operation settles; only promise callbacks lie between that and the
\* teardown of a shutdown.
Settle(o, error) ==
    /\ op' = [op EXCEPT ![o] = [@ EXCEPT !.phase = "settled", !.error = error,
                 !.result = Result(o, error, op[o].sawDrop)]]
    /\ IF Teardown(o)
       THEN teardown /\ UNCHANGED <<sent, dropped>>
       ELSE UNCHANGED <<down, destinationVars>>

MayStart_Poisoned(o) ==
    /\ op[o].phase = "queued"
    /\ op[o].after # Nothing => /\ op[op[o].after].phase \in {"settled", "released"}
                               /\ ~op[op[o].after].error

\* performFlush starts: drain, then the timeline asks every destination to
\* flush without retries.  If the drain throws nothing else is done.
MayStart(o) ==
    /\ op[o].phase = "queued"
    /\ op[o].after # Nothing => op[op[o].after].phase \in {"settled", "released"}

Start(o) ==
    /\ MayStart(o)
    /\ \/ /\ Drain(TRUE)
          /\ calls' = [d \in Destinations |->
                         IF down THEN calls[d] ELSE Append(calls[d], Waiting(o))]
          /\ op' = [Outdated(op) EXCEPT ![o] =
                      [@ EXCEPT !.phase = "core", !.after = Nothing, !.started = queue]]
          /\ UNCHANGED <<down, destinationVars>>
       \/ /\ Drain(FALSE) /\ Settle(o, TRUE)
          /\ UNCHANGED calls
    /\ UNCHANGED <<networkEnabled, tracked, chainVars, switches>>

\* waitForDestinationFlushes remembers the chains as they are.  After a
\* teardown the client has no list of them and waits for none.
Chained(d) == IF down THEN 0 ELSE Len(calls[d])

Watching(o, p, round) ==
    [p EXCEPT ![o] = [@ EXCEPT !.phase = "waiting", !.round = round,
        !.moved = FALSE, !.ahead = [d \in Destinations |-> Chained(d)]]]

\* The timeline's flush settles: all its calls have ended, or one rejected.
CoreEnded(o) ==
    /\ op[o].phase = "core"
    /\ \/ op[o].error
       \/ \A d \in Destinations : \A i \in DOMAIN calls[d] : calls[d][i].by # o

CoreEnds(o) ==
    /\ CoreEnded(o)
    /\ op' = Watching(o, op, 1)
    /\ UNCHANGED <<networkEnabled, down, unsaved, tracked, destinationVars, calls,
                   chainVars, bounds>>

IsStill_Always(o) == TRUE

\* The chains that were there have ended; if one has grown, wait again.
AllQuiet(o) == \A d \in Destinations : op[o].ahead[d] = 0
IsStill(o) == ~op[o].moved

WaitAgain(o) ==
    /\ op[o].phase = "waiting" /\ AllQuiet(o) /\ ~IsStill(o)
    /\ op' = Watching(o, op, op[o].round)
    /\ UNCHANGED <<networkEnabled, down, unsaved, tracked, destinationVars, calls,
                   chainVars, bounds>>

\* They have not: drain; after the second time the operation settles, with
\* the first error that was met.
Finish(o) ==
    /\ op[o].phase = "waiting" /\ AllQuiet(o) /\ IsStill(o)
    /\ \/ /\ Drain(TRUE)
          /\ IF op[o].round = 1
             THEN op' = Watching(o, op, 2) /\ UNCHANGED <<down, destinationVars>>
             ELSE Settle(o, op[o].error)
       \/ Drain(FALSE) /\ Settle(o, TRUE)
    /\ UNCHANGED <<networkEnabled, tracked, calls, chainVars, switches>>

IsLast_Unchecked(o) == TRUE

\* The callback on the settled promise: the chain is idle if nothing was
\* chained behind this operation.
IsLast(o) == flushChain = o

Release(o) ==
    /\ op[o].phase = "settled"
    /\ op' = [op EXCEPT ![o] = [Idle EXCEPT !.phase = "released", !.error = op[o].error]]
    /\ flushActive' = IF IsLast(o) THEN FALSE ELSE flushActive
    /\ UNCHANGED <<networkEnabled, down, unsaved, tracked, destinationVars, calls,
                   flushChain, bounds>>

\* A promise callback waits to run: timers have to wait for it.
CallbackDue ==
    \/ \E d \in Destinations : \E i \in DOMAIN calls[d] :
          calls[d][i].phase = "waiting" /\ CanBegin(d, i)
    \/ \E o \in Operations : \/ MayStart(o) \/ CoreEnded(o)
                             \/ op[o].phase = "waiting" /\ AllQuiet(o)
                             \/ op[o].phase = "settled"

\* The timer of a destination fires: destination.flush(true).
Fire(d, t) ==
    /\ t \in armed[d] /\ ~CallbackDue
    /\ armed' = [armed EXCEPT ![d] = @ \ {t}]
    /\ calls' = [calls EXCEPT ![d] = Append(@, Waiting(Nothing))]
    /\ op' = Outdated(op)
    /\ UNCHANGED <<networkEnabled, down, unsaved, tracked, queue, sent, dropped,
                   scheduleId, flushId, chainVars, bounds>>

\* The application switches the network on or off.
setNetworkEnabled(enabled) ==
    /\ networkEnabled # enabled /\ switches < MaxSwitches
    /\ networkEnabled' = enabled /\ switches' = switches + 1
    /\ UNCHANGED <<down, unsaved, tracked, destinationVars, calls, chainVars, op,
                   failures>>

-----------------------------------------------------------------------------
Answers(d) == \E i \in DOMAIN calls[d], rejects \in BOOLEAN :
    \E good \in SUBSET calls[d][i].batch :
       \E bad \in SUBSET (calls[d][i].batch \ good) : Answer(d, i, good, bad, rejects)

Callback ==
    \/ \E d \in Destinations : \E i \in DOMAIN calls[d] : Defer(d, i) \/ Begin(d, i)
    \/ \E o \in Operations :
          Start(o) \/ CoreEnds(o) \/ WaitAgain(o) \/ Finish(o) \/ Release(o)

Application ==
    \/ \E e \in Events : Track(e)
    \/ \E o \in Operations : Call(o)
    \/ \E enabled \in BOOLEAN : setNetworkEnabled(enabled)

Next ==
    \/ Application
    \/ Callback
    \/ \E d \in Destinations : (\E t \in Timers : Fire(d, t)) \/ Answers(d)

Spec == Init /\ [][Next]_vars

(* The event loop runs the promise callbacks, and each request is answered *)
(* or times out.                                                           *)
Fairness == WF_vars(Callback) /\ \A d \in Destinations : WF_vars(Answers(d))

FairSpec == Spec /\ Fairness

-----------------------------------------------------------------------------
(* Properties.                                                             *)

CallOf == [by : Operations \cup {Nothing}, phase : {"waiting", "sending"},
           timer : Timers \cup {Nothing}, batch : SUBSET Events]

\* The types of the variables, and an operation waits for no more calls than
\* there are.
TypeOK ==
    /\ {networkEnabled, down, unsaved, flushActive} \subseteq BOOLEAN
    /\ tracked \subseteq Events
    /\ {queue, sent, dropped} \subseteq [Destinations -> SUBSET Events]
    /\ {scheduleId, flushId} \subseteq [Destinations -> Timers \cup {Nothing}]
    /\ armed \in [Destinations -> SUBSET Timers]
    /\ flushChain \in Operations \cup {Nothing}
    /\ \A d \in Destinations : \A i \in DOMAIN calls[d] : calls[d][i] \in CallOf
    /\ \A o \in Operations : op[o].phase = "waiting" =>
          \A d \in Destinations : op[o].ahead[d] <= Len(calls[d])

\* Operations run one at a time, however they are called, fail and settle:
\* two at once would install two collectors of outcomes over each other and
\* count each other's events (enqueueFlush).
OneOperation == \A o, p \in Operations : Running(o) /\ Running(p) => o = p

\* An event that a destination holds is never left behind: its timer is set,
\* or a flush of the destination is under way or waits its turn.  Deferred,
\* rejected and overlapping flushes all have to see to it.
NoneStranded == \A d \in Destinations :
    queue[d] # {} => scheduleId[d] \in armed[d] \/ calls[d] # <<>>

\* The timers that will fire are those the destination knows of, so that
\* teardown and the next schedule can clear them.
NoStrayTimer == \A d \in Destinations : armed[d] \subseteq {scheduleId[d], flushId[d]}

\* An event is in one request at a time and is not sent again once it has
\* been answered, whichever of timers and operations flush.
SentOnce == \A d \in Destinations : \A i \in DOMAIN calls[d] :
    calls[d][i].phase = "sending" =>
        /\ calls[d][i].batch \cap (sent[d] \cup dropped[d]) = {}
        /\ \A j \in DOMAIN calls[d] :
              calls[d][j].phase = "sending" => calls[d][i].batch \cap calls[d][j].batch = {}
                                               \/ i = j

\* flushWithResult says ok only if every destination has sent every event it
\* held when the operation started.
OkMeansSent == \A o \in WithResult :
    op[o].result = "ok" => \A d \in Destinations : op[o].started[d] \subseteq sent[d]

\* When an operation that has flushed settles, no request of a destination is
\* running or waiting, unless the client was torn down before the operation,
\* and if it reports no error everything is saved.
SettledIsDone ==
    [][\A o \in Operations :
         op[o].phase = "waiting" /\ op'[o].phase = "settled" =>
            /\ down \/ \A d \in Destinations : calls'[d] = <<>>
            /\ op'[o].error \/ ~unsaved']_vars

\* Every call of flush, flushWithResult and shutdown settles.
EverySettles == \A o \in Operations :
    op[o].phase = "queued" ~> op[o].phase \in {"settled", "released"}

\* No event is left behind and no timer is forgotten.
NothingStranded == NoneStranded /\ NoStrayTimer

\* Events are sent once, and what a caller is told of them is true.
ResultsAreTrue == TypeOK /\ SentOnce /\ OkMeansSent
=============================================================================
