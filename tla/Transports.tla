----------------------------- MODULE Transports -----------------------------
(* Requests from JavaScript to the native worker and what is kept about them:     *)
(* native/http.ts (NitroHttpClient), analytics/nitro-transport.ts, network.ts     *)
(* (the switch, the timing wrappers and their buffer), diagnostic-failures.ts and *)
(* diagnostics-pipeline.ts in src/packages/react-native-nitro-amplitude/src.      *)
(*                                                                               *)
(* A call goes through the diagnostic wrapper, the timing wrapper and the client  *)
(* of the worker.  The worker is external here: module Worker shows that it        *)
(* completes every request it took once and tells every listener.  It may do so   *)
(* before enqueue returns, and it tells of requests of others too.                *)
EXTENDS Naturals, Sequences, FiniteSets, FiniteSetsExt

CONSTANTS
    Calls,       \* calls of send() or request()
    Others,      \* ids of requests that other users of the worker have made
    Kinds,       \* how a call can fail: surface, kind, host and status of a failure
    Refused,     \* the kind of a call while the network is switched off
    MaxEvents,   \* MAX_EVENTS of the diagnostics pipeline
    MaxSwitches, \* bound: setNetworkEnabled, over a behaviour
    MaxClears    \* bound: clearDiagnosticFailures, over a behaviour

TransportsAssumption ==
    /\ Others \cap Calls = {}    \* the ids of createRequestId differ
    /\ Refused \in Kinds
    /\ MaxEvents \in Nat /\ MaxEvents >= 2   \* the pipeline holds what one call adds
    /\ MaxSwitches \in Nat /\ MaxClears \in Nat

(* Every failure has a kind: how it is classified is not modelled. *)
Ok == "ok"
Outcomes == Kinds \cup {Ok}

VARIABLES
    networkEnabled,
    call,             \* per call: idle, waiting, settled or returned, and its outcome
    pendingRequests,  \* the client's map: ids of unsettled requests
    owed,             \* ids the worker has taken and not completed, with their outcome
    events,           \* the diagnostics pipeline
    switches, clears

vars == <<networkEnabled, call, pendingRequests, owed, events, switches, clears>>

Idle == [step |-> "idle", outcome |-> Ok]

-----------------------------------------------------------------------------
(* The client of the worker *)

(* The listener, for one id: an id it does not know is somebody else's. *)
Hears(requests, id) == {id} \cap requests

Settled(c, outcome) == [call EXCEPT ![c] = [step |-> "settled", outcome |-> outcome]]

(* request, up to the end of enqueue.  The guard and a throwing enqueue reject;   *)
(* an enqueue that completes the request at once finds it in the map.            *)
InTheMap_AfterEnqueue(c) == pendingRequests
InTheMap(c) == pendingRequests \cup {c}

Request(c) ==
    /\ call[c].step = "idle"
    /\ \/ /\ ~networkEnabled
          /\ call' = Settled(c, Refused)
          /\ UNCHANGED <<pendingRequests, owed>>
       \/ /\ networkEnabled
          /\ \E k \in Kinds : call' = Settled(c, k)   \* enqueue throws
          /\ UNCHANGED <<pendingRequests, owed>>
       \/ /\ networkEnabled
          /\ call' = [call EXCEPT ![c].step = "waiting"]
          /\ pendingRequests' = pendingRequests \cup {c}
          /\ \E o \in Outcomes : owed' = owed \cup {<<c, o>>}
       \/ /\ networkEnabled
          /\ \E o \in Outcomes :
                IF c \in InTheMap(c)
                THEN /\ call' = Settled(c, o)
                     /\ UNCHANGED pendingRequests
                ELSE /\ call' = [call EXCEPT ![c].step = "waiting"]
                     /\ pendingRequests' = pendingRequests \cup {c}
          /\ UNCHANGED owed
    /\ UNCHANGED <<networkEnabled, events, switches, clears>>

(* The worker completes a request of this client, or of another one. *)
Complete(id) ==
    /\ \E o \in Outcomes :
          /\ <<id, o>> \in owed \/ id \in Others
          /\ call' = [c \in Calls |-> IF c \in Hears(pendingRequests, id)
                                     THEN [step |-> "settled", outcome |-> o] ELSE call[c]]
          /\ owed' = owed \ {<<id, o>>}
    /\ pendingRequests' = pendingRequests \ Hears(pendingRequests, id)
    /\ UNCHANGED <<networkEnabled, events, switches, clears>>

-----------------------------------------------------------------------------
(* The diagnostics pipeline *)

Timing == [type |-> "network_timing"]
Failure(k, n) == [type |-> "failure", kind |-> k, throttledCount |-> n]
IsFailure(e, k) == e.type = "failure" /\ e.kind = k

(* recordDiagnosticEvent: the oldest events go when there are too many. *)
recordDiagnosticEvent(log, e) ==
    LET longer == Append(log, e)
    IN  IF Len(longer) > MaxEvents THEN Tail(longer) ELSE longer

(* recordDiagnosticFailure: it goes on with the count of the newest failure like it. *)
LastOfKind(log, k) == Max({i \in DOMAIN log : IsFailure(log[i], k)})

Throttled(log, k) ==
    IF \E i \in DOMAIN log : IsFailure(log[i], k)
    THEN log[LastOfKind(log, k)].throttledCount + 1 ELSE 0

recordDiagnosticFailure(log, k) == recordDiagnosticEvent(log, Failure(k, Throttled(log, k)))

(* What the timing wrapper records of a call that has settled, and then the        *)
(* diagnostic wrapper around it.                                                 *)
Timed(log) == recordDiagnosticEvent(log, Timing)

Recorded(log, outcome) ==
    IF outcome = Ok THEN Timed(log) ELSE recordDiagnosticFailure(Timed(log), outcome)

Return(c) ==
    /\ call[c].step = "settled"
    /\ call' = [call EXCEPT ![c].step = "returned"]
    /\ events' = Recorded(events, call[c].outcome)
    /\ UNCHANGED <<networkEnabled, pendingRequests, owed, switches, clears>>

(* clearDiagnosticEvents("failure"): timings stay, which are all alike here. *)
Timings == {i \in DOMAIN events : events[i].type # "failure"}
Cleared == [i \in 1 .. Cardinality(Timings) |-> Timing]

clearDiagnosticFailures ==
    /\ clears < MaxClears
    /\ clears' = clears + 1
    /\ events' = Cleared
    /\ UNCHANGED <<networkEnabled, call, pendingRequests, owed, switches>>

setNetworkEnabled(enabled) ==
    /\ switches < MaxSwitches
    /\ switches' = switches + 1
    /\ networkEnabled' = enabled
    /\ UNCHANGED <<call, pendingRequests, owed, events, clears>>

Init ==
    /\ networkEnabled = TRUE
    /\ call = [c \in Calls |-> Idle]
    /\ pendingRequests = {} /\ owed = {}
    /\ events = <<>>
    /\ switches = 0 /\ clears = 0

Next ==
    \/ \E c \in Calls : Request(c) \/ Return(c)
    \/ \E id \in Calls \cup Others : Complete(id)
    \/ clearDiagnosticFailures
    \/ \E enabled \in BOOLEAN : setNetworkEnabled(enabled)

(* The worker completes what it took (module Worker, EveryListenerHears), and       *)
(* promises that are settled run their continuations.                            *)
Fairness == \A c \in Calls : WF_vars(Complete(c)) /\ WF_vars(Return(c))
Spec == Init /\ [][Next]_vars
FairSpec == Spec /\ Fairness

-----------------------------------------------------------------------------
(* Properties *)

(* The map has exactly the requests whose promise is not settled, and the worker   *)
(* owes each of them an answer: none is forgotten, kept for ever or settled twice. *)
PendingIsOwed ==
    /\ pendingRequests = {c \in Calls : call[c].step = "waiting"}
    /\ pendingRequests = {p[1] : p \in owed}

(* A promise is settled with what the worker said of its own request, whatever     *)
(* else the worker completes in between.                                         *)
OwnAnswer ==
    [][\A c \in Calls : call[c].step = "waiting" /\ call'[c].step = "settled"
          => <<c, call'[c].outcome>> \in owed]_vars

(* Every call returns: none waits for an answer that came before it was listened for. *)
EveryCallReturns == \A c \in Calls : call[c].step = "waiting" ~> call[c].step = "returned"

(* As long as the pipeline has failures of a kind, the next one says how many there *)
(* were: timings and other failures in between do not break the count.            *)
CountsGoOn ==
    \A i, j \in DOMAIN events :
        /\ i < j
        /\ \E k \in Kinds : /\ IsFailure(events[i], k) /\ IsFailure(events[j], k)
                            /\ \A m \in (i + 1) .. (j - 1) : ~IsFailure(events[m], k)
        => events[j].throttledCount = events[i].throttledCount + 1
=============================================================================
