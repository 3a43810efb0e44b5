---------------------------- MODULE ReplayFixture ----------------------------
(***************************************************************************)
(* The HTTP server the replayed application talks to                       *)
(* (scripts/example-replay-http-fixture.js): requests whose body arrives   *)
(* in chunks, answers that a timer delays, clients that go away because    *)
(* they timed out, and a server that is stopped and started meanwhile.     *)
(***************************************************************************)
EXTENDS Naturals, FiniteSets

CONSTANTS
  Requests,   \* connections, each with one request
  MaxBody,    \* maxRequestBytes, in chunks
  MaxStarts   \* bound: calls of listen

ReplayFixtureAssumption == {MaxBody, MaxStarts} \subseteq Nat

VARIABLES
  server,     \* "off", "starting" or "listening"
  at,         \* of each request: "none", "body", "delayed", "answered", "gone"
  size,       \* chunks of its body that arrived
  timers,     \* requests with a timer in timers
  answers,    \* how often a response was written to it
  starts

vars == <<server, at, size, timers, answers, starts>>

Init ==
  /\ server = "off" /\ starts = 0 /\ timers = {}
  /\ at = [r \in Requests |-> "none"] /\ size = [r \in Requests |-> 0]
  /\ answers = [r \in Requests |-> 0]

-----------------------------------------------------------------------------
(* json: an answer that is written ends the response.                       *)
json(r) == answers' = [answers EXCEPT ![r] = @ + 1]
Moves(r, step) == at' = [at EXCEPT ![r] = step]

listen ==
  /\ server = "off" /\ starts < MaxStarts
  /\ server' = "starting" /\ starts' = starts + 1
  /\ UNCHANGED <<at, size, timers, answers>>
onListening ==
  /\ server = "starting" /\ server' = "listening"
  /\ UNCHANGED <<at, size, timers, answers, starts>>
onError ==
  /\ server = "starting" /\ server' = "off"
  /\ UNCHANGED <<at, size, timers, answers, starts>>

Connect(r) ==
  /\ server = "listening" /\ at[r] = "none"
  /\ Moves(r, "body")
  /\ UNCHANGED <<server, size, timers, answers, starts>>

(* A chunk: the first beyond the limit is answered with 413, and what comes *)
(* after it is read and forgotten.                                          *)
IsTooLarge(r) == size[r] > MaxBody
onData(r) ==
  /\ at[r] = "body" /\ size[r] <= MaxBody
  /\ size' = [size EXCEPT ![r] = @ + 1]
  /\ IF size[r] + 1 > MaxBody THEN json(r) ELSE UNCHANGED answers
  /\ UNCHANGED <<server, at, timers, starts>>

(* The end of the body: /delay waits, any other path is answered at once.   *)
EndsUnanswered(r) == ~IsTooLarge(r)
onEnd(r) ==
  /\ at[r] = "body" /\ EndsUnanswered(r)
  /\ \/ Moves(r, "delayed") /\ timers' = timers \cup {r} /\ UNCHANGED answers
     \/ Moves(r, "answered") /\ json(r) /\ UNCHANGED timers
  /\ UNCHANGED <<server, size, starts>>
onEndTooLarge(r) ==
  /\ at[r] = "body" /\ IsTooLarge(r)
  /\ Moves(r, "answered")
  /\ UNCHANGED <<server, size, timers, answers, starts>>

Delay(r) ==
  /\ r \in timers /\ timers' = timers \ {r}
  /\ IF at[r] = "delayed" THEN Moves(r, "answered") /\ json(r) ELSE UNCHANGED <<at, answers>>
  /\ UNCHANGED <<server, size, starts>>

(* The client's connection breaks: response.destroyed.                      *)
Destroy(r) ==
  /\ at[r] \in {"body", "delayed"} /\ Moves(r, "gone")
  /\ UNCHANGED <<server, size, timers, answers, starts>>

KeptTimers == {}
close ==
  /\ timers' = KeptTimers
  /\ IF server = "listening"
     THEN /\ server' = "off"
          /\ at' = [r \in Requests |-> IF at[r] \in {"body", "delayed"} THEN "gone" ELSE at[r]]
     ELSE UNCHANGED <<server, at>>
  /\ UNCHANGED <<size, answers, starts>>

Next ==
  \/ listen \/ onListening \/ onError \/ close
  \/ \E r \in Requests : Connect(r) \/ onData(r) \/ onEnd(r) \/ onEndTooLarge(r)
                         \/ Delay(r) \/ Destroy(r)

Spec == Init /\ [][Next]_vars

-----------------------------------------------------------------------------
(* A response is written once: neither the end of a body that was refused   *)
(* nor a timer that outlives its client or the server writes another.       *)
AnsweredOnce == \A r \in Requests :
  /\ answers[r] <= 1
  /\ at[r] = "answered" => answers[r] = 1

(* A server that is off holds the process open with no timer and serves no  *)
(* request, and each delayed request of one that is on has its timer.       *)
OffIsQuiet ==
  /\ server = "off" => timers = {} /\ \A r \in Requests : at[r] \notin {"body", "delayed"}
  /\ \A r \in Requests : at[r] = "delayed" => r \in timers
=============================================================================
