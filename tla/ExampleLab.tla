------------------------------ MODULE ExampleLab ------------------------------
(***************************************************************************)
(* The labs of the example application (apps/example/components/           *)
(* e2e-lab.tsx, lab-runner.tsx, app/e2e-analytics.tsx, app/e2e-network.tsx)*)
(* whose status texts the device replays wait for.                         *)
(*                                                                         *)
(* A button of the lab tracks probe events with the application's client,  *)
(* flushes, and looks for them in the dry-run records of src/network.ts,   *)
(* which belong to the process.  A lab page runs its cases one after the   *)
(* other, most with a client of their own and the same records; it starts  *)
(* over when it is mounted or its link changes, and the case it was at     *)
(* goes on.  Each press and each case is a job.                            *)
(***************************************************************************)
EXTENDS Integers, Sequences, FiniteSets

CONSTANTS
  Buttons,    \* buttons of the lab that may be pressed
  Cases,      \* the cases of the page, in order
  Burst,      \* events the stress button tracks
  MaxJobs,    \* bound: presses and cases that are begun
  MaxRuns     \* bound: runs of the page's cases

Requests == {"timeout", "refused"}
OwnClient == {"exposure", "session", "plugin", "diagnostics"}

ExampleLabAssumption ==
  /\ Buttons \subseteq {"optOut", "revenue", "group", "records", "identify", "flush", "stress"}
  /\ Cases \in Seq(Requests \cup OwnClient) /\ Len(Cases) > 0
  /\ Burst \in Nat /\ Burst > 0 /\ {MaxJobs, MaxRuns} \subseteq Nat

VARIABLES
  jobs,      \* [kind, run, at, accepted, flushed, lone] of each job begun
  records,   \* events of each kind in the dry-run records
  rows,      \* the results the page shows, each with its run
  run,       \* the run of the page that is not cancelled, 0 before the first
  mounted, done

vars == <<jobs, records, rows, run, mounted, done>>

Kinds == Buttons \cup {Cases[i] : i \in 1..Len(Cases)}
Jobs == 1..Len(jobs)
NoRecords == [k \in Kinds |-> 0]
IsRunning(j) == jobs[j].at \notin {"ok", "fail"}

Init ==
  /\ jobs = <<>> /\ records = NoRecords /\ rows = <<>>
  /\ run = 0 /\ mounted = FALSE /\ done = FALSE

-----------------------------------------------------------------------------
(* Events a job tracks, and what it then wants to find in the records.      *)
Tracks(k) ==
  CASE k = "stress" -> Burst
    [] k \in {"group", "session", "plugin"} -> 2
    [] k = "optOut" \/ k \in Requests -> 0
    [] OTHER -> 1
NothingEscaped == records["optOut"] = 0
AllDelivered == records["stress"] = Burst
AnyRecorded == \E k \in Kinds : records[k] > 0
IsRecorded(k) == records[k] >= Tracks(k)
Satisfied(k) ==
  CASE k = "optOut" -> NothingEscaped
    [] k = "stress" -> AllDelivered
    [] k = "diagnostics" -> AnyRecorded
    [] OTHER -> IsRecorded(k)

(* A job joins the others: it is alone if they have ended and until another *)
(* one begins.                                                              *)
Joined(kind, of, at, accepted) ==
  Append([j \in Jobs |-> [jobs[j] EXCEPT !.lone = @ /\ ~IsRunning(j)]],
         [kind |-> kind, run |-> of, at |-> at, accepted |-> accepted, flushed |-> 0,
          lone |-> \A j \in Jobs : ~IsRunning(j)])
Awaits_Nothing == "check"
Awaits == "flush"

(* onPress: clear the records, track, and wait for flushWithResult.         *)
Cleared == NoRecords
Press(b) ==
  /\ Len(jobs) < MaxJobs
  /\ jobs' = Joined(b, 0, Awaits, Tracks(b))
  /\ records' = Cleared
  /\ UNCHANGED <<rows, run, mounted, done>>

(* Where a case begins: with its request, or with init() once the records   *)
(* are clear.                                                               *)
FirstStep(k) == IF k \in Requests \cup {"diagnostics"} THEN "request" ELSE "init"
ClearedFor(k) == IF FirstStep(k) = "init" THEN Cleared ELSE records
Begins(k, of) ==
  /\ Len(jobs) < MaxJobs
  /\ jobs' = Joined(k, of, FirstStep(k), 0)
  /\ records' = ClearedFor(k)

(* The screen is opened, or its link now has another runKey; the state of a *)
(* component that stays is kept.                                            *)
Open ==
  /\ run < MaxRuns /\ run' = run + 1 /\ mounted' = TRUE
  /\ Begins(Cases[1], run + 1)
  /\ IF mounted THEN UNCHANGED <<rows, done>> ELSE rows' = <<>> /\ done' = FALSE
Leave == mounted /\ mounted' = FALSE /\ UNCHANGED <<jobs, records, rows, run, done>>

AtStep(j, at) == jobs[j].at = at
Moves(j, at) == jobs' = [jobs EXCEPT ![j].at = at]

(* The request of a case is answered.                                       *)
Answer(j) ==
  /\ AtStep(j, "request")
  /\ IF jobs[j].kind = "diagnostics" THEN Moves(j, "init") /\ records' = Cleared
     ELSE Moves(j, "check") /\ UNCHANGED records
  /\ UNCHANGED <<rows, run, mounted, done>>

(* The case's client is ready: it tracks the probes and flushes.            *)
Inited(j) ==
  /\ AtStep(j, "init")
  /\ jobs' = [jobs EXCEPT ![j].at = Awaits, ![j].accepted = Tracks(jobs[j].kind)]
  /\ UNCHANGED <<records, rows, run, mounted, done>>

(* A flush sends what its client has accepted; the buttons share a client,  *)
(* which also flushes on its own, and takes flushes in order.               *)
SameClient(j) == IF jobs[j].run = 0 THEN {i \in Jobs : jobs[i].run = 0} ELSE {j}
Sent(from) ==
  [k \in Kinds |-> records[k] +
     Cardinality({i \in from : jobs[i].kind = k /\ jobs[i].accepted > 0}) * Tracks(k)]
Delivers(from, at) ==
  /\ records' = Sent(from)
  /\ jobs' = [i \in Jobs |->
       [jobs[i] EXCEPT !.accepted = IF i \in from THEN 0 ELSE @,
                       !.flushed = IF i \in from THEN @ + jobs[i].accepted ELSE @,
                       !.at = at[i]]]
  /\ UNCHANGED <<rows, run, mounted, done>>
Flush(j) ==
  /\ AtStep(j, "flush") /\ \A i \in SameClient(j) : AtStep(i, "flush") => j <= i
  /\ Delivers(SameClient(j), [i \in Jobs |-> IF i = j THEN "check" ELSE jobs[i].at])
ScheduledFlush ==
  LET lab == {i \in Jobs : jobs[i].run = 0} IN
  /\ \E i \in lab : jobs[i].accepted > 0
  /\ Delivers(lab, [i \in Jobs |-> jobs[i].at])

(* The job looks at the records.                                            *)
Status(j) == IF Satisfied(jobs[j].kind) THEN "ok" ELSE "fail"
CheckPress(j) ==
  /\ AtStep(j, "check") /\ jobs[j].run = 0
  /\ Moves(j, Status(j))
  /\ UNCHANGED <<records, rows, run, mounted, done>>

(* useLabCases: unless the run is cancelled the result is shown and the     *)
(* next case begins.                                                        *)
IsLive(r) == mounted /\ r = run
Place(k) == CHOOSE i \in 1..Len(Cases) : Cases[i] = k
CheckCase(j) ==
  LET r == jobs[j].run
      k == jobs[j].kind
  IN  /\ AtStep(j, "check") /\ r # 0 /\ UNCHANGED <<run, mounted>>
      /\ \/ /\ ~IsLive(r)
            /\ Moves(j, Status(j)) /\ UNCHANGED <<records, rows, done>>
         \/ /\ IsLive(r) /\ Place(k) = Len(Cases)
            /\ Moves(j, Status(j)) /\ UNCHANGED records
            /\ rows' = Append(rows, [run |-> r, kind |-> k]) /\ done' = TRUE
         \/ /\ IsLive(r) /\ Place(k) < Len(Cases) /\ Len(jobs) < MaxJobs
            /\ LET next == Cases[Place(k) + 1]
                   ended == [jobs EXCEPT ![j].at = Status(j)]
               IN  /\ jobs' = Append([i \in Jobs |-> [ended[i] EXCEPT
                                        !.lone = @ /\ (i = j \/ ~IsRunning(i))]],
                        [kind |-> next, run |-> r, at |-> FirstStep(next), accepted |-> 0,
                         flushed |-> 0, lone |-> \A i \in Jobs \ {j} : ~IsRunning(i)])
                   /\ records' = ClearedFor(next)
            /\ rows' = Append(rows, [run |-> r, kind |-> k]) /\ UNCHANGED done

Next ==
  \/ \E b \in Buttons : Press(b)
  \/ Open \/ Leave \/ ScheduledFlush
  \/ \E j \in Jobs : Answer(j) \/ Inited(j) \/ Flush(j) \/ CheckPress(j) \/ CheckCase(j)

Spec == Init /\ [][Next]_vars

-----------------------------------------------------------------------------
(* A press or a case during which nothing else ran never fails, whatever    *)
(* earlier ones left in the records or with the shared client.              *)
LoneSucceeds == \A j \in Jobs : jobs[j].lone => jobs[j].at # "fail"

(* A status "ok" is never owed to the events of another press or page       *)
(* alone: the job's own events have reached the transport by then.          *)
OkIsDelivered == \A j \in Jobs : jobs[j].at = "ok" => jobs[j].flushed = Tracks(jobs[j].kind)

(* The rows of each run of a page are its first cases, each once and in     *)
(* order, and no row of a cancelled run follows one of the next run.        *)
RowsInOrder == \A i \in 1..Len(rows) :
  IF i = 1 \/ rows[i].run # rows[i - 1].run
  THEN rows[i].kind = Cases[1] /\ (i > 1 => rows[i].run > rows[i - 1].run)
  ELSE Place(rows[i].kind) = Place(rows[i - 1].kind) + 1
=============================================================================
