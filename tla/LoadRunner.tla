----------------------------- MODULE LoadRunner -----------------------------
(* The HTTP load client (qwen3-tts-http-bench, src/runner.rs): a warm-up     *)
(* phase and a measured phase, each cut into batches of at most Concurrency  *)
(* requests.  A batch first connects its requests one after the other, then  *)
(* runs one task per connection; the tasks meet at a barrier, write their    *)
(* requests and read their responses, each under one time limit that also    *)
(* covers the wait at the barrier.  The batch ends when every task is        *)
(* joined.  Phase marks (src/phase_events.rs) delimit the measured time and  *)
(* the outcomes become the report (src/report.rs).                           *)
(*                                                                           *)
(* What a response contains is ResponseReader's business: here a task that   *)
(* has written its request succeeds, fails, panics or runs into its limit.   *)
EXTENDS Naturals, Sequences, FiniteSets

CONSTANTS Warmups,      \* --warmups
          Measured,     \* --requests
          Concurrency   \* --concurrency: width of a batch

ASSUME LoadAssumption ==
  Warmups \in Nat /\ Measured \in Nat \ {0} /\ Concurrency \in Nat \ {0}

VARIABLES
  phase,     \* "warmup" | "measured" | "finished" | "unreported" | "aborted"
  marks,     \* the phase events recorded so far
  next,      \* next request of the phase to connect
  first,     \* first request of the running batch
  batch,     \* last request of the running batch
  task,      \* task[i]: what request i of the phase is doing
  arrived,   \* requests of the batch that reached the barrier
  outcomes,  \* outcomes of the phase, in the order they were collected
  report     \* the records written, or <<>>

vars == <<phase, marks, next, first, batch, task, arrived, outcomes, report>>

Size(p) == IF p \in {"warmup", "aborted"} THEN Warmups ELSE Measured
Indices == 1..Size(phase)
Events == <<"WarmupStart", "WarmupEnd", "MeasuredStart", "MeasuredEnd">>

\* What a finished task reports; "ok" is the only success.
Codes == {"ok", "connect_error", "connect_timeout", "request_error",
          "http_status", "request_timeout", "task_failure"}
Waiting == {"spawned", "barrier", "writing", "reading"}

Running == phase \in {"warmup", "measured"}

\* The last request of the batch that starts at from.
Chunk(from, size) ==
  IF from + Concurrency - 1 <= size THEN from + Concurrency - 1 ELSE size

\* PhaseEventLog::mark: events are recorded in their one order.
Mark(event) ==
  /\ event = Events[Len(marks) + 1]
  /\ marks' = Append(marks, event)

Start(p) ==
  /\ phase' = p
  /\ next' = 1
  /\ first' = 1
  /\ batch' = Chunk(1, Size(p))
  /\ task' = [i \in 1..Size(p) |-> "none"]
  /\ arrived' = {}
  /\ outcomes' = <<>>

Init ==
  /\ phase = "warmup"
  /\ marks = <<"WarmupStart">>
  /\ next = 1
  /\ first = 1
  /\ batch = Chunk(1, Warmups)
  /\ task = [i \in 1..Warmups |-> "none"]
  /\ arrived = {}
  /\ outcomes = <<>>
  /\ report = <<>>

Attempted_Silent(code) == outcomes

\* A connection that fails or times out is an outcome at once.
Attempted(code) ==
  IF code = "ok" THEN outcomes ELSE Append(outcomes, [index |-> next, code |-> code])

\* connect_endpoint for the next request of the batch, under the time limit.
Connect(code) ==
  /\ Running /\ next <= batch
  /\ next' = next + 1
  /\ task' = [task EXCEPT ![next] = IF code = "ok" THEN "connected" ELSE "unconnected"]
  /\ outcomes' = Attempted(code)
  /\ UNCHANGED <<phase, marks, first, batch, arrived, report>>

\* All attempts are over: one task for every connection.
Spawn ==
  /\ Running /\ next > batch
  /\ \E i \in Indices : task[i] = "connected"
  /\ task' = [i \in Indices |-> IF task[i] = "connected" THEN "spawned" ELSE task[i]]
  /\ arrived' = {}
  /\ UNCHANGED <<phase, marks, next, first, batch, outcomes, report>>

\* The requests of the batch that got a connection, joined or not.
Tasks == {i \in first..batch : task[i] \notin {"none", "unconnected"}}

BarrierSize_Requests == batch - first + 1
\* Barrier::new(connected.len()).
BarrierSize == Cardinality(Tasks)

\* barrier.wait(): the first poll of the task, before its limit can expire.
\* The last to arrive releases every task that still waits.
Arrive(i) ==
  /\ task[i] = "spawned"
  /\ arrived' = arrived \cup {i}
  /\ task' = IF Cardinality(arrived') = BarrierSize
             THEN [j \in Indices |-> IF j = i \/ task[j] = "barrier" THEN "writing" ELSE task[j]]
             ELSE [task EXCEPT ![i] = "barrier"]
  /\ UNCHANGED <<phase, marks, next, first, batch, outcomes, report>>

\* t0 is taken and the request is written.
Write(i) ==
  /\ task[i] = "writing"
  /\ \E to \in {"reading", "request_error"} : task' = [task EXCEPT ![i] = to]
  /\ UNCHANGED <<phase, marks, next, first, batch, arrived, outcomes, report>>

\* The endpoint (external) answers: a complete response, a bad one, an error
\* status; or the task panics while it reads.
Respond(i, code) ==
  /\ task[i] = "reading"
  /\ code \in {"ok", "request_error", "http_status", "task_failure"}
  /\ task' = [task EXCEPT ![i] = code]
  /\ UNCHANGED <<phase, marks, next, first, batch, arrived, outcomes, report>>

\* The time limit drops the task's future, at the barrier too: the barrier
\* has counted it and does not forget.
Expire(i) ==
  /\ task[i] \in {"barrier", "writing", "reading"}
  /\ task' = [task EXCEPT ![i] = "request_timeout"]
  /\ UNCHANGED <<phase, marks, next, first, batch, arrived, outcomes, report>>

Collected == {outcomes[k].index : k \in DOMAIN outcomes}

\* task.await, in the order of the connections.
Joinable(i) == task[i] \in Codes

Join(i) ==
  /\ Running /\ next > batch
  /\ i \in Tasks \ Collected
  /\ \A j \in Tasks \ Collected : i <= j
  /\ Joinable(i)
  /\ outcomes' = Append(outcomes, [index |-> i, code |-> task[i]])
  /\ UNCHANGED <<phase, marks, next, first, batch, task, arrived, report>>

BatchDone_Eager == next > batch

\* Every task joined, or no connection to start one for.
BatchDone ==
  /\ next > batch
  /\ \A i \in Indices : task[i] # "connected"
  /\ Tasks \subseteq Collected

NextBatch ==
  /\ Running /\ BatchDone /\ batch < Size(phase)
  /\ first' = next
  /\ batch' = Chunk(next, Size(phase))
  /\ arrived' = {}
  /\ UNCHANGED <<phase, marks, next, task, outcomes, report>>

Failed == {k \in DOMAIN outcomes : outcomes[k].code # "ok"}

WarmupPassed == Failed = {}

\* The first failed warm-up ends the run with the marks made so far.
WarmupFailed ==
  /\ phase = "warmup" /\ BatchDone /\ batch = Warmups
  /\ ~WarmupPassed
  /\ phase' = "aborted"
  /\ UNCHANGED <<marks, next, first, batch, task, arrived, outcomes, report>>

MarkWarmupEnd ==
  /\ phase = "warmup" /\ Len(marks) = 1
  /\ BatchDone /\ batch = Warmups /\ WarmupPassed
  /\ Mark("WarmupEnd")
  /\ UNCHANGED <<phase, next, first, batch, task, arrived, outcomes, report>>

StartMeasured ==
  /\ phase = "warmup" /\ Len(marks) = 2
  /\ Mark("MeasuredStart")
  /\ Start("measured")
  /\ UNCHANGED report

\* The outcomes that come before number k in the report.
Before(found, k) ==
  {l \in DOMAIN found :
     \/ found[l].index < found[k].index
     \/ found[l].index = found[k].index /\ l < k}

\* write_reports sorts the records by request index; the sort is stable.
Report(found) ==
  [n \in DOMAIN found |->
     found[CHOOSE k \in DOMAIN found : Cardinality(Before(found, k)) = n - 1]]

\* The mark is made; then writing the phase events or the reports may fail.
Finish ==
  /\ phase = "measured" /\ BatchDone /\ batch = Measured
  /\ Mark("MeasuredEnd")
  /\ \/ phase' = "finished" /\ report' = Report(outcomes)
     \/ phase' = "unreported" /\ UNCHANGED report
  /\ UNCHANGED <<next, first, batch, task, arrived, outcomes>>

Client ==
  \/ Spawn \/ NextBatch \/ WarmupFailed \/ MarkWarmupEnd \/ StartMeasured \/ Finish
  \/ \E code \in {"ok", "connect_error", "connect_timeout"} : Connect(code)
  \/ \E i \in Indices : Arrive(i) \/ Write(i) \/ Expire(i) \/ Join(i)

Ended == phase \in {"finished", "unreported", "aborted"}
Done == Ended /\ UNCHANGED vars

Next ==
  \/ Client \/ Done
  \/ \E i \in Indices, code \in Codes : Respond(i, code)

\* The client's own steps run and its time limits expire; the endpoint owes
\* nothing.
Spec == Init /\ [][Next]_vars /\ WF_vars(Client)

-----------------------------------------------------------------------------
(* Properties *)

\* Types, and outcomes only for requests of the phase.
TypeOK ==
  /\ phase \in {"warmup", "measured", "finished", "unreported", "aborted"}
  /\ marks = SubSeq(Events, 1, Len(marks))
  /\ next \in 1..(Size(phase) + 1) /\ batch \in 0..Size(phase)
  /\ task \in [Indices -> {"none", "connected", "unconnected"} \cup Waiting \cup Codes]
  /\ arrived \subseteq Indices
  /\ outcomes \in Seq([index : Indices, code : Codes])

\* Whatever mixture of refused connections, time-outs, panics and failures a
\* run meets, its report has one record for each measured request, in order
\* (run_batch's two sources of outcomes; report.rs's planned and completed
\* request counts).
OneRecordEach ==
  phase = "finished" =>
    /\ Len(report) = Measured
    /\ \A i \in 1..Measured : report[i].index = i

\* A batch starts together: no request is written before every connection
\* attempt of the batch is over and every connected task has reached the
\* barrier (README.md:26).
BarrierTogether ==
  \A i \in Indices : task[i] \in {"writing", "reading"} =>
    next > batch /\ \A j \in Tasks : j \in arrived

\* At most Concurrency requests are under way, all of one batch.
WidthBounded ==
  Cardinality({i \in Indices : task[i] \in Waiting \cup {"connected"}}) <= Concurrency

\* The measured interval holds all of the measured work and nothing else:
\* nothing is connected, queued or in flight at a mark, so the wall time of
\* the report never includes warm-up traffic or omits a measured tail.
MarksAreQuiet ==
  [][marks' # marks =>
       \A i \in Indices : task[i] \notin Waiting \cup {"connected"}]_vars

\* A connected task never waits out its limit at a barrier that every other
\* connected task has reached: a refused connection shrinks the barrier.
BarrierReleases ==
  [][\A i \in Indices :
       task[i] = "barrier" /\ phase' = phase /\ task'[i] = "request_timeout" =>
         \E j \in Tasks : j \notin arrived]_vars

\* A run is measured only after a clean warm-up.
OnlyCleanMeasured ==
  [][phase = "warmup" /\ phase' = "measured" =>
       /\ Len(outcomes) = Warmups
       /\ \A k \in DOMAIN outcomes : outcomes[k].code = "ok"]_vars

\* The run ends although the endpoint may never answer.
RunEnds == <>Ended

\* Batches are as wide as configured, start together and lose no record.
BatchesAreSound == TypeOK /\ OneRecordEach /\ BarrierTogether /\ WidthBounded

\* What is between the two marks is the measured work alone.
MeasurementIsClean == MarksAreQuiet /\ OnlyCleanMeasured

\* Neither a refused connection nor a silent endpoint holds up the run.
BarrierHoldsNobody == BarrierReleases /\ RunEnds
=============================================================================
