-------------------------- MODULE HttpServiceProofs --------------------------
(***************************************************************************)
(* Proofs about the HTTP service, for any finite set of requests, whatever *)
(* IDs they bring and however many the engine takes at once: what the map, *)
(* the health flag and the metrics say is true, every native request has   *)
(* one owner, an end part is true, and closing admission is a boundary.    *)
(***************************************************************************)
EXTENDS HttpService, TLAPS, FiniteSetTheorems

-----------------------------------------------------------------------------
(* The inductive invariant.                                                *)

\* The job of r still holds its ActiveGuard.
Held(r) ==
  {"loop", "poll", "wait", "waitEnd", "dropSender", "dropGuard"} \cup Sending \cup
  (IF r \in Buffered THEN {} ELSE {"dropHandle"})

\* The outcome of r has been counted.
After(r) == IF r \in Buffered THEN {"dropHandle", "done"} ELSE {"done"}

\* The job of r has dropped its native request.
Dropped(r) ==
  {"done"} \cup (IF r \in Buffered THEN {} ELSE {"dropSender", "dropGuard", "count"})

\* What the engine knows of a request.
EngineOK(r) ==
  /\ heard[r] <= made[r]
  /\ status[r] = "idle" => r \notin slots
  /\ status[r] = "ended" => closed[r] /\ heard[r] = made[r]

\* A request has a job once it is spawned, and none before; the engine knows it
\* from its start on.
HandlerOK(r) ==
  /\ handler[r] \in {"new", "admit", "start", "spawn"} => job[r].pc = "none"
  /\ handler[r] \in {"await", "body"} => job[r].pc # "none"
  /\ status[r] = "idle" <=> (job[r].pc = "none" /\ handler[r] # "spawn")

\* A job that has waited for retirement without a time-out has no slot; one
\* that has seen the end has received everything; one that has dropped its
\* request has cancelled it.
JobOK(r) ==
  /\ r \in Buffered => job[r].pc \notin Sending \cup {"dropSender"}
  /\ job[r].pc \in {"none", "loop", "poll", "audio", "wait", "waitEnd", "end"} =>
       job[r].completion # "timedout"
  /\ job[r].pc \in {"end", "dropHandle", "dropSender", "dropGuard", "count", "done"} =>
       r \notin slots \/ job[r].completion = "timedout"
  /\ job[r].pc \in {"waitEnd", "end"} => status[r] = "ended"
  /\ job[r].pc \in Dropped(r) => status[r] # "live"
  /\ job[r].completion = "timedout" => ~healthy

\* Nobody has read or can read an untrue end part.
EndOK(r) ==
  (got[r] = "end" \/ "end" \in channel[r]) => (status[r] = "ended" /\ r \notin slots)

Local(r) == EngineOK(r) /\ HandlerOK(r) /\ JobOK(r) /\ EndOK(r)

InFlight(r) ==
  \/ handler[r] \in {"start", "spawn"}
  \/ job[r].pc # "none" /\ ~GuardDropped(r)
Late(r) == job[r].completion = "timedout" /\ GuardDropped(r)

\* The map names what is in flight.  Each tombstone stands for one request.
MapInv ==
  /\ \A r \in Requests : active[IdOf[r]] = r <=> InFlight(r)
  /\ \A r \in Requests : Late(r) => active[IdOf[r]] = "tombstone"
  /\ \A r, s \in Requests : Late(r) /\ Late(s) /\ IdOf[r] = IdOf[s] => r = s

\* The admission lock is held by who is about to call the engine, and nobody
\* is once admission has closed.
LockInv ==
  /\ \A r \in Requests : handler[r] = "start" <=> admission = r
  /\ shutdown => admission = "nobody"

\* The gauge counts the jobs whose outcome is still to be counted, and the
\* tombstones.
InGauge == {r \in Requests : job[r].pc # "none" /\ (job[r].pc \notin After(r) \/ job[r].completion = "timedout")}

GaugeInv ==
  /\ metrics.active = Cardinality(InGauge)
  /\ metrics.total + metrics.timeouts =
       metrics.active + metrics.completed + metrics.failed + metrics.cancelled

IInv == TypeOK /\ (\A r \in Requests : Local(r)) /\ MapInv /\ LockInv /\ GaugeInv

\* What the job of r becomes, with those of the others left alone.
JobBecomes(r, pc, completion) ==
  /\ job' \in [Requests -> Job]
  /\ job'[r].pc = pc /\ job'[r].completion = completion
  /\ \A s \in Requests : s # r => job'[s] = job[s]

\* What a step of the engine, or of its client, may do to a request that has
\* been started, or leaves alone.
EngineStep(r) ==
  /\ status' \in [Requests -> {"idle", "live", "ended", "cancelled", "failed"}]
  /\ made' \in [Requests -> 0 .. MaxFrames] /\ heard' \in [Requests -> 0 .. MaxFrames]
  /\ closed' \in [Requests -> BOOLEAN] /\ slots' \subseteq slots
  /\ \A s \in Requests : s # r =>
       /\ status'[s] = status[s] /\ made'[s] = made[s] /\ heard'[s] = heard[s]
       /\ closed'[s] = closed[s] /\ (s \in slots' <=> s \in slots)
  /\ EngineOK(r)'
  /\ status'[r] = "idle" <=> status[r] = "idle"
  /\ status[r] = "ended" => status'[r] = "ended"
  /\ status[r] # "live" => status'[r] # "live"

-----------------------------------------------------------------------------
(* Facts about the engine and about jobs.                                  *)

JobPcs == {"none", "loop", "poll", "wait", "waitEnd", "dropHandle", "dropSender",
           "dropGuard", "count", "done"} \cup Sending

\* The steps of the engine and of its clients are engine steps.
LEMMA EngineStutters ==
  ASSUME TypeOK, NEW r \in Requests, EngineOK(r), UNCHANGED engineVars
  PROVE  EngineStep(r)
BY DEF TypeOK, engineVars, EngineStep, EngineOK

LEMMA EngineGenerates ==
  ASSUME TypeOK, NEW r \in Requests, EngineOK(r), Engine!Generate(r)
  PROVE  EngineStep(r)
<1>1. /\ r \in slots /\ status[r] \in {"live", "cancelled"}
      /\ UNCHANGED <<status, heard, slots>>
  BY DEF Engine!Generate
<1>2. PICK n \in 1 .. MaxFrames - made[r] : made' = [made EXCEPT ![r] = @ + n]
  BY DEF Engine!Generate
<1>3. /\ made[r] \in 0 .. MaxFrames /\ heard[r] \in 0 .. MaxFrames /\ MaxFrames \in Nat
      /\ made[r] + n \in 0 .. MaxFrames
      /\ heard[r] <= made[r] => heard[r] <= made[r] + n
  BY <1>2, ServiceAssumption DEF TypeOK, ServiceAssumption
<1>4. /\ made' \in [Requests -> 0 .. MaxFrames] /\ made'[r] = made[r] + n
      /\ \A s \in Requests : s # r => made'[s] = made[s]
  BY <1>2, <1>3 DEF TypeOK
<1>5. closed' \in [Requests -> BOOLEAN] /\ \A s \in Requests : s # r => closed'[s] = closed[s]
  BY DEF TypeOK, Engine!Generate
<1>6. QED
  BY <1>1, <1>3, <1>4, <1>5 DEF EngineStep, EngineOK, TypeOK

LEMMA EngineDelivers ==
  ASSUME TypeOK, NEW r \in Requests, EngineOK(r), Engine!Deliver(r)
  PROVE  EngineStep(r)
<1>1. status[r] = "live" /\ UNCHANGED <<made, closed, slots>>
  BY DEF Engine!Deliver
<1>2. PICK n \in 1 .. made[r] - heard[r] : heard' = [heard EXCEPT ![r] = @ + n]
  BY DEF Engine!Deliver
<1>3. /\ made[r] \in 0 .. MaxFrames /\ heard[r] \in 0 .. MaxFrames /\ MaxFrames \in Nat
      /\ heard[r] + n \in 0 .. MaxFrames /\ heard[r] + n <= made[r]
  BY <1>2, ServiceAssumption DEF TypeOK, ServiceAssumption
<1>4. /\ heard' \in [Requests -> 0 .. MaxFrames] /\ heard'[r] = heard[r] + n
      /\ \A s \in Requests : s # r => heard'[s] = heard[s]
  BY <1>2, <1>3 DEF TypeOK
<1> DEFINE to == IF closed[r] /\ heard'[r] = made[r] THEN "ended" ELSE status[r]
<1>5. status' = [status EXCEPT ![r] = to]
  BY DEF Engine!Deliver
<1>6. to \in {"live", "ended"} /\ (to = "ended" => closed[r] /\ heard'[r] = made[r])
  BY <1>1
<1> HIDE DEF to
<1>7. /\ status' \in [Requests -> {"idle", "live", "ended", "cancelled", "failed"}] /\ status'[r] = to
      /\ \A s \in Requests : s # r => status'[s] = status[s]
  BY <1>5, <1>6 DEF TypeOK
<1>8. QED
  BY <1>1, <1>3, <1>4, <1>6, <1>7 DEF EngineStep, EngineOK, TypeOK

LEMMA EngineCancels ==
  ASSUME TypeOK, NEW r \in Requests, EngineOK(r), RequestCancel(r)
  PROVE  EngineStep(r) /\ status'[r] # "live"
<1>1. CASE status[r] = "live"
  <2>1. /\ status' = [status EXCEPT ![r] = "cancelled"] /\ closed' = [closed EXCEPT ![r] = FALSE]
        /\ UNCHANGED <<made, heard, slots>>
    BY <1>1 DEF RequestCancel, Engine!Cancel
  <2>2. QED
    BY <1>1, <2>1 DEF EngineStep, EngineOK, TypeOK
<1>2. CASE status[r] # "live"
  BY <1>2, EngineStutters DEF RequestCancel, engineVars
<1>3. QED
  BY <1>1, <1>2

LEMMA EngineFails ==
  ASSUME TypeOK, NEW r \in Requests, EngineOK(r), Engine!Fail(r)
  PROVE  EngineStep(r)
<1>1. /\ r \in slots /\ status[r] \in {"live", "cancelled"}
      /\ status' = [status EXCEPT ![r] = "failed"] /\ closed' = [closed EXCEPT ![r] = FALSE]
      /\ UNCHANGED <<made, heard, slots>>
  BY DEF Engine!Fail
<1>2. QED
  BY <1>1 DEF EngineStep, EngineOK, TypeOK

LEMMA EngineReturns ==
  ASSUME TypeOK, NEW r \in Requests, EngineOK(r), Engine!Return(r)
  PROVE  EngineStep(r)
<1>1. slots' = slots \ {r} /\ UNCHANGED <<status, made, heard, closed>>
  BY DEF Engine!Return
<1>2. QED
  BY <1>1 DEF EngineStep, EngineOK, TypeOK

\* The forms in which the program sets the state of a job.
LEMMA JobPcSet ==
  ASSUME TypeOK, NEW r \in Requests, NEW pc \in JobPcs, job' = [job EXCEPT ![r].pc = pc]
  PROVE  JobBecomes(r, pc, job[r].completion)
BY SMTT(60) DEF TypeOK, Job, JobPcs, JobBecomes

LEMMA JobSet ==
  ASSUME TypeOK, NEW r \in Requests, NEW pc \in JobPcs, NEW c \in Completions,
         job' = [job EXCEPT ![r].pc = pc, ![r].completion = c]
  PROVE  JobBecomes(r, pc, c)
<1> DEFINE Sents == {"ok", "Cancelled", "Disconnected", "TimedOut"}
           j == [pc |-> pc, completion |-> c, sent |-> job[r].sent]
           i == [job[r] EXCEPT !.pc = pc]
<1>1. Job = [pc : JobPcs, completion : Completions, sent : Sents] /\ job \in [Requests -> Job]
  BY DEF TypeOK, Job, JobPcs
<1> HIDE DEF Sents
<1>2. job[r] \in [pc : JobPcs, completion : Completions, sent : Sents]
  BY <1>1
<1>3. i = [pc |-> pc, completion |-> job[r].completion, sent |-> job[r].sent]
  BY <1>2
<1>4. [job[r] EXCEPT !.pc = pc, !.completion = c] = [i EXCEPT !.completion = c]
  OBVIOUS
<1> HIDE DEF i
<1>5. [i EXCEPT !.completion = c] = j
  BY <1>3
<1>6. j \in Job /\ j.pc = pc /\ j.completion = c
  BY <1>1, <1>2
<1>7. job' = [job EXCEPT ![r] = j]
  BY <1>1, <1>4, <1>5
<1> HIDE DEF j
<1>8. job' \in [Requests -> Job] /\ job'[r] = j /\ \A s \in Requests : s # r => job'[s] = job[s]
  BY <1>1, <1>6, <1>7, ZenonT(60)
<1>9. QED
  BY <1>6, <1>8 DEF JobBecomes

\* A request that a step leaves alone stays as it was; an engine turns only
\* unhealthy.
LEMMA Untouched ==
  ASSUME TypeOK, NEW s \in Requests, Local(s), healthy' => healthy,
         status'[s] = status[s], made'[s] = made[s], heard'[s] = heard[s],
         closed'[s] = closed[s], s \in slots' <=> s \in slots,
         handler'[s] = handler[s], job'[s] = job[s], channel'[s] = channel[s], got'[s] = got[s]
  PROVE  Local(s)'
<1>1. EngineOK(s)' /\ HandlerOK(s)'
  BY DEF Local, EngineOK, HandlerOK
<1>2. JobOK(s)' /\ EndOK(s)'
  BY DEF Local, JobOK, EndOK
<1>3. QED
  BY <1>1, <1>2 DEF Local

\* The end part stays true.
LEMMA EndKept ==
  ASSUME NEW r \in Requests, EndOK(r), EngineStep(r),
         channel'[r] = channel[r], got'[r] = got[r]
  PROVE  EndOK(r)'
BY DEF EndOK, EngineStep

\* A job in which only the engine has moved.
LEMMA JobKept ==
  ASSUME NEW r \in Requests, JobOK(r), EngineStep(r), job'[r] = job[r], UNCHANGED healthy
  PROVE  JobOK(r)'
BY DEF JobOK, EngineStep

\* The map stays right while nobody takes off or lands.
LEMMA MapKept ==
  ASSUME MapInv, UNCHANGED active,
         \A s \in Requests : (InFlight(s)' <=> InFlight(s)) /\ (Late(s)' <=> Late(s))
  PROVE  MapInv'
BY DEF MapInv

\* A job keeps its guard, or has none and ends.
Stays(r, pc, completion) ==
  \/ job[r].pc \in Held(r) /\ pc \in Held(r)
  \/ r \in Buffered /\ job[r].pc = "dropHandle" /\ pc = "done" /\ completion = job[r].completion

LEMMA GuardFacts ==
  ASSUME NEW r \in Requests, NEW pc, NEW c, JobBecomes(r, pc, c), Stays(r, pc, c)
  PROVE  /\ job[r].pc # "none" /\ job'[r].pc # "none"
         /\ GuardDropped(r)' <=> GuardDropped(r)
         /\ job'[r].pc \in After(r) <=> job[r].pc \in After(r)
         /\ GuardDropped(r) \/ job[r].pc \in After(r) => job'[r].completion = job[r].completion
BY DEF JobBecomes, Stays, Held, GuardDropped, After, Sending

\* A step of a job that keeps its guard or has none.
LEMMA JobStepKeeps ==
  ASSUME IInv, NEW r \in Requests, NEW pc, NEW c, Stays(r, pc, c),
         JobBecomes(r, pc, c), EngineStep(r), healthy' \in BOOLEAN, healthy' => healthy,
         UNCHANGED <<shutdown, admission, token, handler, permit, active, metrics>>,
         channel' \in [Requests -> SUBSET Parts], got' \in [Requests -> Parts],
         \A s \in Requests : s # r => channel'[s] = channel[s] /\ got'[s] = got[s],
         JobOK(r)', EndOK(r)'
  PROVE  IInv'
<1>1. TypeOK /\ Local(r) /\ MapInv /\ LockInv /\ GaugeInv
  BY DEF IInv
<1>2. TypeOK'
  BY <1>1 DEF TypeOK, EngineStep, JobBecomes
<1>3. /\ job[r].pc # "none" /\ job'[r].pc # "none"
      /\ GuardDropped(r)' <=> GuardDropped(r)
      /\ job'[r].pc \in After(r) <=> job[r].pc \in After(r)
      /\ GuardDropped(r) \/ job[r].pc \in After(r) => job'[r].completion = job[r].completion
  BY GuardFacts
<1>4. ASSUME NEW s \in Requests PROVE Local(s)'
  <2>1. CASE s # r
    <3>1. Local(s)
      BY DEF IInv
    <3>2. /\ status'[s] = status[s] /\ made'[s] = made[s] /\ heard'[s] = heard[s]
          /\ closed'[s] = closed[s] /\ (s \in slots' <=> s \in slots)
      BY <2>1 DEF EngineStep
    <3>3. handler'[s] = handler[s] /\ job'[s] = job[s] /\ channel'[s] = channel[s] /\ got'[s] = got[s]
      BY <2>1 DEF JobBecomes
    <3>4. QED
      BY <1>1, <3>1, <3>2, <3>3, Untouched
  <2>2. CASE s = r
    <3>1. EngineOK(r)'
      BY DEF EngineStep
    <3>2. HandlerOK(r)'
      BY <1>1, <1>3 DEF Local, HandlerOK, EngineStep
    <3>3. QED
      BY <2>2, <3>1, <3>2 DEF Local
  <2>3. QED
    BY <2>1, <2>2
<1>5. ASSUME NEW s \in Requests PROVE (InFlight(s)' <=> InFlight(s)) /\ (Late(s)' <=> Late(s))
  <2>1. CASE s # r
    BY <2>1 DEF JobBecomes, InFlight, Late, GuardDropped
  <2>2. CASE s = r
    BY <1>3, <2>2 DEF InFlight, Late
  <2>3. QED
    BY <2>1, <2>2
<1>6. MapInv'
  BY <1>1, <1>5, MapKept
<1>7. GaugeInv'
  <2>1. \A s \in Requests : s # r => job'[s] = job[s]
    BY DEF JobBecomes
  <2>2. InGauge' = InGauge
    BY <1>3, <2>1 DEF InGauge, After
  <2>3. QED
    BY <1>1, <2>2 DEF GaugeInv
<1>8. LockInv'
  BY <1>1 DEF LockInv
<1>9. QED
  BY <1>2, <1>4, <1>6, <1>7, <1>8 DEF IInv

-----------------------------------------------------------------------------
(* The steps of a job keep the invariant.                                  *)

LEMMA JobFacts ==
  ASSUME IInv, NEW r \in Requests
  PROVE  /\ TypeOK /\ Local(r) /\ EngineOK(r) /\ HandlerOK(r) /\ JobOK(r) /\ EndOK(r)
         /\ job[r].pc \in JobPcs /\ job[r].completion \in Completions /\ healthy \in BOOLEAN
         /\ channel \in [Requests -> SUBSET Parts] /\ got \in [Requests -> Parts]
BY DEF IInv, TypeOK, Local, Job, JobPcs

\* A step that leaves the body channel and the metrics alone.
LEMMA QuietKeeps ==
  ASSUME IInv, NEW r \in Requests, NEW pc, NEW c, Stays(r, pc, c),
         JobBecomes(r, pc, c), EngineStep(r), healthy' \in BOOLEAN, healthy' => healthy,
         UNCHANGED <<loopFrame, streamVars>>, JobOK(r)'
  PROVE  IInv'
<1>1. /\ UNCHANGED <<shutdown, admission, token, handler, permit, active, metrics, channel, got>>
      /\ EndOK(r) /\ channel \in [Requests -> SUBSET Parts] /\ got \in [Requests -> Parts]
  BY JobFacts DEF loopFrame, jobFrame, responseVars, streamVars
<1>2. EndOK(r)'
  BY <1>1, EndKept
<1>3. QED
  BY <1>1, <1>2, JobStepKeeps

\* A job that gives up.
LEMMA GiveUpKeeps ==
  ASSUME IInv, NEW r \in Requests, NEW c \in {"cancelled", "failed"}, GiveUp(r, c),
         job[r].pc \in {"loop", "poll"}, EngineStep(r), healthy' \in BOOLEAN, healthy' => healthy,
         UNCHANGED <<loopFrame, streamVars>>
  PROVE  IInv'
<1> DEFINE pc == IF r \in Buffered THEN "wait" ELSE "error"
<1>1. TypeOK /\ JobOK(r)
  BY JobFacts
<1>2. pc \in JobPcs /\ pc \in Held(r) /\ job[r].pc \in Held(r) /\ c \in Completions
  BY DEF JobPcs, Held, Sending, Completions
<1>3. JobBecomes(r, pc, c)
  BY <1>1, <1>2, JobSet DEF GiveUp
<1>4. pc \in {"wait", "error"} /\ (r \in Buffered => pc = "wait")
  OBVIOUS
<1> HIDE DEF pc
<1>5. JobOK(r)'
  BY <1>3, <1>4 DEF JobOK, JobBecomes, Sending, Dropped
<1>6. QED
  BY <1>2, <1>3, <1>5, QuietKeeps DEF Stays

LEMMA CheckTokenKeeps ==
  ASSUME IInv, NEW r \in Requests, CheckToken(r)
  PROVE  IInv'
<1>1. /\ TypeOK /\ EngineOK(r) /\ JobOK(r) /\ job[r].pc = "loop" /\ healthy' = healthy /\ healthy \in BOOLEAN
      /\ UNCHANGED <<loopFrame, streamVars>>
  BY JobFacts DEF CheckToken
<1>2. CASE Cancelled(r)
  <2>1. RequestCancel(r) /\ GiveUp(r, "cancelled")
    BY <1>2 DEF CheckToken
  <2>2. EngineStep(r)
    BY <1>1, <2>1, EngineCancels
  <2>3. QED
    BY <1>1, <2>1, <2>2, GiveUpKeeps
<1>3. CASE ~Cancelled(r)
  <2>1. job' = [job EXCEPT ![r].pc = "poll"] /\ UNCHANGED engineVars
    BY <1>3 DEF CheckToken
  <2>2. EngineStep(r)
    BY <1>1, <2>1, EngineStutters
  <2>3. /\ "poll" \in JobPcs /\ "poll" \in Held(r) /\ job[r].pc \in Held(r)
        /\ JobBecomes(r, "poll", job[r].completion)
    BY <1>1, <2>1, JobPcSet DEF JobPcs, Held
  <2>4. JobOK(r)'
    BY <1>1, <2>3 DEF JobOK, JobBecomes, Sending, Dropped
  <2>5. QED
    BY <1>1, <2>2, <2>3, <2>4, QuietKeeps DEF Stays
<1>4. QED
  BY <1>2, <1>3

\* A poll returns nothing, a packet or the end.
LEMMA PollKeeps ==
  ASSUME IInv, NEW r \in Requests, PollWouldBlock(r) \/ PollPacket(r) \/ PollEnd(r)
  PROVE  IInv'
<1>1. /\ TypeOK /\ EngineOK(r) /\ JobOK(r) /\ job[r].pc = "poll" /\ healthy' = healthy /\ healthy \in BOOLEAN
      /\ UNCHANGED <<loopFrame, streamVars>>
  BY JobFacts DEF PollWouldBlock, PollPacket, PollEnd
<1>2. EngineStep(r)
  BY <1>1, EngineStutters, EngineDelivers DEF PollWouldBlock, PollPacket, PollEnd
<1>3. PICK pc \in {"loop", "audio", "waitEnd"} :
        /\ job' = [job EXCEPT ![r].pc = pc]
        /\ pc = "audio" => r \notin Buffered
        /\ pc = "waitEnd" => status[r] = "ended"
  BY DEF PollWouldBlock, PollPacket, PollEnd
<1>4. /\ pc \in JobPcs /\ pc \in Held(r) /\ job[r].pc \in Held(r)
      /\ JobBecomes(r, pc, job[r].completion)
  BY <1>1, <1>3, JobPcSet DEF JobPcs, Held, Sending
<1>5. JobOK(r)'
  BY <1>1, <1>2, <1>3, <1>4 DEF JobOK, JobBecomes, Sending, Dropped, EngineStep
<1>6. QED
  BY <1>1, <1>2, <1>4, <1>5, QuietKeeps DEF Stays

LEMMA PollFailsKeeps ==
  ASSUME IInv, NEW r \in Requests, PollRefused(r) \/ PollError(r)
  PROVE  IInv'
<1>1. /\ TypeOK /\ EngineOK(r) /\ job[r].pc = "poll" /\ healthy \in BOOLEAN
      /\ UNCHANGED <<loopFrame, streamVars>>
  BY JobFacts DEF PollRefused, PollError
<1>2. CASE PollRefused(r)
  <2>1. RequestCancel(r) /\ GiveUp(r, "failed") /\ healthy' = healthy
    BY <1>2 DEF PollRefused
  <2>2. EngineStep(r)
    BY <1>1, <2>1, EngineCancels
  <2>3. QED
    BY <1>1, <2>1, <2>2, GiveUpKeeps
<1>3. CASE PollError(r)
  <2>1. /\ GiveUp(r, status[r]) /\ status[r] \in {"cancelled", "failed"} /\ UNCHANGED engineVars
        /\ healthy' \in BOOLEAN /\ (healthy' => healthy)
    BY <1>1, <1>3 DEF PollError
  <2>2. EngineStep(r)
    BY <1>1, <2>1, EngineStutters
  <2>3. QED
    BY <1>1, <2>1, <2>2, GiveUpKeeps
<1>4. QED
  BY <1>2, <1>3

\* What the job does after a send.
LEMMA AfterSendEffect ==
  ASSUME IInv, NEW r \in Requests, job[r].pc \in Sending, UNCHANGED healthy,
         NEW result \in {"ok", "Cancelled", "Disconnected", "TimedOut"}, AfterSend(r, result)
  PROVE  /\ EngineStep(r) /\ JobOK(r)' /\ job[r].pc \in Held(r)
         /\ \E pc \in Held(r), c \in Completions : JobBecomes(r, pc, c)
<1> DEFINE part == job[r].pc
           undelivered == part = "audio" /\ result # "ok"
           completion == CASE part = "end" -> IF result = "ok" THEN "completed" ELSE "cancelled"
                           [] undelivered  -> "cancelled"
                           [] OTHER        -> job[r].completion
           next == CASE part = "audio" /\ result = "ok"           -> "loop"
                     [] part = "end" \/ completion = "timedout"   -> "dropHandle"
                     [] OTHER                                     -> "wait"
<1>1. /\ TypeOK /\ EngineOK(r) /\ JobOK(r) /\ r \notin Buffered /\ part \in {"audio", "end", "error"}
      /\ job[r].completion \in Completions /\ job[r].pc \in Held(r)
  BY JobFacts DEF JobOK, Sending, Held
<1>2. EngineStep(r)
  BY <1>1, EngineCancels, EngineStutters DEF AfterSend
<1>3. job' = [job EXCEPT ![r] = [pc |-> next, completion |-> completion, sent |-> result]]
  BY DEF AfterSend
<1>4. /\ completion \in Completions
      /\ part = "audio" /\ result = "ok" => completion = job[r].completion
      /\ part = "audio" /\ result # "ok" => completion = "cancelled"
      /\ part = "end" => completion # "timedout"
      /\ part = "error" => completion = job[r].completion
  BY <1>1 DEF Completions
<1> HIDE DEF completion
<1>5. /\ part = "audio" /\ result = "ok" => next = "loop"
      /\ part = "audio" /\ result # "ok" => next \in {"dropHandle", "wait"}
      /\ part = "end" => next = "dropHandle"
      /\ part = "error" => next \in {"dropHandle", "wait"}
      /\ part # "end" /\ next = "dropHandle" => completion = "timedout"
      /\ next = "wait" => completion # "timedout"
  <2>1. CASE part = "audio" /\ result = "ok"
    <3>1. completion # "timedout"
      BY <1>1, <1>4, <2>1 DEF JobOK
    <3>2. next = "loop"
      BY <2>1, <3>1
    <3>3. QED
      BY <2>1, <3>2
  <2>2. CASE part = "end"
    BY <2>2
  <2>3. CASE completion = "timedout" /\ part # "end" /\ ~(part = "audio" /\ result = "ok")
    BY <2>3
  <2>4. CASE completion # "timedout" /\ part # "end" /\ ~(part = "audio" /\ result = "ok")
    BY <2>4
  <2>5. QED
    BY <2>1, <2>2, <2>3, <2>4
<1>6. next \in {"loop", "dropHandle", "wait"}
  BY <1>1, <1>5
<1> HIDE DEF next
<1>7. JobBecomes(r, next, completion) /\ next \in Held(r)
  <2> DEFINE j == [pc |-> next, completion |-> completion, sent |-> result]
  <2>1. j \in Job /\ j.pc = next /\ j.completion = completion
    BY <1>4, <1>6 DEF Job
  <2>2. next \in Held(r)
    BY <1>1, <1>6 DEF Held
  <2> HIDE DEF j
  <2>3. job' \in [Requests -> Job] /\ job'[r] = j /\ \A s \in Requests : s # r => job'[s] = job[s]
    BY <1>1, <1>3, <2>1 DEF TypeOK, j
  <2>4. QED
    BY <2>1, <2>2, <2>3 DEF JobBecomes
<1>8. next = "dropHandle" => r \notin slots \/ completion = "timedout"
  BY <1>1, <1>4, <1>5 DEF JobOK
<1>9. next \in {"loop", "wait"} => completion # "timedout"
  BY <1>1, <1>4, <1>5 DEF JobOK
<1>10. completion = "timedout" => ~healthy
  BY <1>1, <1>4 DEF JobOK
<1>11. JobOK(r)'
  BY <1>1, <1>2, <1>6, <1>7, <1>8, <1>9, <1>10 DEF JobOK, JobBecomes, EngineStep, Dropped, Sending
<1>12. QED
  BY <1>1, <1>2, <1>4, <1>7, <1>11

LEMMA SendKeeps ==
  ASSUME IInv, NEW r \in Requests, SendOk(r) \/ SendError(r)
  PROVE  IInv'
<1>1. /\ TypeOK /\ JobOK(r) /\ EndOK(r) /\ job[r].pc \in Sending
      /\ UNCHANGED loopFrame /\ healthy' = healthy /\ healthy \in BOOLEAN /\ got' = got
      /\ channel \in [Requests -> SUBSET Parts] /\ got \in [Requests -> Parts]
  BY JobFacts DEF SendOk, SendError, streamVars
<1>2. PICK result \in {"ok", "Cancelled", "Disconnected", "TimedOut"} : AfterSend(r, result)
  BY DEF SendOk, SendError
<1>3. EngineStep(r) /\ JobOK(r)' /\ job[r].pc \in Held(r)
  BY <1>1, <1>2, AfterSendEffect
<1>4. PICK pc \in Held(r), c \in Completions : JobBecomes(r, pc, c)
  BY <1>1, <1>2, AfterSendEffect
<1>5. /\ channel' \in [Requests -> SUBSET Parts]
      /\ \A s \in Requests : s # r => channel'[s] = channel[s]
      /\ channel'[r] \in {channel[r], {job[r].pc}}
  BY <1>1 DEF SendOk, SendError, streamVars, Parts
<1>6. EndOK(r)'
  BY <1>1, <1>3, <1>5 DEF EndOK, JobOK, EngineStep
<1>7. UNCHANGED <<shutdown, admission, token, handler, permit, active, metrics>>
  BY <1>1 DEF loopFrame, jobFrame, responseVars
<1>8. QED
  BY <1>1, <1>3, <1>4, <1>5, <1>6, <1>7, JobStepKeeps DEF Stays

\* The wait for retirement ends, with the slot returned or without.
LEMMA WaitKeeps ==
  ASSUME IInv, NEW r \in Requests, WaitRetired(r) \/ WaitEndRetired(r) \/ RetirementTimeout(r)
  PROVE  IInv'
<1>1. /\ TypeOK /\ EngineOK(r) /\ JobOK(r) /\ job[r].pc \in {"wait", "waitEnd"}
      /\ job[r].completion \in Completions /\ healthy \in BOOLEAN
      /\ UNCHANGED <<loopFrame, engineVars, streamVars>>
      /\ healthy' \in BOOLEAN /\ (healthy' => healthy)
  <2>1. TypeOK /\ EngineOK(r) /\ JobOK(r) /\ job[r].completion \in Completions /\ healthy \in BOOLEAN
    BY JobFacts
  <2>2. job[r].pc \in {"wait", "waitEnd"}
    BY DEF WaitRetired, WaitEndRetired, RetirementTimeout
  <2>3. UNCHANGED <<loopFrame, engineVars, streamVars>>
    BY DEF WaitRetired, WaitEndRetired, RetirementTimeout
  <2>4. healthy' = healthy \/ healthy' = FALSE
    BY DEF WaitRetired, WaitEndRetired, RetirementTimeout
  <2>5. healthy' \in BOOLEAN
    BY <2>1, <2>4
  <2>6. healthy' => healthy
    BY <2>4, Zenon
  <2>7. QED
    BY <2>1, <2>2, <2>3, <2>5, <2>6
<1>2. EngineStep(r) /\ UNCHANGED <<status, slots>>
  BY <1>1, EngineStutters DEF engineVars
<1>3. PICK pc \in {"dropGuard", "dropHandle", "end", "error"}, c \in Completions :
        /\ JobBecomes(r, pc, c)
        /\ r \in Buffered => pc = "dropGuard"
        /\ pc = "dropGuard" => r \in Buffered
        /\ pc = "error" => c = "timedout"
        /\ pc = "end" => status[r] = "ended" /\ c # "timedout"
        /\ r \notin slots \/ c = "timedout"
        /\ c = "timedout" => ~healthy'
  <2>1. CASE WaitRetired(r)
    <3> DEFINE pc == IF r \in Buffered THEN "dropGuard" ELSE "dropHandle"
    <3>1. /\ job' = [job EXCEPT ![r].pc = pc] /\ r \notin slots /\ healthy' = healthy
          /\ job[r].pc = "wait"
      BY <2>1 DEF WaitRetired, Retired
    <3>2. JobBecomes(r, pc, job[r].completion)
      BY <1>1, <3>1, JobPcSet DEF JobPcs
    <3>3. job[r].completion # "timedout"
      BY <1>1, <3>1 DEF JobOK
    <3>4. QED
      BY <1>1, <3>1, <3>2, <3>3
  <2>2. CASE WaitEndRetired(r) /\ r \in Buffered
    <3>1. PICK c \in {"completed", job[r].completion} :
            job' = [job EXCEPT ![r].pc = "dropGuard", ![r].completion = c]
      BY <2>2 DEF WaitEndRetired
    <3>2. r \notin slots /\ healthy' = healthy /\ job[r].pc = "waitEnd"
      BY <2>2 DEF WaitEndRetired, Retired
    <3>3. c \in Completions /\ c # "timedout"
      BY <1>1, <3>2 DEF JobOK, Completions
    <3>4. JobBecomes(r, "dropGuard", c)
      BY <1>1, <3>1, <3>3, JobSet DEF JobPcs
    <3>5. QED
      BY <2>2, <3>2, <3>3, <3>4
  <2>3. CASE WaitEndRetired(r) /\ r \notin Buffered
    <3>1. /\ job' = [job EXCEPT ![r].pc = "end"] /\ job[r].pc = "waitEnd"
          /\ r \notin slots /\ healthy' = healthy
      BY <2>3 DEF WaitEndRetired, Retired
    <3>2. JobBecomes(r, "end", job[r].completion)
      BY <1>1, <3>1, JobPcSet DEF JobPcs, Sending
    <3>3. status[r] = "ended" /\ job[r].completion # "timedout"
      BY <1>1, <3>1 DEF JobOK
    <3>4. QED
      BY <1>1, <2>3, <3>1, <3>2, <3>3
  <2>4. CASE RetirementTimeout(r)
    <3> DEFINE pc == IF r \in Buffered THEN "dropGuard"
                     ELSE IF job[r].pc = "wait" THEN "dropHandle" ELSE "error"
    <3>1. job' = [job EXCEPT ![r].pc = pc, ![r].completion = "timedout"] /\ healthy' = FALSE
      BY <1>1, <2>4 DEF RetirementTimeout, TypeOK
    <3>2. pc \in JobPcs /\ "timedout" \in Completions
      BY DEF JobPcs, Sending, Completions
    <3>3. pc \in {"dropGuard", "dropHandle", "error"} /\ (r \in Buffered <=> pc = "dropGuard")
      OBVIOUS
    <3> HIDE DEF pc
    <3>4. JobBecomes(r, pc, "timedout")
      BY <1>1, <3>1, <3>2, JobSet
    <3>5. QED
      BY <3>1, <3>2, <3>3, <3>4
  <2>5. QED
    BY <2>1, <2>2, <2>3, <2>4
<1>4. pc \in Held(r) /\ job[r].pc \in Held(r)
  BY <1>1, <1>3 DEF Held, Sending
<1>5. JobOK(r)'
  BY <1>1, <1>2, <1>3 DEF JobOK, JobBecomes, Dropped, Sending
<1>6. QED
  BY <1>1, <1>2, <1>3, <1>4, <1>5, QuietKeeps DEF Stays

\* The job drops its request, and its sender.
LEMMA DropHandleKeeps ==
  ASSUME IInv, NEW r \in Requests, DropHandle(r) \/ DropSender(r)
  PROVE  IInv'
<1>1. /\ TypeOK /\ EngineOK(r) /\ JobOK(r) /\ healthy' = healthy /\ healthy \in BOOLEAN
      /\ job[r].pc \in {"dropHandle", "dropSender"} /\ UNCHANGED <<loopFrame, streamVars>>
  BY JobFacts DEF DropHandle, DropSender
<1>2. CASE DropHandle(r)
  <2> DEFINE pc == IF r \in Buffered THEN "done" ELSE "dropSender"
  <2>1. RequestCancel(r) /\ job' = [job EXCEPT ![r].pc = pc] /\ job[r].pc = "dropHandle"
    BY <1>2 DEF DropHandle
  <2>2. EngineStep(r) /\ status'[r] # "live"
    BY <1>1, <2>1, EngineCancels
  <2>3. JobBecomes(r, pc, job[r].completion)
    BY <1>1, <2>1, JobPcSet DEF JobPcs
  <2>4. Stays(r, pc, job[r].completion)
    BY <2>1 DEF Stays, Held
  <2>5. (r \in Buffered => pc = "done") /\ (r \notin Buffered => pc = "dropSender")
    OBVIOUS
  <2> HIDE DEF pc
  <2>6. JobOK(r)'
    BY <1>1, <2>1, <2>2, <2>3, <2>5 DEF JobOK, JobBecomes, EngineStep, Sending
  <2>7. QED
    BY <1>1, <2>2, <2>3, <2>4, <2>6, QuietKeeps
<1>3. CASE DropSender(r)
  <2>1. job' = [job EXCEPT ![r].pc = "dropGuard"] /\ job[r].pc = "dropSender" /\ UNCHANGED engineVars
    BY <1>3 DEF DropSender
  <2>2. EngineStep(r) /\ UNCHANGED <<status, slots>>
    BY <1>1, <2>1, EngineStutters DEF engineVars
  <2>3. JobBecomes(r, "dropGuard", job[r].completion)
    BY <1>1, <2>1, JobPcSet DEF JobPcs
  <2>4. Stays(r, "dropGuard", job[r].completion)
    BY <2>1 DEF Stays, Held
  <2>5. r \notin Buffered /\ status[r] # "live"
    BY <1>1, <2>1 DEF JobOK, Dropped
  <2>6. JobOK(r)'
    BY <1>1, <2>1, <2>2, <2>3, <2>5 DEF JobOK, JobBecomes, Sending, Dropped
  <2>7. QED
    BY <1>1, <2>2, <2>3, <2>4, <2>6, QuietKeeps
<1>4. QED
  BY <1>2, <1>3

\* What else than the job's own steps keeps the state of each request.
LEMMA OthersKeep ==
  ASSUME IInv, NEW r \in Requests, UNCHANGED <<engineVars, channel, got, handler>>, healthy' = healthy,
         NEW pc, NEW c, JobBecomes(r, pc, c), job[r].pc # "none", pc # "none", JobOK(r)'
  PROVE  \A s \in Requests : Local(s)'
<1>1. UNCHANGED <<status, made, heard, closed, slots>>
  BY DEF engineVars
<1>2. TypeOK /\ Local(r)
  BY DEF IInv
<1>3. ASSUME NEW s \in Requests, s # r PROVE Local(s)'
  <2>1. Local(s) /\ job'[s] = job[s]
    BY <1>3 DEF IInv, JobBecomes
  <2>2. QED
    BY <1>1, <1>2, <2>1, Untouched
<1>4. Local(r)'
  <2>1. EngineOK(r)' /\ EndOK(r)'
    BY <1>1, <1>2 DEF Local, EngineOK, EndOK
  <2>2. HandlerOK(r)'
    BY <1>1, <1>2 DEF Local, HandlerOK, JobBecomes
  <2>3. QED
    BY <2>1, <2>2 DEF Local
<1>5. QED
  BY <1>3, <1>4

\* The guard leaves the map: the entry, or a tombstone in its place.
LEMMA DropGuardKeeps ==
  ASSUME IInv, NEW r \in Requests, DropGuard(r)
  PROVE  IInv'
<1>1. /\ TypeOK /\ Local(r) /\ EngineOK(r) /\ HandlerOK(r) /\ JobOK(r) /\ MapInv /\ LockInv /\ GaugeInv
  BY JobFacts DEF IInv
<1>2. /\ job[r].pc = "dropGuard" /\ job' = [job EXCEPT ![r].pc = "count"]
      /\ UNCHANGED <<shutdown, admission, token, handler, permit, metrics, engineVars, channel, got>>
      /\ healthy' = healthy
  BY DEF DropGuard, jobFrame, responseVars, streamVars
<1>3. JobBecomes(r, "count", job[r].completion)
  BY <1>1, <1>2, JobPcSet DEF JobPcs
<1>4. JobOK(r)'
  BY <1>1, <1>2, <1>3 DEF JobOK, JobBecomes, Sending, Dropped, engineVars
<1>5. \A s \in Requests : Local(s)'
  BY <1>2, <1>3, <1>4, OthersKeep
<1> DEFINE to == IF job[r].completion = "timedout" THEN "tombstone" ELSE "vacant"
<1>6. IdOf \in [Requests -> Ids] /\ \A s \in Requests : s \notin {"nobody", "vacant", "tombstone"}
  BY ServiceAssumption DEF ServiceAssumption
<1>7. /\ to \in {"vacant", "tombstone"} /\ active' = [active EXCEPT ![IdOf[r]] = to]
      /\ (job[r].completion = "timedout" => to = "tombstone")
  BY DEF DropGuard
<1> HIDE DEF to
<1>8. /\ active' \in [Ids -> Requests \cup {"vacant", "tombstone"}] /\ active'[IdOf[r]] = to
      /\ \A s \in Requests : IdOf[s] # IdOf[r] => active'[IdOf[s]] = active[IdOf[s]]
      /\ \A s \in Requests : IdOf[s] = IdOf[r] => active'[IdOf[s]] = to
  BY <1>1, <1>6, <1>7 DEF TypeOK
<1>9. TypeOK'
  BY <1>1, <1>2, <1>3, <1>8 DEF TypeOK, JobBecomes, engineVars
<1>10. /\ InFlight(r) /\ ~Late(r) /\ ~InFlight(r)' /\ (Late(r)' <=> job[r].completion = "timedout")
  <2>1. ~GuardDropped(r) /\ GuardDropped(r)'
    BY <1>2, <1>3 DEF GuardDropped, JobBecomes
  <2>2. handler'[r] \notin {"start", "spawn"}
    BY <1>1, <1>2 DEF HandlerOK
  <2>3. QED
    BY <1>2, <1>3, <2>1, <2>2 DEF InFlight, Late, JobBecomes
<1>11. \A s \in Requests : s # r => (InFlight(s)' <=> InFlight(s)) /\ (Late(s)' <=> Late(s))
  BY <1>2, <1>3 DEF InFlight, Late, GuardDropped, JobBecomes
<1>12. \A s \in Requests : s # r /\ IdOf[s] = IdOf[r] => ~InFlight(s) /\ ~Late(s)
  BY <1>1, <1>6, <1>10 DEF MapInv
<1>13. MapInv'
  <2>1. ASSUME NEW s \in Requests PROVE active'[IdOf[s]] = s <=> InFlight(s)'
    <3>1. CASE IdOf[s] = IdOf[r]
      BY <1>6, <1>7, <1>8, <1>10, <1>11, <1>12, <3>1
    <3>2. CASE IdOf[s] # IdOf[r]
      BY <1>1, <1>8, <1>11, <3>2 DEF MapInv
    <3>3. QED
      BY <3>1, <3>2
  <2>2. ASSUME NEW s \in Requests, Late(s)' PROVE active'[IdOf[s]] = "tombstone"
    <3>1. CASE s = r
      BY <1>7, <1>8, <1>10, <2>2, <3>1
    <3>2. CASE s # r
      <4>1. Late(s) /\ IdOf[s] # IdOf[r]
        BY <1>11, <1>12, <2>2, <3>2
      <4>2. QED
        BY <1>1, <1>8, <4>1 DEF MapInv
    <3>3. QED
      BY <3>1, <3>2
  <2>3. ASSUME NEW s \in Requests, NEW t \in Requests, Late(s)', Late(t)', IdOf[s] = IdOf[t]
        PROVE  s = t
    BY <1>1, <1>11, <1>12, <2>3 DEF MapInv
  <2>4. QED
    BY <2>1, <2>2, <2>3 DEF MapInv
<1>14. GaugeInv'
  <2>1. InGauge' = InGauge
    BY <1>2, <1>3 DEF InGauge, After, JobBecomes
  <2>2. QED
    BY <1>1, <1>2, <2>1 DEF GaugeInv
<1>15. LockInv'
  BY <1>1, <1>2 DEF LockInv
<1>16. QED
  BY <1>5, <1>9, <1>13, <1>14, <1>15 DEF IInv

\* What a job's outcome adds to the counters.
LEMMA CountedFields ==
  ASSUME NEW m \in Metrics, NEW c \in Completions, m.active > 0 \/ c = "timedout"
  PROVE  /\ Counted(m, c) \in Metrics
         /\ Counted(m, c).active = IF c = "timedout" THEN m.active ELSE m.active - 1
         /\ m.total + m.timeouts = m.active + m.completed + m.failed + m.cancelled =>
              Counted(m, c).total + Counted(m, c).timeouts =
                Counted(m, c).active + Counted(m, c).completed + Counted(m, c).failed +
                  Counted(m, c).cancelled
<1> DEFINE n == Counted(m, c)
           A == IF c = "timedout" THEN m.active ELSE m.active - 1
           B == IF c = "completed" THEN m.completed + 1 ELSE m.completed
           C == IF c = "cancelled" THEN m.cancelled + 1 ELSE m.cancelled
           F == IF c \in {"pending", "failed", "timedout"} THEN m.failed + 1 ELSE m.failed
           T == IF c = "timedout" THEN m.timeouts + 1 ELSE m.timeouts
<1>1. m \in [total : Nat, active : Nat, completed : Nat, failed : Nat, cancelled : Nat,
             rejected : Nat, timeouts : Nat]
  BY DEF Metrics
<1>2. /\ m.total \in Nat /\ m.active \in Nat /\ m.completed \in Nat /\ m.failed \in Nat
      /\ m.cancelled \in Nat /\ m.rejected \in Nat /\ m.timeouts \in Nat
  BY <1>1
<1>3. n = [total |-> m.total, active |-> A, completed |-> B, failed |-> F, cancelled |-> C,
           rejected |-> m.rejected, timeouts |-> T]
  <2>1. n = [m EXCEPT !.active = A, !.completed = B, !.cancelled = C, !.failed = F, !.timeouts = T]
    BY DEF Counted
  <2> HIDE DEF n, A, B, C, F, T
  <2>2. QED
    BY <1>1, <2>1
<1> HIDE DEF n
<1>4. c \in {"pending", "completed", "failed", "cancelled", "timedout"}
  BY DEF Completions
<1>5. n \in Metrics
  BY <1>2, <1>3 DEF Metrics
<1>6. n.active = IF c = "timedout" THEN m.active ELSE m.active - 1
  BY <1>3
<1>7. m.total + m.timeouts = m.active + m.completed + m.failed + m.cancelled =>
        n.total + n.timeouts = n.active + n.completed + n.failed + n.cancelled
  BY <1>2, <1>3, <1>4
<1>8. QED
  BY <1>5, <1>6, <1>7 DEF n

LEMMA GaugeIsFinite == IsFiniteSet(InGauge) /\ IsFiniteSet(Requests)
<1>1. IsFiniteSet(Requests) /\ InGauge \subseteq Requests
  BY ServiceAssumption DEF ServiceAssumption, InGauge
<1>2. QED
  BY <1>1, FS_Subset

\* The outcome is counted.
LEMMA CountKeeps ==
  ASSUME IInv, NEW r \in Requests, CountOutcome(r)
  PROVE  IInv'
<1>1. /\ TypeOK /\ Local(r) /\ EngineOK(r) /\ HandlerOK(r) /\ JobOK(r) /\ MapInv /\ LockInv /\ GaugeInv
      /\ job[r].completion \in Completions
  BY JobFacts DEF IInv
<1> DEFINE pc == IF r \in Buffered THEN "dropHandle" ELSE "done"
           c == job[r].completion
<1>2. /\ job[r].pc = "count" /\ job' = [job EXCEPT ![r].pc = pc] /\ metrics' = Counted(metrics, c)
      /\ UNCHANGED <<shutdown, admission, token, handler, permit, active, engineVars, channel, got>>
      /\ healthy' = healthy
  BY DEF CountOutcome, jobFrame, responseVars, streamVars
<1>3. JobBecomes(r, pc, c)
  BY <1>1, <1>2, JobPcSet DEF JobPcs
<1>4. pc \in After(r) /\ pc \in {"dropHandle", "done"} /\ (pc = "done" <=> r \notin Buffered)
  BY DEF After
<1> HIDE DEF pc
<1>5. JobOK(r)'
  BY <1>1, <1>2, <1>3, <1>4 DEF JobOK, JobBecomes, Sending, Dropped, engineVars
<1>6. \A s \in Requests : Local(s)'
  BY <1>2, <1>3, <1>4, <1>5, OthersKeep
<1>7. r \in InGauge
  BY <1>2 DEF InGauge, After
<1>8. Cardinality(InGauge) \in Nat /\ Cardinality(InGauge) > 0
  BY <1>7, GaugeIsFinite, FS_EmptySet, FS_CardinalityType
<1>9. metrics \in Metrics /\ metrics.active > 0
  BY <1>1, <1>8 DEF TypeOK, GaugeInv
<1>10. TypeOK'
  BY <1>1, <1>2, <1>3, <1>9, CountedFields DEF TypeOK, JobBecomes, engineVars
<1>11. Cardinality(InGauge') = IF c = "timedout" THEN Cardinality(InGauge) ELSE Cardinality(InGauge) - 1
  <2>1. CASE c = "timedout"
    <3>1. InGauge' = InGauge
      BY <1>2, <1>3, <1>4, <2>1 DEF InGauge, JobBecomes, After
    <3>2. QED
      BY <2>1, <3>1
  <2>2. CASE c # "timedout"
    <3>1. InGauge' = InGauge \ {r}
      BY <1>2, <1>3, <1>4, <2>2 DEF InGauge, JobBecomes, After
    <3>2. QED
      BY <1>7, <2>2, <3>1, GaugeIsFinite, FS_RemoveElement
  <2>3. QED
    BY <2>1, <2>2
<1>12. GaugeInv'
  <2>1. metrics'.active = Cardinality(InGauge')
    BY <1>1, <1>2, <1>9, <1>11, CountedFields DEF GaugeInv
  <2>2. metrics'.total + metrics'.timeouts =
          metrics'.active + metrics'.completed + metrics'.failed + metrics'.cancelled
    BY <1>1, <1>2, <1>9, CountedFields DEF GaugeInv
  <2>3. QED
    BY <2>1, <2>2 DEF GaugeInv
<1>13. MapInv'
  <2>1. GuardDropped(r) /\ GuardDropped(r)'
    BY <1>2, <1>3, <1>4 DEF GuardDropped, JobBecomes
  <2>2. ASSUME NEW s \in Requests PROVE (InFlight(s)' <=> InFlight(s)) /\ (Late(s)' <=> Late(s))
    <3>1. CASE s # r
      BY <1>2, <1>3, <3>1 DEF InFlight, Late, GuardDropped, JobBecomes
    <3>2. CASE s = r
      BY <1>2, <1>3, <2>1, <3>2 DEF InFlight, Late, JobBecomes
    <3>3. QED
      BY <3>1, <3>2
  <2>3. QED
    BY <1>1, <1>2, <2>2, MapKept
<1>14. LockInv'
  BY <1>1, <1>2 DEF LockInv
<1>15. QED
  BY <1>6, <1>10, <1>12, <1>13, <1>14 DEF IInv

-----------------------------------------------------------------------------
(* Handlers, clients, operators and the engine keep the invariant.         *)

\* The steps of a handler outside the admission lock.
Proceeds(from, to) ==
  \/ to = from
  \/ from = "new" /\ to \in {"admit", "gone"}
  \/ from = "admit" /\ to = "gone"
  \/ from = "await" /\ to \in {"body", "gone"}
  \/ from = "body" /\ to = "gone"

\* A step that neither takes off nor lands, nor speaks to the engine.
LEMMA OutsideKeeps ==
  ASSUME IInv, NEW r \in Requests,
         UNCHANGED <<engineVars, job, active, admission, shutdown>>, healthy' = healthy,
         handler' \in [Requests -> {"new", "admit", "start", "spawn", "await", "body", "gone"}],
         \A s \in Requests : s # r => handler'[s] = handler[s],
         Proceeds(handler[r], handler'[r]),
         permit' \subseteq Buffered, token' \subseteq Requests,
         channel' \in [Requests -> SUBSET Parts], got' \in [Requests -> Parts],
         \A s \in Requests : channel'[s] \subseteq channel[s] /\ got'[s] \in {got[s]} \cup channel[s],
         metrics' \in Metrics,
         metrics' = [metrics EXCEPT !.rejected = metrics'.rejected]
  PROVE  IInv'
<1>1. TypeOK /\ MapInv /\ LockInv /\ GaugeInv /\ UNCHANGED <<status, made, heard, closed, slots>>
  BY DEF IInv, engineVars
<1>2. TypeOK'
  BY <1>1 DEF TypeOK
<1>3. ASSUME NEW s \in Requests
      PROVE  handler'[s] \in {"start", "spawn"} <=> handler[s] \in {"start", "spawn"}
  <2>1. CASE s # r
    BY <2>1
  <2>2. CASE s = r
    BY <2>2 DEF Proceeds
  <2>3. QED
    BY <2>1, <2>2
<1>4. ASSUME NEW s \in Requests PROVE Local(s)'
  <2>1. EngineOK(s) /\ HandlerOK(s) /\ JobOK(s) /\ EndOK(s)
    BY DEF IInv, Local
  <2>2. EngineOK(s)' /\ JobOK(s)'
    BY <1>1, <2>1 DEF EngineOK, JobOK
  <2>3. HandlerOK(s)'
    <3>1. CASE s # r
      BY <1>1, <2>1, <3>1 DEF HandlerOK
    <3>2. CASE s = r
      BY <1>1, <2>1, <3>2 DEF HandlerOK, Proceeds
    <3>3. QED
      BY <3>1, <3>2
  <2>4. EndOK(s)'
    BY <1>1, <2>1 DEF EndOK
  <2>5. QED
    BY <2>2, <2>3, <2>4 DEF Local
<1>5. MapInv'
  <2>1. \A s \in Requests : (InFlight(s)' <=> InFlight(s)) /\ (Late(s)' <=> Late(s))
    BY <1>3 DEF InFlight, Late, GuardDropped
  <2>2. QED
    BY <1>1, <2>1, MapKept
<1>6. LockInv'
  <2>1. \A s \in Requests : handler'[s] = "start" <=> handler[s] = "start"
    BY DEF Proceeds
  <2>2. QED
    BY <1>1, <2>1 DEF LockInv
<1>7. GaugeInv'
  <2>1. InGauge' = InGauge
    BY DEF InGauge
  <2>2. /\ metrics'.active = metrics.active /\ metrics'.total = metrics.total
        /\ metrics'.completed = metrics.completed /\ metrics'.failed = metrics.failed
        /\ metrics'.cancelled = metrics.cancelled /\ metrics'.timeouts = metrics.timeouts
    <3>1. metrics \in [total : Nat, active : Nat, completed : Nat, failed : Nat, cancelled : Nat,
                       rejected : Nat, timeouts : Nat]
      BY <1>1 DEF TypeOK, Metrics
    <3>2. QED
      BY <3>1
  <2>3. QED
    BY <1>1, <2>1, <2>2 DEF GaugeInv
<1>8. QED
  BY <1>2, <1>4, <1>5, <1>6, <1>7 DEF IInv

\* The counter of refusals.
LEMMA RejectedFields ==
  ASSUME TypeOK
  PROVE  /\ metrics = [metrics EXCEPT !.rejected = metrics.rejected]
         /\ LET m == [metrics EXCEPT !.rejected = @ + 1]
            IN m \in Metrics /\ m = [metrics EXCEPT !.rejected = m.rejected]
<1>1. metrics \in [total : Nat, active : Nat, completed : Nat, failed : Nat, cancelled : Nat,
                   rejected : Nat, timeouts : Nat]
  BY DEF TypeOK, Metrics
<1>2. QED
  BY <1>1 DEF Metrics

LEMMA OutsideFacts ==
  ASSUME TypeOK
  PROVE  /\ handler \in [Requests -> {"new", "admit", "start", "spawn", "await", "body", "gone"}]
         /\ permit \subseteq Buffered /\ token \subseteq Requests
         /\ channel \in [Requests -> SUBSET Parts] /\ got \in [Requests -> Parts]
         /\ metrics \in Metrics
BY DEF TypeOK

LEMMA AcquireEgressKeeps ==
  ASSUME IInv, NEW r \in Requests, AcquireEgress(r)
  PROVE  IInv'
<1>1. TypeOK
  BY DEF IInv
<1>2. /\ UNCHANGED <<engineVars, job, active, admission, shutdown, token, channel, got>>
      /\ healthy' = healthy /\ handler[r] = "new"
  BY DEF AcquireEgress, streamVars
<1>3. PICK h \in {"admit", "gone"} : handler' = [handler EXCEPT ![r] = h]
  BY DEF AcquireEgress, Refuse
<1>4. permit' \subseteq Buffered
  BY <1>1, OutsideFacts DEF AcquireEgress, Refuse
<1>5. metrics' = metrics \/ metrics' = [metrics EXCEPT !.rejected = @ + 1]
  BY DEF AcquireEgress
<1>6. metrics' \in Metrics /\ metrics' = [metrics EXCEPT !.rejected = metrics'.rejected]
  BY <1>1, <1>5, RejectedFields, OutsideFacts
<1>7. Proceeds(handler[r], handler'[r])
  BY <1>1, <1>2, <1>3, OutsideFacts DEF Proceeds
<1>8. /\ handler' \in [Requests -> {"new", "admit", "start", "spawn", "await", "body", "gone"}]
      /\ \A s \in Requests : s # r => handler'[s] = handler[s]
  BY <1>1, <1>3, OutsideFacts
<1>9. QED
  BY <1>1, <1>2, <1>4, <1>6, <1>7, <1>8, OutsideFacts, OutsideKeeps

\* The buffered handler resumes, or a body is dropped.
LEMMA ResponseKeeps ==
  ASSUME IInv, NEW r \in Requests, Resume(r) \/ Leave(r)
  PROVE  IInv'
<1>1. TypeOK
  BY DEF IInv
<1>2. /\ UNCHANGED <<engineVars, job, active, admission, shutdown, metrics, got>>
      /\ healthy' = healthy /\ handler[r] \in {"await", "body"} /\ token' \in {token, token \cup {r}}
      /\ permit' \in {permit, permit \ {r}} /\ channel' \in {channel, [channel EXCEPT ![r] = {}]}
  BY DEF Resume, Leave, Refuse, streamVars
<1>3. PICK h \in {"body", "gone"} : /\ handler' = [handler EXCEPT ![r] = h]
                                    /\ h = "body" => handler[r] = "await"
  BY DEF Resume, Leave, Refuse
<1>4. permit' \subseteq Buffered /\ token' \subseteq Requests
  BY <1>1, <1>2, OutsideFacts
<1>5. /\ channel' \in [Requests -> SUBSET Parts]
      /\ \A s \in Requests : channel'[s] \subseteq channel[s]
  BY <1>1, <1>2, OutsideFacts
<1>6. metrics' \in Metrics /\ metrics' = [metrics EXCEPT !.rejected = metrics'.rejected]
  BY <1>1, <1>2, RejectedFields, OutsideFacts
<1>7. Proceeds(handler[r], handler'[r])
  BY <1>1, <1>2, <1>3, OutsideFacts DEF Proceeds
<1>8. /\ handler' \in [Requests -> {"new", "admit", "start", "spawn", "await", "body", "gone"}]
      /\ \A s \in Requests : s # r => handler'[s] = handler[s]
  BY <1>1, <1>3, OutsideFacts
<1>9. got' \in [Requests -> Parts] /\ \A s \in Requests : got'[s] \in {got[s]} \cup channel[s]
  BY <1>1, <1>2, OutsideFacts
<1>10. QED
  BY <1>1, <1>2, <1>4, <1>5, <1>6, <1>7, <1>8, <1>9, OutsideKeeps

\* The client reads a part; a token is cancelled.
LEMMA ReadAndDeleteKeep ==
  ASSUME IInv, NEW r \in Requests, ReadPart(r) \/ \E id \in Ids : Delete(id)
  PROVE  IInv'
<1>1. TypeOK
  BY DEF IInv
<1>2. /\ UNCHANGED <<engineVars, job, active, admission, shutdown, metrics, handler, permit>>
      /\ healthy' = healthy
  BY DEF ReadPart, Delete, responseVars
<1>3. token' \subseteq Requests
  BY <1>1, OutsideFacts DEF ReadPart, Delete
<1>4. /\ channel' \in [Requests -> SUBSET Parts] /\ got' \in [Requests -> Parts]
      /\ \A s \in Requests : channel'[s] \subseteq channel[s] /\ got'[s] \in {got[s]} \cup channel[s]
  <2>1. CASE ReadPart(r)
    <3> DEFINE part == CHOOSE p \in channel[r] : TRUE
    <3>1. /\ channel' = [channel EXCEPT ![r] = {}] /\ got' = [got EXCEPT ![r] = part]
          /\ part \in channel[r]
      BY <2>1 DEF ReadPart
    <3> HIDE DEF part
    <3>2. channel[r] \subseteq Parts
      BY <1>1, OutsideFacts
    <3>3. QED
      BY <1>1, <3>1, <3>2, OutsideFacts
  <2>2. CASE \E id \in Ids : Delete(id)
    BY <1>1, <2>2, OutsideFacts DEF Delete, streamVars
  <2>3. QED
    BY <2>1, <2>2
<1>5. metrics' \in Metrics /\ metrics' = [metrics EXCEPT !.rejected = metrics'.rejected]
  BY <1>1, <1>2, RejectedFields, OutsideFacts
<1>6. /\ Proceeds(handler[r], handler'[r])
      /\ handler' \in [Requests -> {"new", "admit", "start", "spawn", "await", "body", "gone"}]
      /\ permit' \subseteq Buffered
  BY <1>1, <1>2, OutsideFacts DEF Proceeds
<1>7. QED
  BY <1>1, <1>2, <1>3, <1>4, <1>5, <1>6, OutsideKeeps

\* Admission refuses, or takes the lock and enters the request in the map.
LEMMA AdmitKeeps ==
  ASSUME IInv, NEW r \in Requests, Admit(r)
  PROVE  IInv'
<1>1. TypeOK /\ Local(r) /\ MapInv /\ LockInv /\ GaugeInv
  BY DEF IInv
<1>2. /\ UNCHANGED <<engineVars, job, shutdown, token, channel, got, metrics>>
      /\ healthy' = healthy /\ handler[r] = "admit" /\ admission = "nobody"
  BY DEF Admit, streamVars
<1>3. CASE shutdown \/ active[IdOf[r]] # "vacant"
  <2>1. Refuse(r) /\ UNCHANGED <<admission, active>>
    BY <1>3 DEF Admit
  <2>2. /\ handler' \in [Requests -> {"new", "admit", "start", "spawn", "await", "body", "gone"}]
        /\ \A s \in Requests : s # r => handler'[s] = handler[s]
        /\ handler'[r] = "gone" /\ permit' \subseteq Buffered
    BY <1>1, <2>1, OutsideFacts DEF Refuse
  <2>3. metrics' \in Metrics /\ metrics' = [metrics EXCEPT !.rejected = metrics'.rejected]
    BY <1>1, <1>2, RejectedFields, OutsideFacts
  <2>4. Proceeds(handler[r], handler'[r])
    BY <1>2, <2>2 DEF Proceeds
  <2>5. QED
    BY <1>1, <1>2, <2>1, <2>2, <2>3, <2>4, OutsideFacts, OutsideKeeps
<1>4. CASE ~shutdown /\ active[IdOf[r]] = "vacant"
  <2>1. /\ admission' = r /\ active' = [active EXCEPT ![IdOf[r]] = r]
        /\ handler' = [handler EXCEPT ![r] = "start"] /\ UNCHANGED permit
    BY <1>4 DEF Admit
  <2>2. IdOf \in [Requests -> Ids] /\ \A s \in Requests : s \notin {"nobody", "vacant", "tombstone"}
    BY ServiceAssumption DEF ServiceAssumption
  <2>3. /\ handler' \in [Requests -> {"new", "admit", "start", "spawn", "await", "body", "gone"}]
        /\ \A s \in Requests : s # r => handler'[s] = handler[s]
        /\ handler'[r] = "start"
    BY <1>1, <2>1, OutsideFacts
  <2>4. /\ active' \in [Ids -> Requests \cup {"vacant", "tombstone"}]
        /\ \A s \in Requests : IdOf[s] # IdOf[r] => active'[IdOf[s]] = active[IdOf[s]]
        /\ \A s \in Requests : IdOf[s] = IdOf[r] => active'[IdOf[s]] = r /\ active[IdOf[s]] = "vacant"
    BY <1>1, <1>4, <2>1, <2>2 DEF TypeOK
  <2>5. TypeOK'
    BY <1>1, <1>2, <2>1, <2>3, <2>4 DEF TypeOK, engineVars
  <2>6. ASSUME NEW s \in Requests PROVE Local(s)'
    <3>1. UNCHANGED <<status, made, heard, closed, slots>> /\ Local(s)
      BY <1>2 DEF engineVars, IInv
    <3>2. CASE s # r
      BY <1>1, <1>2, <2>3, <3>1, <3>2, Untouched
    <3>3. CASE s = r
      <4>1. EngineOK(r)' /\ JobOK(r)' /\ EndOK(r)'
        BY <1>1, <1>2, <3>1 DEF Local, EngineOK, JobOK, EndOK
      <4>2. HandlerOK(r)'
        BY <1>1, <1>2, <2>3, <3>1 DEF Local, HandlerOK
      <4>3. QED
        BY <3>3, <4>1, <4>2 DEF Local
    <3>4. QED
      BY <3>2, <3>3
  <2>7. /\ \A s \in Requests : Late(s)' <=> Late(s)
        /\ \A s \in Requests : s # r => (InFlight(s)' <=> InFlight(s))
        /\ InFlight(r)'
    BY <1>2, <2>3 DEF Late, InFlight, GuardDropped
  <2>8. \A s \in Requests : IdOf[s] = IdOf[r] => ~InFlight(s) /\ ~Late(s)
    BY <1>1, <2>2, <2>4 DEF MapInv
  <2>9. MapInv'
    <3>1. ASSUME NEW s \in Requests PROVE active'[IdOf[s]] = s <=> InFlight(s)'
      <4>1. CASE IdOf[s] = IdOf[r]
        BY <2>4, <2>7, <2>8, <4>1
      <4>2. CASE IdOf[s] # IdOf[r]
        BY <1>1, <2>4, <2>7, <4>2 DEF MapInv
      <4>3. QED
        BY <4>1, <4>2
    <3>2. ASSUME NEW s \in Requests, Late(s)' PROVE active'[IdOf[s]] = "tombstone"
      BY <1>1, <2>4, <2>7, <2>8, <3>2 DEF MapInv
    <3>3. ASSUME NEW s \in Requests, NEW t \in Requests, Late(s)', Late(t)', IdOf[s] = IdOf[t]
          PROVE  s = t
      BY <1>1, <2>7, <3>3 DEF MapInv
    <3>4. QED
      BY <3>1, <3>2, <3>3 DEF MapInv
  <2>10. LockInv'
    BY <1>1, <1>2, <1>4, <2>1, <2>2, <2>3 DEF LockInv
  <2>11. GaugeInv'
    BY <1>1, <1>2 DEF GaugeInv, InGauge, After
  <2>12. QED
    BY <2>5, <2>6, <2>9, <2>10, <2>11 DEF IInv
<1>5. QED
  BY <1>3, <1>4

\* The engine takes the request or refuses it, and the lock is given back.
LEMMA EngineStartKeeps ==
  ASSUME IInv, NEW r \in Requests, EngineStart(r)
  PROVE  IInv'
<1>1. TypeOK /\ Local(r) /\ MapInv /\ LockInv /\ GaugeInv
  BY DEF IInv
<1>2. /\ UNCHANGED <<shutdown, token, job, channel, got>> /\ handler[r] = "start" /\ admission' = "nobody"
  BY DEF EngineStart, streamVars
<1>3. IdOf \in [Requests -> Ids] /\ \A s \in Requests : s \notin {"nobody", "vacant", "tombstone"}
  BY ServiceAssumption DEF ServiceAssumption
<1>4. job[r].pc = "none" /\ status[r] = "idle" /\ r \notin slots
  BY <1>1, <1>2 DEF Local, HandlerOK, EngineOK
<1>5. InFlight(r) /\ ~Late(r) /\ \A s \in Requests : s # r /\ IdOf[s] = IdOf[r] => ~InFlight(s) /\ ~Late(s)
  <2>1. InFlight(r) /\ ~Late(r)
    BY <1>2, <1>4 DEF InFlight, Late, GuardDropped
  <2>2. QED
    BY <1>1, <1>3, <2>1 DEF MapInv
<1>6. \A s \in Requests : s # r => handler[s] # "start"
  BY <1>1, <1>2 DEF LockInv
<1>7. CASE healthy /\ Engine!Admit(r) /\ handler' = [handler EXCEPT ![r] = "spawn"]
           /\ UNCHANGED <<healthy, active, permit, metrics>>
  <2>1. /\ status' = [status EXCEPT ![r] = "live"] /\ slots' = slots \cup {r}
        /\ UNCHANGED <<made, heard, closed>>
    BY <1>7 DEF Engine!Admit
  <2>2. /\ status' \in [Requests -> {"idle", "live", "ended", "cancelled", "failed"}]
        /\ status'[r] = "live" /\ \A s \in Requests : s # r => status'[s] = status[s]
    BY <1>1, <2>1 DEF TypeOK
  <2>3. /\ handler' \in [Requests -> {"new", "admit", "start", "spawn", "await", "body", "gone"}]
        /\ handler'[r] = "spawn" /\ \A s \in Requests : s # r => handler'[s] = handler[s]
    BY <1>1, <1>7, OutsideFacts
  <2>4. TypeOK'
    BY <1>1, <1>2, <1>7, <2>1, <2>2, <2>3 DEF TypeOK
  <2>5. ASSUME NEW s \in Requests PROVE Local(s)'
    <3>1. CASE s # r
      <4>1. Local(s) /\ status'[s] = status[s] /\ handler'[s] = handler[s] /\ (s \in slots' <=> s \in slots)
        BY <2>1, <2>2, <2>3, <3>1 DEF IInv
      <4>2. QED
        BY <1>1, <1>2, <1>7, <2>1, <4>1, Untouched
    <3>2. CASE s = r
      <4>1. EngineOK(r)' /\ HandlerOK(r)'
        BY <1>1, <1>2, <1>4, <2>1, <2>2, <2>3 DEF Local, EngineOK, HandlerOK
      <4>2. JobOK(r)' /\ EndOK(r)'
        BY <1>1, <1>2, <1>4, <1>7, <2>1, <2>2 DEF Local, JobOK, EndOK, Dropped
      <4>3. QED
        BY <3>2, <4>1, <4>2 DEF Local
    <3>3. QED
      BY <3>1, <3>2
  <2>6. MapInv'
    <3>1. \A s \in Requests : (InFlight(s)' <=> InFlight(s)) /\ (Late(s)' <=> Late(s))
      BY <1>2, <2>3 DEF InFlight, Late, GuardDropped
    <3>2. QED
      BY <1>1, <1>7, <3>1, MapKept
  <2>7. LockInv'
    BY <1>1, <1>2, <1>3, <1>6, <2>3 DEF LockInv
  <2>8. GaugeInv'
    BY <1>1, <1>2, <1>7 DEF GaugeInv, InGauge, After
  <2>9. QED
    BY <2>4, <2>5, <2>6, <2>7, <2>8 DEF IInv
<1>8. CASE /\ healthy' = healthy \/ healthy' = FALSE
           /\ active' = [active EXCEPT ![IdOf[r]] = "vacant"]
           /\ metrics' = [metrics EXCEPT !.rejected = @ + 1]
           /\ Refuse(r) /\ UNCHANGED engineVars
  <2>1. healthy' \in BOOLEAN
    BY <1>1, <1>8 DEF TypeOK
  <2>2. healthy' => healthy
    <3>1. healthy' = healthy \/ healthy' = FALSE
      BY <1>8
    <3>2. QED
      BY <3>1, Zenon
  <2>3. /\ handler' \in [Requests -> {"new", "admit", "start", "spawn", "await", "body", "gone"}]
        /\ handler'[r] = "gone" /\ \A s \in Requests : s # r => handler'[s] = handler[s]
        /\ permit' \subseteq Buffered
    BY <1>1, <1>8, OutsideFacts DEF Refuse
  <2>4. metrics' \in Metrics /\ metrics' = [metrics EXCEPT !.rejected = metrics'.rejected]
    BY <1>1, <1>8, RejectedFields
  <2>5. /\ active' \in [Ids -> Requests \cup {"vacant", "tombstone"}]
        /\ \A s \in Requests : IdOf[s] # IdOf[r] => active'[IdOf[s]] = active[IdOf[s]]
        /\ \A s \in Requests : IdOf[s] = IdOf[r] => active'[IdOf[s]] = "vacant"
    BY <1>1, <1>3, <1>8 DEF TypeOK
  <2>6. UNCHANGED <<status, made, heard, closed, slots>>
    BY <1>8 DEF engineVars
  <2>7. TypeOK'
    BY <1>1, <1>2, <2>1, <2>3, <2>4, <2>5, <2>6 DEF TypeOK
  <2>8. ASSUME NEW s \in Requests PROVE Local(s)'
    <3>1. CASE s # r
      <4>1. Local(s) /\ handler'[s] = handler[s]
        BY <2>3, <3>1 DEF IInv
      <4>2. QED
        BY <1>1, <1>2, <2>2, <2>6, <4>1, Untouched
    <3>2. CASE s = r
      <4>1. EngineOK(r)' /\ HandlerOK(r)'
        BY <1>1, <1>2, <1>4, <2>3, <2>6 DEF Local, EngineOK, HandlerOK
      <4>2. JobOK(r)' /\ EndOK(r)'
        BY <1>1, <1>2, <1>4, <2>2, <2>6 DEF Local, JobOK, EndOK, Dropped
      <4>3. QED
        BY <3>2, <4>1, <4>2 DEF Local
    <3>3. QED
      BY <3>1, <3>2
  <2>9. /\ \A s \in Requests : Late(s)' <=> Late(s)
        /\ \A s \in Requests : s # r => (InFlight(s)' <=> InFlight(s))
        /\ ~InFlight(r)'
    BY <1>2, <1>4, <2>3 DEF Late, InFlight, GuardDropped
  <2>10. MapInv'
    <3>1. ASSUME NEW s \in Requests PROVE active'[IdOf[s]] = s <=> InFlight(s)'
      <4>1. CASE IdOf[s] = IdOf[r]
        BY <1>3, <1>5, <2>5, <2>9, <4>1
      <4>2. CASE IdOf[s] # IdOf[r]
        BY <1>1, <2>5, <2>9, <4>2 DEF MapInv
      <4>3. QED
        BY <4>1, <4>2
    <3>2. ASSUME NEW s \in Requests, Late(s)' PROVE active'[IdOf[s]] = "tombstone"
      BY <1>1, <1>5, <2>5, <2>9, <3>2 DEF MapInv
    <3>3. ASSUME NEW s \in Requests, NEW t \in Requests, Late(s)', Late(t)', IdOf[s] = IdOf[t]
          PROVE  s = t
      BY <1>1, <2>9, <3>3 DEF MapInv
    <3>4. QED
      BY <3>1, <3>2, <3>3 DEF MapInv
  <2>11. LockInv'
    BY <1>1, <1>2, <1>3, <1>6, <2>3 DEF LockInv
  <2>12. GaugeInv'
    <3>1. InGauge' = InGauge
      BY <1>2 DEF InGauge
    <3>2. metrics \in [total : Nat, active : Nat, completed : Nat, failed : Nat, cancelled : Nat,
                       rejected : Nat, timeouts : Nat]
      BY <1>1 DEF TypeOK, Metrics
    <3>3. /\ metrics'.active = metrics.active /\ metrics'.total = metrics.total
          /\ metrics'.completed = metrics.completed /\ metrics'.failed = metrics.failed
          /\ metrics'.cancelled = metrics.cancelled /\ metrics'.timeouts = metrics.timeouts
      BY <1>8, <3>2
    <3>4. QED
      BY <1>1, <3>1, <3>3 DEF GaugeInv
  <2>13. QED
    BY <2>7, <2>8, <2>10, <2>11, <2>12 DEF IInv
<1>9. QED
  BY <1>7, <1>8 DEF EngineStart

\* The job begins.
LEMMA SpawnKeeps ==
  ASSUME IInv, NEW r \in Requests, Spawn(r)
  PROVE  IInv'
<1>1. TypeOK /\ Local(r) /\ MapInv /\ LockInv /\ GaugeInv
  BY DEF IInv
<1> DEFINE h == IF r \in Buffered THEN "await" ELSE "body"
           ch == IF r \in Buffered THEN {} ELSE {"start"}
<1>2. /\ UNCHANGED <<engineVars, shutdown, admission, active, token, permit, got>> /\ healthy' = healthy
      /\ handler[r] = "spawn" /\ metrics' = [metrics EXCEPT !.total = @ + 1, !.active = @ + 1]
      /\ handler' = [handler EXCEPT ![r] = h] /\ channel' = [channel EXCEPT ![r] = ch]
      /\ job' = [job EXCEPT ![r].pc = "loop"]
  BY DEF Spawn
<1>3. JobBecomes(r, "loop", job[r].completion)
  BY <1>1, <1>2, JobPcSet DEF JobPcs
<1>4. h \in {"await", "body"} /\ ch \subseteq Parts /\ "end" \notin ch
  BY DEF Parts
<1> HIDE DEF h, ch
<1>5. /\ handler' \in [Requests -> {"new", "admit", "start", "spawn", "await", "body", "gone"}]
      /\ handler'[r] = h /\ \A s \in Requests : s # r => handler'[s] = handler[s]
  BY <1>1, <1>2, <1>4, OutsideFacts
<1>6. /\ channel' \in [Requests -> SUBSET Parts] /\ channel'[r] = ch
      /\ \A s \in Requests : s # r => channel'[s] = channel[s]
  BY <1>1, <1>2, <1>4, OutsideFacts
<1>7. job[r].pc = "none" /\ status[r] # "idle" /\ job[r].completion # "timedout"
  BY <1>1, <1>2 DEF Local, HandlerOK, JobOK
<1>8. UNCHANGED <<status, made, heard, closed, slots>>
  BY <1>2 DEF engineVars
<1>9. metrics \in [total : Nat, active : Nat, completed : Nat, failed : Nat, cancelled : Nat,
                   rejected : Nat, timeouts : Nat]
  BY <1>1 DEF TypeOK, Metrics
<1>10. /\ metrics' \in Metrics
       /\ metrics'.active = metrics.active + 1 /\ metrics'.total = metrics.total + 1
       /\ metrics'.completed = metrics.completed /\ metrics'.failed = metrics.failed
       /\ metrics'.cancelled = metrics.cancelled /\ metrics'.timeouts = metrics.timeouts
  <2> DEFINE A == metrics.total + 1
             B == metrics.active + 1
  <2>1. A \in Nat /\ B \in Nat
    BY <1>9
  <2>2. metrics' = [metrics EXCEPT !.total = A, !.active = B]
    BY <1>2
  <2> HIDE DEF A, B
  <2>3. metrics' = [total |-> A, active |-> B, completed |-> metrics.completed,
                    failed |-> metrics.failed, cancelled |-> metrics.cancelled,
                    rejected |-> metrics.rejected, timeouts |-> metrics.timeouts]
    BY <1>9, <2>2
  <2>4. metrics' \in Metrics
    BY <1>9, <2>1, <2>3 DEF Metrics
  <2>5. QED
    BY <2>3, <2>4 DEF A, B
<1>11. TypeOK'
  BY <1>1, <1>2, <1>3, <1>5, <1>6, <1>8, <1>10 DEF TypeOK, JobBecomes
<1>12. ASSUME NEW s \in Requests PROVE Local(s)'
  <2>1. CASE s # r
    <3>1. Local(s) /\ handler'[s] = handler[s] /\ job'[s] = job[s] /\ channel'[s] = channel[s]
      BY <1>3, <1>5, <1>6, <2>1 DEF IInv, JobBecomes
    <3>2. QED
      BY <1>1, <1>2, <1>8, <3>1, Untouched
  <2>2. CASE s = r
    <3>1. EngineOK(r)' /\ HandlerOK(r)'
      BY <1>1, <1>3, <1>4, <1>5, <1>7, <1>8 DEF Local, EngineOK, HandlerOK, JobBecomes
    <3>2. JobOK(r)'
      BY <1>3, <1>7 DEF JobOK, JobBecomes, Sending, Dropped
    <3>3. EndOK(r)'
      BY <1>1, <1>2, <1>4, <1>6, <1>8 DEF Local, EndOK
    <3>4. QED
      BY <2>2, <3>1, <3>2, <3>3 DEF Local
  <2>3. QED
    BY <2>1, <2>2
<1>13. MapInv'
  <2>1. ASSUME NEW s \in Requests PROVE (InFlight(s)' <=> InFlight(s)) /\ (Late(s)' <=> Late(s))
    <3>1. CASE s # r
      BY <1>3, <1>5, <3>1 DEF InFlight, Late, GuardDropped, JobBecomes
    <3>2. CASE s = r
      BY <1>2, <1>3, <1>7, <3>2 DEF InFlight, Late, GuardDropped, JobBecomes
    <3>3. QED
      BY <3>1, <3>2
  <2>2. QED
    BY <1>1, <1>2, <2>1, MapKept
<1>14. LockInv'
  BY <1>1, <1>2, <1>4, <1>5 DEF LockInv
<1>15. GaugeInv'
  <2>1. InGauge' = InGauge \cup {r} /\ r \notin InGauge
    BY <1>3, <1>7 DEF InGauge, JobBecomes, After
  <2>2. Cardinality(InGauge') = Cardinality(InGauge) + 1
    BY <2>1, GaugeIsFinite, FS_AddElement
  <2>3. metrics.active = Cardinality(InGauge)
    BY <1>1 DEF GaugeInv
  <2>4. metrics'.active = Cardinality(InGauge')
    BY <1>10, <2>2, <2>3
  <2>5. /\ metrics.total \in Nat /\ metrics.active \in Nat /\ metrics.completed \in Nat
        /\ metrics.failed \in Nat /\ metrics.cancelled \in Nat /\ metrics.timeouts \in Nat
    BY <1>9
  <2>6. metrics'.total + metrics'.timeouts =
          metrics'.active + metrics'.completed + metrics'.failed + metrics'.cancelled
    BY <1>1, <1>10, <2>5 DEF GaugeInv
  <2>7. QED
    BY <2>4, <2>6 DEF GaugeInv
<1>16. QED
  BY <1>11, <1>12, <1>13, <1>14, <1>15 DEF IInv

\* Admission closes, and nobody holds its lock.
LEMMA CloseKeeps ==
  ASSUME IInv, CloseAdmission
  PROVE  IInv'
<1>1. /\ UNCHANGED <<status, made, heard, closed, slots, healthy, admission, active, token, handler,
                     permit, job, channel, got, metrics>>
      /\ admission = "nobody" /\ shutdown' = TRUE
  BY DEF CloseAdmission, engineVars, responseVars, streamVars
<1>2. TypeOK'
  BY <1>1 DEF IInv, TypeOK
<1>3. \A r \in Requests : Local(r)'
  BY <1>1, Untouched DEF IInv
<1>4. MapInv' /\ GaugeInv'
  BY <1>1 DEF IInv, MapInv, InFlight, Late, GuardDropped, GaugeInv, InGauge
<1>5. LockInv'
  BY <1>1 DEF IInv, LockInv
<1>6. QED
  BY <1>2, <1>3, <1>4, <1>5 DEF IInv

\* The engine's own steps.
LEMMA BackendKeeps ==
  ASSUME IInv, NEW r \in Requests, Backend(r)
  PROVE  IInv'
<1>1. /\ TypeOK /\ Local(r) /\ EngineOK(r) /\ HandlerOK(r) /\ JobOK(r) /\ EndOK(r)
      /\ MapInv /\ LockInv /\ GaugeInv
      /\ UNCHANGED <<shutdown, admission, active, token, handler, permit, job, channel, got, metrics>>
      /\ healthy' = healthy
  BY JobFacts DEF IInv, Backend, responseVars, streamVars
<1>2. EngineStep(r)
  BY <1>1, EngineGenerates, EngineFails, EngineReturns DEF Backend
<1>3. TypeOK'
  BY <1>1, <1>2 DEF TypeOK, EngineStep
<1>4. ASSUME NEW s \in Requests PROVE Local(s)'
  <2>1. CASE s # r
    <3>1. Local(s)
      BY DEF IInv
    <3>2. /\ status'[s] = status[s] /\ made'[s] = made[s] /\ heard'[s] = heard[s]
          /\ closed'[s] = closed[s] /\ (s \in slots' <=> s \in slots)
      BY <1>2, <2>1 DEF EngineStep
    <3>3. QED
      BY <1>1, <3>1, <3>2, Untouched
  <2>2. CASE s = r
    <3>1. EngineOK(r)' /\ HandlerOK(r)'
      BY <1>1, <1>2 DEF EngineStep, HandlerOK
    <3>2. JobOK(r)' /\ EndOK(r)'
      BY <1>1, <1>2, JobKept, EndKept
    <3>3. QED
      BY <2>2, <3>1, <3>2 DEF Local
  <2>3. QED
    BY <2>1, <2>2
<1>5. MapInv' /\ GaugeInv' /\ LockInv'
  BY <1>1 DEF MapInv, InFlight, Late, GuardDropped, GaugeInv, InGauge, LockInv
<1>6. QED
  BY <1>3, <1>4, <1>5 DEF IInv

-----------------------------------------------------------------------------
(* The invariant, from the start on.                                       *)

\* Whichever requests arrive.
LEMMA Begins ==
  ASSUME NEW arrivals, InitWith(arrivals)
  PROVE  IInv
<1>1. /\ status = [r \in Requests |-> "idle"] /\ made = [r \in Requests |-> 0]
      /\ heard = [r \in Requests |-> 0] /\ closed = [r \in Requests |-> FALSE] /\ slots = {}
      /\ healthy = TRUE /\ shutdown = FALSE /\ admission = "nobody"
      /\ active = [id \in Ids |-> "vacant"] /\ token = {} /\ permit = {}
      /\ handler = [r \in Requests |-> IF r \in arrivals THEN "new" ELSE "gone"]
      /\ job = [r \in Requests |-> [pc |-> "none", completion |-> "pending", sent |-> "ok"]]
      /\ channel = [r \in Requests |-> {}] /\ got = [r \in Requests |-> "start"]
      /\ metrics = [total |-> 0, active |-> 0, completed |-> 0, failed |-> 0,
                    cancelled |-> 0, rejected |-> 0, timeouts |-> 0]
  BY DEF InitWith, Engine!Init
<1>2. /\ IdOf \in [Requests -> Ids] /\ \A s \in Requests : s \notin {"nobody", "vacant", "tombstone"}
      /\ 0 \in 0 .. MaxFrames
  BY ServiceAssumption DEF ServiceAssumption
<1>3. /\ metrics.total = 0 /\ metrics.active = 0 /\ metrics.completed = 0 /\ metrics.failed = 0
      /\ metrics.cancelled = 0 /\ metrics.timeouts = 0 /\ metrics \in Metrics
  BY <1>1 DEF Metrics
<1>4. job \in [Requests -> Job] /\ \A r \in Requests : job[r].pc = "none" /\ job[r].completion = "pending"
  BY <1>1 DEF Job, Completions
<1>5. TypeOK
  <2>1. /\ status \in [Requests -> {"idle", "live", "ended", "cancelled", "failed"}]
        /\ made \in [Requests -> 0 .. MaxFrames] /\ heard \in [Requests -> 0 .. MaxFrames]
        /\ closed \in [Requests -> BOOLEAN] /\ slots \subseteq Requests
    BY <1>1, <1>2
  <2>2. /\ healthy \in BOOLEAN /\ shutdown \in BOOLEAN /\ admission \in Requests \cup {"nobody"}
        /\ active \in [Ids -> Requests \cup {"vacant", "tombstone"}]
        /\ token \subseteq Requests /\ permit \subseteq Buffered
    BY <1>1
  <2>3. /\ handler \in [Requests -> {"new", "admit", "start", "spawn", "await", "body", "gone"}]
        /\ channel \in [Requests -> SUBSET Parts] /\ got \in [Requests -> Parts]
    BY <1>1 DEF Parts
  <2>4. QED
    BY <1>3, <1>4, <2>1, <2>2, <2>3 DEF TypeOK
<1>6. ASSUME NEW r \in Requests PROVE Local(r)
  <2>1. EngineOK(r) /\ HandlerOK(r)
    BY <1>1, <1>4 DEF EngineOK, HandlerOK
  <2>2. JobOK(r) /\ EndOK(r)
    BY <1>1, <1>4 DEF JobOK, EndOK, Sending, Dropped
  <2>3. QED
    BY <2>1, <2>2 DEF Local
<1>7. MapInv
  <2>1. \A r \in Requests : ~InFlight(r) /\ ~Late(r)
    BY <1>1, <1>4 DEF InFlight, Late
  <2>2. \A r \in Requests : active[IdOf[r]] # r
    BY <1>1, <1>2
  <2>3. QED
    BY <2>1, <2>2 DEF MapInv
<1>8. LockInv
  BY <1>1, <1>2 DEF LockInv
<1>9. GaugeInv
  <2>1. InGauge = {}
    BY <1>4 DEF InGauge
  <2>2. QED
    BY <1>3, <2>1, FS_EmptySet DEF GaugeInv
<1>10. QED
  BY <1>5, <1>6, <1>7, <1>8, <1>9 DEF IInv

LEMMA JobKeeps ==
  ASSUME IInv, NEW r \in Requests, JobStep(r)
  PROVE  IInv'
BY CheckTokenKeeps, PollKeeps, PollFailsKeeps, SendKeeps, WaitKeeps, DropHandleKeeps,
   DropGuardKeeps, CountKeeps DEF JobStep

LEMMA Keeps == IInv /\ [Next]_vars => IInv'
<1> SUFFICES ASSUME IInv, [Next]_vars PROVE IInv'
  OBVIOUS
<1>1. CASE UNCHANGED vars
  <2>1. UNCHANGED <<status, made, heard, closed, slots, healthy, shutdown, admission, active, token,
                    handler, permit, job, channel, got, metrics>>
    BY <1>1 DEF vars, engineVars, responseVars, streamVars
  <2>2. TypeOK'
    BY <2>1 DEF IInv, TypeOK
  <2>3. \A r \in Requests : Local(r)'
    BY <2>1, Untouched DEF IInv
  <2>4. MapInv' /\ GaugeInv' /\ LockInv'
    BY <2>1 DEF IInv, MapInv, InFlight, Late, GuardDropped, GaugeInv, InGauge, LockInv
  <2>5. QED
    BY <2>2, <2>3, <2>4 DEF IInv
<1>2. ASSUME NEW r \in Requests, Handler(r) PROVE IInv'
  BY <1>2, AcquireEgressKeeps, AdmitKeeps, EngineStartKeeps, SpawnKeeps, ResponseKeeps DEF Handler
<1>3. ASSUME NEW r \in Requests, JobStep(r) PROVE IInv'
  BY <1>3, JobKeeps
<1>4. ASSUME NEW r \in Requests, Client(r) PROVE IInv'
  BY <1>4, ReadAndDeleteKeep, ResponseKeeps DEF Client
<1>5. ASSUME NEW r \in Requests, Backend(r) PROVE IInv'
  BY <1>5, BackendKeeps
<1>6. ASSUME NEW id \in Ids, Delete(id) PROVE IInv'
  <2>1. PICK r \in Requests : TRUE
    BY <1>6 DEF Delete
  <2>2. QED
    BY <1>6, <2>1, ReadAndDeleteKeep
<1>7. CASE CloseAdmission
  BY <1>7, CloseKeeps
<1>8. CASE Finished
  BY <1>1, <1>8 DEF Finished
<1>9. QED
  BY <1>1, <1>2, <1>3, <1>4, <1>5, <1>6, <1>7, <1>8 DEF Next

LEMMA InvariantHolds == Spec => []IInv
<1>1. Init => IInv
  BY Begins DEF Init
<1>2. QED
  BY <1>1, Keeps, PTL DEF Spec

-----------------------------------------------------------------------------
(* The results.                                                            *)

LEMMA GaugeIsTrue == IInv => GaugeTruth
<1> SUFFICES ASSUME IInv PROVE GaugeTruth
  OBVIOUS
<1> DEFINE started == {r \in Requests : job[r].pc # "none"}
           timedOut == {r \in started : job[r].completion = "timedout"}
<1>1. GaugeInv /\ TypeOK /\ \A r \in Requests : JobOK(r)
  BY DEF IInv, Local
<1>2. slots \cap started \subseteq InGauge
  BY <1>1 DEF JobOK, InGauge, After
<1>3. Cardinality(slots \cap started) <= metrics.active
  BY <1>1, <1>2, GaugeIsFinite, FS_Subset DEF GaugeInv
<1>4. (\A r \in started : job[r].pc = "done") => InGauge = timedOut
  BY DEF InGauge, After
<1>5. (\A r \in started : job[r].pc = "done") => metrics.active = Cardinality(timedOut)
  BY <1>1, <1>4 DEF GaugeInv
<1>6. QED
  BY <1>1, <1>3, <1>5 DEF GaugeTruth, GaugeInv

\* For any finite set of requests, whatever IDs they bring and however many the
\* engine takes at once: the map names exactly what is in flight, a request
\* whose retirement timed out leaves the service unhealthy and its ID a
\* tombstone for good, the gauge never shows less than the engine still
\* serves and in the end the tombstones, and the counters add up
\* (ActiveGuard, ServiceMetrics and mark_retirement).
THEOREM AccountsAreTrue == Spec => []ServiceAccounts
<1>1. IInv => EntryIffInFlight
  BY DEF IInv, MapInv, InFlight, EntryIffInFlight
<1>2. IInv => TimeoutIsIncident
  BY DEF IInv, MapInv, Local, JobOK, Late, TimeoutIsIncident
<1>3. IInv => ServiceAccounts
  BY <1>1, <1>2, GaugeIsTrue DEF IInv, ServiceAccounts
<1>4. QED
  BY <1>3, InvariantHolds, PTL

\* A request in the engine is the one its ID names, or the only tombstone.
LEMMA OneForEachId == IInv => OneNativePerId
<1> SUFFICES ASSUME IInv, NEW r \in Requests, NEW s \in Requests, r # s, IdOf[r] = IdOf[s],
                    r \in slots, s \in slots
             PROVE  FALSE
  BY DEF OneNativePerId
<1>1. ASSUME NEW q \in Requests, q \in slots PROVE InFlight(q) \/ Late(q)
  <2>1. EngineOK(q) /\ HandlerOK(q) /\ JobOK(q)
    BY DEF IInv, Local
  <2>2. CASE job[q].pc = "none"
    BY <1>1, <2>1, <2>2 DEF EngineOK, HandlerOK, InFlight
  <2>3. CASE job[q].pc # "none"
    BY <1>1, <2>1, <2>3 DEF JobOK, InFlight, Late, GuardDropped
  <2>4. QED
    BY <2>2, <2>3
<1>2. \A q \in Requests : q \notin {"nobody", "vacant", "tombstone"}
  BY ServiceAssumption DEF ServiceAssumption
<1>3. MapInv
  BY DEF IInv
<1>4. (InFlight(r) \/ Late(r)) /\ (InFlight(s) \/ Late(s))
  BY <1>1
<1>5. QED
  BY <1>2, <1>3, <1>4 DEF MapInv

\* A request ID is reusable only after the native request of the earlier one
\* has retired, and no native request runs on with nobody left to poll or
\* cancel it, whatever the clients, DELETE, shutdown and the engine do
\* (ActiveGuard::drop, RequestHandle's drop).
THEOREM NativeRequestsHaveOwners == Spec => []NativeRequestsOwned
<1>1. IInv => NoOrphan
  <2> SUFFICES ASSUME IInv, NEW r \in slots, status[r] = "live"
               PROVE  handler[r] = "spawn" \/ job[r].pc \notin {"none", "done"}
    BY DEF NoOrphan
  <2>1. r \in Requests
    BY DEF IInv, TypeOK
  <2>2. HandlerOK(r) /\ JobOK(r)
    BY <2>1 DEF IInv, Local
  <2>3. QED
    BY <2>2 DEF HandlerOK, JobOK, Dropped
<1>2. IInv => NativeRequestsOwned
  BY <1>1, OneForEachId DEF NativeRequestsOwned
<1>3. QED
  BY <1>2, InvariantHolds, PTL

\* The end part of a stream is written only when the client has been sent
\* every frame and the native request has retired (run_streaming_worker).
THEOREM EndPartsAreTrue == Spec => []EndPartIsTrue
<1>1. IInv => EndPartIsTrue
  BY DEF IInv, Local, EndOK, EngineOK, EndPartIsTrue
<1>2. QED
  BY <1>1, InvariantHolds, PTL

LEMMA StartsBeforeShutdown == IInv /\ [Next]_vars => (shutdown => slots' \subseteq slots)
<1> SUFFICES ASSUME IInv, [Next]_vars, shutdown PROVE slots' \subseteq slots
  OBVIOUS
<1>1. ASSUME NEW r \in Requests, EngineStart(r) PROVE FALSE
  <2>1. LockInv /\ handler[r] = "start" /\ r # "nobody"
    BY <1>1, ServiceAssumption DEF IInv, EngineStart, ServiceAssumption
  <2>2. QED
    BY <2>1 DEF LockInv
<1>2. CASE UNCHANGED vars
  BY <1>2 DEF vars, engineVars
<1>3. ASSUME NEW r \in Requests, Handler(r) PROVE slots' \subseteq slots
  BY <1>1, <1>3 DEF Handler, AcquireEgress, Admit, Spawn, Resume, engineVars
<1>4. ASSUME NEW r \in Requests, JobStep(r) PROVE slots' \subseteq slots
  <2>1. (RequestCancel(r) \/ UNCHANGED engineVars \/ Engine!Deliver(r)) => slots' \subseteq slots
    BY DEF RequestCancel, Engine!Cancel, Engine!Deliver, engineVars
  <2>2. CASE CheckToken(r) \/ PollWouldBlock(r) \/ PollPacket(r) \/ PollRefused(r)
             \/ PollEnd(r) \/ PollError(r)
    BY <2>1, <2>2 DEF CheckToken, PollWouldBlock, PollPacket, PollRefused, PollEnd, PollError
  <2>3. CASE SendOk(r) \/ SendError(r)
    BY <2>1, <2>3 DEF SendOk, SendError, AfterSend
  <2>4. CASE WaitRetired(r) \/ WaitEndRetired(r) \/ RetirementTimeout(r)
             \/ DropHandle(r) \/ DropSender(r) \/ DropGuard(r) \/ CountOutcome(r)
    BY <2>1, <2>4 DEF WaitRetired, WaitEndRetired, RetirementTimeout, DropHandle, DropSender,
                      DropGuard, CountOutcome
  <2>5. QED
    BY <1>4, <2>2, <2>3, <2>4 DEF JobStep
<1>5. ASSUME NEW r \in Requests, Client(r) \/ Backend(r) PROVE slots' \subseteq slots
  BY <1>5 DEF Client, ReadPart, Leave, Backend, Engine!Generate, Engine!Fail, Engine!Return, engineVars
<1>6. ASSUME NEW id \in Ids, Delete(id) PROVE slots' \subseteq slots
  BY <1>6 DEF Delete, engineVars
<1>7. CASE CloseAdmission \/ Finished
  BY <1>2, <1>7 DEF CloseAdmission, Finished, engineVars
<1>8. QED
  BY <1>2, <1>3, <1>4, <1>5, <1>6, <1>7 DEF Next

\* Closing admission is a boundary: no native request starts after it, however
\* the handlers that were under way are scheduled (ShutdownController::cancel
\* and start_prepared share the admission lock).
THEOREM ShutdownIsBoundary == Spec => NoStartAfterShutdown
<1>1. IInv /\ [Next]_vars => [shutdown => slots' \subseteq slots]_vars
  BY StartsBeforeShutdown
<1>2. QED
  BY <1>1, InvariantHolds, PTL DEF Spec, NoStartAfterShutdown

=============================================================================
