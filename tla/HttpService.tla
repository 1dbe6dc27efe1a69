---------------------------- MODULE HttpService ----------------------------
(***************************************************************************)
(* The HTTP service of qwen3-tts-server (server.rs, engine.rs, metrics.rs) *)
(* above an engine that keeps the RequestContract.                         *)
(*                                                                         *)
(* Every synthesis request is served by an async handler, which admits it, *)
(* and by one blocking job thread, which polls the native request.  They   *)
(* share the map of active request IDs, the cancellation tokens, the       *)
(* service metrics and, for a stream, a one-slot channel of body parts.    *)
(* An action is one critical section, channel operation or engine call.    *)
(*                                                                         *)
(* Time-outs may expire whenever what they wait for has not happened.      *)
(* RequestHandle::cancel is one step here: that it returns is Scheduler's  *)
(* business.  A body part is its kind; samples are counted in frames.      *)
(***************************************************************************)
EXTENDS Naturals, FiniteSets

CONSTANTS
  Requests,   \* synthesis requests ever received
  Ids,        \* request UUIDs
  IdOf,       \* IdOf[r]: the x-request-id of r
  Buffered,   \* the requests for a buffered WAV; the others are streams
  Capacity,   \* max_concurrent_requests: engine slots and egress permits
  MaxFrames   \* codec frames a request may produce

ASSUME ServiceAssumption ==
  /\ IsFiniteSet(Requests) /\ IdOf \in [Requests -> Ids] /\ Buffered \subseteq Requests
  /\ Capacity \in Nat \ {0} /\ MaxFrames \in Nat \ {0}
  /\ Requests \cap {"nobody", "vacant", "tombstone"} = {}

VARIABLES
  status, made, heard, closed, slots,  \* the engine: see RequestContract
  healthy,    \* NativeRuntimeEngine.healthy
  shutdown,   \* ShutdownController.token is cancelled
  admission,  \* holder of ShutdownController.admission, or "nobody"
  active,     \* active[id]: a request that runs, "tombstone" or "vacant"
  token,      \* requests whose own cancellation token is cancelled
  handler,    \* handler[r]: progress of the handler, then of the response body
  permit,     \* buffered requests that hold an egress permit
  job,        \* job[r]: the blocking worker of r
  channel,    \* channel[r]: the one-slot body channel: {} or {part}
  got,        \* got[r]: the last body part the client of r has read
  metrics     \* ServiceMetrics

Engine == INSTANCE RequestContract

engineVars == <<status, made, heard, closed, slots>>
responseVars == <<handler, permit>>
streamVars == <<channel, got>>
vars == <<engineVars, healthy, shutdown, admission, active, token, responseVars,
          job, streamVars, metrics>>

Completions == {"pending", "completed", "failed", "cancelled", "timedout"}

\* pc, which in a send names the part; ActiveGuard.completion; the last result
\* of a send.
Sending == {"audio", "end", "error"}
Parts == {"start"} \cup Sending

Job ==
  [pc : {"none", "loop", "poll", "wait", "waitEnd", "dropHandle", "dropSender",
         "dropGuard", "count", "done"} \cup Sending,
   completion : Completions,
   sent : {"ok", "Cancelled", "Disconnected", "TimedOut"}]

Metrics ==
  [total : Nat, active : Nat, completed : Nat, failed : Nat, cancelled : Nat,
   rejected : Nat, timeouts : Nat]

\* A child token is cancelled with its parent.
Cancelled_OwnOnly(r) == r \in token
Cancelled(r) == r \in token \/ shutdown

InitWith(arrivals) ==
  /\ Engine!Init
  /\ healthy = TRUE /\ shutdown = FALSE /\ admission = "nobody"
  /\ active = [id \in Ids |-> "vacant"]
  /\ token = {} /\ permit = {}
  /\ handler = [r \in Requests |-> IF r \in arrivals THEN "new" ELSE "gone"]
  /\ job = [r \in Requests |-> [pc |-> "none", completion |-> "pending",
                                sent |-> "ok"]]
  /\ channel = [r \in Requests |-> {}]
  /\ got = [r \in Requests |-> "start"]
  /\ metrics = [total |-> 0, active |-> 0, completed |-> 0, failed |-> 0,
                cancelled |-> 0, rejected |-> 0, timeouts |-> 0]

Init == InitWith(Requests)

-----------------------------------------------------------------------------
(* Handlers: start_prepared.                                               *)

\* An early return: the handler drops the egress permit it may hold.
Refuse(r) ==
  /\ handler' = [handler EXCEPT ![r] = "gone"]
  /\ permit' = permit \ {r}

AcquireEgress(r) ==
  /\ handler[r] = "new"
  /\ IF r \in Buffered /\ Cardinality(permit) = Capacity
     THEN Refuse(r) /\ metrics' = [metrics EXCEPT !.rejected = @ + 1]
     ELSE /\ handler' = [handler EXCEPT ![r] = "admit"]
          /\ permit' = permit \cup ({r} \cap Buffered)
          /\ UNCHANGED metrics
  /\ UNCHANGED <<engineVars, healthy, shutdown, admission, active, token, job, streamVars>>

\* Under the admission lock: the shutdown check and the map entry.  A refused
\* request gives the lock back at once.
Admit(r) ==
  /\ handler[r] = "admit" /\ admission = "nobody"
  /\ IF shutdown \/ active[IdOf[r]] # "vacant"
     THEN Refuse(r) /\ UNCHANGED <<admission, active>>
     ELSE /\ admission' = r
          /\ active' = [active EXCEPT ![IdOf[r]] = r]
          /\ handler' = [handler EXCEPT ![r] = "start"]
          /\ UNCHANGED permit
  /\ UNCHANGED <<engineVars, healthy, shutdown, token, job, streamVars, metrics>>

\* SpeechEngine::start, still under the admission lock.  The engine may refuse:
\* it is unhealthy or full, or the scheduler rejects the generation or the
\* input; or its worker thread is gone, which also makes it unhealthy.
EngineStart(r) ==
  /\ handler[r] = "start"
  /\ admission' = "nobody"
  /\ \/ /\ healthy /\ Engine!Admit(r)
        /\ handler' = [handler EXCEPT ![r] = "spawn"]
        /\ UNCHANGED <<healthy, active, permit, metrics>>
     \/ /\ healthy' \in {healthy, FALSE}
        /\ active' = [active EXCEPT ![IdOf[r]] = "vacant"]
        /\ metrics' = [metrics EXCEPT !.rejected = @ + 1]
        /\ Refuse(r)
        /\ UNCHANGED engineVars
  /\ UNCHANGED <<shutdown, token, job, streamVars>>

\* request_started and spawn_blocking; a stream gets its start part.
Spawn(r) ==
  /\ handler[r] = "spawn"
  /\ metrics' = [metrics EXCEPT !.total = @ + 1, !.active = @ + 1]
  /\ handler' = [handler EXCEPT ![r] = IF r \in Buffered THEN "await" ELSE "body"]
  /\ channel' = [channel EXCEPT ![r] = IF r \in Buffered THEN {} ELSE {"start"}]
  /\ job' = [job EXCEPT ![r].pc = "loop"]
  /\ UNCHANGED <<engineVars, healthy, shutdown, admission, active, token, permit, got>>

\* The buffered handler gets the result of the job: a body that keeps the
\* permit, or an error.
Resume(r) ==
  /\ handler[r] = "await" /\ job[r].pc = "done"
  /\ IF job[r].completion = "completed"
     THEN handler' = [handler EXCEPT ![r] = "body"] /\ UNCHANGED permit
     ELSE Refuse(r)
  /\ UNCHANGED <<engineVars, healthy, shutdown, admission, active, token, job,
                 streamVars, metrics>>

-----------------------------------------------------------------------------
(* Clients and operators.                                                  *)

ReadPart(r) ==
  /\ handler[r] = "body" /\ channel[r] # {}
  /\ got' = [got EXCEPT ![r] = CHOOSE part \in channel[r] : TRUE]
  /\ channel' = [channel EXCEPT ![r] = {}]
  /\ UNCHANGED <<engineVars, healthy, shutdown, admission, active, token,
                 responseVars, job, metrics>>

\* The body is consumed to its end or dropped, or a buffered handler is
\* dropped at its await: the token is cancelled and the permit released.
\* (A consumed WAV has no token left to cancel: its job has ended.)
Leave(r) ==
  /\ handler[r] \in {"await", "body"}
  /\ Refuse(r)
  /\ token' = token \cup {r}
  /\ channel' = [channel EXCEPT ![r] = {}]
  /\ UNCHANGED <<engineVars, healthy, shutdown, admission, active, job, got, metrics>>

\* DELETE: the token found in the map is cancelled after the map is unlocked,
\* when its job may have ended and does not look at it any more.
Delete(id) ==
  /\ active[id] \in Requests
  /\ token' = token \cup {active[id]}
  /\ UNCHANGED <<engineVars, healthy, shutdown, admission, active, responseVars,
                 job, streamVars, metrics>>

\* ShutdownController::cancel.
CloseAdmission_Unlocked ==
  /\ ~shutdown
  /\ shutdown' = TRUE
  /\ UNCHANGED <<engineVars, healthy, admission, active, token, responseVars,
                 job, streamVars, metrics>>

CloseAdmission ==
  /\ ~shutdown /\ admission = "nobody"
  /\ shutdown' = TRUE
  /\ UNCHANGED <<engineVars, healthy, admission, active, token, responseVars,
                 job, streamVars, metrics>>

-----------------------------------------------------------------------------
(* Jobs: run_streaming_worker and run_buffered_worker.                     *)

jobFrame == <<shutdown, admission, token, responseVars>>
loopFrame == <<jobFrame, active, metrics>>

RequestCancel_Lost(r) == UNCHANGED engineVars

\* RequestHandle::cancel, without effect on a request that has ended.
RequestCancel(r) ==
  IF status[r] = "live" THEN Engine!Cancel(r) ELSE UNCHANGED engineVars

\* The job of r gives up: a stream is told why, then the native request has to
\* retire.  completion is what ActiveGuard records if it does.
GiveUp(r, completion) ==
  job' = [job EXCEPT ![r].pc = IF r \in Buffered THEN "wait" ELSE "error",
                     ![r].completion = completion]

CheckToken(r) ==
  /\ job[r].pc = "loop"
  /\ IF Cancelled(r)
     THEN RequestCancel(r) /\ GiveUp(r, "cancelled")
     ELSE job' = [job EXCEPT ![r].pc = "poll"] /\ UNCHANGED engineVars
  /\ UNCHANGED <<loopFrame, healthy, streamVars>>

PollWouldBlock(r) ==
  /\ job[r].pc = "poll" /\ status[r] = "live" /\ heard[r] = made[r]
  /\ job' = [job EXCEPT ![r].pc = "loop"]
  /\ UNCHANGED <<loopFrame, engineVars, healthy, streamVars>>

\* A packet PacketContinuity accepts: sent on, or kept in the PCM vector.
PollPacket(r) ==
  /\ job[r].pc = "poll" /\ Engine!Deliver(r)
  /\ job' = [job EXCEPT ![r].pc = IF r \in Buffered THEN "loop" ELSE "audio"]
  /\ UNCHANGED <<loopFrame, healthy, streamVars>>

\* Output PacketContinuity or the buffer limit refuses: fail_native_output.
PollRefused(r) ==
  /\ job[r].pc = "poll" /\ status[r] \in {"live", "ended"}
  /\ RequestCancel(r) /\ GiveUp(r, "failed")
  /\ UNCHANGED <<loopFrame, healthy, streamVars>>

PollEnd_WhenClosed(r) ==
  /\ job[r].pc = "poll" /\ closed[r]
  /\ job' = [job EXCEPT ![r].pc = "waitEnd"]
  /\ UNCHANGED <<loopFrame, engineVars, healthy, streamVars>>

PollEnd(r) ==
  /\ job[r].pc = "poll" /\ status[r] = "ended"
  /\ job' = [job EXCEPT ![r].pc = "waitEnd"]
  /\ UNCHANGED <<loopFrame, engineVars, healthy, streamVars>>

\* handle_engine_error; a model, allocation or CUDA failure is fatal.
PollError(r) ==
  /\ job[r].pc = "poll" /\ status[r] \in {"cancelled", "failed"}
  /\ healthy' \in {healthy, healthy /\ status[r] # "failed"}
  /\ GiveUp(r, status[r])
  /\ UNCHANGED <<loopFrame, engineVars, streamVars>>

\* What the job does with the result of a send.
AfterSend(r, result) ==
  LET part == job[r].pc
      undelivered == part = "audio" /\ result # "ok"
      completion == CASE part = "end" -> IF result = "ok" THEN "completed" ELSE "cancelled"
                      [] undelivered  -> "cancelled"
                      [] OTHER        -> job[r].completion
      next == CASE part = "audio" /\ result = "ok"           -> "loop"
                [] part = "end" \/ completion = "timedout"   -> "dropHandle"
                [] OTHER                                     -> "wait"
  IN  /\ IF undelivered THEN RequestCancel(r) ELSE UNCHANGED engineVars
      /\ job' = [job EXCEPT ![r] = [pc |-> next, completion |-> completion, sent |-> result]]

SendOk(r) ==
  /\ job[r].pc \in Sending /\ handler[r] = "body" /\ channel[r] = {}
  /\ channel' = [channel EXCEPT ![r] = {job[r].pc}]
  /\ AfterSend(r, "ok")
  /\ UNCHANGED <<loopFrame, healthy, got>>

SendError_NoTimeout(r) ==
  /\ job[r].pc \in Sending
  /\ \/ handler[r] # "body" /\ AfterSend(r, "Disconnected")
     \/ Cancelled(r) /\ job[r].pc # "error" /\ AfterSend(r, "Cancelled")
  /\ UNCHANGED <<loopFrame, healthy, streamVars>>

\* send_chunk: an error part does not observe the token; for another part
\* select! may prefer the token to a free slot.
SendError(r) ==
  /\ job[r].pc \in Sending
  /\ \/ handler[r] # "body" /\ AfterSend(r, "Disconnected")
     \/ handler[r] = "body" /\ channel[r] # {} /\ AfterSend(r, "TimedOut")
     \/ Cancelled(r) /\ job[r].pc # "error" /\ AfterSend(r, "Cancelled")
  /\ UNCHANGED <<loopFrame, healthy, streamVars>>

\* The native request is retired once its slot has been returned.
Retired_Assumed(r) == TRUE
Retired(r) == r \notin slots

\* mark_retirement.
WaitRetired(r) ==
  /\ job[r].pc = "wait" /\ Retired(r)
  /\ job' = [job EXCEPT ![r].pc = IF r \in Buffered THEN "dropGuard" ELSE "dropHandle"]
  /\ UNCHANGED <<loopFrame, engineVars, healthy, streamVars>>

\* A WAV that cannot be encoded leaves the completion pending.
WaitEndRetired(r) ==
  /\ job[r].pc = "waitEnd" /\ Retired(r)
  /\ IF r \in Buffered
     THEN \E completion \in {"completed", job[r].completion} :
            job' = [job EXCEPT ![r].pc = "dropGuard", ![r].completion = completion]
     ELSE job' = [job EXCEPT ![r].pc = "end"]
  /\ UNCHANGED <<loopFrame, engineVars, healthy, streamVars>>

\* The deadline may also pass just before retired is stored.
RetirementTimeout(r) ==
  /\ job[r].pc \in {"wait", "waitEnd"}
  /\ healthy' = FALSE
  /\ job' = [job EXCEPT ![r].pc = IF r \in Buffered THEN "dropGuard"
                                  ELSE IF @ = "wait" THEN "dropHandle" ELSE "error",
                        ![r].completion = "timedout"]
  /\ UNCHANGED <<loopFrame, engineVars, streamVars>>

\* The locals of a stream job are dropped in the order request, sender, guard,
\* those of a buffered job in the order guard, request.
DropHandle(r) ==
  /\ job[r].pc = "dropHandle"
  /\ RequestCancel(r)
  /\ job' = [job EXCEPT ![r].pc = IF r \in Buffered THEN "done" ELSE "dropSender"]
  /\ UNCHANGED <<loopFrame, healthy, streamVars>>

DropSender(r) ==
  /\ job[r].pc = "dropSender"
  /\ job' = [job EXCEPT ![r].pc = "dropGuard"]
  /\ UNCHANGED <<loopFrame, engineVars, healthy, streamVars>>

\* ActiveGuard::drop: the map, then the metrics.
DropGuard_Frees(r) ==
  /\ job[r].pc = "dropGuard"
  /\ active' = [active EXCEPT ![IdOf[r]] = "vacant"]
  /\ job' = [job EXCEPT ![r].pc = "count"]
  /\ UNCHANGED <<jobFrame, engineVars, healthy, streamVars, metrics>>

DropGuard(r) ==
  /\ job[r].pc = "dropGuard"
  /\ active' = [active EXCEPT ![IdOf[r]] =
                  IF job[r].completion = "timedout" THEN "tombstone" ELSE "vacant"]
  /\ job' = [job EXCEPT ![r].pc = "count"]
  /\ UNCHANGED <<jobFrame, engineVars, healthy, streamVars, metrics>>

\* A retirement time-out counts as failed and leaves the gauge up.
Counted(m, completion) ==
  [m EXCEPT !.active = IF completion = "timedout" THEN @ ELSE @ - 1,
            !.completed = IF completion = "completed" THEN @ + 1 ELSE @,
            !.cancelled = IF completion = "cancelled" THEN @ + 1 ELSE @,
            !.failed = IF completion \in {"pending", "failed", "timedout"} THEN @ + 1 ELSE @,
            !.timeouts = IF completion = "timedout" THEN @ + 1 ELSE @]

CountOutcome(r) ==
  /\ job[r].pc = "count"
  /\ metrics' = Counted(metrics, job[r].completion)
  /\ job' = [job EXCEPT ![r].pc = IF r \in Buffered THEN "dropHandle" ELSE "done"]
  /\ UNCHANGED <<jobFrame, engineVars, healthy, active, streamVars>>

-----------------------------------------------------------------------------
Handler(r) == AcquireEgress(r) \/ Admit(r) \/ EngineStart(r) \/ Spawn(r) \/ Resume(r)
Client(r) == ReadPart(r) \/ Leave(r)

JobStep(r) ==
  \/ CheckToken(r) \/ PollWouldBlock(r) \/ PollPacket(r) \/ PollRefused(r)
  \/ PollEnd(r) \/ PollError(r) \/ SendOk(r) \/ SendError(r)
  \/ WaitRetired(r) \/ WaitEndRetired(r) \/ RetirementTimeout(r)
  \/ DropHandle(r) \/ DropSender(r) \/ DropGuard(r) \/ CountOutcome(r)

\* The scheduler's own steps.
Backend(r) ==
  /\ Engine!Generate(r) \/ Engine!Fail(r) \/ Engine!Return(r)
  /\ UNCHANGED <<healthy, shutdown, admission, active, token, responseVars, job,
                 streamVars, metrics>>

\* Everything that was ever received has been served.
Finished ==
  /\ shutdown
  /\ \A r \in Requests : handler[r] = "gone" /\ job[r].pc \in {"none", "done"}
  /\ UNCHANGED vars

Next ==
  \/ \E r \in Requests : Handler(r) \/ JobStep(r) \/ Client(r) \/ Backend(r)
  \/ \E id \in Ids : Delete(id)
  \/ CloseAdmission \/ Finished

Spec == Init /\ [][Next]_vars

\* Handlers and jobs are scheduled and their time-outs expire.  Nothing is
\* assumed of clients, and the engine may hang for ever.
Fairness ==
  \A r \in Requests :
    /\ WF_vars(handler[r] # "new" /\ Handler(r))
    /\ WF_vars(JobStep(r))

FairSpec == Spec /\ Fairness

-----------------------------------------------------------------------------
(* Properties.                                                             *)

\* Every variable stays in its domain; the counters never wrap below zero.
TypeOK ==
  /\ status \in [Requests -> {"idle", "live", "ended", "cancelled", "failed"}]
  /\ made \in [Requests -> 0 .. MaxFrames] /\ heard \in [Requests -> 0 .. MaxFrames]
  /\ closed \in [Requests -> BOOLEAN] /\ slots \subseteq Requests
  /\ healthy \in BOOLEAN /\ shutdown \in BOOLEAN
  /\ admission \in Requests \cup {"nobody"}
  /\ active \in [Ids -> Requests \cup {"vacant", "tombstone"}]
  /\ token \subseteq Requests /\ permit \subseteq Buffered
  /\ handler \in [Requests -> {"new", "admit", "start", "spawn", "await", "body", "gone"}]
  /\ job \in [Requests -> Job]
  /\ channel \in [Requests -> SUBSET Parts] /\ got \in [Requests -> Parts]
  /\ metrics \in Metrics

\* The ActiveGuard of r has been dropped.
GuardDropped(r) == job[r].pc \in {"count", "done"} \/ (r \in Buffered /\ job[r].pc = "dropHandle")

\* The map names exactly the requests between admission and the end of their
\* job: a refused start leaves no entry that would block its ID for ever, no
\* guard removes another request's entry, and DELETE finds what runs.
EntryIffInFlight ==
  \A r \in Requests :
    (active[IdOf[r]] = r) <=>
      \/ handler[r] \in {"start", "spawn"}
      \/ job[r].pc # "none" /\ ~GuardDropped(r)

\* A request ID is reusable only after the earlier request has fully retired.
OneNativePerId ==
  \A r, s \in Requests : r # s /\ IdOf[r] = IdOf[s] => ~({r, s} \subseteq slots)

\* A stream's end part is only written when the client has been sent every
\* frame and the native request has retired.
EndPartIsTrue ==
  \A r \in Requests : got[r] = "end" \/ "end" \in channel[r] =>
    /\ status[r] = "ended" /\ heard[r] = made[r] /\ closed[r]
    /\ r \notin slots

\* No native request runs on with nobody left to poll or cancel it.
NoOrphan ==
  \A r \in slots : status[r] = "live" =>
    handler[r] = "spawn" \/ job[r].pc \notin {"none", "done"}

\* A retirement time-out is an incident that lasts: the engine is unhealthy,
\* and the ID stays a tombstone whatever else the service does.
TimeoutIsIncident ==
  \A r \in Requests : job[r].completion = "timedout" =>
    /\ ~healthy
    /\ GuardDropped(r) => active[IdOf[r]] = "tombstone"

\* The gauge never shows fewer requests than the engine still serves, and once
\* all jobs have ended it shows the tombstones; the counters add up.
GaugeTruth ==
  LET started == {r \in Requests : job[r].pc # "none"}
      timedOut == {r \in started : job[r].completion = "timedout"}
  IN  /\ Cardinality(slots \cap started) <= metrics.active
      /\ (\A r \in started : job[r].pc = "done") =>
           metrics.active = Cardinality(timedOut)
      /\ metrics.total + metrics.timeouts =
           metrics.active + metrics.completed + metrics.failed + metrics.cancelled

\* What the service knows of its requests, in the map, the health flag and the
\* metrics, is true of their jobs and of the engine.
ServiceAccounts == TypeOK /\ EntryIffInFlight /\ TimeoutIsIncident /\ GaugeTruth

\* Every native request has one owner: the only one of its ID.
NativeRequestsOwned == OneNativePerId /\ NoOrphan

\* Closing admission is a boundary: no native request starts after it.
NoStartAfterShutdown == [][shutdown => slots' \subseteq slots]_vars

\* A request whose token is cancelled, by DELETE, disconnect or shutdown, is
\* given up in bounded steps, even by a stuck client and above a hung engine.
CancelledJobEnds ==
  \A r \in Requests :
    (job[r].pc # "none" /\ r \in token) ~> (job[r].pc = "done")

\* Shutdown drains the service: in the end no handler and no job is running.
ShutdownDrains ==
  shutdown ~> \A r \in Requests :
    job[r].pc \in {"none", "done"} /\ handler[r] \notin {"admit", "start", "spawn"}

\* A cancelled request gives its engine slot back, provided the engine does
\* return the slots of requests that have ended.
CancelledSlotReturns ==
  (\A r \in Requests : WF_vars(Backend(r) /\ slots' # slots)) =>
    \A r \in Requests : (job[r].pc # "none" /\ r \in token) ~> (r \notin slots)
=============================================================================
