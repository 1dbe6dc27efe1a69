----------------------------- MODULE Scheduler -----------------------------
(***************************************************************************)
(* The request scheduler of qwen3-tts-runtime (scheduler.rs).              *)
(*                                                                         *)
(* Any number of client threads own request handles and share one bounded  *)
(* command channel with a single worker thread that owns the backend.  An  *)
(* action is one critical section of the code: the body of one mutex, one  *)
(* channel operation, or one backend call.  Everything a thread does       *)
(* between two such points is invisible to the others and is part of the   *)
(* action before it.                                                       *)
(*                                                                         *)
(* PCM samples are counted in codec frames; ids are the requests           *)
(* themselves (next_request_id never repeats one); clocks, timings and     *)
(* memory metrics are left out, a timeout being possible at any time.      *)
(***************************************************************************)
EXTENDS Integers, Sequences, FiniteSets
(* Definitions named Op_Why are faulty variants of Op, kept for mutation   *)
(* checks of the properties; no specification uses them.                   *)

CONSTANTS
  Requests,      \* requests ever submitted to this scheduler
  Capacity,      \* config.max_concurrent_requests
  RingSlots,     \* config.pcm_ring_slots
  PacketFrames,  \* config.packet_frames
  MaxFrames,     \* generation.max_codec_frames of every request
  ChannelCap     \* bound of the command channel (4 * Capacity + 8 in the code)

ASSUME ConstantsAssumption ==
  /\ IsFiniteSet(Requests)
  /\ Capacity \in Nat \ {0}
  /\ RingSlots \in Nat \ {0}
  /\ PacketFrames \in Nat \ {0}
  /\ MaxFrames \in Nat \ {0}
  /\ ChannelCap \in Nat \ {0}

VARIABLES
  used,        \* SlotPool.used
  permit,      \* permit[r]: the SlotPermit of r exists
  state,       \* state[r]: RequestShared.state of r
  free,        \* free[r]: length of RequestShared.free_pcm
  held,        \* held[r]: packets of r a client owns and has not dropped
  handle,      \* handle[r]: what the thread that owns the handle is doing
  cancelSent,  \* RequestHandle.cancel_sent
  commands,    \* the bounded command channel
  shutdown,    \* Scheduler.shutdown
  owner,       \* progress of the thread that drops the Scheduler
  session,     \* session[r]: the backend session of r
  produced,    \* produced[r]: RequestRecord.next_codec_frame
  worker       \* locals and program counter of the worker thread

clientVars == <<held, handle, cancelSent>>
vars == <<used, permit, state, free, clientVars, commands, shutdown, owner,
          session, produced, worker>>

-----------------------------------------------------------------------------
(* Types.                                                                  *)

Phases == {"Queued", "Prefilling", "Generating", "Draining",
           "Completed", "Cancelled", "Failed"}

\* RequestPhase::is_terminal.
IsTerminal(phase) == phase \in {"Completed", "Cancelled", "Failed"}

\* What backend.step may return besides an error; only some are legal.
BackendPacket ==
  [frames : 0 .. PacketFrames + 1, final : BOOLEAN, reason : {"None", "Stop"}]

\* What a client can be handed: an OwnedAudioPacket.
Packet == [first : Nat, frames : Nat, final : BOOLEAN, reason : {"None", "Stop"}]

Failures == {"none", "backend", "pool", "overflow"}

RequestState ==
  [phase : Phases, packets : Seq(Packet), producer_finished : BOOLEAN,
   finish_reason : {"None", "Stop"}, retired : BOOLEAN,
   cancel_requested : BOOLEAN, failure : Failures, emitted : Nat]

IdCommand == [kind : {"start", "cancel"}, id : Requests]
Wake == [kind |-> "wake"]
Shutdown == [kind |-> "shutdown"]
Command == IdCommand \cup {Wake, Shutdown}

WorkerPcs == {"top", "recv", "drain", "coalesce", "check", "filter", "prefill",
              "sweep", "scan", "scanFree", "idle", "take", "step", "reap",
              "release", "retire", "exit", "closing", "done"}

WorkerLocals ==
  [pc : WorkerPcs, ret : WorkerPcs, stop : BOOLEAN,
   pending : SUBSET Requests, ready : SUBSET Requests, active : SUBSET Requests,
   todo : SUBSET Requests, batch : SUBSET Requests, cur : SUBSET Requests]

-----------------------------------------------------------------------------
(* RequestState transitions, each the body of one locked section.          *)

NewState ==
  [phase |-> "Queued", packets |-> <<>>, producer_finished |-> FALSE,
   finish_reason |-> "None", retired |-> FALSE, cancel_requested |-> FALSE,
   failure |-> "none", emitted |-> 0]

MarkCancelled_EarlyRetired(s) ==
  [s EXCEPT !.cancel_requested = TRUE, !.phase = "Cancelled",
            !.finish_reason = "None", !.packets = <<>>,
            !.producer_finished = TRUE, !.retired = TRUE]

MarkCancelled(s) ==
  [s EXCEPT !.cancel_requested = TRUE, !.phase = "Cancelled",
            !.finish_reason = "None", !.packets = <<>>,
            !.producer_finished = TRUE]

MarkFailed(s, error) ==
  [s EXCEPT !.phase = "Failed", !.finish_reason = "None", !.packets = <<>>,
            !.producer_finished = TRUE, !.failure = error]

\* The locked half of RequestHandle::cancel.
RequestCancel(s) ==
  [s EXCEPT !.cancel_requested = TRUE, !.finish_reason = "None",
            !.packets = <<>>]

\* The locked half of can_accept_packet; push_packet tests the same again.
AcceptsPacket_IgnoresCancel(s) ==
  s.failure = "none" /\ Len(s.packets) < RingSlots

AcceptsPacket(s) ==
  /\ ~s.cancel_requested
  /\ s.failure = "none"
  /\ Len(s.packets) < RingSlots

\* push_packet when it succeeds.
PushPacket_NotFinished(s, p) ==
  LET pushed == [s EXCEPT !.packets = Append(@, p)]
  IN  IF p.final
      THEN [pushed EXCEPT !.phase = "Draining", !.finish_reason = p.reason]
      ELSE pushed

PushPacket(s, p) ==
  LET pushed == [s EXCEPT !.packets = Append(@, p)]
  IN  IF p.final
      THEN [pushed EXCEPT !.phase = "Draining", !.producer_finished = TRUE,
                          !.finish_reason = p.reason]
      ELSE pushed

Withdrawn(s) == s.failure # "none" \/ s.cancel_requested \/ s.phase = "Cancelled"

\* Which branch RequestHandle::poll takes.
PollOutcome(s) ==
  CASE s.failure # "none" -> "Failed"
    [] s.failure = "none" /\ Withdrawn(s) -> "Cancelled"
    [] ~Withdrawn(s) /\ s.packets # <<>> -> "Packet"
    [] OTHER -> IF s.producer_finished THEN "EndOfStream" ELSE "WouldBlock"

\* poll when it hands out a packet.
PopPacket(s) ==
  LET p == Head(s.packets)
      popped == [s EXCEPT !.packets = Tail(@), !.emitted = @ + p.frames]
  IN  IF p.final /\ popped.packets = <<>>
      THEN [popped EXCEPT !.phase = "Completed"]
      ELSE popped

-----------------------------------------------------------------------------
(* Channel and pools.                                                      *)

HasRoom_OffByOne == Len(commands) <= ChannelCap
HasRoom == Len(commands) < ChannelCap

\* The worker has dropped the receiving end: sends fail at once.
ReceiverGone_Never == FALSE
ReceiverGone == worker.pc = "done"

\* n lossy try_send(Wake) calls on the channel q, one per recycled buffer;
\* without a receiver they all fail.
Woken(q, n) ==
  LET room == IF ReceiverGone THEN 0 ELSE ChannelCap - Len(q)
  IN  q \o [i \in 1 .. (IF n < room THEN n ELSE room) |-> Wake]

\* Somebody still owns an Arc of r's RequestShared, so that a dropped packet
\* finds its recycler.
Alive(r) == handle[r] # "closed" \/ ~state[r].retired

\* SlotPool::release saturates at zero.
ReleasedSlots_Leak == used
ReleasedSlots == IF used > 0 THEN used - 1 ELSE 0

\* Set r's state to s on the queue q; the packets that s no longer holds are
\* dropped, and each returns its buffer and wakes the worker.
Clear(r, s, q) ==
  LET n == Len(state[r].packets)
  IN  /\ state' = [state EXCEPT ![r] = s]
      /\ free' = [free EXCEPT ![r] = @ + n]
      /\ commands' = Woken(q, n)

-----------------------------------------------------------------------------
Init ==
  /\ used = 0
  /\ permit = [r \in Requests |-> FALSE]
  /\ state = [r \in Requests |-> NewState]
  /\ free = [r \in Requests |-> RingSlots]
  /\ held = [r \in Requests |-> 0]
  /\ handle = [r \in Requests |-> "new"]
  /\ cancelSent = [r \in Requests |-> FALSE]
  /\ commands = <<>>
  /\ shutdown = FALSE
  /\ owner = "live"
  /\ session = [r \in Requests |-> "none"]
  /\ produced = [r \in Requests |-> 0]
  /\ worker = [pc |-> "top", ret |-> "top", stop |-> FALSE,
               pending |-> {}, ready |-> {}, active |-> {},
               todo |-> {}, batch |-> {}, cur |-> {}]

-----------------------------------------------------------------------------
(* Clients.                                                                *)

\* Scheduler::start up to the send: a full pool is an error without effect.
StartAcquire(r) ==
  /\ owner = "live" /\ handle[r] = "new"
  /\ used # Capacity
  /\ used' = used + 1
  /\ permit' = [permit EXCEPT ![r] = TRUE]
  /\ handle' = [handle EXCEPT ![r] = "starting"]
  /\ UNCHANGED <<state, free, held, cancelSent, commands, shutdown, owner,
                 session, produced, worker>>

\* The blocking send of Start.
StartSend(r) ==
  /\ handle[r] = "starting" /\ HasRoom
  /\ commands' = Append(commands, [kind |-> "start", id |-> r])
  /\ handle' = [handle EXCEPT ![r] = "open"]
  /\ UNCHANGED <<used, permit, state, free, held, cancelSent, shutdown, owner,
                 session, produced, worker>>

\* A handle is Sync: a poll may run while another thread is inside cancel.
CanPoll(r) == handle[r] \in {"open", "cancelling"}

PollPacket(r) ==
  /\ CanPoll(r) /\ PollOutcome(state[r]) = "Packet"
  /\ state' = [state EXCEPT ![r] = PopPacket(@)]
  /\ held' = [held EXCEPT ![r] = @ + 1]
  /\ commands' = Woken(commands, 1)
  /\ UNCHANGED <<used, permit, free, handle, cancelSent, shutdown, owner,
                 session, produced, worker>>

PollEnd(r) ==
  /\ CanPoll(r) /\ PollOutcome(state[r]) = "EndOfStream"
  /\ state' = [state EXCEPT ![r].phase = "Completed"]
  /\ UNCHANGED <<used, permit, free, clientVars, commands, shutdown, owner,
                 session, produced, worker>>

\* OwnedAudioPacket::drop: the buffer goes back if the request still exists.
DropPacket(r) ==
  /\ held[r] > 0
  /\ held' = [held EXCEPT ![r] = @ - 1]
  /\ IF Alive(r)
     THEN /\ free' = [free EXCEPT ![r] = @ + 1]
          /\ commands' = Woken(commands, 1)
     ELSE UNCHANGED <<free, commands>>
  /\ UNCHANGED <<used, permit, state, handle, cancelSent, shutdown, owner,
                 session, produced, worker>>

\* The swap and the locked half of cancel; with then = "dropping" it is the
\* cancel that RequestHandle::drop makes.
CancelMark(r, then, after) ==
  /\ handle[r] = "open"
  /\ cancelSent' = [cancelSent EXCEPT ![r] = TRUE]
  /\ IF cancelSent[r] \/ IsTerminal(state[r].phase)
     THEN /\ handle' = [handle EXCEPT ![r] = after]
          /\ UNCHANGED <<state, free, commands>>
     ELSE /\ handle' = [handle EXCEPT ![r] = then]
          /\ Clear(r, RequestCancel(state[r]), commands)
  /\ UNCHANGED <<used, permit, held, shutdown, owner, session, produced, worker>>

Cancel(r) == ~cancelSent[r] /\ CancelMark(r, "cancelling", "open")
DropHandle(r) == CancelMark(r, "dropping", "closed")

\* The blocking send of Cancel; without a receiver it is an error at once.
CancelSend(r) ==
  /\ handle[r] \in {"cancelling", "dropping"}
  /\ IF ReceiverGone THEN UNCHANGED commands
     ELSE /\ HasRoom
          /\ commands' = Append(commands, [kind |-> "cancel", id |-> r])
  /\ handle' = [handle EXCEPT ![r] = IF @ = "cancelling" THEN "open" ELSE "closed"]
  /\ UNCHANGED <<used, permit, state, free, held, cancelSent, shutdown, owner,
                 session, produced, worker>>

-----------------------------------------------------------------------------
(* Scheduler::drop.  It owns the scheduler: no start is in progress.       *)

ownerFrame == <<used, permit, state, free, clientVars, session, produced, worker>>

StoreShutdown ==
  /\ owner = "live" /\ \A r \in Requests : handle[r] # "starting"
  /\ owner' = "stored" /\ shutdown' = TRUE
  /\ UNCHANGED <<ownerFrame, commands>>

SendShutdown_FlagOnly ==
  /\ owner = "stored"
  /\ owner' = "joining"
  /\ UNCHANGED <<ownerFrame, commands, shutdown>>

SendShutdown ==
  /\ owner = "stored"
  /\ owner' = "joining"
  /\ commands' = IF HasRoom /\ ~ReceiverGone
                 THEN Append(commands, Shutdown) ELSE commands
  /\ UNCHANGED <<ownerFrame, shutdown>>

JoinWorker ==
  /\ owner = "joining" /\ worker.pc = "done"
  /\ owner' = "gone"
  /\ UNCHANGED <<ownerFrame, commands, shutdown>>

-----------------------------------------------------------------------------
(* Worker: receiving commands.                                             *)

GoTo(pc) == worker' = [worker EXCEPT !.pc = pc]

\* drop(request) releases session and permit, then mark_retired; w is the
\* worker with r already taken out of the collection that owned it.
Retire(w, r, ret) ==
  worker' = [w EXCEPT !.pc = "release", !.cur = {r}, !.ret = ret]

\* Removal of r from pending, by swap_remove, drain or consumption.
WithoutPending_Kept(r) == worker
WithoutPending(r) == [worker EXCEPT !.pending = @ \ {r}]

\* handle_command on the head of the channel, going on at next, or at stopped
\* after Shutdown.
HandleCommand(next, stopped) ==
  /\ commands # <<>>
  /\ LET m == Head(commands)
         rest == Tail(commands)
     IN  \/ /\ m.kind = "start"
            /\ worker' = [worker EXCEPT !.pc = next, !.pending = @ \cup {m.id}]
            /\ commands' = rest
            /\ UNCHANGED <<state, free>>
         \/ /\ m.kind = "cancel" /\ m.id \in worker.pending
            /\ Clear(m.id, MarkCancelled(state[m.id]), rest)
            /\ Retire(WithoutPending(m.id), m.id, next)
         \/ /\ m.kind = "cancel" /\ m.id \in worker.active \ worker.pending
            /\ Clear(m.id, MarkCancelled(state[m.id]), rest)
            /\ GoTo(next)
         \/ /\ \/ m.kind = "wake"
               \/ m.kind = "cancel" /\ m.id \notin worker.active \cup worker.pending
            /\ GoTo(next)
            /\ commands' = rest
            /\ UNCHANGED <<state, free>>
         \/ /\ m.kind = "shutdown"
            /\ worker' = [worker EXCEPT !.pc = stopped, !.stop = TRUE]
            /\ commands' = rest
            /\ UNCHANGED <<state, free>>
  /\ UNCHANGED <<used, permit, clientVars, shutdown, owner, session, produced>>

workerFrame == <<used, permit, state, free, clientVars, commands, shutdown,
                 owner, session, produced>>

Top ==
  /\ worker.pc = "top"
  /\ GoTo(IF shutdown \/ worker.stop THEN "exit"
          ELSE IF worker.active = {} /\ worker.pending = {} THEN "recv"
          ELSE "drain")
  /\ UNCHANGED workerFrame

\* The blocking recv of an idle worker.
Recv == worker.pc = "recv" /\ HandleCommand("drain", "drain")

Drain ==
  /\ worker.pc = "drain"
  /\ \/ HandleCommand("drain", "coalesce")
     \/ /\ commands = <<>>
        /\ GoTo("coalesce")
        /\ UNCHANGED workerFrame

\* coalesce_pending_starts: wait for more starts while the batch has room.
BatchHasRoom ==
  /\ worker.pending # {}
  /\ Cardinality(worker.pending) < Capacity - Cardinality(worker.active)

Coalesce ==
  /\ worker.pc = "coalesce"
  /\ \/ BatchHasRoom /\ HandleCommand("coalesce", "check")
     \/ GoTo("check") /\ UNCHANGED workerFrame

Check ==
  /\ worker.pc = "check"
  /\ GoTo(IF shutdown \/ worker.stop THEN "exit" ELSE "filter")
  /\ UNCHANGED workerFrame

\* recv_timeout when no request can be stepped.
Idle ==
  /\ worker.pc = "idle"
  /\ \/ HandleCommand("top", "top")
     \/ commands = <<>> /\ GoTo("top") /\ UNCHANGED workerFrame

-----------------------------------------------------------------------------
(* Worker: start_pending.                                                  *)

stateFrame == <<used, permit, clientVars, shutdown, owner, session, produced>>

FilterPending(r) ==
  /\ worker.pc = "filter" /\ r \in worker.pending
  /\ LET w == WithoutPending(r)
     IN  IF state[r].cancel_requested
         THEN /\ Clear(r, MarkCancelled(state[r]), commands)
              /\ Retire(w, r, "filter")
         ELSE /\ worker' = [w EXCEPT !.ready = @ \cup {r}]
              /\ UNCHANGED <<state, free, commands>>
  /\ UNCHANGED stateFrame

\* mark_prefilling for the whole batch, then the call of start_batch.
BeginPrefill ==
  /\ worker.pc = "filter" /\ worker.pending = {}
  /\ state' = [r \in Requests |->
                 IF r \in worker.ready
                 THEN [state[r] EXCEPT !.phase = "Prefilling"] ELSE state[r]]
  /\ GoTo("prefill")
  /\ UNCHANGED <<stateFrame, free, commands>>

\* One result of start_batch; a panic or a short result is an error for all.
PrefillOk(r) ==
  /\ worker.pc = "prefill" /\ r \in worker.ready
  /\ state' = [state EXCEPT ![r].phase = "Generating"]
  /\ session' = [session EXCEPT ![r] = "open"]
  /\ worker' = [worker EXCEPT !.ready = @ \ {r}, !.active = @ \cup {r}]
  /\ UNCHANGED <<used, permit, free, clientVars, commands, shutdown, owner, produced>>

PrefillErr(r) ==
  /\ worker.pc = "prefill" /\ r \in worker.ready
  /\ Clear(r, MarkFailed(state[r], "backend"), commands)
  /\ Retire([worker EXCEPT !.ready = @ \ {r}], r, "prefill")
  /\ UNCHANGED stateFrame

PrefillDone ==
  /\ worker.pc = "prefill" /\ worker.ready = {}
  /\ worker' = [worker EXCEPT !.pc = "sweep", !.todo = worker.active]
  /\ UNCHANGED workerFrame

-----------------------------------------------------------------------------
(* Worker: remove_cancelled and the scan for requests that can be stepped. *)

closeFrame == <<used, permit, clientVars, shutdown, owner, produced>>

\* backend.cancel, mark_cancelled and retirement of an active request.
CancelActive(w, r, ret) ==
  /\ session' = [session EXCEPT ![r] = "cancelled"]
  /\ Clear(r, MarkCancelled(state[r]), commands)
  /\ Retire([w EXCEPT !.active = @ \ {r}], r, ret)

Sweep_Keep(r) ==
  /\ worker.pc = "sweep" /\ r \in worker.todo
  /\ worker' = [worker EXCEPT !.todo = @ \ {r}]
  /\ UNCHANGED workerFrame

Sweep(r) ==
  /\ worker.pc = "sweep" /\ r \in worker.todo
  /\ LET w == [worker EXCEPT !.todo = @ \ {r}]
     IN  IF state[r].cancel_requested THEN CancelActive(w, r, "sweep")
         ELSE worker' = w /\ UNCHANGED <<session, state, free, commands>>
  /\ UNCHANGED closeFrame

SweepDone ==
  /\ worker.pc = "sweep" /\ worker.todo = {}
  /\ worker' = [worker EXCEPT !.pc = "scan", !.todo = worker.active, !.batch = {}]
  /\ UNCHANGED workerFrame

\* can_accept_packet locks the state, unlocks it, then locks free_pcm.
ScanState(r) ==
  /\ worker.pc = "scan" /\ r \in worker.todo
  /\ worker' = IF AcceptsPacket(state[r])
               THEN [worker EXCEPT !.pc = "scanFree", !.cur = {r}]
               ELSE [worker EXCEPT !.todo = @ \ {r}]
  /\ UNCHANGED workerFrame

HasFreePcm_Assumed(r) == TRUE
HasFreePcm(r) == free[r] > 0

ScanFree(r) ==
  /\ worker.pc = "scanFree" /\ r \in worker.cur
  /\ worker' = [worker EXCEPT !.pc = "scan", !.todo = @ \ {r}, !.cur = {},
                              !.batch = IF HasFreePcm(r) THEN @ \cup {r} ELSE @]
  /\ UNCHANGED workerFrame

NothingEligible_Lockstep == worker.batch # worker.active \/ worker.batch = {}
NothingEligible == worker.batch = {}

ScanDone ==
  /\ worker.pc = "scan" /\ worker.todo = {}
  /\ worker' = IF NothingEligible THEN [worker EXCEPT !.pc = "idle"]
               ELSE [worker EXCEPT !.pc = "take", !.todo = worker.batch, !.batch = {}]
  /\ UNCHANGED workerFrame

-----------------------------------------------------------------------------
(* Worker: step_eligible.                                                  *)

\* take_pcm for one eligible request.
TakePcm(r) ==
  /\ worker.pc = "take" /\ r \in worker.todo
  /\ IF free[r] > 0
     THEN /\ free' = [free EXCEPT ![r] = @ - 1]
          /\ worker' = [worker EXCEPT !.todo = @ \ {r}, !.batch = @ \cup {r}]
          /\ UNCHANGED <<state, commands>>
     ELSE /\ Clear(r, MarkFailed(state[r], "pool"), commands)
          /\ worker' = [worker EXCEPT !.todo = @ \ {r}]
  /\ UNCHANGED stateFrame

\* The call of step_batch with every buffer taken.
StepBatch ==
  /\ worker.pc = "take" /\ worker.todo = {}
  /\ GoTo("step")
  /\ UNCHANGED workerFrame

\* validate_backend_packet.
ValidPacket(p) ==
  /\ p.frames \in 1 .. PacketFrames
  /\ p.final <=> p.reason # "None"

\* The max_codec_frames boundary.
WithinLimit(r, p) ==
  LET next == produced[r] + p.frames
  IN  next < MaxFrames \/ (next = MaxFrames /\ p.final)

\* The buffer the worker took for r and recycles now, together with the n
\* packets that leave r's queue.
Recycle_Lost(r, s, n) ==
  /\ state' = [state EXCEPT ![r] = s]
  /\ free' = [free EXCEPT ![r] = @ + n]
  /\ commands' = Woken(commands, 1 + n)

Recycle(r, s, n) ==
  /\ state' = [state EXCEPT ![r] = s]
  /\ free' = [free EXCEPT ![r] = @ + 1 + n]
  /\ commands' = Woken(commands, 1 + n)

StepErr(r) ==
  /\ worker.pc = "step" /\ r \in worker.batch
  /\ Recycle(r, MarkFailed(state[r], "backend"), Len(state[r].packets))
  /\ worker' = [worker EXCEPT !.batch = @ \ {r}]
  /\ UNCHANGED stateFrame

\* A packet the checks accept: record_packet, then push_packet.
StepPacket(r) ==
  /\ worker.pc = "step" /\ r \in worker.batch
  /\ \E b \in BackendPacket :
       /\ ValidPacket(b) /\ WithinLimit(r, b)
       /\ produced' = [produced EXCEPT ![r] = @ + b.frames]
       /\ LET s == state[r]
              p == [first |-> produced[r], frames |-> b.frames,
                    final |-> b.final, reason |-> b.reason]
          IN  IF AcceptsPacket(s)
              THEN /\ state' = [state EXCEPT ![r] = PushPacket(s, p)]
                   /\ UNCHANGED <<free, commands>>
              ELSE IF s.cancel_requested THEN Recycle(r, s, 0)
              ELSE Recycle(r, MarkFailed(s, "overflow"), Len(s.packets))
  /\ worker' = [worker EXCEPT !.batch = @ \ {r}]
  /\ UNCHANGED <<used, permit, clientVars, shutdown, owner, session>>

StepDone ==
  /\ worker.pc = "step" /\ worker.batch = {}
  /\ worker' = [worker EXCEPT !.pc = "reap", !.todo = worker.active]
  /\ UNCHANGED workerFrame

-----------------------------------------------------------------------------
(* Worker: remove_finished and retirement.                                 *)

\* The session has to be cancelled on the backend.
Aborted_CancelOnly(s) == s.cancel_requested
Aborted(s) == s.failure # "none" \/ s.cancel_requested

Reap(r) ==
  /\ worker.pc = "reap" /\ r \in worker.todo
  /\ LET s == state[r]
         aborted == Aborted(s)
         w == [worker EXCEPT !.todo = @ \ {r}]
     IN  /\ session' = IF aborted THEN [session EXCEPT ![r] = "cancelled"]
                       ELSE session
         /\ IF s.producer_finished \/ aborted
            THEN Retire([w EXCEPT !.active = @ \ {r}], r, "reap")
            ELSE worker' = w
  /\ UNCHANGED <<closeFrame, state, free, commands>>

ReapDone ==
  /\ worker.pc = "reap" /\ worker.todo = {}
  /\ GoTo("top")
  /\ UNCHANGED workerFrame

\* drop(request): the session, then the SlotPermit.
Release(r) ==
  /\ worker.pc = "release" /\ r \in worker.cur
  /\ session' = [session EXCEPT ![r] = IF @ = "none" THEN @ ELSE "dropped"]
  /\ permit' = [permit EXCEPT ![r] = FALSE]
  /\ used' = ReleasedSlots
  /\ GoTo("retire")
  /\ UNCHANGED <<state, free, clientVars, commands, shutdown, owner, produced>>

MarkRetired(r) ==
  /\ worker.pc = "retire" /\ r \in worker.cur
  /\ state' = [state EXCEPT ![r].retired = TRUE]
  /\ worker' = [worker EXCEPT !.pc = worker.ret, !.cur = {}]
  /\ UNCHANGED <<stateFrame, free, commands>>

-----------------------------------------------------------------------------
(* Worker: the clean-up of worker_loop.                                    *)

ExitActive(r) ==
  /\ worker.pc = "exit" /\ r \in worker.active
  /\ CancelActive(worker, r, "exit")
  /\ UNCHANGED closeFrame

ExitPending(r) ==
  /\ worker.pc = "exit" /\ worker.active = {} /\ r \in worker.pending
  /\ Clear(r, MarkCancelled(state[r]), commands)
  /\ Retire(WithoutPending(r), r, "exit")
  /\ UNCHANGED stateFrame

\* Starts that were still queued are retired, other commands are discarded.
ExitDrain ==
  /\ worker.pc = "exit" /\ worker.active = {} /\ worker.pending = {}
  /\ commands # <<>>
  /\ LET m == Head(commands)
     IN  IF m.kind = "start"
         THEN /\ Clear(m.id, MarkCancelled(state[m.id]), Tail(commands))
              /\ Retire(worker, m.id, "exit")
         ELSE commands' = Tail(commands) /\ UNCHANGED <<state, free, worker>>
  /\ UNCHANGED stateFrame

ExitEmpty_NoDrain ==
  /\ worker.pc = "exit" /\ worker.active = {} /\ worker.pending = {}
  /\ GoTo("closing")
  /\ UNCHANGED workerFrame

ExitEmpty ==
  /\ worker.pc = "exit" /\ worker.active = {} /\ worker.pending = {}
  /\ commands = <<>>
  /\ GoTo("closing")
  /\ UNCHANGED workerFrame

\* The receiver is dropped with whatever arrived since the last try_recv.
DropReceiver ==
  /\ worker.pc = "closing"
  /\ commands' = <<>>
  /\ GoTo("done")
  /\ UNCHANGED <<used, permit, state, free, clientVars, shutdown, owner,
                 session, produced>>

-----------------------------------------------------------------------------
Client(r) ==
  \/ StartAcquire(r) \/ StartSend(r)
  \/ PollPacket(r) \/ PollEnd(r) \/ DropPacket(r)
  \/ Cancel(r) \/ DropHandle(r) \/ CancelSend(r)

Owner == StoreShutdown \/ SendShutdown \/ JoinWorker

WorkerOn(r) ==
  \/ FilterPending(r) \/ PrefillOk(r) \/ PrefillErr(r)
  \/ Sweep(r) \/ ScanState(r) \/ ScanFree(r)
  \/ TakePcm(r) \/ StepErr(r) \/ StepPacket(r)
  \/ Reap(r) \/ Release(r) \/ MarkRetired(r)
  \/ ExitActive(r) \/ ExitPending(r)

Worker ==
  \/ Top \/ Recv \/ Drain \/ Coalesce \/ Check \/ Idle
  \/ BeginPrefill \/ PrefillDone \/ SweepDone \/ ScanDone \/ StepBatch
  \/ StepDone \/ ReapDone \/ ExitDrain \/ ExitEmpty \/ DropReceiver
  \/ \E r \in Requests : WorkerOn(r)

\* The scheduler and every handle are gone: the only legitimate standstill.
Finished ==
  /\ owner = "gone"
  /\ \A r \in Requests : handle[r] \in {"new", "closed"} /\ held[r] = 0
  /\ UNCHANGED vars

Next == Worker \/ Owner \/ (\E r \in Requests : Client(r)) \/ Finished

Spec == Init /\ [][Next]_vars

\* The worker thread and every thread inside a blocking call keep running.
\* Backend calls return.  Nothing is assumed of when a client polls, drops a
\* packet, cancels or drops its handle.
Fairness ==
  /\ WF_vars(Worker)
  /\ WF_vars(SendShutdown) /\ WF_vars(JoinWorker)
  /\ \A r \in Requests : WF_vars(StartSend(r)) /\ WF_vars(CancelSend(r))

FairSpec == Spec /\ Fairness

-----------------------------------------------------------------------------
(* Properties.                                                             *)

\* Every variable stays in its domain, and the channel within its bound.
TypeOK ==
  /\ used \in Nat
  /\ permit \in [Requests -> BOOLEAN]
  /\ state \in [Requests -> RequestState]
  /\ free \in [Requests -> Nat]
  /\ held \in [Requests -> Nat]
  /\ handle \in [Requests -> {"new", "starting", "open", "cancelling",
                              "dropping", "closed"}]
  /\ cancelSent \in [Requests -> BOOLEAN]
  /\ commands \in Seq(Command) /\ Len(commands) <= ChannelCap
  /\ shutdown \in BOOLEAN
  /\ owner \in {"live", "stored", "joining", "gone"}
  /\ session \in [Requests -> {"none", "open", "cancelled", "dropped"}]
  /\ produced \in [Requests -> Nat]
  /\ worker \in WorkerLocals

Holders == {r \in Requests : permit[r]}

\* SlotPool counts exactly the live permits: admission never exceeds
\* max_concurrent_requests, no failure or cancellation path leaks or doubly
\* returns a slot, and the saturating subtraction never saturates.
SlotAccounting ==
  /\ used = Cardinality(Holders)
  /\ used <= Capacity

\* The places that can own a request's permit: a thread inside start, the
\* channel, the worker's pending, ready and active collections, and the
\* request being dropped.
Starting == {r \in Requests : handle[r] = "starting"}
QueuedStarts(q) ==
  {r \in Requests : \E i \in DOMAIN q : q[i].kind = "start" /\ q[i].id = r}
Dropping == IF worker.pc = "release" THEN worker.cur ELSE {}

OwnerPlaces ==
  <<Starting, QueuedStarts(commands), worker.pending, worker.ready,
    worker.active, Dropping>>

\* A permit moves by value through start, the channel and the worker: it
\* exists exactly while one place owns it, and never in two places.
SingleOwner ==
  /\ Holders = UNION {OwnerPlaces[i] : i \in 1 .. 6}
  /\ \A i, j \in 1 .. 6 : i # j => OwnerPlaces[i] \cap OwnerPlaces[j] = {}

\* A client that sees retired may start again at once: by then permit and
\* session of the request are gone and the worker has forgotten it.
RetiredIsReleased ==
  \A r \in Requests : state[r].retired =>
    /\ ~permit[r]
    /\ session[r] \in {"none", "dropped"}
    /\ r \notin worker.pending \cup worker.ready \cup worker.active \cup worker.todo
                \cup worker.batch \cup worker.cur

\* Buffers the worker has taken out of r's pool for the running step.
Taken(r) == IF worker.pc \in {"take", "step"} /\ r \in worker.batch THEN 1 ELSE 0

BuffersOf(r) == free[r] + Len(state[r].packets) + held[r] + Taken(r)

\* The PCM ring: while a request exists its pcm_ring_slots buffers are each
\* free, queued, in a client's hands or in the running step, whatever
\* cancels, failures and late packet drops do.
BufferConservation ==
  \A r \in Requests : Alive(r) => BuffersOf(r) = RingSlots

\* can_accept_packet is checked long before the buffer is taken and the
\* packet pushed.  The two failures that guard this gap never happen.
NoInternalFailure ==
  \A r \in Requests : state[r].failure \in {"none", "backend"}

\* A cancel or a failure racing a backend step: from then on nothing is
\* queued, so no audio and no end of stream reaches the client.
WithdrawnIsSilent ==
  \A r \in Requests : Withdrawn(state[r]) =>
    /\ state[r].packets = <<>>
    /\ state[r].finish_reason = "None"
    /\ PollOutcome(state[r]) \in {"Cancelled", "Failed"}

\* The queue of a request continues the audio already delivered without gap
\* or overlap up to what the worker has recorded; exactly the last packet of
\* the stream is final; no packet or stream is longer than configured.
StreamContiguous ==
  \A r \in Requests :
    LET q == state[r].packets
        start(i) == IF i = 1 THEN state[r].emitted
                    ELSE q[i - 1].first + q[i - 1].frames
    IN  ~Withdrawn(state[r]) =>
          /\ \A i \in 1 .. Len(q) :
               /\ q[i].first = start(i)
               /\ q[i].frames \in 1 .. PacketFrames
               /\ q[i].final => i = Len(q) /\ state[r].producer_finished
          /\ start(Len(q) + 1) = produced[r]
          /\ produced[r] <= MaxFrames
          /\ produced[r] = MaxFrames => state[r].producer_finished

\* Completed and EndOfStream are only reported after every generated frame
\* has been handed over, with the backend's own finish reason.
CompletedIsComplete ==
  \A r \in Requests :
    (state[r].phase = "Completed" \/ PollOutcome(state[r]) = "EndOfStream") =>
      /\ ~Withdrawn(state[r])
      /\ state[r].packets = <<>> /\ state[r].producer_finished
      /\ state[r].emitted = produced[r]
      /\ state[r].finish_reason # "None"

\* What a client is given of its stream, at any moment.
StreamIsTrue == WithdrawnIsSilent /\ StreamContiguous /\ CompletedIsComplete

\* When the worker has exited nobody can be left waiting: every request ever
\* started is retired, no slot is held and no poll would block.
ExitLeavesNothing ==
  worker.pc = "done" =>
    /\ used = 0
    /\ \A r \in Requests : handle[r] # "new" =>
         state[r].retired /\ PollOutcome(state[r]) # "WouldBlock"

\* A backend session that has not produced its final packet is cancelled on
\* the backend before it is dropped, on every path out of the worker.
SessionsCancelledBeforeDrop ==
  [][\A r \in Requests :
       session[r] = "open" /\ session'[r] = "dropped" =>
         state[r].producer_finished /\ state[r].failure = "none"]_session

\* cancel_and_wait: a cancelled request is retired, with no help from any
\* client and whatever the other requests do.
CancelRetires ==
  \A r \in Requests : state[r].cancel_requested ~> state[r].retired

\* Dropping the scheduler terminates even when the Shutdown command finds
\* the channel full and is lost.
ShutdownCompletes == (owner = "stored") ~> (owner = "gone")

\* No thread stays blocked in a send on the bounded channel.
SendsReturn ==
  \A r \in Requests :
    (handle[r] \in {"starting", "cancelling", "dropping"})
      ~> (handle[r] \in {"open", "closed"})

-----------------------------------------------------------------------------
(* The client's view of the scheduler.                                     *)

\* What poll has told or will tell the client of a started request.
Verdict(s) ==
  CASE s.failure # "none" -> "failed"
    [] s.failure = "none" /\ s.cancel_requested -> "cancelled"
    [] OTHER -> IF s.phase = "Completed" THEN "ended" ELSE "live"

Status(r) == IF handle[r] = "new" THEN "idle" ELSE Verdict(state[r])

\* The final frame of the request is queued or handed out.
Closed(s) == s.finish_reason # "None"

Contract ==
  INSTANCE RequestContract WITH
    status <- [r \in Requests |-> Status(r)],
    made   <- produced,
    heard  <- [r \in Requests |-> state[r].emitted],
    closed <- [r \in Requests |-> Closed(state[r])],
    slots  <- Holders

\* The scheduler keeps the contract, including the return of every slot.
KeepsContract == Contract!Spec
=============================================================================
