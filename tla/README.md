# A TLA+ model of qwen3-tts-native

This directory models the native text-to-speech server from the moment its
models are published on disk to the moment a client has read the last sample:
artifact, process start, request validation, HTTP service, C ABI, scheduler,
batched talker, device hand-off to the codec, response and load client. TLC
checks small instances of every part; TLAPS proves the core safety of
most of them for every instance.

```
tlc -workers 2 -config MCScheduler_pair.cfg MCScheduler
tlc -workers 2 -config DeviceHandoff.cfg DeviceHandoff
tlapm EngineHandlesProofs.tla
```

`PROJECT.json` maps every definition to the source lines it stands for, lists
the runs, the hazards they answer, and the mutants that show that each property
can fail.

## 1. The system

| Component | State | Operations | Modelled by |
| --- | --- | --- | --- |
| Request scheduler (`scheduler.rs`) | slot pool, bounded command channel, per-request phase, packet queue and free PCM buffers, the worker's `pending` and `active` lists, shutdown flag | `start`, `poll`, `cancel`, `wait_retired`, handle and packet drop, scheduler drop, worker loop | `Scheduler`, `RequestContract`, `SchedulerProofs`, `SchedulerStreamProofs` |
| Runtime types (`types.rs`, `request.rs`) | descriptors, phases, record positions, limits | `record_packet`, `is_terminal`, `validate` | `Scheduler`, `RequestPath` |
| HTTP service (`server.rs`, `engine.rs`, `metrics.rs`) | active-ID map, tokens, admission lock, egress semaphore, body channels, health flag, counters | synthesis POST, DELETE, body polling, streaming and buffered jobs, shutdown, warm-up | `HttpService`, `HttpServiceProofs`, `Exchange` |
| HTTP payloads (`api.rs`, `multipart.rs`, `wav.rs`, `config.rs`) | none | validation, framing | `RequestPath`, `ResponseReader` |
| Server process (`main.rs`) | configuration, life of the process | configure, load, warm up, close admission | `Exchange`, `HttpService` |
| C ABI (`ffi.rs`, `ffi_support.rs`) | engine and request handles, the engine core they share | create, start, poll with capacity preflight, cancel, destroy | `EngineHandles`, `EngineHandlesProofs`, `RequestPath` |
| Native backend (`native_backend.rs`, `cuda_packet_stager.rs`) | two libraries and their models; per session a talker, a codec and a stager | load, prefill, step, cancel, drop | `NativeLoad`, `DeviceHandoff`, `DeviceHandoffProofs`, `BackendContract` |
| Talker (`native_talker.rs`, `talker.cu`) | session pool, batch pump, frame leases, poison flags, shared batch tables | acquire, reset, recycle, begin, finish and drop a frame, batches | `TalkerModel`, `TalkerModelProofs`, `DeviceHandoff` |
| Codec (`codec_state.cu`, codec `ffi.rs`) | decoder state, packet ticket | begin, finish, cancel packet, reset | `DeviceHandoff` |
| Artifact (`artifact.rs`) | staging and published directory, manifest | pack, publish, verify, map | `ArtifactStore`, `ArtifactStoreProofs` |
| Prompt (`prompt.rs`) | none | split into prefill and trailing tokens | `RequestPath` |
| Load client (`qwen3-tts-http-bench`) | batches, barrier, phase marks, response buffer with arrival times | connect, write, read, record | `LoadRunner`, `LoadRunnerProofs`, `ResponseReader`, `Exchange` |
| Kernels, weight upload, tokenizer, tensor catalogue | numerical data, files | — | out of reach or sequential |

How they interact. An HTTP handler validates a request, admits it under the
admission lock, enters its ID in the active map and calls `SpeechEngine::start`,
which takes a slot permit and sends `Start` over the bounded channel to the only
worker thread. The worker owns the backend: it moves the request through
`pending`, the prefill batch and `active`, and steps the eligible requests
together, each in a thread of its own. Those threads meet in the talker's batch
pump, which turns their frame requests into one native call; each then stages
its frame on the device and, with a packet full, hands it to its codec. The
worker pushes the packet into the request's queue and at the end *retires* it:
session dropped, permit dropped, `retired` set, in this order. A blocking HTTP
job polls the request, writes parts into a one-slot body channel, waits for
retirement with a deadline and lets its guard clear the map and count the
outcome. A C caller instead polls the request handle itself.

What is hard. Every lock is short, so between two of them anything can happen: a
buffer is checked in one section and taken in another; a cancel lands before,
during or after the backend step that concerns it, each with its own code path;
commands share a bounded channel with lossy wake-ups; a permit has six owners
in turn. On the device nothing happens when it is called: three CUDA streams run
at their own speed, and one frame buffer, one packet buffer and one set of batch
tables are reused. Clients disconnect, processes are killed, files decay, calls
fail in the middle. `PROJECT.json` lists these hazards at their lines.

What makes a component correct:

* *scheduler* — slots are neither leaked nor over-committed; retired means
  released; audio is contiguous and complete, or withdrawn and silent; PCM
  buffers are conserved; every started request is retired, also at shutdown;
  nobody blocks for ever.
* *HTTP service* — an ID is reusable only after retirement; the active map
  names what is in flight; closing admission is a boundary; jobs end whatever
  client and engine do; a retirement time-out leaves a lasting incident.
* *device hand-off* — the codec decodes every frame once and in order; nothing
  is overwritten before it is copied; every lease and ticket ends or poisons
  its session.
* *talker model* — a session has one owner and starts clean; every frame
  request is answered; a batch works on its own sessions.
* *C handles* — the core outlives its handles and nothing outlives the last.
* *artifact* — what is published is whole, what is accepted is genuine.
* *exchange* — the layers agree on limits; a client reports success only for
  what it really got, and its first-audio time is the arrival.

## 2. Modules

| Module | Role |
| --- | --- |
| `Scheduler` | the scheduler in detail, with the refinement mapping `Contract` |
| `RequestContract` | what a scheduler promises for a request, without threads or buffers |
| `MCScheduler` | instances, a client that keeps polling |
| `SchedulerProofs` | TLAPS: types, slot accounting, single ownership |
| `SchedulerStreamProofs` | TLAPS: what retirement and exit leave, PCM buffers, the stream, the steps of the contract |
| `HttpService`, `MCHttpService` | the HTTP service above `RequestContract`, and its instances |
| `HttpServiceProofs` | TLAPS: true accounts, owned native requests, true end parts, the shutdown boundary |
| `DeviceHandoff` | one backend thread, its talker, stager and codec sessions and three CUDA streams |
| `BackendContract` | what a backend session promises the scheduler; `DeviceHandoff` implements it |
| `DeviceHandoffProofs` | TLAPS: frames in order, copies in time, nothing left behind, the backend's contract |
| `TalkerModel`, `MCTalkerModel` | session pool and batch pump, and instances |
| `TalkerModelProofs` | TLAPS: sessions accounted for, fresh starts |
| `NativeLoad` | loading and taking apart two native libraries |
| `EngineHandles`, `MCEngineHandles` | the C interface above `RequestContract` and `NativeLoad`, and its instance |
| `EngineHandlesProofs` | TLAPS: types, core retention, clean end |
| `ArtifactStore` | packers, the published directory, the loader, crashes and decay |
| `ArtifactStoreProofs` | TLAPS: what is accepted is genuine, publishing is for good, the rounding |
| `RequestPath` | every check and conversion between a request and the talker, as operators |
| `ResponseReader` | wire format of the answers and the load client's reader, as operators |
| `Exchange`, `MCExchange` | one synthesis from process start to the client's verdict, using both, and its cases |
| `LoadRunner` | the phases, batches and tasks of the load client |
| `LoadRunnerProofs` | TLAPS: one record each, whole batches, clean measurement |

The layers meet in the two contracts. `Scheduler!KeepsContract` shows that
`Scheduler` implements `RequestContract`; `HttpService` and `EngineHandles` use
its actions as their engine, so both are checked against everything the contract
allows. `DeviceHandoff!KeepsBackendContract` shows that the backend delivers
packets of the sizes the scheduler's `Step` assumes (`packetEnd`, frame counts,
the end announced with the last frame).

Definitions named `Op_Why` are faulty variants of `Op`, listed under `mutants`:
with `Op` replaced by its variant the named property fails. They belong to no
specification.

### Scheduler

An action is one critical section, one channel operation or one backend call;
what a thread computes between two of them is part of the action before.

* `state[r]` is the mutex-protected `RequestState`; `free[r]` counts
  `free_pcm`, `held[r]` the packets a client owns. `used` and `permit` are
  `SlotPool` and the permits.
* `handle[r]` says where the thread that owns the handle is: `starting` and
  `cancelling` / `dropping` stand before the blocking sends of `start` and
  `cancel`. Polling may overlap a cancel on another thread.
* `worker` holds the program counter and locals of `worker_loop_inner`. Its
  control points follow the code: `top`, `recv`, `drain`, `coalesce`, `check`,
  `filter` and `prefill` (start_pending), `sweep` (remove_cancelled), `scan` and
  `scanFree` (the two halves of `can_accept_packet`), `idle`, `take` and `step`
  (step_eligible), `reap` (remove_finished), `release` and `retire` (the two
  halves of a retirement), `exit`, `closing` and `done` (clean-up of
  `worker_loop`). The order within a batch is left open.
* `owner` is the thread that drops the `Scheduler`.
* The backend answers a step with an error or any packet that
  `validate_backend_packet` accepts. Packets it rejects end like an error, so
  `StepErr` stands for both; so does a panic caught at the call.

PCM is counted in codec frames; a timed receive may end at any time; the wake-ups
of one queue that is cleared are queued in one step, and so are the recycled
buffer and the failure mark of one failed step.

### HttpService

* `handler[r]` follows `start_prepared` (egress permit, admission lock, engine
  start under that lock, spawn) and then stands for the response body.
* `job[r]` is the blocking worker: `loop` (token test), `poll`, a part being
  sent (`audio`, `end`, `error`), `wait` / `waitEnd` (the two uses of
  `wait_retired`), and the drops at the end in the order Rust performs them.
  `completion` is what the guard records.
* `channel[r]` is the one-slot body channel, `got[r]` the last part read.
* `active` maps an ID to the request that runs, to a tombstone or to nothing.
* The engine may refuse a start for any reason, with a slot free and in good
  health (`EngineStart`). A WAV answer that cannot be encoded ends as any
  buffered job does but is not counted as completed (`WaitEndRetired`).
* The engine's start is one step of the handler. The code calls it under the
  admission lock, which shutdown takes too: above a backend that hangs while it
  fills the command channel, shutdown waits longer than the model shows.
* DELETE is one step: the code cancels the token after unlocking the map, but a
  job that has ended meanwhile no longer reads it. Guard drop is two steps.

### DeviceHandoff

A CUDA stream is a queue of operations executed in order at any time; an event
is the number of its records enqueued and reached, and a wait is for the records
enqueued when it was issued. `host` is the worker thread inside `step`:
`begin` → `stage` → `finish` for each frame, `packet` → `release` →
`finishPacket` for each packet, `abandon` and `dropPacket` where a guard is
dropped on an error path, and the host-memory path of older libraries. `talker`,
`stager` and `codec` are the sessions' flags, `codes` and `slots` the only frame
buffer and the only packet buffer, with a frame standing for its number in the
request, so that a stale, lost, repeated or overwritten frame shows in
`decoded`. Any native call may fail, before or after it has enqueued its work.

### TalkerModel

Each request runs in a thread: `Take` from the pool, `Reset` or `Create`,
`Prefill`, the first frame by itself (`BeginFirst`) and later ones through the
pump (`Submit`, `Finish`), then `Recycle` or `DestroySession`. The pump is
`recv` → `gather` → one native call, with `sync` where a failed call waits for
the batch stream. `pinned` and `device` are the tables of the batch workspace;
an upload in `stream` copies `pinned` when the device gets to it.

### EngineHandles and NativeLoad

`NativeLoad` is `NativeBackend::load` step by step over a pair of libraries
(`Builds`: ABI versions and exported symbols); `held` are the native resources
that exist. `EngineHandles` adds the exported functions. `holders` are the
references to the engine core (an `Arc`); the last one to go stops and joins the
worker, which owns the backend and drops it. `room` stands for a poll in
progress and the caller's buffer.

### ArtifactStore, Exchange, LoadRunner

`ArtifactStore`: a file is its value and size, weights are small floating-point
patterns, written as they are (F32) or rounded to nearest even (BF16, refused
for weights that are not finite). `Lost` and `Kept` stand for the powers of two
of the code, 2^16 both; the prover has no exponentiation. The faults are `Kill`,
`Rerun`, `PowerLoss` (unsynced nested entries vanish; a rename that was never
synced is undone, also when its packer has failed or was killed since),
`DecayFile` and `DecayManifest`, and any call may fail, `remove_dir_all` in the
clean-up included, whose result the code ignores.

`Exchange`: the doors (load client entry for this server or another, JSON,
alias, C) and the layers of `RequestPath` in order, then `Speak`, the answer on
the wire as a sequence of atoms, `Damages` of another server and a cut
connection, and the client reading pieces of any size up to `ReadSize`, with the
reader's limits on a part, a head and a chunk's size line. `RoundsAbove` says
where the binary64 product `seconds * 12.5` lies above the true one, so that
`CeilFrames` has a frame more (0.56 s give 8 frames, not 7); server and load
client compute it alike.

`LoadRunner`: one task per connection, a barrier that counts the connections,
one time limit from the barrier on; writing the reports may fail
(`unreported`).

## 3. What TLC checks

States and times are those of two TLC workers.

| Run | Instance | Shows | States |
| --- | --- | --- | --- |
| `progress` | two requests, one slot, a channel of one place | slots accounted; retired means released; nothing left at exit; cancelled requests retire, shutdown ends, sends return | 0.34 M, 80 s |
| `pair` | two requests, two slots, two frames, a channel of one place | types and channel bound; one owner per permit; sessions cancelled before dropped; a slow peer does not block a fast client | 0.9 M, 110 s |
| `stream` | one request, ring of two, four frames in packets of one or two | buffers conserved; internal failures impossible; audio true; implements `RequestContract` | 0.12 M, 8 s |
| `http_both` | a stream and a WAV, one ID or two, two slots | map, gauge, time-outs; ID reuse and ownership; shutdown boundary | 4.8 M, 120 s |
| `http_single` | one request of either mode, two frames | the end part is true; jobs end; shutdown drains; slots come back | 17 k, 7 s |
| `device` | packets of four, nine frames, two faults | frames whole and in order; nothing overwritten early; nothing left behind; implements `BackendContract` | 7 k, 3 s |
| `pool` | two threads, three handles, a pool of one, one fault | sessions owned and clean; every frame request answered; the model ends | 0.15 M, 16 s |
| `rows` | the same without faults | **violation**: a batch's kernels run on another batch's sessions | — |
| `abi` | two requests, one slot, thirty library pairs | core outlives handles; nothing outlives the last; destroys return | 0.38 M, 36 s |
| `load` | two warm-ups, five requests, batches of three | one record each; clean measurement; nobody held | 97 k, 9 s |
| `exchange` | requests of every field through five doors, six configurations, prompts on both sides of the limits | success only if intact; end to end; first-audio time; layers agree | 0.55 M, 40 s |
| `artifact` | two packers of either type, four weights, two faults | published whole, durable and for good; accepted means genuine | 3.9 M, 52 s |

### Why the bounds are enough

*Scheduler.* Requests are treated alike and coupled only through the slot
counter, the channel and the batch: with capacity one the second meets a full
pool, with two both are in every collection at once. A channel of one place (the
code has `4 * capacity + 8`) makes every sender block and every lossy send fail.
A ring of one makes every recycled buffer matter; `stream` uses two so that
packets queue up, and four frames so that the limit falls on and beside a packet
boundary. `pair` bounds when the scheduler is dropped (`DropFromFull`: only
while both requests are active); `progress` drops it anywhere.

*Service.* Two requests meet in all shared state. Liveness concerns one job; the
other could only hold the admission lock, which `EngineStart` gives back.

*Device.* Nine frames are a first packet, two full ones and the limit inside
the third; two faults let a clean-up fail as well. One session is enough as its
streams and buffers are its own, and requests follow one another in it.

*Talker.* Two requests of different size and a pool of one give reuse, an
unfit pooled session and an overflowing pool; batches of one and two, and one
call failing anywhere. *C ABI.* Two requests of one engine, each
possibly the last reference; six talker and five codec libraries cover each
generation and each missing symbol. *Load.* Five requests in batches of three
end with a smaller batch. *Exchange.* Each request varies one group of fields;
one short read, after any number of atoms, splits every delimiter and every
payload; two packets are the first and the last; `MaxFraming` and `MaxPayload` are
small enough to be crossed. *Artifact.* A crash or decay and another
that meets what it left; three files, of which one is nested and converted; a
weight that is exactly between two kept patterns (both ways), one that is not,
and one that is not finite.

The deadlock check is off where the system may rest: in `pair` (a scheduler that
is not dropped and idle) and `artifact` (both packers done, the loader rejected,
no fault left). Elsewhere `Finished`, `Released` and their like are the
legitimate ends; `EngineHandles!Blocked` is the known one: a hung backend keeps
the last destroy waiting.

### Fairness

`Scheduler!Fairness` is weak fairness of the worker thread (an OS thread that
loops; backend calls return), of `SendShutdown` and `JoinWorker` (a thread
inside `drop`) and of the blocking sends of threads already inside `start` or
`cancel`. A client owes nothing: it may never poll, sit on packets, never drop
its handle; only in `pair` *one* client polls and drops its packets, since its
outcome cannot be delivered otherwise.

`HttpService!Fairness` is weak fairness of handlers that have begun and of jobs:
both are scheduled, and their timed waits expire (the time-outs are required to
be non-zero). Nothing is assumed of clients or engine. `CancelledSlotReturns`
states its own premise, that the engine returns the slots of ended requests;
that is `CancelRetires` of the scheduler.

`TalkerModel!Fairness`: the pump thread, the batch stream, and threads inside a
call; nobody has to start or finish a request. `EngineHandles!Fairness`: threads
inside a destroy or a timed poll, and the worker at its end; no fairness of
`Serve`, since a destroy has its own limit. `LoadRunner!Spec`: the client
takes its own steps, and its time limits expire; servers owe nothing.

### What was found

* `rows` — `batch_begin_frames` refills the only set of pinned tables as soon as
  it is called; the uploads of the previous batch, which read them when the
  batch stream gets there, may still be queued. The kernels of the earlier batch
  then use the KV caches and tokens of the later, although they "remain
  session-local" (`talker.cu:1349`). TLC shows it with two sessions and a device
  that has not begun; on hardware the interval is wide when a third session's
  frame still occupies the stream and the gather window of 2 ms has split the
  others into two batches.

### Known divergences

Met while modelling, stated here and not as runs. The properties above are
phrased so that they hold beside them.

* `remove_finished` retires a request that was cancelled during its step without
  `mark_cancelled`, and the later `Cancel` command finds nothing: `phase()`
  stays `Generating`, against `docs/ARCHITECTURE.md:231`. Retirement and the
  outcome `poll` reports are right.
* `RequestHandle::cancel` sends on the bounded channel with a blocking send before
  its caller enters a timed wait. While the backend hangs, polls and dropped
  packets add wake-ups; with capacity 1 and seven ring slots these fill all 12
  places and `cancel` does not return, against "waits for bounded retirement" in
  the runtime's README.
* A cancellation seen inside `send_chunk` ends a stream without the JSON error
  part `docs/API.md:224` promises.
* A buffered client that leaves while its job waits for retirement counts as
  completed, against `docs/OPERATIONS.md:69`.
* Prompt tokens and `max_codec_frames` together must fit 8192
  (`native_backend.rs:555`), but configuration and scheduler accept up to 8192
  frames alone: a long request is admitted and then fails as an internal error.
* Hence also the warm-up, which uses the configured maximum: a
  maximum duration near the documented 655.36 s (`docs/CONFIGURATION.md:24`)
  validates, and the server then exits.
* `prompt.rs:60` requires eight assistant tokens but the streaming split slices
  `[4..len-5]`, which panics at exactly eight. Only the C ABI gets there, with a
  text of line breaks; the panic is caught at the call (`scheduler.rs:1029`).
* `NativeTalkerModel::load` with a library of ABI 3 that lacks the batch symbol
  returns after the native model was created and never destroys it.
* The load client notices bytes after the end of a message only if they have
  arrived already (so too a head beyond its limit whose end came with the read
  that crossed it), and cannot tell a truncated raw PCM answer that is delimited
  by the end of the connection.

## 4. What is proved

`SchedulerProofs`, from `ConstantsAssumption` alone (finitely many requests,
positive bounds; any capacity, ring and channel bound):

| Theorem | Statement |
| --- | --- |
| `TypeCorrect` | `Spec => []TypeOK`, which includes the channel bound |
| `SlotsAccounted` | `Spec => []SlotAccounting`: the counter equals the number of permits and never exceeds the capacity |
| `PermitsSinglyOwned` | `Spec => []SingleOwner`: a permit exists exactly while one of its six possible owners holds it |

None of these is inductive alone. The counter is right because `Release` finds a
permit to return, which is so because the request being dropped came out of a
collection that owned it, and was in no other: that is `SingleOwner`. To keep it,
a queued `Start` must be queued once, the worker's working sets must agree with
its control point, and no `Start` may arrive once the worker stops, because
stopping follows `Scheduler::drop`, which owns the scheduler while no `start` is
running. The inductive invariant is therefore

    SlotInv == TypeOK /\ QuitInv /\ WalkInv /\ OwnerInv /\ SlotAccounting

with `QuitInv` for shutdown, `WalkInv` for the worker's sets and `OwnerInv` for
ownership including uniqueness of queued starts. The proof has one step per
action; actions that only move the program counter, clear a packet queue or
retire a request go through shared lemmas (`LoopKeeps`, `StepKeeps`,
`RetireEffect`, `HandleEffect`, `ReleaseInv`, `ExitInv` and others), and the
effect of the channel on ownership is stated once (`WokenStarts`, `SendStarts`,
`ReceiveStarts`).

`SchedulerStreamProofs` continues this, again from `ConstantsAssumption` alone:

| Theorem | Statement |
| --- | --- |
| `RetiredLeavesNothing` | `Spec => []RetiredIsReleased` |
| `OpenSessionsFinished` | `Spec => SessionsCancelledBeforeDrop` |
| `ExitRetiresAll` | `Spec => []ExitLeavesNothing` |
| `BuffersConserved` | `Spec => []BufferConservation`: the ring's buffers are all accounted for |
| `NoInternalErrors` | `Spec => []NoInternalFailure`: neither the pool nor the queue ever fails a request |
| `StreamsAreTrue` | `Spec => []StreamIsTrue`: whole audio in order and an end that is one, or silence |
| `StepsAreContracted` | `Spec => ContractSteps`: the refinement of `RequestContract`, except its fairness |

The invariant added to `SlotInv` is

    StreamIInv == ShapeInv
                  /\ \A r \in Requests : LifeInv(r) /\ BufferInv(r) /\ StreamInv(r)

`ShapeInv` describes the worker's `todo`, `batch`, `ready` and `cur` at each
control point, so that a request is known to be at one stage. `LifeInv` is the
order of retirement: outcome decided, session and permit dropped, `retired` set.
`BufferInv` says that what the scan has seen stays true: a scanned request has a
free buffer until `take` because only the worker takes buffers, and no failure
until `push_packet` because only the worker sets one; the queue has room then
because the buffer in the worker's hands is not in it (conservation).
`StreamInv` has the packets as a *chain* from `emitted` to `produced`
(`ChainGrows`, `ChainShrinks`), and says that a request whose last packet is
queued is stepped no more. A step is about one request; the others go through
`BystanderKeeps`, and the ways of losing the queue (cancel, failure,
retirement) through `ClearEffect`, `RecycleEffect` and `EmptiedStream`.

The refinement needs one more invariant, `PaceInv`: no queued packet is ahead of
`produced`, and a stream that has ended has its final packet at the end of the
queue or is `Completed`. With it the contract's `ended` is reached exactly when
the last frame is handed over, and `poll`'s own move to `Completed` tells nothing
new. Each action is then shown to be one of the contract's or to leave the view
of every client as it was (`Contracted`, `OneSeen`, `WithdrawSeen`, and a lemma
named `...Seen` for each group of actions); `MappedStep` lifts this to the mapped
variables. That slots are returned (the fairness of `RequestContract`) is checked
as part of `KeepsContract`. TLC confirmed `StreamIInv`, `PaceInv` and
`ContractSteps` on all three instances first.

`EngineHandlesProofs`, from `HandlesAssumption` alone (any finite set of
requests, any capacity, packet size and set of library pairs):

| Theorem | Statement |
| --- | --- |
| `HandlesTyped` | `Spec => []TypeOK` |
| `CoreRetained` | `Spec => []CoreOutlivesHandles`: while a handle can be used the worker runs, both models are there and agree on the packets between them |
| `NothingLeft` | `Spec => []DestroyLeavesNothing`: after the last destroy the worker is gone with all slots and resources; a destroyed request that answered `Ok` holds no slot; no library is unloaded under what needs it; a failed load leaves nothing but the native model it may orphan (see Known divergences) |

Here the invariant is

    IInv == TypeOK /\ LoadInv /\ HandleInv /\ PollInv /\ DestroyedIsRetired

`LoadInv` gives the resources that exist at every step of the load, which makes
the final teardown end with nothing and the unwinding with no more than that
orphan; `HandleInv` ties the
references to the handles and the worker's life to the references (it runs
exactly while there is one, and once it is being stopped some thread waits for
it); `PollInv` keeps a handle from being destroyed under a poll. TLC confirmed
`IInv` as an invariant of `abi` first.

`TalkerModelProofs`, from `ModelAssumption` alone (any finite set of requests,
enough names for the sessions that can exist at once, any sizes, batch width,
frames and number of failing calls):

| Theorem | Statement |
| --- | --- |
| `SessionsAreAccounted` | `Spec => []SessionsAccounted`: a session handle has one owner, none is lost, the pool keeps its limit, the pump holds exactly the parked requests, each once, in batches that fit |
| `RequestsStartFresh` | `Spec => []StartsFresh`: a request starts on a session that is large enough, unused, unleased and not poisoned |

The invariant is

    IInv == TypeInv /\ PoolInv /\ QueueInv
            /\ \A r \in Requests : ThreadInv(r) /\ CleanInv(r)

A pooled session is clean only because a *recyclable* one is: `CleanInv` says
that it has a lease only while its thread holds a frame, and is poisoned only
between a failed batch call and its answer (`sync`), when its thread is still
parked. That the thread is parked then is `QueueInv`, which splits
`PumpOwnsParked` into the pump's batch and its channel; `ThreadInv` ties each
control point to the session it holds.

`DeviceHandoffProofs`, from `HandoffAssumption` alone (packets of one to four
frames as `max_packet_frames` allows, any `max_codec_frames`, any number of
failing calls):

| Theorem | Statement |
| --- | --- |
| `HandoffInOrder` | `Spec => []FramesAreWhole`: the decoder takes the frames of a request once and in order; a packet that is returned holds them all |
| `CopiesAreInTime` | `Spec => CopiedBeforeOverwritten`: the one frame buffer is not overwritten under a copy |
| `NothingIsLeft` | `Spec => []NothingLeftBehind` |
| `ContractIsKept` | `Spec => KeepsBackendContract`, the refinement of `BackendContract` |

The difficulty is that the three streams may be behind the thread by any amount
that the events between them allow. The invariant

    IInv == HostInv /\ CudaTyped /\ QuietInv /\ DeviceInv

says by how much. `HostInv` is about the thread and its sessions at each control
point (who holds a lease, how many frames are staged, what the ticket holds).
`DeviceInv` numbers the operations of the streams: the talker's has four for each
frame of the session, the stager's three for each frame of the packet, the
codec's three for its one packet; there are numbers *done* and *total* for each
stream such that its queue is exactly the operations between them and the
events, buffers and decoded frames are what the operations up to *done* have
made of them (`TalkerRun`, `StagerRun`, `CodecRun`), while *total* follows from
the control point (`TalkerLag`, `StagerLag`, `CodecLag`). A copy then finds its
frame, because its wait bounds the talker's *done* from below and the wait in
`finish_frame` bounds it from above; the snapshot finds all copies done in the
same way. A failed call leaves some of its operations out, always at the end,
and no frame after it. When a packet is returned the stager's operations are
numbered anew, and the wait for the release, if it is still to run, becomes
operation 0 of the next packet. `QuietInv` covers the time between requests,
when only the stream of a pooled talker may still have work. The proof has a
lemma for the thread's half of each action (`AcquireHost` ...), one for the
streams' half (`AcquireKeeps` ...) and one for each stream that executes an
operation. TLC confirmed `IInv` as an invariant first.

`LoadRunnerProofs`, from `LoadAssumption` alone (any number of warm-ups, at least
one measured request, any width of a batch):

| Theorem | Statement |
| --- | --- |
| `RunIsSound` | `Spec => []BatchesAreSound`: one record for each measured request and in order, batches start together and are never too wide |
| `MeasuresItsOwnWork` | `Spec => MeasurementIsClean`: marks find nothing under way, and only a clean warm-up is followed by a measurement |

The invariant is

    IInv == TypeOK /\ BatchInv /\ TaskInv /\ OutcomeInv /\ BarrierInv /\ MarkInv
            /\ OneRecordEach

`TaskInv` ties each request's task to its outcome: collected before the batch
begins, untouched behind `next`, settled once collected. With `OutcomeInv` (no
request has two outcomes) a finished phase has exactly as many outcomes as
requests, by a bijection (`PhaseIsDone`), and the rank of an outcome in the
stable sort is its index (`ReportIsSorted`, again by a bijection). `BarrierInv`
needs that nobody has arrived who is not a task of the batch; the barrier then
opens when `arrived`, being as large as `Tasks`, is `Tasks`. `MarkInv` carries
the verdict on the warm-up from its mark to the start of the measurement.

`HttpServiceProofs`, from `ServiceAssumption` alone (any finite set of requests
of which none is one of the sentinels, whatever IDs they bring, any capacity and
number of frames; the theorems begin with any set of requests to arrive):

| Theorem | Statement |
| --- | --- |
| `AccountsAreTrue` | `Spec => []ServiceAccounts`: active map, health flag and metrics say what is true of the jobs and the engine |
| `NativeRequestsHaveOwners` | `Spec => []NativeRequestsOwned`: an ID has one native request at most, and each live one somebody who will poll or drop it |
| `EndPartsAreTrue` | `Spec => []EndPartIsTrue` |
| `ShutdownIsBoundary` | `Spec => NoStartAfterShutdown` |

The invariant is

    IInv == TypeOK /\ (\A r \in Requests : Local(r)) /\ MapInv /\ LockInv /\ GaugeInv

`Local` is what a request's handler, job, body channel and engine state know of
each other; in particular a job that waited for retirement without a time-out
has no slot, and one that has dropped its native request has cancelled it.
`MapInv` makes the map name exactly the requests in flight and lets each
tombstone stand for one late request, so that two requests of one ID cannot both
have a slot: the earlier one would be in the map or a tombstone, and admission
refuses both. `LockInv` says who holds the admission lock, and that nobody does
once admission has closed; a native start needs it. `GaugeInv` is exact, where
the property only bounds the gauge: it is the number of jobs not yet counted,
and tombstones. The engine's actions are summarised once (`EngineStep`), the
steps of a job by `JobStepKeeps`, those of handlers and clients by
`OutsideKeeps`. TLC confirmed `IInv` on both instances first.

`ArtifactStoreProofs`, from `ArtifactAssumption` alone (any set of packers, any
number of faults, any even number of source patterns for each kept one, any
weights in the snapshot; `Absent` is no packer, file, manifest or directory):

| Theorem | Statement |
| --- | --- |
| `AcceptedWeightsAreGenuine` | `Spec => []AcceptedIsGenuine`: what is mapped in full mode is what the packer was given, in the type it was asked for |
| `PublishingIsForGood` | `Spec => PublishedForGood`: at most one artifact, whole, not replaced, and not undone once reported |
| `RoundsToNearest` | the bit arithmetic of `f32_bytes_to_bf16` is round-to-nearest-even and does not wrap |

The invariant is

    IInv == TypeOK /\ (\A p \in Packers : PackerInv(p) /\ RenamedInv(p))
            /\ OutputInv /\ LoaderInv

`PackerInv`: while a packer writes, its staging directory holds exactly the files
it has recorded, each genuine (`WritingInv`), because `create_dir` refused the
directory that an earlier process of its number, killed or failing in its
clean-up, left behind; of such a directory nothing is claimed. `RenamedInv`: a
rename that is not on disk yet is that of one packer and has emptied its staging
name; it has been synced once that packer reports success. `OutputInv`: a hash in
the published manifest is genuine or matches nothing, even when the files and
sizes no longer are, so that checking against it means something; without damage
the directory is whole. `LoaderInv`: what the loader has checked is still sound,
since the name was taken before it began (no rename can succeed) and a power
loss ends it. The rounding is separate
(`Rounds`: the pattern below if remainder and parity allow, or the one above;
then the distance to every other pattern), and enters only where the packer
writes the weights. TLC confirmed `IInv` on the instance of `artifact` first.

Only model-checked: all other properties. Liveness under fairness and ENABLED are
beyond the prover. `RequestPath`, `ResponseReader` and `Exchange` are computed
over data (recursive functions over byte sequences), where the prover has no
induction to offer.

## 5. What is not modelled

* The panic path of the scheduler's worker thread. The backend calls are caught
  where they are made, so it would take a panic in the scheduler's own code.
* An answer of `start_batch` with the wrong number of sessions
  (`scheduler.rs:1041-1048`), which drops its sessions without `cancel`; the
  native backend answers with one for each request
  (`native_backend.rs:459-497`).
* Timings, memory metrics and condition-variable wake-ups: a waiting poll is a
  poll that is tried again.
* Signals, the watchdog thread and the exit of the process; the health check
  program and the read-only endpoints.
* The lifecycle mutex and shared workspaces of the codec's native code; the CUDA
  graph cache of the batch workspace.
* JSON and environment parsing, message texts.
* Numerical kernels, weight upload, the byte-pair tokenizer, the safetensors
  parser and the tensor catalogue: sequential computation on data without state
  that outlives a call.
* The in-process benchmark, the codec's check program, containers and report
  layout.

## 6. Plan

1. The panicking worker of `Scheduler`, and the memory of a buffered job whose
   client has left.
2. The lifecycle mutex of the codec under the C ABI's threads.
