--------------------------- MODULE DeviceHandoff ---------------------------
(***************************************************************************)
(* One worker thread of the native backend (native_backend.rs) serves      *)
(* requests one after another: it leases codec frames from a talker        *)
(* session (native_talker.rs, talker.cu), stages them on the device        *)
(* (cuda_packet_stager.rs) and hands them to a codec session (codec ffi.rs,*)
(* codec_state.cu), all without waiting for the GPU until it has to.       *)
(*                                                                         *)
(* A CUDA stream is a queue of operations that the GPU executes in order,  *)
(* at any time; an event is the number of its records enqueued and the     *)
(* number reached.  A wait is for the records enqueued when it is issued.  *)
(* A codec frame is its number in the request, 0 being anything else.      *)
(* The kernels of a batched frame run, as far as one session sees them, in *)
(* its own stream; TalkerModel is about the batches.                       *)
(***************************************************************************)
EXTENDS Naturals, Sequences, FiniteSets

CONSTANTS
  PacketFrames,  \* codec frames per packet after the first
  MaxFrames,     \* max_codec_frames of a request
  MaxFaults      \* bound: CUDA and native calls that fail

ASSUME HandoffAssumption ==
  PacketFrames \in 1 .. 4 /\ MaxFrames \in Nat \ {0} /\ MaxFaults \in Nat

VARIABLES
  path,      \* "device", or "host" for libraries without the device ABI
  host,      \* the worker thread: pc, frames wanted and counted in a step
  talker,    \* talker session: see Talker
  stager,    \* CudaPacketStager: staged_frames, poisoned
  codec,     \* codec session: frames of the pending ticket, flags
  delivered, \* frames in the packets returned for the request
  queue,     \* queue[s]: operations enqueued in CUDA stream s
  recorded,  \* recorded[e]: records of event e enqueued
  reached,   \* reached[e]: records of event e the GPU has executed
  codes,     \* the frame in the talker's frame_codes_ buffer
  slots,     \* the frames in the stager's packet buffer
  decoded,   \* every frame the codec has taken, in order
  faults     \* calls that have failed

cuda == <<queue, recorded, reached, codes, slots, decoded>>
vars == <<path, host, talker, stager, codec, delivered, cuda, faults>>

Streams == {"talker", "stager", "codec"}
Events == {"codes_ready", "semantic_ready", "copied", "consumed"}

Talker ==
  [home : {"none", "pool", "owned"}, lease : BOOLEAN, poisoned : BOOLEAN,
   frames : 0 .. MaxFrames, recyclable : BOOLEAN,
   end : {"none", "CodecEos", "MaxFrames", "Cancelled"}]

NoTalker ==
  [home |-> "none", lease |-> FALSE, poisoned |-> FALSE, frames |-> 0,
   recyclable |-> FALSE, end |-> "none"]
NewStager == [staged |-> 0, poisoned |-> FALSE]
NewCodec == [pending |-> 0, cancelled |-> FALSE, finalized |-> FALSE]
NoFrames == [slot \in 1 .. PacketFrames |-> 0]

\* load: either both libraries have the device ABI, or neither.
Init ==
  /\ path \in {"device", "host"}
  /\ host = [pc |-> "start", want |-> 0, count |-> 0]
  /\ talker = NoTalker /\ stager = NewStager /\ codec = NewCodec
  /\ delivered = 0 /\ faults = 0
  /\ queue = [s \in Streams |-> <<>>]
  /\ recorded = [e \in Events |-> 0] /\ reached = [e \in Events |-> 0]
  /\ codes = 0 /\ slots = NoFrames /\ decoded = <<>>

-----------------------------------------------------------------------------
(* The GPU.                                                                *)

Pack(frame) == [op |-> "pack", frame |-> frame]
Record(e) == [op |-> "record", event |-> e]
Wait(e) == [op |-> "wait", event |-> e, upto |-> recorded[e]]
Copy(slot) == [op |-> "copy", slot |-> slot, frame |-> talker.frames + 1]
Snapshot(n) == [op |-> "snapshot", frames |-> n]

Operations ==
  [op : {"pack"}, frame : 1 .. MaxFrames] \cup [op : {"record"}, event : Events]
  \cup [op : {"wait"}, event : Events, upto : Nat]
  \cup [op : {"copy"}, slot : 1 .. PacketFrames, frame : 1 .. MaxFrames]
  \cup [op : {"snapshot"}, frames : 1 .. PacketFrames]

Enqueue(s, ops) ==
  /\ queue' = [queue EXCEPT ![s] = @ \o ops]
  /\ recorded' = [e \in Events |->
                    recorded[e] + Cardinality({i \in 1 .. Len(ops) : ops[i] = Record(e)})]
  /\ UNCHANGED <<reached, codes, slots, decoded>>

\* Only the first k of the calls that enqueue ops succeed.
EnqueuePart(s, ops, k) == Enqueue(s, SubSeq(ops, 1, k))

Drained(s) == queue[s] = <<>>
Synchronized(e) == reached[e] = recorded[e]

\* The operation at the head of stream s.
Execute(s) ==
  LET op == Head(queue[s]) IN
  /\ ~Drained(s)
  /\ op.op = "wait" => reached[op.event] >= op.upto
  /\ queue' = [queue EXCEPT ![s] = Tail(@)]
  /\ reached' = IF op.op = "record" THEN [reached EXCEPT ![op.event] = @ + 1] ELSE reached
  /\ codes' = IF op.op = "pack" THEN op.frame ELSE codes
  /\ slots' = IF op.op = "copy" THEN [slots EXCEPT ![op.slot] = codes] ELSE slots
  /\ decoded' = IF op.op = "snapshot" THEN decoded \o SubSeq(slots, 1, op.frames) ELSE decoded
  /\ UNCHANGED <<path, host, talker, stager, codec, delivered, recorded, faults>>

-----------------------------------------------------------------------------
(* Host calls.                                                             *)

At(pc) == host.pc = pc
Goto(pc) == host' = [host EXCEPT !.pc = pc]
Fault == faults < MaxFaults /\ faults' = faults + 1
NoFault == UNCHANGED faults

\* Drop of a talker session: back to the pool, or destroyed with its stream,
\* and of codec session and stager, each after a synchronization of its stream.
DropSession ==
  /\ talker.recyclable \/ Drained("talker")
  /\ Drained("codec") /\ Drained("stager")
  /\ talker' = IF talker.recyclable THEN [talker EXCEPT !.home = "pool"] ELSE NoTalker
  /\ stager' = NewStager /\ codec' = NewCodec
  /\ delivered' = 0 /\ slots' = NoFrames /\ decoded' = <<>>
  /\ Goto("start")

\* acquire_session: a pooled session is reset, which waits for its stream and
\* fails over a lease; a session that cannot be reset is destroyed.
Acquire ==
  /\ At("start")
  /\ talker.home = "pool" => Drained("talker")
  /\ \/ /\ talker.home # "pool" \/ ~talker.lease
        /\ talker' = [talker EXCEPT !.home = "owned", !.frames = 0, !.end = "none",
                                    !.recyclable = FALSE]
        /\ Goto("prefill") /\ NoFault
     \/ /\ \/ talker.home = "pool" /\ talker.lease /\ NoFault
           \/ Fault
        /\ talker' = NoTalker /\ UNCHANGED host
  /\ recorded' = [e \in Events |-> 0] /\ reached' = [e \in Events |-> 0]
  /\ codes' = 0
  /\ UNCHANGED <<path, stager, codec, delivered, queue, slots, decoded>>

\* prefill, then start_session up to the codec session and the stager; a
\* session that ends or fails on the way is dropped.
Prefill ==
  /\ At("prefill")
  /\ \/ /\ ~talker.poisoned /\ ~talker.lease /\ NoFault
        /\ talker' = [talker EXCEPT !.recyclable = TRUE]
        /\ Goto("open")
     \/ /\ ~talker.poisoned /\ ~talker.lease /\ NoFault
        /\ talker' = [talker EXCEPT !.home = "pool", !.end = "CodecEos", !.recyclable = TRUE]
        /\ Goto("start")
     \/ /\ \/ (talker.poisoned \/ talker.lease) /\ NoFault
           \/ Fault
        /\ talker' = NoTalker
        /\ Goto("start")
  /\ UNCHANGED <<path, stager, codec, delivered, cuda>>

Open ==
  /\ At("open")
  /\ \/ Goto("idle") /\ UNCHANGED talker /\ NoFault
     \/ Fault /\ Goto("start") /\ talker' = [talker EXCEPT !.home = "pool"]
  /\ UNCHANGED <<path, stager, codec, delivered, cuda>>

Wanted_Full == PacketFrames
Wanted == IF delivered = 0 THEN 1 ELSE PacketFrames

\* step_session: the first packet has one frame.
BeginStep ==
  /\ At("idle")
  /\ host' = [pc |-> IF path = "host" THEN "hostFrame"
                     ELSE IF stager.staged # 0 THEN "failed" ELSE "begin",
              want |-> Wanted, count |-> 0]
  /\ UNCHANGED <<path, talker, stager, codec, delivered, cuda, faults>>

\* begin_device_frame: a lease, and the kernels that generate the frame.  After
\* a failure the stream is synchronized and the session poisoned; a view that
\* makes no sense leaves the lease behind.
FrameOps == <<Pack(talker.frames + 1), Record("codes_ready"), Record("semantic_ready")>>

PoisonedTalker == [talker EXCEPT !.poisoned = TRUE, !.recyclable = FALSE]

BeginFrame ==
  /\ At("begin")
  /\ \/ /\ ~talker.poisoned /\ ~talker.lease
        /\ Enqueue("talker", FrameOps)
        /\ talker' = [talker EXCEPT !.lease = TRUE]
        /\ Goto("stage") /\ NoFault
     \/ /\ Fault
        /\ \E k \in 0 .. Len(FrameOps) : EnqueuePart("talker", FrameOps, k)
        /\ talker' = PoisonedTalker
        /\ Goto("failed")
     \/ /\ Fault /\ Enqueue("talker", FrameOps)
        /\ talker' = [talker EXCEPT !.lease = TRUE, !.recyclable = FALSE]
        /\ Goto("failed")
  /\ UNCHANGED <<path, stager, codec, delivered>>

StageWait_None == <<>>
StageWait == <<Wait("codes_ready")>>

\* stage_frame: behind the producer, into the next slot; a failed call leaves
\* the stager poisoned and the pending frame to its Drop.
StageFrame ==
  LET ops == StageWait \o <<Copy(stager.staged + 1), Record("copied")>> IN
  /\ At("stage")
  /\ \/ /\ ~stager.poisoned /\ stager.staged < PacketFrames
        /\ Enqueue("stager", ops)
        /\ stager' = [stager EXCEPT !.staged = @ + 1]
        /\ Goto("finish") /\ NoFault
     \/ /\ Fault
        /\ \E k \in 0 .. Len(ops) - 1 : EnqueuePart("stager", ops, k)
        /\ stager' = [stager EXCEPT !.poisoned = TRUE]
        /\ Goto("abandon")
  /\ UNCHANGED <<path, talker, codec, delivered>>

ConsumerWait_None == <<>>
ConsumerWait == <<Wait("copied")>>

\* finish_frame orders the session behind the copy, then waits for the next
\* semantic token; after a failed call the pending frame is dropped.
FinishFrame ==
  /\ At("finish")
  /\ \/ /\ Enqueue("talker", ConsumerWait) /\ NoFault
        /\ Goto("semantic") /\ UNCHANGED talker
     \/ /\ Fault
        /\ \E k \in 0 .. Len(ConsumerWait) : EnqueuePart("talker", ConsumerWait, k)
        /\ Goto("abandon") /\ talker' = [talker EXCEPT !.recyclable = FALSE]
  /\ UNCHANGED <<path, stager, codec, delivered>>

\* How the talker may end with frame number n.
Ends(n) ==
  IF n = MaxFrames THEN {"CodecEos", "MaxFrames"} ELSE {"none", "CodecEos"}

Committed(end) ==
  [talker EXCEPT !.lease = FALSE, !.frames = @ + 1, !.end = end]

NextFrame(end, pc, ready) ==
  host' = [host EXCEPT !.count = @ + 1,
                       !.pc = IF end # "none" \/ host.count + 1 = host.want THEN ready ELSE pc]

\* commit_finished_device_frame, unless the end-of-stream flag disagrees.
CommitFrame ==
  /\ At("semantic") /\ Synchronized("semantic_ready")
  /\ \/ /\ NoFault
        /\ \E end \in Ends(talker.frames + 1) :
             talker' = Committed(end) /\ NextFrame(end, "begin", "packet")
     \/ /\ Fault
        /\ talker' = [talker EXCEPT !.lease = FALSE, !.recyclable = FALSE]
        /\ Goto("failed")
  /\ UNCHANGED <<path, stager, codec, delivered, cuda>>

\* Drop of a pending frame ends the lease without a consumer, if it can, and
\* gives the session up.
AbandonFrame ==
  /\ At("abandon")
  /\ \E ended \in BOOLEAN :
       /\ IF ended THEN Synchronized("semantic_ready") /\ NoFault ELSE Fault
       /\ talker' = [talker EXCEPT !.lease = @ /\ ~ended, !.recyclable = FALSE,
                                   !.end = "Cancelled"]
  /\ Goto("failed")
  /\ UNCHANGED <<path, stager, codec, delivered, cuda>>

\* begin_device_packet: the codec snapshots the staged packet behind the last
\* copy.  After a failed call it synchronizes and refuses every later packet.
BeginPacket ==
  LET ops == <<Wait("copied"), Snapshot(host.count), Record("consumed")>>
      accepts == codec.pending = 0 /\ ~codec.cancelled /\ ~codec.finalized
  IN
  /\ At("packet")
  /\ \/ /\ accepts /\ stager.staged = host.count
        /\ Enqueue("codec", ops) /\ NoFault
        /\ codec' = [codec EXCEPT !.pending = host.count]
        /\ Goto("release")
     \/ /\ ~accepts \/ stager.staged # host.count
        /\ Goto("failed") /\ UNCHANGED <<codec, cuda, faults>>
     \/ /\ Fault
        /\ \E k \in 0 .. Len(ops) : EnqueuePart("codec", ops, k)
        /\ codec' = [codec EXCEPT !.cancelled = TRUE]
        /\ Goto("failed")
  /\ UNCHANGED <<path, talker, stager, delivered>>

StagedAfterRelease_Kept == stager.staged
StagedAfterRelease == 0

\* release_after_consumer; a failure poisons the stager and drops the packet.
Release ==
  /\ At("release")
  /\ \/ /\ Enqueue("stager", <<Wait("consumed")>>) /\ NoFault
        /\ stager' = [stager EXCEPT !.staged = StagedAfterRelease]
        /\ Goto("finishPacket")
     \/ /\ Fault
        /\ stager' = [stager EXCEPT !.poisoned = TRUE]
        /\ Goto("dropPacket") /\ UNCHANGED cuda
  /\ UNCHANGED <<path, talker, codec, delivered>>

IsFinal == talker.end # "none"
Returned == IF IsFinal THEN "complete" ELSE "idle"

\* PendingDevicePacket::finish waits for the decoder; after a failure the guard
\* is dropped with its ticket cleared and the stream cancelled.
FinishPacket ==
  /\ At("finishPacket")
  /\ \/ /\ Drained("codec") /\ NoFault
        /\ codec' = [codec EXCEPT !.pending = 0, !.finalized = IsFinal]
        /\ delivered' = delivered + host.count
        /\ Goto(Returned)
     \/ /\ Fault
        /\ codec' = [codec EXCEPT !.pending = 0, !.cancelled = TRUE]
        /\ Goto("dropPacket") /\ UNCHANGED delivered
  /\ UNCHANGED <<path, talker, stager, cuda>>

\* Drop of a packet in flight: reset, which makes a new stream of the session,
\* or else cancel; either waits for the decoder, and both may fail.
DropPacket ==
  /\ At("dropPacket")
  /\ \/ Drained("codec") /\ codec' \in {NewCodec, [NewCodec EXCEPT !.cancelled = TRUE]}
        /\ NoFault
     \/ Fault /\ UNCHANGED codec
  /\ Goto("failed")
  /\ UNCHANGED <<path, talker, stager, delivered, cuda>>

\* step_host_session: every call is synchronous.  A frame whose end-of-stream
\* flag disagrees with its token is counted all the same.
HostFrame ==
  /\ At("hostFrame")
  /\ \/ /\ NoFault
        /\ \E end \in Ends(talker.frames + 1) :
             talker' = Committed(end) /\ NextFrame(end, "hostFrame", "hostPacket")
     \/ /\ Fault /\ Goto("failed")
        /\ talker' \in {PoisonedTalker, Committed("none")}
  /\ UNCHANGED <<path, stager, codec, delivered, cuda>>

HostPacket ==
  /\ At("hostPacket")
  /\ \/ /\ NoFault
        /\ decoded' = decoded \o [i \in 1 .. host.count |-> delivered + i]
        /\ codec' = [codec EXCEPT !.finalized = IsFinal]
        /\ delivered' = delivered + host.count
        /\ Goto(Returned)
     \/ Fault /\ Goto("failed") /\ UNCHANGED <<decoded, codec, delivered>>
  /\ UNCHANGED <<path, talker, stager, queue, recorded, reached, codes, slots>>

\* The scheduler cancels a session that has failed, or whose request was
\* cancelled, and drops it; a completed one it only drops.
Retire ==
  /\ host.pc \in {"idle", "failed", "complete"}
  /\ DropSession
  /\ UNCHANGED <<path, queue, recorded, reached, codes, faults>>

Host ==
  \/ Acquire \/ Prefill \/ Open \/ BeginStep \/ BeginFrame \/ StageFrame
  \/ FinishFrame \/ CommitFrame \/ AbandonFrame \/ BeginPacket \/ Release
  \/ FinishPacket \/ DropPacket \/ HostFrame \/ HostPacket \/ Retire

Next == Host \/ \E s \in Streams : Execute(s)

Spec == Init /\ [][Next]_vars

-----------------------------------------------------------------------------
(* Correctness.                                                            *)

\* Every variable has its type (the state of both Rust crates and of the GPU).
TypeOK ==
  /\ path \in {"device", "host"} /\ faults \in 0 .. MaxFaults
  /\ host \in [pc : {"start", "prefill", "open", "idle", "begin", "stage", "finish", "semantic",
                     "abandon", "packet", "release", "finishPacket", "dropPacket", "hostFrame",
                     "hostPacket", "failed", "complete"},
               want : 0 .. PacketFrames, count : 0 .. PacketFrames]
  /\ talker \in Talker
  /\ stager \in [staged : 0 .. PacketFrames, poisoned : BOOLEAN]
  /\ codec \in [pending : 0 .. PacketFrames, cancelled : BOOLEAN, finalized : BOOLEAN]
  /\ delivered \in 0 .. MaxFrames /\ codes \in 0 .. MaxFrames
  /\ slots \in [1 .. PacketFrames -> 0 .. MaxFrames]
  /\ decoded \in Seq(0 .. MaxFrames)
  /\ queue \in [Streams -> Seq(Operations)]
  /\ recorded \in [Events -> Nat] /\ reached \in [Events -> Nat]

\* However the three streams interleave, and whatever call fails, the codec
\* decodes the frames of the request in order: none lost, repeated, stale, or
\* overwritten on its way through the talker's only frame buffer and the
\* stager's only packet buffer.
DecodedInOrder ==
  /\ decoded = [i \in 1 .. Len(decoded) |-> i]
  /\ Len(decoded) <= talker.frames

\* A packet that is returned holds every frame the talker has produced, and the
\* codec stream is finalized exactly with the talker's last frame.
PacketIsWhole ==
  host.pc \in {"idle", "complete"} =>
    /\ delivered = talker.frames /\ Len(decoded) = talker.frames
    /\ codec.finalized = (talker.end # "none")
    /\ (host.pc = "complete") = codec.finalized

\* The frame buffer is not overwritten while a copy of it is still to run, not
\* even after the copy or its event has failed.
CopiedBeforeOverwritten ==
  [][\A i \in 1 .. Len(queue["stager"]) :
       LET op == queue["stager"][i]
       IN  op.op = "copy" /\ op.frame = codes => codes' = codes]_vars

\* A step that has returned leaves no lease, ticket or staged frame behind: so
\* the next step is not refused for what an earlier one has left.
NothingHeldBetweenSteps ==
  host.pc = "idle" =>
    /\ ~talker.lease /\ ~talker.poisoned
    /\ stager = NewStager /\ codec = NewCodec

\* "A failed native operation makes the session non-recyclable": a session in
\* the pool is neither poisoned nor leased, and its stream never lets a new
\* request overtake a copy of the last one.
PooledIsClean ==
  talker.home = "pool" => ~talker.lease /\ ~talker.poisoned

\* What the scheduler knows of the session.
Session ==
  CASE host.pc \in {"start", "prefill", "open"}         -> "none"
    [] host.pc \in {"abandon", "dropPacket", "failed"} -> "failed"
    [] host.pc = "complete"                            -> "complete"
    [] OTHER                                           -> "open"

Contract == INSTANCE BackendContract WITH session <- Session, given <- delivered

\* The backend keeps what the scheduler checks of its packets.
KeepsBackendContract == Contract!Spec

\* The frames of a request reach its packets once, in order and completely.
FramesAreWhole == TypeOK /\ DecodedInOrder /\ PacketIsWhole

\* Neither a step nor a session leaves a lease, a ticket or a poisoned state
\* to the next.
NothingLeftBehind == NothingHeldBetweenSteps /\ PooledIsClean
=============================================================================
