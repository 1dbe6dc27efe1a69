------------------------ MODULE DeviceHandoffProofs ------------------------
(***************************************************************************)
(* Proofs about the hand-off of codec frames from talker to stager to      *)
(* codec, for every frame limit, every number of failing calls and every   *)
(* speed of the three CUDA streams: the codec gets each frame once and in  *)
(* order, the frame buffer is not overwritten before it is copied, nothing *)
(* is left behind, and the backend keeps its contract.                     *)
(***************************************************************************)
EXTENDS DeviceHandoff, Integers, TLAPS, FiniteSetTheorems, SequenceTheorems

-----------------------------------------------------------------------------
(* The inductive invariant: the thread and its sessions.                   *)

InFrame == {"stage", "finish", "semantic"}
AtPacket == {"packet", "release", "finishPacket"}
OnHost == {"hostFrame", "hostPacket"}

Hosts ==
  [pc : {"start", "prefill", "open", "idle", "begin", "stage", "finish", "semantic",
         "abandon", "packet", "release", "finishPacket", "dropPacket", "hostFrame",
         "hostPacket", "failed", "complete"},
   want : 0 .. PacketFrames, count : 0 .. PacketFrames]
Stagers == [staged : 0 .. PacketFrames, poisoned : BOOLEAN]
Codecs == [pending : 0 .. PacketFrames, cancelled : BOOLEAN, finalized : BOOLEAN]

\* TypeOK in two halves: what the host keeps, and what the GPU works on.
HostTyped ==
  /\ path \in {"device", "host"} /\ faults \in 0 .. MaxFaults
  /\ host \in Hosts /\ talker \in Talker /\ stager \in Stagers /\ codec \in Codecs
  /\ delivered \in 0 .. MaxFrames

CudaTyped ==
  /\ codes \in 0 .. MaxFrames
  /\ slots \in [1 .. PacketFrames -> 0 .. MaxFrames]
  /\ decoded \in Seq(0 .. MaxFrames)
  /\ queue \in [Streams -> Seq(Operations)]
  /\ recorded \in [Events -> Nat] /\ reached \in [Events -> Nat]

\* The talker session: a lease is held exactly while a frame is in the
\* making, and a session that may be recycled can be used at once after it.
TalkerInv ==
  /\ talker.home = "owned" <=> host.pc # "start"
  /\ talker.home = "pool" => ~talker.lease /\ ~talker.poisoned
  /\ talker.recyclable =>
       ~talker.poisoned /\ (talker.lease => host.pc \in InFrame \cup {"abandon"})
  /\ host.pc \in InFrame => talker.lease
  /\ host.pc \in {"open", "idle", "begin", "complete"} \cup OnHost \cup InFrame \cup AtPacket =>
       talker.recyclable
  /\ host.pc \in {"prefill", "open"} => talker.frames = 0
  /\ host.pc \in {"prefill", "open", "idle", "begin", "hostFrame"} \cup InFrame =>
       talker.end = "none" /\ talker.frames < MaxFrames

\* The frames of a step: those the talker has made and no packet has returned.
CountInv ==
  /\ host.pc \in {"begin", "hostFrame"} \cup InFrame => host.count < host.want
  /\ host.pc \in {"begin", "abandon", "dropPacket"} \cup OnHost \cup InFrame \cup AtPacket =>
       host.want = Wanted /\ delivered + host.count = talker.frames
  /\ host.pc \in {"hostPacket", "dropPacket"} \cup AtPacket =>
       /\ host.count \in 1 .. host.want
       /\ host.count < host.want => talker.end # "none"
       /\ talker.end = "none" => talker.frames < MaxFrames
  /\ host.pc \in {"start", "prefill", "open"} => delivered = 0
  /\ host.pc \in {"idle", "complete"} => delivered = talker.frames
  /\ delivered <= talker.frames \/ host.pc = "start"

\* The stager and the codec session at each control point.
SessionInv ==
  /\ host.pc \in {"start", "prefill", "open"} => stager = NewStager /\ codec = NewCodec
  /\ host.pc \in {"idle", "begin", "complete"} \cup OnHost \cup InFrame \cup AtPacket =>
       /\ ~stager.poisoned /\ ~codec.cancelled
       /\ codec.pending = IF host.pc \in {"release", "finishPacket"} THEN host.count ELSE 0
       /\ codec.finalized = (host.pc = "complete")
       /\ stager.staged =
            CASE host.pc \in {"begin", "stage", "packet", "release"} -> host.count
              [] host.pc \in {"finish", "semantic"}                  -> host.count + 1
              [] OTHER                                               -> 0
  /\ host.pc = "complete" => talker.end # "none"
  /\ host.pc \in OnHost => path = "host"
  /\ host.pc \in {"begin", "abandon", "dropPacket"} \cup InFrame \cup AtPacket => path = "device"

HostInv == HostTyped /\ TalkerInv /\ CountInv /\ SessionInv

-----------------------------------------------------------------------------
(* The inductive invariant: the streams.                                   *)

\* Operation x of the talker's stream in a session: four for each frame, of
\* which the last orders the next frame behind the copy.
TalkerOp(x, op) ==
  LET n == (x + 3) \div 4 IN
  /\ x % 4 = 1 => op = Pack(n)
  /\ x % 4 = 2 => op = Record("codes_ready")
  /\ x % 4 = 3 => op = Record("semantic_ready")
  /\ x % 4 = 0 => op = [op |-> "wait", event |-> "copied", upto |-> n]

\* The stream has executed done of the total operations of the session.
TalkerRun(done, total) ==
  /\ Len(queue["talker"]) = total - done
  /\ \A i \in 1 .. Len(queue["talker"]) : TalkerOp(done + i, queue["talker"][i])
  /\ codes = (done + 3) \div 4
  /\ reached["codes_ready"] = (done + 2) \div 4
  /\ reached["semantic_ready"] = (done + 1) \div 4
  /\ reached["copied"] >= done \div 4
  /\ recorded["codes_ready"] = (total + 2) \div 4
  /\ recorded["semantic_ready"] = (total + 1) \div 4

\* Operation x of the stager's stream in a packet: three for each frame, then
\* a wait for the release.  Number 0 is the release of the packet before.
StagerOp(x, total, op) ==
  LET i == (x + 2) \div 3 IN
  /\ x % 3 = 1 =>
       /\ op.op = "wait"
       /\ x < total => op = [op |-> "wait", event |-> "codes_ready", upto |-> delivered + i]
  /\ x % 3 = 2 => op = [op |-> "copy", slot |-> i, frame |-> delivered + i]
  /\ x % 3 = 0 => IF x = 0 THEN op.op = "wait" ELSE op = Record("copied")

Copies(done) == IF done < 0 THEN 0 ELSE done \div 3

\* What has been copied is in its slot, and a copy whose wait is over finds
\* its frame in the talker's buffer.
StagerRun(done, total) ==
  /\ Len(queue["stager"]) = total - done
  /\ \A i \in 1 .. Len(queue["stager"]) : StagerOp(done + i, total, queue["stager"][i])
  /\ reached["copied"] = delivered + Copies(done)
  /\ recorded["copied"] = delivered + total \div 3
  /\ \A i \in 1 .. PacketFrames :
       /\ 3 * i - 2 <= done /\ 3 * i - 1 <= total => reached["codes_ready"] >= delivered + i
       /\ 3 * i - 1 <= done => slots[i] = delivered + i

\* The codec's stream takes one packet: wait, snapshot, record.
CodecOp(x, op) ==
  /\ x = 1 => op = [op |-> "wait", event |-> "copied", upto |-> delivered + host.count]
  /\ x = 2 => op = Snapshot(host.count)
  /\ x = 3 => op = Record("consumed")

Frames(n) == [i \in 1 .. n |-> i]

CodecRun(done, total) ==
  /\ Len(queue["codec"]) = total - done
  /\ \A i \in 1 .. Len(queue["codec"]) : CodecOp(done + i, queue["codec"][i])
  /\ done >= 1 => reached["copied"] >= delivered + host.count
  /\ decoded = Frames(IF done < 2 THEN delivered ELSE delivered + host.count)

\* How far each stream may be behind the thread.
TalkerLag(done, total) ==
  LET n == 4 * talker.frames IN
  /\ total >= done /\ done >= 0 /\ done >= n - 1 /\ total \in n .. n + 4
  /\ host.pc \in {"prefill", "open", "idle", "begin", "dropPacket", "complete"} \cup AtPacket =>
       total = n
  /\ host.pc \in {"stage", "finish"} => total = n + 3
  /\ host.pc = "semantic" => total = n + 4

StagerLag(done, total) ==
  LET n == 3 * (talker.frames - delivered) IN
  /\ total >= done /\ done >= -1 /\ (delivered = 0 => done >= 0)
  /\ total \in n .. n + 3 /\ total <= 3 * PacketFrames + 2
  /\ host.pc \in {"prefill", "open", "idle", "begin", "stage", "packet", "release", "complete"} =>
       total = n
  /\ host.pc \in {"finish", "semantic"} => total = n + 3
  /\ host.pc = "finishPacket" => total = n + 1

CodecLag(done, total) ==
  /\ total >= done /\ done >= 0 /\ total <= 3
  /\ host.pc \in {"prefill", "open", "idle", "begin", "abandon", "packet", "complete"} \cup InFrame =>
       total = 0
  /\ host.pc \in {"release", "finishPacket"} => total = 3
  /\ total >= 1 => delivered + host.count = talker.frames /\ host.count \in 1 .. PacketFrames

Behind(td, tt, sd, st, cd, ct) ==
  /\ TalkerRun(td, tt) /\ TalkerLag(td, tt)
  /\ StagerRun(sd, st) /\ StagerLag(sd, st)
  /\ CodecRun(cd, ct) /\ CodecLag(cd, ct)

DeviceInv ==
  path = "device" /\ host.pc # "start" =>
    \E td, tt, sd, st, cd, ct \in Int : Behind(td, tt, sd, st, cd, ct)

\* Between requests only a pooled session's stream may have work left, and
\* none that the decoder would notice; on the
\* host path nothing is ever enqueued and the decoder keeps pace.
QuietInv ==
  /\ host.pc = "start" =>
       /\ Drained("stager") /\ Drained("codec") /\ decoded = <<>>
       /\ talker.home # "pool" => Drained("talker")
       /\ \A i \in 1 .. Len(queue["talker"]) : queue["talker"][i].op # "snapshot"
  /\ path = "host" =>
       (\A s \in Streams : Drained(s)) /\ (host.pc # "start" => decoded = Frames(delivered))

IInv == HostInv /\ CudaTyped /\ QuietInv /\ DeviceInv

-----------------------------------------------------------------------------
(* Records of the host.                                                    *)

\* Goto moves the thread's program counter and nothing else of its record.
LEMMA GotoFields ==
  ASSUME host \in Hosts, NEW p, Goto(p)
  PROVE  host'.pc = p /\ host'.want = host.want /\ host'.count = host.count
BY DEF Hosts, Goto

\* A talker session after a frame, or after it was taken from the pool.
LEMMA CommittedFields ==
  ASSUME talker \in Talker, NEW end \in {"none", "CodecEos", "MaxFrames", "Cancelled"},
         talker.frames < MaxFrames, HandoffAssumption
  PROVE  LET t == Committed(end) IN
         /\ t \in Talker /\ t.home = talker.home /\ ~t.lease /\ t.poisoned = talker.poisoned
         /\ t.frames = talker.frames + 1 /\ t.recyclable = talker.recyclable /\ t.end = end
<1>1. talker.frames + 1 \in 0 .. MaxFrames
  BY DEF Talker, HandoffAssumption
<1>2. Committed(end) \in Talker
  BY <1>1 DEF Committed, Talker
<1>3. QED
  BY <1>2 DEF Committed, Talker

\* A session taken for a request: owned, without frames or an end.
LEMMA AcquiredFields ==
  ASSUME talker \in Talker, HandoffAssumption
  PROVE  LET t == [talker EXCEPT !.home = "owned", !.frames = 0, !.end = "none", !.recyclable = FALSE]
         IN  /\ t \in Talker /\ t.home = "owned" /\ t.lease = talker.lease
             /\ t.poisoned = talker.poisoned /\ t.frames = 0 /\ ~t.recyclable /\ t.end = "none"
<1> DEFINE t == [talker EXCEPT !.home = "owned", !.frames = 0, !.end = "none", !.recyclable = FALSE]
           u == [talker EXCEPT !.home = "owned"]
<1>1. u \in Talker /\ 0 \in 0 .. MaxFrames
  BY DEF Talker, HandoffAssumption
<1> DEFINE v == [u EXCEPT !.frames = 0, !.end = "none", !.recyclable = FALSE]
<1>2. v = t
  BY DEF Talker
<1> HIDE DEF u
<1>3. v \in Talker
  BY <1>1 DEF Talker
<1>4. t \in Talker
  BY <1>2, <1>3
<1>5. QED
  BY <1>4 DEF Talker

\* A session whose prompt ended at once goes back to the pool.
LEMMA EosFields ==
  ASSUME talker \in Talker
  PROVE  LET t == [talker EXCEPT !.home = "pool", !.end = "CodecEos", !.recyclable = TRUE]
         IN  /\ t \in Talker /\ t.home = "pool" /\ t.lease = talker.lease
             /\ t.poisoned = talker.poisoned /\ t.frames = talker.frames
<1> DEFINE t == [talker EXCEPT !.home = "pool", !.end = "CodecEos", !.recyclable = TRUE]
           u == [talker EXCEPT !.home = "pool"]
<1>1. u \in Talker
  BY DEF Talker
<1> DEFINE v == [u EXCEPT !.end = "CodecEos", !.recyclable = TRUE]
<1>2. v = t
  BY DEF Talker
<1> HIDE DEF u
<1>3. v \in Talker
  BY <1>1 DEF Talker
<1>4. t \in Talker
  BY <1>2, <1>3
<1>5. QED
  BY <1>4 DEF Talker

\* Fresh sessions have their types.
LEMMA NewSessions ==
  ASSUME HandoffAssumption PROVE NoTalker \in Talker /\ NewStager \in Stagers /\ NewCodec \in Codecs
BY DEF HandoffAssumption, NoTalker, NewStager, NewCodec, Talker, Stagers, Codecs

\* The step counts the frame, and is ready when it has enough or the last.
LEMMA NextFrameFields ==
  ASSUME host \in Hosts, NEW end, NEW pc \in {"begin", "hostFrame"}, host.count < host.want,
         NEW ready \in {"packet", "hostPacket"}, NextFrame(end, pc, ready), HandoffAssumption
  PROVE  /\ host' \in Hosts
         /\ host'.pc = IF end # "none" \/ host.count + 1 = host.want THEN ready ELSE pc
         /\ host'.want = host.want /\ host'.count = host.count + 1
<1>1. /\ host'.pc = IF end # "none" \/ host.count + 1 = host.want THEN ready ELSE pc
      /\ host'.want = host.want /\ host'.count = host.count + 1
      /\ host' = [pc |-> host'.pc, want |-> host'.want, count |-> host'.count]
  BY DEF NextFrame, Hosts
<1>2. host.count + 1 \in 0 .. PacketFrames /\ host.want \in 0 .. PacketFrames
  BY DEF Hosts, HandoffAssumption
<1>3. QED
  BY <1>1, <1>2 DEF Hosts

-----------------------------------------------------------------------------
(* The host invariant, action by action.                                   *)

\* acquire_session.
LEMMA AcquireHost ==
  ASSUME HostInv, Acquire PROVE HostInv'
<1> USE HandoffAssumption DEF HandoffAssumption, InFrame, AtPacket, OnHost
<1>1. /\ path' = path /\ stager' = stager /\ codec' = codec /\ delivered' = delivered
      /\ host \in Hosts /\ talker \in Talker /\ host.pc = "start"
  BY DEF HostInv, HostTyped, Acquire, At
<1>2. CASE /\ talker.home # "pool" \/ ~talker.lease
           /\ talker' = [talker EXCEPT !.home = "owned", !.frames = 0, !.end = "none",
                                       !.recyclable = FALSE]
           /\ Goto("prefill") /\ NoFault
  <2>1. /\ talker' \in Talker /\ talker'.home = "owned" /\ talker'.lease = talker.lease
        /\ talker'.poisoned = talker.poisoned /\ talker'.frames = 0 /\ ~talker'.recyclable
        /\ talker'.end = "none"
    BY <1>1, <1>2, AcquiredFields
  <2>2. host' \in Hosts /\ host'.pc = "prefill"
    BY <1>1, <1>2 DEF Goto, Hosts
  <2>3. HostTyped'
    BY <1>1, <1>2, <2>1, <2>2 DEF HostInv, HostTyped, NoFault
  <2>4. TalkerInv'
    BY <2>1, <2>2 DEF TalkerInv
  <2>5. CountInv' /\ SessionInv'
    BY <1>1, <2>1, <2>2 DEF HostInv, CountInv, SessionInv, NewStager, NewCodec
  <2>6. QED
    BY <2>3, <2>4, <2>5 DEF HostInv
<1>3. CASE talker' = NoTalker /\ UNCHANGED host /\ faults' \in 0 .. MaxFaults
  <2>1. HostTyped'
    BY <1>1, <1>3, NewSessions DEF HostInv, HostTyped
  <2>2. TalkerInv'
    BY <1>1, <1>3 DEF TalkerInv, NoTalker
  <2>3. CountInv' /\ SessionInv'
    BY <1>1, <1>3 DEF HostInv, CountInv, SessionInv, NoTalker
  <2>4. QED
    BY <2>1, <2>2, <2>3 DEF HostInv
<1>4. QED
  BY <1>2, <1>3 DEF Acquire, HostInv, HostTyped, Fault, NoFault

\* prefill.
LEMMA PrefillHost ==
  ASSUME HostInv, Prefill PROVE HostInv'
<1> USE HandoffAssumption DEF HandoffAssumption, InFrame, AtPacket, OnHost
<1>1. /\ path' = path /\ stager' = stager /\ codec' = codec /\ delivered' = delivered
      /\ host \in Hosts /\ talker \in Talker /\ host.pc = "prefill"
      /\ faults' \in 0 .. MaxFaults
  BY DEF HostInv, HostTyped, Prefill, At, Fault, NoFault
<1>2. CASE ~talker.poisoned /\ ~talker.lease
           /\ talker' = [talker EXCEPT !.recyclable = TRUE] /\ Goto("open")
  <2>1. host' \in Hosts /\ host'.pc = "open"
    BY <1>1, <1>2 DEF Goto, Hosts
  <2>2. HostTyped'
    BY <1>1, <1>2, <2>1 DEF HostInv, HostTyped, Talker
  <2>3. TalkerInv'
    BY <1>1, <1>2, <2>1 DEF HostInv, TalkerInv, Talker
  <2>4. CountInv' /\ SessionInv'
    BY <1>1, <1>2, <2>1 DEF HostInv, CountInv, SessionInv, Talker
  <2>5. QED
    BY <2>2, <2>3, <2>4 DEF HostInv
<1>3. CASE ~talker.poisoned /\ ~talker.lease
           /\ talker' = [talker EXCEPT !.home = "pool", !.end = "CodecEos", !.recyclable = TRUE]
           /\ Goto("start")
  <2>1. host' \in Hosts /\ host'.pc = "start"
    BY <1>1, <1>3 DEF Goto, Hosts
  <2>2. /\ talker' \in Talker /\ talker'.home = "pool" /\ talker'.lease = talker.lease
        /\ talker'.poisoned = talker.poisoned
    BY <1>1, <1>3, EosFields
  <2>3. HostTyped'
    BY <1>1, <2>1, <2>2 DEF HostInv, HostTyped
  <2>4. TalkerInv'
    BY <1>3, <2>1, <2>2 DEF TalkerInv
  <2>5. CountInv' /\ SessionInv'
    BY <1>1, <2>1 DEF HostInv, CountInv, SessionInv
  <2>6. QED
    BY <2>3, <2>4, <2>5 DEF HostInv
<1>4. CASE talker' = NoTalker /\ Goto("start")
  <2>1. host' \in Hosts /\ host'.pc = "start"
    BY <1>1, <1>4 DEF Goto, Hosts
  <2>2. HostTyped'
    BY <1>1, <1>4, <2>1, NewSessions DEF HostInv, HostTyped
  <2>3. TalkerInv'
    BY <1>4, <2>1 DEF TalkerInv, NoTalker
  <2>4. CountInv' /\ SessionInv'
    BY <1>1, <2>1 DEF HostInv, CountInv, SessionInv
  <2>5. QED
    BY <2>2, <2>3, <2>4 DEF HostInv
<1>5. QED
  BY <1>2, <1>3, <1>4 DEF Prefill

\* stage_frame.
LEMMA StageFrameHost ==
  ASSUME HostInv, StageFrame PROVE HostInv'
<1> USE HandoffAssumption DEF HandoffAssumption, InFrame, AtPacket, OnHost
<1>1. /\ path' = path /\ codec' = codec /\ delivered' = delivered /\ talker' = talker
      /\ host \in Hosts /\ stager \in Stagers /\ host.pc = "stage"
      /\ faults' \in 0 .. MaxFaults
  BY DEF HostInv, HostTyped, StageFrame, At, Fault, NoFault
<1>2. CASE stager' = [stager EXCEPT !.staged = @ + 1] /\ stager.staged < PacketFrames /\ Goto("finish")
  <2>1. stager.staged + 1 \in 0 .. PacketFrames
    BY <1>1, <1>2 DEF Stagers
  <2>2. stager' \in Stagers /\ stager'.staged = stager.staged + 1 /\ stager'.poisoned = stager.poisoned
    BY <1>1, <1>2, <2>1 DEF Stagers
  <2>3. host' \in Hosts /\ host'.pc = "finish" /\ host'.want = host.want /\ host'.count = host.count
    BY <1>1, <1>2 DEF Goto, Hosts
  <2>4. HostTyped' /\ TalkerInv'
    BY <1>1, <2>2, <2>3 DEF HostInv, HostTyped, TalkerInv
  <2>5. CountInv' /\ SessionInv'
    BY <1>1, <2>2, <2>3 DEF HostInv, CountInv, SessionInv, Wanted
  <2>6. QED
    BY <2>4, <2>5 DEF HostInv
<1>3. CASE stager' = [stager EXCEPT !.poisoned = TRUE] /\ Goto("abandon")
  <2>1. stager' \in Stagers
    BY <1>1, <1>3 DEF Stagers
  <2>2. host' \in Hosts /\ host'.pc = "abandon" /\ host'.want = host.want /\ host'.count = host.count
    BY <1>1, <1>3 DEF Goto, Hosts
  <2>3. HostTyped' /\ TalkerInv'
    BY <1>1, <2>1, <2>2 DEF HostInv, HostTyped, TalkerInv
  <2>4. CountInv' /\ SessionInv'
    BY <1>1, <2>2 DEF HostInv, CountInv, SessionInv, Wanted
  <2>5. QED
    BY <2>3, <2>4 DEF HostInv
<1>4. QED
  BY <1>2, <1>3 DEF StageFrame

\* commit_finished_device_frame.
LEMMA CommitFrameHost ==
  ASSUME HostInv, CommitFrame PROVE HostInv'
<1> USE HandoffAssumption DEF HandoffAssumption, InFrame, AtPacket, OnHost
<1>1. /\ path' = path /\ codec' = codec /\ delivered' = delivered /\ stager' = stager
      /\ host \in Hosts /\ talker \in Talker /\ host.pc = "semantic"
      /\ faults' \in 0 .. MaxFaults
  BY DEF HostInv, HostTyped, CommitFrame, At, Fault, NoFault
<1>2. ASSUME NEW end \in Ends(talker.frames + 1),
             talker' = Committed(end), NextFrame(end, "begin", "packet")
      PROVE  HostInv'
  <2>1. end \in {"none", "CodecEos", "MaxFrames", "Cancelled"} /\ talker.frames < MaxFrames
        /\ host.count < host.want
    BY <1>1, <1>2 DEF Ends, HostInv, TalkerInv, CountInv
  <2>2. /\ talker' \in Talker /\ talker'.home = talker.home /\ ~talker'.lease
        /\ talker'.poisoned = talker.poisoned /\ talker'.frames = talker.frames + 1
        /\ talker'.recyclable = talker.recyclable /\ talker'.end = end
    BY <1>1, <1>2, <2>1, CommittedFields
  <2>3. /\ host' \in Hosts
        /\ host'.pc = IF end # "none" \/ host.count + 1 = host.want THEN "packet" ELSE "begin"
        /\ host'.want = host.want /\ host'.count = host.count + 1
    BY <1>1, <1>2, <2>1, NextFrameFields
  <2>4. end = "none" => talker.frames + 1 < MaxFrames
    BY <1>1, <2>1 DEF Ends, Talker
  <2>5. HostTyped'
    BY <1>1, <2>2, <2>3 DEF HostInv, HostTyped
  <2>6. TalkerInv'
    BY <1>1, <2>2, <2>3, <2>4 DEF HostInv, TalkerInv
  <2>7. host.count \in Nat /\ host.want \in Nat /\ talker.frames \in Nat /\ delivered \in Nat
    BY <1>1 DEF Hosts, Talker, HostInv, HostTyped
  <2>8. CountInv'
    BY <1>1, <2>1, <2>2, <2>3, <2>4, <2>7 DEF HostInv, CountInv, Wanted
  <2>9. SessionInv'
    BY <1>1, <2>2, <2>3 DEF HostInv, SessionInv
  <2>10. QED
    BY <2>5, <2>6, <2>8, <2>9 DEF HostInv
<1>3. CASE talker' = [talker EXCEPT !.lease = FALSE, !.recyclable = FALSE] /\ Goto("failed")
  <2>1. /\ talker' \in Talker /\ talker'.home = talker.home /\ talker'.frames = talker.frames
        /\ ~talker'.recyclable
    BY <1>1, <1>3 DEF Talker
  <2>2. host' \in Hosts /\ host'.pc = "failed"
    BY <1>1, <1>3 DEF Goto, Hosts
  <2>3. HostTyped' /\ TalkerInv'
    BY <1>1, <2>1, <2>2 DEF HostInv, HostTyped, TalkerInv
  <2>4. CountInv' /\ SessionInv'
    BY <1>1, <2>1, <2>2 DEF HostInv, CountInv, SessionInv
  <2>5. QED
    BY <2>3, <2>4 DEF HostInv
<1>4. QED
  BY <1>2, <1>3 DEF CommitFrame

\* A frame on the host path.
LEMMA HostFrameHost ==
  ASSUME HostInv, HostFrame PROVE HostInv'
<1> USE HandoffAssumption DEF HandoffAssumption, InFrame, AtPacket, OnHost
<1>1. /\ path' = path /\ codec' = codec /\ delivered' = delivered /\ stager' = stager
      /\ host \in Hosts /\ talker \in Talker /\ host.pc = "hostFrame"
      /\ faults' \in 0 .. MaxFaults
  BY DEF HostInv, HostTyped, HostFrame, At, Fault, NoFault
<1>2. talker.frames < MaxFrames /\ host.count < host.want
  BY <1>1 DEF HostInv, TalkerInv, CountInv
<1>3. ASSUME NEW end \in Ends(talker.frames + 1),
             talker' = Committed(end), NextFrame(end, "hostFrame", "hostPacket")
      PROVE  HostInv'
  <2>1. end \in {"none", "CodecEos", "MaxFrames", "Cancelled"}
    BY DEF Ends
  <2>2. /\ talker' \in Talker /\ talker'.home = talker.home /\ ~talker'.lease
        /\ talker'.poisoned = talker.poisoned /\ talker'.frames = talker.frames + 1
        /\ talker'.recyclable = talker.recyclable /\ talker'.end = end
    BY <1>1, <1>2, <1>3, <2>1, CommittedFields
  <2>3. /\ host' \in Hosts
        /\ host'.pc = IF end # "none" \/ host.count + 1 = host.want THEN "hostPacket" ELSE "hostFrame"
        /\ host'.want = host.want /\ host'.count = host.count + 1
    BY <1>1, <1>2, <1>3, <2>1, NextFrameFields
  <2>4. end = "none" => talker.frames + 1 < MaxFrames
    BY <1>1, <1>2, <2>1 DEF Ends, Talker
  <2>5. HostTyped'
    BY <1>1, <2>2, <2>3 DEF HostInv, HostTyped
  <2>6. TalkerInv'
    BY <1>1, <2>2, <2>3, <2>4 DEF HostInv, TalkerInv
  <2>7. host.count \in Nat /\ host.want \in Nat /\ talker.frames \in Nat /\ delivered \in Nat
    BY <1>1 DEF Hosts, Talker, HostInv, HostTyped
  <2>8. CountInv'
    BY <1>1, <1>2, <2>2, <2>3, <2>4, <2>7 DEF HostInv, CountInv, Wanted
  <2>9. SessionInv'
    BY <1>1, <2>2, <2>3 DEF HostInv, SessionInv
  <2>10. QED
    BY <2>5, <2>6, <2>8, <2>9 DEF HostInv
<1>4. CASE talker' \in {PoisonedTalker, Committed("none")} /\ Goto("failed")
  <2>1. host' \in Hosts /\ host'.pc = "failed"
    BY <1>1, <1>4 DEF Goto, Hosts
  <2>2. /\ PoisonedTalker \in Talker /\ PoisonedTalker.home = talker.home
        /\ ~PoisonedTalker.recyclable /\ PoisonedTalker.frames = talker.frames
    BY <1>1 DEF PoisonedTalker, Talker
  <2>3. LET t == Committed("none") IN
        /\ t \in Talker /\ t.home = talker.home /\ ~t.lease /\ t.poisoned = talker.poisoned
        /\ t.frames = talker.frames + 1 /\ t.recyclable = talker.recyclable
    BY <1>1, <1>2, CommittedFields
  <2>4. /\ talker' \in Talker /\ talker'.home = talker.home /\ talker'.frames >= talker.frames
        /\ talker'.recyclable => ~talker'.lease /\ ~talker'.poisoned
    BY <1>1, <1>4, <2>2, <2>3 DEF HostInv, TalkerInv, Talker
  <2>5. HostTyped' /\ TalkerInv'
    BY <1>1, <2>1, <2>4 DEF HostInv, HostTyped, TalkerInv
  <2>6. talker.frames \in Nat /\ delivered \in Nat /\ talker'.frames \in Nat
    BY <1>1, <2>4 DEF Talker, HostInv, HostTyped
  <2>7. CountInv' /\ SessionInv'
    BY <1>1, <2>1, <2>4, <2>6 DEF HostInv, CountInv, SessionInv
  <2>8. QED
    BY <2>5, <2>7 DEF HostInv
<1>5. QED
  BY <1>3, <1>4 DEF HostFrame

\* release_after_consumer.
LEMMA ReleaseHost ==
  ASSUME HostInv, Release PROVE HostInv'
<1> USE HandoffAssumption DEF HandoffAssumption, InFrame, AtPacket, OnHost
<1>1. /\ path' = path /\ codec' = codec /\ delivered' = delivered /\ talker' = talker
      /\ host \in Hosts /\ stager \in Stagers /\ host.pc = "release"
      /\ faults' \in 0 .. MaxFaults
  BY DEF HostInv, HostTyped, Release, At, Fault, NoFault
<1>2. /\ stager' \in Stagers /\ host' \in Hosts
      /\ host'.want = host.want /\ host'.count = host.count
      /\ \/ host'.pc = "finishPacket" /\ stager'.staged = 0 /\ ~stager'.poisoned
         \/ host'.pc = "dropPacket"
  <2>1. CASE stager' = [stager EXCEPT !.staged = 0] /\ Goto("finishPacket")
    <3>1. stager' \in Stagers /\ stager'.staged = 0 /\ stager'.poisoned = stager.poisoned
      BY <1>1, <2>1 DEF Stagers
    <3>2. QED
      BY <1>1, <2>1, <3>1 DEF Goto, Hosts, HostInv, SessionInv
  <2>2. CASE stager' = [stager EXCEPT !.poisoned = TRUE] /\ Goto("dropPacket")
    BY <1>1, <2>2 DEF Stagers, Goto, Hosts
  <2>3. QED
    BY <2>1, <2>2 DEF Release, StagedAfterRelease
<1>3. HostTyped' /\ TalkerInv'
  BY <1>1, <1>2 DEF HostInv, HostTyped, TalkerInv
<1>4. CountInv' /\ SessionInv'
  BY <1>1, <1>2 DEF HostInv, CountInv, SessionInv, Wanted
<1>5. QED
  BY <1>3, <1>4 DEF HostInv

\* PendingDevicePacket::finish.
LEMMA FinishPacketHost ==
  ASSUME HostInv, FinishPacket PROVE HostInv'
<1> USE HandoffAssumption DEF HandoffAssumption, InFrame, AtPacket, OnHost
<1>1. /\ path' = path /\ stager' = stager /\ talker' = talker
      /\ host \in Hosts /\ codec \in Codecs /\ talker \in Talker /\ host.pc = "finishPacket"
      /\ faults' \in 0 .. MaxFaults /\ delivered \in Nat
  BY DEF HostInv, HostTyped, FinishPacket, At, Fault, NoFault
<1>2. CASE /\ codec' = [codec EXCEPT !.pending = 0, !.finalized = IsFinal]
           /\ delivered' = delivered + host.count /\ Goto(Returned)
  <2>1. /\ codec' \in Codecs /\ codec'.pending = 0 /\ codec'.finalized = IsFinal
        /\ codec'.cancelled = codec.cancelled
    <3>1. IsFinal \in BOOLEAN /\ 0 \in 0 .. PacketFrames
      BY DEF IsFinal
    <3>2. QED
      BY <1>1, <1>2, <3>1 DEF Codecs
  <2>2. /\ host' \in Hosts /\ host'.want = host.want /\ host'.count = host.count
        /\ host'.pc = IF talker.end # "none" THEN "complete" ELSE "idle"
    BY <1>1, <1>2 DEF Goto, Hosts, Returned, IsFinal
  <2>3. delivered' = talker.frames
    BY <1>1, <1>2 DEF HostInv, CountInv
  <2>4. talker.end = "none" => talker.frames < MaxFrames
    BY <1>1 DEF HostInv, CountInv
  <2>5. HostTyped' /\ TalkerInv'
    BY <1>1, <2>1, <2>2, <2>3, <2>4 DEF HostInv, HostTyped, TalkerInv, Talker
  <2>6. CountInv'
    BY <1>1, <2>2, <2>3, <2>4 DEF HostInv, CountInv, Talker
  <2>7. SessionInv'
    BY <1>1, <2>1, <2>2 DEF HostInv, SessionInv, IsFinal
  <2>8. QED
    BY <2>5, <2>6, <2>7 DEF HostInv
<1>3. CASE /\ codec' = [codec EXCEPT !.pending = 0, !.cancelled = TRUE]
           /\ UNCHANGED delivered /\ Goto("dropPacket")
  <2>1. codec' \in Codecs
    <3>1. 0 \in 0 .. PacketFrames
      OBVIOUS
    <3>2. QED
      BY <1>1, <1>3, <3>1 DEF Codecs
  <2>2. /\ host' \in Hosts /\ host'.want = host.want /\ host'.count = host.count
        /\ host'.pc = "dropPacket"
    BY <1>1, <1>3 DEF Goto, Hosts
  <2>3. HostTyped' /\ TalkerInv'
    BY <1>1, <1>3, <2>1, <2>2 DEF HostInv, HostTyped, TalkerInv
  <2>4. CountInv' /\ SessionInv'
    BY <1>1, <1>3, <2>2 DEF HostInv, CountInv, SessionInv, Wanted
  <2>5. QED
    BY <2>3, <2>4 DEF HostInv
<1>4. QED
  BY <1>2, <1>3 DEF FinishPacket

\* The other actions change few of these fields.
LEMMA OpenHost ==
  ASSUME HostInv, Open PROVE HostInv'
<1> USE DEF InFrame, AtPacket, OnHost
<1>1. /\ path' = path /\ stager' = stager /\ codec' = codec /\ delivered' = delivered
      /\ host \in Hosts /\ talker \in Talker /\ host.pc = "open" /\ faults' \in 0 .. MaxFaults
      /\ stager = NewStager /\ codec = NewCodec /\ delivered = 0 /\ talker.frames = 0
  BY HandoffAssumption
     DEF HostInv, HostTyped, TalkerInv, CountInv, SessionInv, Open, At, Fault, NoFault
<1>2. CASE Goto("idle") /\ talker' = talker
  <2>1. host' \in Hosts /\ host'.pc = "idle"
    BY <1>1, <1>2 DEF Goto, Hosts
  <2>2. HostTyped'
    BY <1>1, <1>2, <2>1 DEF HostInv, HostTyped
  <2>3. TalkerInv'
    BY <1>1, <1>2, <2>1 DEF HostInv, TalkerInv
  <2>4. CountInv'
    BY <1>1, <1>2, <2>1 DEF CountInv
  <2>5. SessionInv'
    <3>1. /\ stager'.staged = 0 /\ ~stager'.poisoned
          /\ codec'.pending = 0 /\ ~codec'.cancelled /\ ~codec'.finalized
          /\ codec'.finalized = FALSE
      BY <1>1 DEF NewStager, NewCodec
    <3>2. QED
      BY <2>1, <3>1 DEF SessionInv
  <2>6. QED
    BY <2>2, <2>3, <2>4, <2>5 DEF HostInv
<1>3. CASE Goto("start") /\ talker' = [talker EXCEPT !.home = "pool"]
  <2>1. host' \in Hosts /\ host'.pc = "start"
    BY <1>1, <1>3 DEF Goto, Hosts
  <2>2. /\ talker' \in Talker /\ talker'.home = "pool" /\ talker'.frames = talker.frames
        /\ talker'.lease = talker.lease /\ talker'.poisoned = talker.poisoned
    BY <1>1, <1>3 DEF Talker
  <2>3. ~talker.lease /\ ~talker.poisoned
    BY <1>1 DEF HostInv, TalkerInv
  <2>4. HostTyped'
    BY <1>1, <2>1, <2>2 DEF HostInv, HostTyped
  <2>5. TalkerInv'
    BY <2>1, <2>2, <2>3 DEF TalkerInv
  <2>6. CountInv' /\ SessionInv'
    BY <1>1, <2>1, <2>2 DEF CountInv, SessionInv
  <2>7. QED
    BY <2>4, <2>5, <2>6 DEF HostInv
<1>4. QED
  BY <1>2, <1>3 DEF Open

LEMMA BeginStepHost ==
  ASSUME HostInv, BeginStep PROVE HostInv'
<1> USE DEF InFrame, AtPacket, OnHost
<1>1. /\ UNCHANGED <<path, talker, stager, codec, delivered, faults>> /\ host.pc = "idle"
      /\ stager.staged = 0
  BY DEF HostInv, SessionInv, BeginStep, At
<1> DEFINE next == IF path = "host" THEN "hostFrame" ELSE "begin"
<1>2. /\ host' \in Hosts /\ host'.pc = next /\ host'.want = Wanted /\ host'.count = 0
      /\ Wanted \in 1 .. PacketFrames
  BY <1>1, HandoffAssumption DEF BeginStep, Wanted, Hosts
<1>3. HostTyped'
  BY <1>1, <1>2 DEF HostInv, HostTyped
<1>4. TalkerInv'
  BY <1>1, <1>2 DEF HostInv, TalkerInv
<1>5. CountInv'
  <2>1. delivered = talker.frames /\ talker.frames \in Nat
    BY <1>1 DEF HostInv, HostTyped, CountInv, Talker
  <2>2. QED
    BY <1>1, <1>2, <2>1 DEF CountInv, Wanted
<1>6. SessionInv'
  BY <1>1, <1>2 DEF HostInv, HostTyped, SessionInv
<1>7. QED
  BY <1>3, <1>4, <1>5, <1>6 DEF HostInv

LEMMA BeginFrameHost ==
  ASSUME HostInv, BeginFrame PROVE HostInv'
<1> USE DEF InFrame, AtPacket, OnHost
<1>1. /\ path' = path /\ stager' = stager /\ codec' = codec /\ delivered' = delivered
      /\ host \in Hosts /\ talker \in Talker /\ host.pc = "begin" /\ faults' \in 0 .. MaxFaults
  BY HandoffAssumption DEF HostInv, HostTyped, BeginFrame, At, Fault, NoFault
<1>2. CASE talker' = [talker EXCEPT !.lease = TRUE] /\ Goto("stage") /\ ~talker.poisoned
  <2>1. /\ host' \in Hosts /\ host'.pc = "stage" /\ host'.want = host.want
        /\ host'.count = host.count
    BY <1>1, <1>2 DEF Goto, Hosts
  <2>2. /\ talker' \in Talker /\ talker'.home = talker.home /\ talker'.lease
        /\ talker'.poisoned = talker.poisoned /\ talker'.frames = talker.frames
        /\ talker'.recyclable = talker.recyclable /\ talker'.end = talker.end
    BY <1>1, <1>2 DEF Talker
  <2>3. HostTyped'
    BY <1>1, <2>1, <2>2 DEF HostInv, HostTyped
  <2>4. TalkerInv'
    BY <1>1, <2>1, <2>2 DEF HostInv, TalkerInv
  <2>5. CountInv'
    BY <1>1, <2>1, <2>2 DEF HostInv, CountInv, Wanted
  <2>6. SessionInv'
    BY <1>1, <2>1, <2>2 DEF HostInv, SessionInv
  <2>7. QED
    BY <2>3, <2>4, <2>5, <2>6 DEF HostInv
<1>3. CASE /\ talker' \in {PoisonedTalker, [talker EXCEPT !.lease = TRUE, !.recyclable = FALSE]}
           /\ Goto("failed")
  <2>1. /\ host' \in Hosts /\ host'.pc = "failed" /\ host'.want = host.want
        /\ host'.count = host.count
    BY <1>1, <1>3 DEF Goto, Hosts
  <2>2. /\ talker' \in Talker /\ talker'.home = talker.home /\ ~talker'.recyclable
        /\ talker'.frames = talker.frames /\ talker'.end = talker.end
    BY <1>1, <1>3 DEF Talker, PoisonedTalker
  <2>3. HostTyped'
    BY <1>1, <2>1, <2>2 DEF HostInv, HostTyped
  <2>4. TalkerInv'
    BY <1>1, <2>1, <2>2 DEF HostInv, TalkerInv
  <2>5. CountInv'
    BY <1>1, <2>1, <2>2 DEF HostInv, CountInv, Wanted
  <2>6. SessionInv'
    BY <1>1, <2>1, <2>2 DEF HostInv, SessionInv
  <2>7. QED
    BY <2>3, <2>4, <2>5, <2>6 DEF HostInv
<1>4. QED
  BY <1>2, <1>3 DEF BeginFrame

LEMMA FinishFrameHost ==
  ASSUME HostInv, FinishFrame PROVE HostInv'
<1> USE DEF InFrame, AtPacket, OnHost
<1>1. /\ path' = path /\ stager' = stager /\ codec' = codec /\ delivered' = delivered
      /\ host \in Hosts /\ talker \in Talker /\ host.pc = "finish" /\ faults' \in 0 .. MaxFaults
  BY HandoffAssumption DEF HostInv, HostTyped, FinishFrame, At, Fault, NoFault
<1>2. CASE Goto("semantic") /\ talker' = talker
  <2>1. /\ host' \in Hosts /\ host'.pc = "semantic" /\ host'.want = host.want
        /\ host'.count = host.count
    BY <1>1, <1>2 DEF Goto, Hosts
  <2>2. HostTyped'
    BY <1>1, <1>2, <2>1 DEF HostInv, HostTyped
  <2>3. TalkerInv'
    BY <1>1, <1>2, <2>1 DEF HostInv, TalkerInv
  <2>4. CountInv'
    BY <1>1, <1>2, <2>1 DEF HostInv, CountInv, Wanted
  <2>5. SessionInv'
    BY <1>1, <1>2, <2>1 DEF HostInv, SessionInv
  <2>6. QED
    BY <2>2, <2>3, <2>4, <2>5 DEF HostInv
<1>3. CASE Goto("abandon") /\ talker' = [talker EXCEPT !.recyclable = FALSE]
  <2>1. /\ host' \in Hosts /\ host'.pc = "abandon" /\ host'.want = host.want
        /\ host'.count = host.count
    BY <1>1, <1>3 DEF Goto, Hosts
  <2>2. /\ talker' \in Talker /\ talker'.home = talker.home /\ ~talker'.recyclable
        /\ talker'.lease = talker.lease /\ talker'.poisoned = talker.poisoned
        /\ talker'.frames = talker.frames /\ talker'.end = talker.end
    BY <1>1, <1>3 DEF Talker
  <2>3. HostTyped'
    BY <1>1, <2>1, <2>2 DEF HostInv, HostTyped
  <2>4. TalkerInv'
    BY <1>1, <2>1, <2>2 DEF HostInv, TalkerInv
  <2>5. CountInv'
    BY <1>1, <2>1, <2>2 DEF HostInv, CountInv, Wanted
  <2>6. SessionInv'
    BY <1>1, <2>1, <2>2 DEF HostInv, SessionInv
  <2>7. QED
    BY <2>3, <2>4, <2>5, <2>6 DEF HostInv
<1>4. QED
  BY <1>2, <1>3 DEF FinishFrame

LEMMA AbandonFrameHost ==
  ASSUME HostInv, AbandonFrame PROVE HostInv'
<1> USE DEF InFrame, AtPacket, OnHost
<1>1. /\ path' = path /\ stager' = stager /\ codec' = codec /\ delivered' = delivered
      /\ host \in Hosts /\ talker \in Talker /\ host.pc = "abandon" /\ faults' \in 0 .. MaxFaults
  BY HandoffAssumption DEF HostInv, HostTyped, AbandonFrame, At, Fault, NoFault
<1>2. /\ host' \in Hosts /\ host'.pc = "failed" /\ host'.want = host.want
      /\ host'.count = host.count
  BY <1>1 DEF AbandonFrame, Goto, Hosts
<1>3. /\ talker' \in Talker /\ talker'.home = talker.home /\ talker'.frames = talker.frames
      /\ ~talker'.recyclable
  <2>1. PICK ended \in BOOLEAN :
          talker' = [talker EXCEPT !.lease = @ /\ ~ended, !.recyclable = FALSE, !.end = "Cancelled"]
    BY DEF AbandonFrame
  <2> DEFINE lease == talker.lease /\ ~ended
  <2>2. talker' = [talker EXCEPT !.lease = lease, !.recyclable = FALSE, !.end = "Cancelled"]
    BY <2>1
  <2>3. lease \in BOOLEAN
    OBVIOUS
  <2> HIDE DEF lease
  <2>4. QED
    BY <1>1, <2>2, <2>3 DEF Talker
<1>4. HostTyped'
  BY <1>1, <1>2, <1>3 DEF HostInv, HostTyped
<1>5. TalkerInv'
  BY <1>1, <1>2, <1>3 DEF HostInv, TalkerInv
<1>6. CountInv' /\ SessionInv'
  BY <1>1, <1>2, <1>3 DEF HostInv, CountInv, SessionInv
<1>7. QED
  BY <1>4, <1>5, <1>6 DEF HostInv

LEMMA BeginPacketHost ==
  ASSUME HostInv, BeginPacket PROVE HostInv'
<1> USE DEF InFrame, AtPacket, OnHost
<1>1. /\ UNCHANGED <<path, talker, stager, delivered>> /\ host.pc = "packet"
      /\ host \in Hosts /\ codec \in Codecs /\ faults' \in 0 .. MaxFaults
  BY HandoffAssumption DEF HostInv, HostTyped, BeginPacket, At, Fault, NoFault
<1>2. CASE codec' = [codec EXCEPT !.pending = host.count] /\ Goto("release")
  <2>1. /\ host' \in Hosts /\ host'.pc = "release" /\ host'.want = host.want
        /\ host'.count = host.count
    BY <1>1, <1>2 DEF Goto, Hosts
  <2>2. /\ codec' \in Codecs /\ codec'.pending = host.count
        /\ codec'.cancelled = codec.cancelled /\ codec'.finalized = codec.finalized
    BY <1>1, <1>2 DEF Codecs, Hosts
  <2>3. HostTyped'
    BY <1>1, <2>1, <2>2 DEF HostInv, HostTyped
  <2>4. TalkerInv'
    BY <1>1, <2>1 DEF HostInv, TalkerInv
  <2>5. CountInv'
    BY <1>1, <2>1 DEF HostInv, CountInv, Wanted
  <2>6. SessionInv'
    BY <1>1, <2>1, <2>2 DEF HostInv, SessionInv
  <2>7. QED
    BY <2>3, <2>4, <2>5, <2>6 DEF HostInv
<1>3. CASE codec' \in {codec, [codec EXCEPT !.cancelled = TRUE]} /\ Goto("failed")
  <2>1. host' \in Hosts /\ host'.pc = "failed"
    BY <1>1, <1>3 DEF Goto, Hosts
  <2>2. codec' \in Codecs
    BY <1>1, <1>3 DEF Codecs
  <2>3. HostTyped'
    BY <1>1, <2>1, <2>2 DEF HostInv, HostTyped
  <2>4. TalkerInv'
    BY <1>1, <2>1 DEF HostInv, TalkerInv
  <2>5. CountInv' /\ SessionInv'
    BY <1>1, <2>1 DEF HostInv, CountInv, SessionInv
  <2>6. QED
    BY <2>3, <2>4, <2>5 DEF HostInv
<1>4. QED
  BY <1>2, <1>3 DEF BeginPacket

LEMMA RetireHost ==
  ASSUME HostInv, Retire PROVE HostInv'
<1> USE DEF InFrame, AtPacket, OnHost
<1>1. /\ UNCHANGED <<path, faults>> /\ host.pc \in {"idle", "failed", "complete"}
      /\ host \in Hosts /\ talker \in Talker
      /\ stager' = NewStager /\ codec' = NewCodec /\ delivered' = 0
  BY DEF HostInv, HostTyped, Retire, DropSession
<1>2. host' \in Hosts /\ host'.pc = "start"
  BY <1>1 DEF Retire, DropSession, Goto, Hosts
<1>3. /\ talker' \in Talker /\ talker'.home # "owned"
      /\ talker'.home = "pool" => ~talker'.lease /\ ~talker'.poisoned
      /\ talker'.recyclable => ~talker'.lease /\ ~talker'.poisoned
  <2>1. CASE talker.recyclable
    <3>1. ~talker.lease /\ ~talker.poisoned
      BY <1>1, <2>1 DEF HostInv, TalkerInv
    <3>2. talker' = [talker EXCEPT !.home = "pool"]
      BY <2>1 DEF Retire, DropSession
    <3>3. QED
      BY <1>1, <3>1, <3>2 DEF Talker
  <2>2. CASE ~talker.recyclable
    BY <2>2, NewSessions, HandoffAssumption DEF Retire, DropSession, NoTalker
  <2>3. QED
    BY <2>1, <2>2
<1>4. HostTyped'
  BY <1>1, <1>2, <1>3, NewSessions, HandoffAssumption DEF HostInv, HostTyped
<1>5. TalkerInv'
  BY <1>2, <1>3 DEF TalkerInv
<1>6. CountInv' /\ SessionInv'
  BY <1>1, <1>2 DEF CountInv, SessionInv
<1>7. QED
  BY <1>4, <1>5, <1>6 DEF HostInv

LEMMA DropPacketHost ==
  ASSUME HostInv, DropPacket PROVE HostInv'
<1> USE DEF InFrame, AtPacket, OnHost
<1>1. /\ UNCHANGED <<path, talker, stager, delivered>> /\ host.pc = "dropPacket"
      /\ host \in Hosts /\ codec \in Codecs /\ faults' \in 0 .. MaxFaults
  BY HandoffAssumption DEF HostInv, HostTyped, DropPacket, At, Fault, NoFault
<1>2. host' \in Hosts /\ host'.pc = "failed"
  BY <1>1 DEF DropPacket, Goto, Hosts
<1>3. codec' \in Codecs
  BY <1>1, NewSessions, HandoffAssumption DEF DropPacket, Codecs
<1>4. HostTyped'
  BY <1>1, <1>2, <1>3 DEF HostInv, HostTyped
<1>5. TalkerInv'
  BY <1>1, <1>2 DEF HostInv, TalkerInv
<1>6. CountInv' /\ SessionInv'
  BY <1>1, <1>2 DEF HostInv, CountInv, SessionInv
<1>7. QED
  BY <1>4, <1>5, <1>6 DEF HostInv

LEMMA HostPacketHost ==
  ASSUME HostInv, HostPacket PROVE HostInv'
<1> USE DEF InFrame, AtPacket, OnHost
<1>1. /\ path' = path /\ stager' = stager /\ talker' = talker
      /\ host \in Hosts /\ talker \in Talker /\ codec \in Codecs /\ host.pc = "hostPacket"
      /\ faults' \in 0 .. MaxFaults
  BY HandoffAssumption DEF HostInv, HostTyped, HostPacket, At, Fault, NoFault
<1>2. CASE /\ codec' = [codec EXCEPT !.finalized = IsFinal]
           /\ delivered' = delivered + host.count /\ Goto(Returned)
  <2>1. Returned \in {"complete", "idle"} /\ (Returned = "complete" <=> IsFinal) /\ IsFinal \in BOOLEAN
    BY DEF Returned, IsFinal
  <2>2. /\ host' \in Hosts /\ host'.pc = Returned /\ host'.want = host.want
        /\ host'.count = host.count
    BY <1>1, <1>2, <2>1 DEF Goto, Hosts
  <2>3. /\ codec' \in Codecs /\ codec'.pending = codec.pending
        /\ codec'.cancelled = codec.cancelled /\ codec'.finalized = IsFinal
    BY <1>1, <1>2, <2>1 DEF Codecs
  <2>4. delivered' = talker.frames /\ talker.frames \in 0 .. MaxFrames
    BY <1>1, <1>2 DEF HostInv, CountInv, Talker
  <2>5. HostTyped'
    BY <1>1, <2>2, <2>3, <2>4 DEF HostInv, HostTyped
  <2>6. TalkerInv'
    BY <1>1, <2>1, <2>2 DEF HostInv, TalkerInv, CountInv, IsFinal
  <2>7. CountInv'
    BY <1>1, <2>1, <2>2, <2>4 DEF CountInv
  <2>8. SessionInv'
    BY <1>1, <2>1, <2>2, <2>3 DEF HostInv, SessionInv, IsFinal
  <2>9. QED
    BY <2>5, <2>6, <2>7, <2>8 DEF HostInv
<1>3. CASE codec' = codec /\ delivered' = delivered /\ Goto("failed")
  <2>1. /\ host' \in Hosts /\ host'.pc = "failed" /\ host'.want = host.want
        /\ host'.count = host.count
    BY <1>1, <1>3 DEF Goto, Hosts
  <2>2. HostTyped'
    BY <1>1, <1>3, <2>1 DEF HostInv, HostTyped
  <2>3. TalkerInv'
    BY <1>1, <2>1 DEF HostInv, TalkerInv
  <2>4. CountInv' /\ SessionInv'
    BY <1>1, <1>3, <2>1 DEF HostInv, CountInv, SessionInv
  <2>5. QED
    BY <2>2, <2>3, <2>4 DEF HostInv
<1>4. QED
  BY <1>2, <1>3 DEF HostPacket

-----------------------------------------------------------------------------
(* Enqueueing.                                                             *)

\* The first k operations, when the rest of the calls failed.
LEMMA Parts ==
  ASSUME NEW ops \in Seq(Operations), NEW k \in 0 .. Len(ops)
  PROVE  /\ SubSeq(ops, 1, k) \in Seq(Operations) /\ Len(SubSeq(ops, 1, k)) = k
         /\ \A i \in 1 .. k : SubSeq(ops, 1, k)[i] = ops[i]
         /\ k = Len(ops) => SubSeq(ops, 1, k) = ops
<1>1. /\ SubSeq(ops, 1, k) \in Seq(Operations) /\ Len(SubSeq(ops, 1, k)) = k
      /\ \A i \in 1 .. k : SubSeq(ops, 1, k)[i] = ops[i]
  BY SubSeqProperties
<1>2. k = Len(ops) => SubSeq(ops, 1, k) = ops
  BY <1>1, SeqEqual
<1>3. QED
  BY <1>1, <1>2

\* What enqueueing does to a stream, and to the records of an event that
\* occurs at most once among the operations.
LEMMA Enqueued ==
  ASSUME CudaTyped, NEW s \in Streams, NEW ops \in Seq(Operations), Enqueue(s, ops)
  PROVE  /\ CudaTyped' /\ UNCHANGED <<reached, codes, slots, decoded>>
         /\ Len(queue'[s]) = Len(queue[s]) + Len(ops)
         /\ \A i \in 1 .. Len(queue'[s]) :
              queue'[s][i] = IF i <= Len(queue[s]) THEN queue[s][i] ELSE ops[i - Len(queue[s])]
         /\ \A t \in Streams : t # s => queue'[t] = queue[t]
         /\ \A e \in Events :
              /\ (\A i \in 1 .. Len(ops) : ops[i] # Record(e)) => recorded'[e] = recorded[e]
              /\ \A j \in 1 .. Len(ops) :
                   ops[j] = Record(e) /\ (\A i \in 1 .. Len(ops) : i # j => ops[i] # Record(e))
                     => recorded'[e] = recorded[e] + 1
<1>1. /\ UNCHANGED <<reached, codes, slots, decoded>>
      /\ queue \in [Streams -> Seq(Operations)] /\ queue' = [queue EXCEPT ![s] = @ \o ops]
      /\ queue[s] \in Seq(Operations) /\ recorded \in [Events -> Nat]
  BY DEF Enqueue, CudaTyped
<1>2. /\ queue' \in [Streams -> Seq(Operations)] /\ queue'[s] = queue[s] \o ops
      /\ \A t \in Streams : t # s => queue'[t] = queue[t]
  BY <1>1
<1>3. /\ Len(queue'[s]) = Len(queue[s]) + Len(ops)
      /\ \A i \in 1 .. Len(queue'[s]) :
           queue'[s][i] = IF i <= Len(queue[s]) THEN queue[s][i] ELSE ops[i - Len(queue[s])]
  BY <1>1, <1>2, ConcatProperties
<1> DEFINE Records(e) == {i \in 1 .. Len(ops) : ops[i] = Record(e)}
<1>4. recorded' = [e \in Events |-> recorded[e] + Cardinality(Records(e))]
  BY DEF Enqueue
<1>5. ASSUME NEW e \in Events
      PROVE  /\ Cardinality(Records(e)) \in Nat
             /\ Records(e) = {} => recorded'[e] = recorded[e]
             /\ \A j : Records(e) = {j} => recorded'[e] = recorded[e] + 1
  <2>1. IsFiniteSet(1 .. Len(ops)) /\ Records(e) \subseteq 1 .. Len(ops)
    BY FS_Interval
  <2>2. Cardinality(Records(e)) \in Nat
    BY <2>1, FS_Subset, FS_CardinalityType
  <2>3. /\ Records(e) = {} => Cardinality(Records(e)) = 0
        /\ \A j : Records(e) = {j} => Cardinality(Records(e)) = 1
    BY FS_EmptySet, FS_Singleton
  <2> HIDE DEF Records
  <2>4. recorded[e] \in Nat /\ recorded'[e] = recorded[e] + Cardinality(Records(e))
    BY <1>1, <1>4
  <2>5. recorded[e] + 0 = recorded[e]
    BY <2>4
  <2>6. Records(e) = {} => recorded'[e] = recorded[e]
    BY <2>3, <2>4, <2>5
  <2>7. ASSUME NEW j, Records(e) = {j} PROVE recorded'[e] = recorded[e] + 1
    BY <2>3, <2>4, <2>7
  <2>8. QED
    BY <2>2, <2>6, <2>7
<1>6. recorded' \in [Events -> Nat]
  <2> HIDE DEF Records
  <2>1. \A e \in Events : recorded[e] + Cardinality(Records(e)) \in Nat
    BY <1>1, <1>5
  <2>2. QED
    BY <1>4, <2>1
<1>7. ASSUME NEW e \in Events
      PROVE  /\ (\A i \in 1 .. Len(ops) : ops[i] # Record(e)) => Records(e) = {}
             /\ \A j \in 1 .. Len(ops) :
                  ops[j] = Record(e) /\ (\A i \in 1 .. Len(ops) : i # j => ops[i] # Record(e))
                    => Records(e) = {j}
  OBVIOUS
<1> HIDE DEF Records
<1>8. QED
  BY <1>1, <1>2, <1>3, <1>5, <1>6, <1>7, ZenonT(60) DEF CudaTyped

\* The parts of the GPU's state that a stream depends on.
LEMMA SameTalkerRun ==
  ASSUME NEW done \in Int, NEW total \in Int, TalkerRun(done, total),
         queue'["talker"] = queue["talker"], UNCHANGED <<codes, reached>>,
         recorded'["codes_ready"] = recorded["codes_ready"],
         recorded'["semantic_ready"] = recorded["semantic_ready"]
  PROVE  TalkerRun(done, total)'
BY DEF TalkerRun, TalkerOp, Pack, Record

\* The stager's stream depends on its queue, slots, events and the base frame.
LEMMA SameStagerRun ==
  ASSUME NEW done \in Int, NEW total \in Int, StagerRun(done, total),
         queue'["stager"] = queue["stager"], UNCHANGED <<slots, reached, delivered>>,
         recorded'["copied"] = recorded["copied"]
  PROVE  StagerRun(done, total)'
BY DEF StagerRun, StagerOp, Copies, Record

\* The codec's stream depends also on the frames of the packet in flight.
LEMMA SameCodecRun ==
  ASSUME NEW done \in Int, NEW total \in Int, CodecRun(done, total), CodecLag(done, total),
         queue'["codec"] = queue["codec"], UNCHANGED <<decoded, reached, delivered>>,
         host'.count = host.count \/ total = 0
  PROVE  CodecRun(done, total)'
<1>1. CASE host'.count = host.count
  BY <1>1 DEF CodecRun, CodecOp, Snapshot, Record
<1>2. CASE total = 0
  <2>1. done = 0 /\ Len(queue["codec"]) = 0
    BY <1>2 DEF CodecLag, CodecRun
  <2>2. QED
    BY <1>2, <2>1 DEF CodecRun
<1>3. QED
  BY <1>1, <1>2

\* A step of the thread that calls nothing of CUDA leaves the streams alone.
LEMMA SameRuns ==
  ASSUME NEW td \in Int, NEW tt \in Int, NEW sd \in Int, NEW st \in Int, NEW cd \in Int, NEW ct \in Int,
         Behind(td, tt, sd, st, cd, ct), UNCHANGED <<cuda, delivered>>,
         host'.count = host.count \/ ct = 0
  PROVE  TalkerRun(td, tt)' /\ StagerRun(sd, st)' /\ CodecRun(cd, ct)'
BY SameTalkerRun, SameStagerRun, SameCodecRun DEF Behind, cuda

-----------------------------------------------------------------------------
(* The streams, action by action.                                          *)

\* No frames, no decoded stream.
LEMMA FramesNone == Frames(0) = <<>>
BY DEF Frames

\* The types of the GPU's state, when a step leaves it alone.
LEMMA SameCuda ==
  ASSUME CudaTyped, UNCHANGED cuda PROVE CudaTyped'
BY DEF CudaTyped, cuda

\* A request starts with the streams drained and the events reset.
LEMMA AcquireKeeps ==
  ASSUME IInv, Acquire PROVE QuietInv' /\ CudaTyped' /\ DeviceInv'
<1> USE HandoffAssumption DEF HandoffAssumption
<1>1. /\ UNCHANGED <<path, stager, codec, delivered, queue, slots, decoded>>
      /\ recorded' = [e \in Events |-> 0] /\ reached' = [e \in Events |-> 0] /\ codes' = 0
      /\ host.pc = "start" /\ host \in Hosts /\ talker \in Talker
  BY DEF Acquire, At, IInv, HostInv, HostTyped
<1>2. /\ queue["stager"] = <<>> /\ queue["codec"] = <<>> /\ queue["talker"] = <<>>
      /\ decoded = <<>> /\ delivered = 0
  BY <1>1 DEF IInv, QuietInv, Drained, HostInv, CountInv, Acquire
<1>3. CudaTyped'
  BY <1>1 DEF IInv, CudaTyped
<1>4. CASE host'.pc = "prefill" /\ talker'.frames = 0
  <2>1. /\ reached'["codes_ready"] = 0 /\ reached'["semantic_ready"] = 0 /\ reached'["copied"] = 0
        /\ recorded'["codes_ready"] = 0 /\ recorded'["semantic_ready"] = 0 /\ recorded'["copied"] = 0
    BY <1>1 DEF Events
  <2>2. TalkerRun(0, 0)' /\ StagerRun(0, 0)'
    BY <1>1, <1>2, <2>1 DEF TalkerRun, StagerRun, Copies
  <2>3. CodecRun(0, 0)'
    BY <1>1, <1>2, FramesNone DEF CodecRun
  <2>4. TalkerLag(0, 0)' /\ StagerLag(0, 0)' /\ CodecLag(0, 0)'
    BY <1>1, <1>2, <1>4 DEF TalkerLag, StagerLag, CodecLag, AtPacket, InFrame
  <2>5. DeviceInv'
    BY <2>2, <2>3, <2>4 DEF DeviceInv, Behind
  <2>6. QuietInv'
    BY <1>1, <1>2, <1>4, FramesNone DEF QuietInv, Drained, Streams
  <2>7. QED
    BY <1>3, <2>5, <2>6
<1>5. CASE UNCHANGED host
  BY <1>1, <1>2, <1>3, <1>5 DEF QuietInv, DeviceInv, Drained, Streams
<1>6. QED
  <2>1. (host'.pc = "prefill" /\ talker'.frames = 0) \/ UNCHANGED host
    BY <1>1 DEF Acquire, Goto, Hosts, Talker
  <2>2. QED
    BY <1>4, <1>5, <2>1

\* Nothing is enqueued before the first frame, so a request that ends there
\* leaves nothing to the streams.
LEMMA OpeningIsQuiet ==
  ASSUME IInv, host.pc \in {"prefill", "open"}
  PROVE  (\A s \in Streams : Drained(s)) /\ decoded = <<>>
<1>1. CASE path = "host"
  BY <1>1, FramesNone DEF IInv, QuietInv, HostInv, CountInv
<1>2. CASE path = "device"
  <2>1. PICK td, tt, sd, st, cd, ct \in Int : Behind(td, tt, sd, st, cd, ct)
    BY <1>2 DEF IInv, DeviceInv
  <2>2. talker.frames = 0 /\ delivered = 0
    BY DEF IInv, HostInv, TalkerInv, CountInv
  <2>3. tt = 0 /\ td = 0 /\ st = 0 /\ sd = 0 /\ ct = 0 /\ cd = 0
    BY <2>1, <2>2 DEF Behind, TalkerLag, StagerLag, CodecLag
  <2>4. Len(queue["talker"]) = 0 /\ Len(queue["stager"]) = 0 /\ Len(queue["codec"]) = 0
    BY <2>1, <2>3 DEF Behind, TalkerRun, StagerRun, CodecRun
  <2>5. queue["talker"] = <<>> /\ queue["stager"] = <<>> /\ queue["codec"] = <<>>
    BY <2>4, EmptySeq DEF IInv, CudaTyped, Streams
  <2>6. decoded = Frames(0)
    BY <2>1, <2>2, <2>3 DEF Behind, CodecRun
  <2>7. QED
    BY <2>5, <2>6, FramesNone DEF Drained, Streams
<1>3. QED
  BY <1>1, <1>2 DEF IInv, HostInv, HostTyped

\* A request that ends before its first frame leaves nothing to the streams.
LEMMA OpeningEnds ==
  ASSUME IInv, host.pc \in {"prefill", "open"}, host'.pc = "start", UNCHANGED cuda
  PROVE  QuietInv' /\ CudaTyped' /\ DeviceInv'
<1>1. CudaTyped'
  BY SameCuda DEF IInv
<1>2. queue' = queue /\ decoded' = decoded
  BY DEF cuda
<1>3. (\A s \in Streams : Drained(s)') /\ decoded' = <<>>
  BY <1>2, OpeningIsQuiet DEF Drained
<1>4. \A i \in 1 .. Len(queue'["talker"]) : FALSE
  <2>1. queue'["talker"] = <<>>
    BY <1>3 DEF Drained, Streams
  <2>2. Len(<<>>) = 0
    OBVIOUS
  <2>3. QED
    BY <2>1, <2>2
<1>5. QuietInv'
  BY <1>3, <1>4 DEF QuietInv, Streams
<1>6. DeviceInv'
  BY DEF DeviceInv
<1>7. QED
  BY <1>1, <1>5, <1>6

\* The step keeps what is known of how far each stream is behind.
LagsFollow ==
  \A td, tt, sd, st, cd, ct \in Int :
    path = "device" /\ Behind(td, tt, sd, st, cd, ct) =>
      /\ TalkerLag(td, tt)' /\ StagerLag(sd, st)' /\ CodecLag(cd, ct)'
      /\ host'.count = host.count \/ ct = 0

\* A step of the thread that enqueues nothing and returns no packet.
LEMMA ThreadKeeps ==
  ASSUME IInv, UNCHANGED <<path, cuda, delivered>>, host.pc # "start", host'.pc # "start",
         LagsFollow
  PROVE  QuietInv' /\ CudaTyped' /\ DeviceInv'
<1>1. QuietInv' /\ CudaTyped'
  BY SameCuda DEF IInv, QuietInv, cuda, Drained
<1>2. ASSUME path = "device" PROVE DeviceInv'
  <2>1. PICK td, tt, sd, st, cd, ct \in Int : Behind(td, tt, sd, st, cd, ct)
    BY <1>2 DEF IInv, DeviceInv
  <2>2. /\ TalkerLag(td, tt)' /\ StagerLag(sd, st)' /\ CodecLag(cd, ct)'
        /\ host'.count = host.count \/ ct = 0
    BY <1>2, <2>1 DEF LagsFollow
  <2>3. TalkerRun(td, tt)' /\ StagerRun(sd, st)' /\ CodecRun(cd, ct)'
    BY <2>1, <2>2, SameRuns
  <2>4. Behind(td, tt, sd, st, cd, ct)'
    BY <2>2, <2>3 DEF Behind
  <2>5. QED
    BY <2>4 DEF DeviceInv
<1>3. QED
  BY <1>1, <1>2 DEF DeviceInv

\* Prefill enqueues nothing that a frame depends on.
LEMMA PrefillKeeps ==
  ASSUME IInv, Prefill, HostInv' PROVE QuietInv' /\ CudaTyped' /\ DeviceInv'
<1> USE HandoffAssumption DEF HandoffAssumption, InFrame, AtPacket
<1>1. /\ UNCHANGED <<path, cuda, delivered>> /\ host.pc = "prefill" /\ host \in Hosts /\ talker \in Talker
  BY DEF Prefill, At, IInv, HostInv, HostTyped
<1>2. CASE host'.pc = "start"
  BY <1>1, <1>2, OpeningEnds
<1>3. CASE host'.pc = "open" /\ talker'.frames = talker.frames /\ host'.count = host.count
  <2>1. ASSUME NEW td \in Int, NEW tt \in Int, NEW sd \in Int, NEW st \in Int, NEW cd \in Int, NEW ct \in Int,
               Behind(td, tt, sd, st, cd, ct)
        PROVE  TalkerLag(td, tt)' /\ StagerLag(sd, st)' /\ CodecLag(cd, ct)'
    BY <1>1, <1>3, <2>1 DEF Behind, TalkerLag, StagerLag, CodecLag
  <2>2. LagsFollow
    BY <1>1, <1>3, <2>1, ZenonT(60) DEF LagsFollow
  <2>3. QED
    BY <1>1, <1>3, <2>2, ThreadKeeps
<1>4. QED
  BY <1>1, <1>2, <1>3 DEF Prefill, Goto, Hosts, Talker

\* Opening the codec session and the stager enqueues nothing.
LEMMA OpenKeeps ==
  ASSUME IInv, Open, HostInv' PROVE QuietInv' /\ CudaTyped' /\ DeviceInv'
<1> USE HandoffAssumption DEF HandoffAssumption, InFrame, AtPacket
<1>1. /\ UNCHANGED <<path, cuda, delivered>> /\ host.pc = "open" /\ host \in Hosts
  BY DEF Open, At, IInv, HostInv, HostTyped
<1>2. CASE host'.pc = "start"
  BY <1>1, <1>2, OpeningEnds
<1>3. CASE host'.pc = "idle" /\ UNCHANGED talker /\ host'.count = host.count
  <2>1. ASSUME NEW td \in Int, NEW tt \in Int, NEW sd \in Int, NEW st \in Int, NEW cd \in Int, NEW ct \in Int,
               Behind(td, tt, sd, st, cd, ct)
        PROVE  TalkerLag(td, tt)' /\ StagerLag(sd, st)' /\ CodecLag(cd, ct)'
    BY <1>1, <1>3, <2>1 DEF Behind, TalkerLag, StagerLag, CodecLag
  <2>2. LagsFollow
    BY <1>1, <1>3, <2>1, SMTT(60) DEF LagsFollow
  <2>3. QED
    BY <1>1, <1>3, <2>2, ThreadKeeps
<1>4. QED
  BY <1>1, <1>2, <1>3 DEF Open, Goto, Hosts

\* A step begins with nothing staged.
LEMMA BeginStepKeeps ==
  ASSUME IInv, BeginStep, HostInv' PROVE QuietInv' /\ CudaTyped' /\ DeviceInv'
<1> USE HandoffAssumption DEF HandoffAssumption, InFrame, AtPacket
<1>1. /\ UNCHANGED <<path, talker, cuda, delivered>> /\ host.pc = "idle" /\ stager.staged = 0
      /\ host'.pc = IF path = "host" THEN "hostFrame" ELSE "begin"
  BY DEF BeginStep, At, IInv, HostInv, SessionInv
<1>2. ASSUME NEW td \in Int, NEW tt \in Int, NEW sd \in Int, NEW st \in Int, NEW cd \in Int, NEW ct \in Int,
             path = "device", Behind(td, tt, sd, st, cd, ct)
      PROVE  /\ TalkerLag(td, tt)' /\ StagerLag(sd, st)' /\ CodecLag(cd, ct)'
             /\ ct = 0
  BY <1>1, <1>2 DEF Behind, TalkerLag, StagerLag, CodecLag
<1>3. LagsFollow
  BY <1>1, <1>2 DEF LagsFollow
<1>4. QED
  BY <1>1, <1>3, ThreadKeeps

\* The device has executed the frame whose semantic token the thread has seen.
LEMMA CommitFrameKeeps ==
  ASSUME IInv, CommitFrame, HostInv' PROVE QuietInv' /\ CudaTyped' /\ DeviceInv'
<1> USE HandoffAssumption DEF HandoffAssumption, InFrame, AtPacket
<1>1. /\ UNCHANGED <<path, cuda, delivered>> /\ host.pc = "semantic" /\ Synchronized("semantic_ready")
      /\ host \in Hosts /\ talker \in Talker /\ talker.frames \in Nat /\ delivered \in Nat
      /\ delivered <= talker.frames
  <2>1. UNCHANGED <<path, cuda, delivered>> /\ host.pc = "semantic" /\ Synchronized("semantic_ready")
    BY DEF CommitFrame, At
  <2>2. host \in Hosts /\ talker \in Talker /\ delivered \in 0 .. MaxFrames
    BY DEF IInv, HostInv, HostTyped
  <2>3. talker.frames \in Nat /\ delivered \in Nat
    BY <2>2 DEF Talker
  <2>4. delivered <= talker.frames
    <3>1. CountInv
      BY SMTT(60) DEF IInv, HostInv
    <3>2. QED
      BY <2>1, <3>1 DEF CountInv
  <2>5. QED
    BY <2>1, <2>2, <2>3, <2>4
<1>2. \/ host'.pc = "failed" /\ talker'.frames = talker.frames
      \/ host'.pc \in {"begin", "packet"} /\ talker'.frames = talker.frames + 1
  BY <1>1 DEF CommitFrame, Committed, NextFrame, Goto, Hosts, Talker
<1>3. ASSUME NEW td \in Int, NEW tt \in Int, NEW sd \in Int, NEW st \in Int, NEW cd \in Int, NEW ct \in Int,
             Behind(td, tt, sd, st, cd, ct)
      PROVE  /\ TalkerLag(td, tt)' /\ StagerLag(sd, st)' /\ CodecLag(cd, ct)'
             /\ ct = 0
  <2>1. tt = 4 * talker.frames + 4 /\ st = 3 * (talker.frames - delivered) + 3 /\ ct = 0 /\ td \in Nat
    BY <1>1, <1>3 DEF Behind, TalkerLag, StagerLag, CodecLag
  <2>2. (td + 1) \div 4 = (tt + 1) \div 4
    BY <1>1, <1>3 DEF Behind, TalkerRun, Synchronized
  <2>3. td >= 4 * talker.frames + 3
    BY <1>1, <2>1, <2>2
  <2>4. TalkerLag(td, tt)'
    BY <1>1, <1>2, <1>3, <2>1, <2>3 DEF Behind, TalkerLag
  <2>5. StagerLag(sd, st)'
    <3>1. /\ st >= sd /\ sd >= -1 /\ (delivered = 0 => sd >= 0) /\ st <= 3 * PacketFrames + 2
          /\ delivered' = delivered
      BY <1>1, <1>3 DEF Behind, StagerLag
    <3>2. CASE host'.pc = "failed" /\ talker'.frames = talker.frames
      BY <1>1, <2>1, <3>1, <3>2 DEF StagerLag
    <3>3. CASE host'.pc \in {"begin", "packet"} /\ talker'.frames = talker.frames + 1
      BY <1>1, <2>1, <3>1, <3>3 DEF StagerLag
    <3>4. QED
      BY <1>2, <3>2, <3>3
  <2>6. CodecLag(cd, ct)'
    BY <1>1, <1>2, <1>3, <2>1 DEF Behind, CodecLag
  <2>7. QED
    BY <2>1, <2>4, <2>5, <2>6
<1>4. LagsFollow
  BY <1>1, <1>2, <1>3, SMTT(60) DEF LagsFollow
<1>5. QED
  BY <1>1, <1>2, <1>4, ThreadKeeps

\* An abandoned frame leaves the streams to drain.
LEMMA AbandonFrameKeeps ==
  ASSUME IInv, AbandonFrame, HostInv' PROVE QuietInv' /\ CudaTyped' /\ DeviceInv'
<1> USE HandoffAssumption DEF HandoffAssumption, InFrame, AtPacket
<1>1. /\ UNCHANGED <<path, cuda, delivered>> /\ host.pc = "abandon" /\ host'.pc = "failed"
      /\ host'.count = host.count /\ talker'.frames = talker.frames
  BY DEF AbandonFrame, At, Goto, IInv, HostInv, HostTyped, Talker, Hosts
<1>2. ASSUME NEW td \in Int, NEW tt \in Int, NEW sd \in Int, NEW st \in Int, NEW cd \in Int, NEW ct \in Int,
             Behind(td, tt, sd, st, cd, ct)
      PROVE  TalkerLag(td, tt)' /\ StagerLag(sd, st)' /\ CodecLag(cd, ct)'
  BY <1>1, <1>2 DEF Behind, TalkerLag, StagerLag, CodecLag
<1>3. LagsFollow
  BY <1>1, <1>2 DEF LagsFollow
<1>4. QED
  BY <1>1, <1>3, ThreadKeeps

\* A dropped packet leaves the streams to drain.
LEMMA DropPacketKeeps ==
  ASSUME IInv, DropPacket, HostInv' PROVE QuietInv' /\ CudaTyped' /\ DeviceInv'
<1> USE HandoffAssumption DEF HandoffAssumption, InFrame, AtPacket
<1>1. /\ UNCHANGED <<path, cuda, delivered, talker>> /\ host.pc = "dropPacket" /\ host'.pc = "failed"
      /\ host'.count = host.count
  BY DEF DropPacket, At, Goto, IInv, HostInv, HostTyped, Hosts
<1>2. ASSUME NEW td \in Int, NEW tt \in Int, NEW sd \in Int, NEW st \in Int, NEW cd \in Int, NEW ct \in Int,
             Behind(td, tt, sd, st, cd, ct)
      PROVE  TalkerLag(td, tt)' /\ StagerLag(sd, st)' /\ CodecLag(cd, ct)'
  BY <1>1, <1>2 DEF Behind, TalkerLag, StagerLag, CodecLag
<1>3. LagsFollow
  BY <1>1, <1>2 DEF LagsFollow
<1>4. QED
  BY <1>1, <1>3, ThreadKeeps

\* The host path enqueues nothing.
LEMMA HostFrameKeeps ==
  ASSUME IInv, HostFrame, HostInv' PROVE QuietInv' /\ CudaTyped' /\ DeviceInv'
<1>1. /\ UNCHANGED <<path, cuda, delivered>> /\ host.pc = "hostFrame" /\ path = "host"
  BY DEF HostFrame, At, IInv, HostInv, SessionInv, OnHost
<1>2. host'.pc # "start"
  BY <1>1 DEF HostFrame, NextFrame, Goto, IInv, HostInv, HostTyped, Hosts
<1>3. LagsFollow
  BY <1>1 DEF LagsFollow
<1>4. QED
  BY <1>1, <1>2, <1>3, ThreadKeeps

\* The host path decodes the packet at once.
LEMMA HostPacketKeeps ==
  ASSUME IInv, HostPacket, HostInv' PROVE QuietInv' /\ CudaTyped' /\ DeviceInv'
<1> USE HandoffAssumption DEF HandoffAssumption
<1>1. /\ UNCHANGED <<path, queue, recorded, reached, codes, slots>>
      /\ host.pc = "hostPacket" /\ path = "host" /\ host'.pc \in {"complete", "idle", "failed"}
      /\ decoded = Frames(delivered) /\ delivered \in 0 .. MaxFrames /\ host.count \in 0 .. PacketFrames
  BY DEF HostPacket, At, Goto, Returned, IInv, HostInv, HostTyped, Hosts, SessionInv, OnHost, QuietInv
<1>2. delivered + host.count <= MaxFrames
  BY <1>1 DEF IInv, HostInv, HostTyped, CountInv, OnHost, Talker
<1>3. decoded' \in Seq(0 .. MaxFrames) /\ decoded' = Frames(delivered')
  <2>1. CASE UNCHANGED <<decoded, delivered>>
    BY <1>1, <2>1 DEF IInv, CudaTyped
  <2>2. CASE /\ decoded' = decoded \o [i \in 1 .. host.count |-> delivered + i]
             /\ delivered' = delivered + host.count
    <3>1. Frames(delivered) \in Seq(0 .. MaxFrames) /\ Frames(delivered + host.count) \in Seq(0 .. MaxFrames)
      BY <1>1, <1>2 DEF Frames
    <3>2. [i \in 1 .. host.count |-> delivered + i] \in Seq(0 .. MaxFrames)
      BY <1>1, <1>2, SMTT(60)
    <3>3. decoded' \in Seq(0 .. MaxFrames) /\ Len(decoded') = delivered + host.count
      BY <1>1, <2>2, <3>1, <3>2, ConcatProperties DEF Frames
    <3>4. ASSUME NEW i \in 1 .. delivered + host.count PROVE decoded'[i] = i
      BY <1>1, <2>2, <3>1, <3>2, ConcatProperties DEF Frames
    <3>5. decoded' = Frames(delivered + host.count)
      BY <1>1, <3>1, <3>3, <3>4, SeqEqual DEF Frames
    <3>6. QED
      BY <2>2, <3>3, <3>5
  <2>3. QED
    BY <2>1, <2>2 DEF HostPacket
<1>4. QED
  BY <1>1, <1>3 DEF IInv, QuietInv, CudaTyped, DeviceInv, Drained

\* The talker's stream never holds a snapshot.
LEMMA TalkerNeverDecodes ==
  ASSUME IInv, host.pc # "start"
  PROVE  \A i \in 1 .. Len(queue["talker"]) : queue["talker"][i].op # "snapshot"
<1>1. CASE path = "host"
  BY <1>1 DEF IInv, QuietInv, Drained, Streams
<1>2. CASE path = "device"
  <2>1. PICK td, tt, sd, st, cd, ct \in Int : Behind(td, tt, sd, st, cd, ct)
    BY <1>2 DEF IInv, DeviceInv
  <2>2. ASSUME NEW i \in 1 .. Len(queue["talker"])
        PROVE  queue["talker"][i].op # "snapshot"
    <3>1. TalkerOp(td + i, queue["talker"][i]) /\ td + i \in Int
      BY <2>1 DEF Behind, TalkerRun
    <3>2. (td + i) % 4 \in {0, 1, 2, 3}
      BY <3>1
    <3>3. QED
      BY <3>1, <3>2 DEF TalkerOp, Pack, Record
  <2>3. QED
    BY <2>2
<1>3. QED
  BY <1>1, <1>2 DEF IInv, HostInv, HostTyped

\* A session is dropped after its streams, or keeps its talker's in the pool.
LEMMA RetireKeeps ==
  ASSUME IInv, Retire, HostInv' PROVE QuietInv' /\ CudaTyped' /\ DeviceInv'
<1>1. /\ UNCHANGED <<path, queue, recorded, reached, codes>> /\ host'.pc = "start"
      /\ Drained("codec") /\ Drained("stager") /\ decoded' = <<>> /\ slots' = NoFrames
      /\ talker'.home # "pool" => Drained("talker")
      /\ host.pc # "start"
  BY DEF Retire, DropSession, Goto, IInv, HostInv, HostTyped, Hosts, Talker, NoTalker
<1>2. CudaTyped'
  BY <1>1, HandoffAssumption DEF HandoffAssumption, IInv, CudaTyped, NoFrames
<1>3. \A i \in 1 .. Len(queue["talker"]) : queue["talker"][i].op # "snapshot"
  BY <1>1, TalkerNeverDecodes
<1>4. QED
  BY <1>1, <1>2, <1>3 DEF IInv, QuietInv, DeviceInv, Drained

\* A returned packet renumbers the stager's stream: the wait for the release,
\* if it is still to run, is operation 0 of the next packet.
LEMMA FinishPacketKeeps ==
  ASSUME IInv, FinishPacket, HostInv' PROVE QuietInv' /\ CudaTyped' /\ DeviceInv'
<1> USE HandoffAssumption DEF HandoffAssumption, InFrame, AtPacket
<1>1. /\ UNCHANGED <<path, cuda, talker>> /\ host.pc = "finishPacket" /\ path = "device"
      /\ host'.count = host.count /\ delivered \in Nat /\ talker.frames \in Nat
      /\ host.count \in 1 .. PacketFrames /\ delivered + host.count = talker.frames
  BY DEF FinishPacket, At, Goto, IInv, HostInv, HostTyped, Hosts, Talker, SessionInv, CountInv
<1>2. CudaTyped'
  BY <1>1, SameCuda DEF IInv
<1>3. PICK td, tt, sd, st, cd, ct \in Int : Behind(td, tt, sd, st, cd, ct)
  BY <1>1 DEF IInv, DeviceInv
<1>4. CASE host'.pc = "dropPacket" /\ UNCHANGED delivered
  <2>1. TalkerLag(td, tt)' /\ StagerLag(sd, st)' /\ CodecLag(cd, ct)'
    BY <1>1, <1>3, <1>4 DEF Behind, TalkerLag, StagerLag, CodecLag
  <2>2. Behind(td, tt, sd, st, cd, ct)'
    BY <1>1, <1>3, <1>4, <2>1, SameRuns DEF Behind
  <2>3. QED
    BY <1>1, <1>2, <1>4, <2>2 DEF DeviceInv, QuietInv
<1>5. CASE host'.pc \in {"complete", "idle"} /\ delivered' = delivered + host.count /\ Drained("codec")
  <2>1. /\ tt = 4 * talker.frames /\ st = 3 * host.count + 1 /\ ct = 3 /\ cd = 3
        /\ sd \in Int /\ sd <= st /\ sd >= -1
    BY <1>1, <1>3, <1>5, SMTT(60) DEF Behind, TalkerLag, StagerLag, CodecLag, CodecRun, Drained
  <2>2. reached["copied"] >= delivered + host.count /\ decoded = Frames(delivered + host.count)
    BY <1>3, <2>1 DEF Behind, CodecRun
  <2>3. reached["copied"] = delivered + (IF sd < 0 THEN 0 ELSE sd \div 3)
    BY <1>3 DEF Behind, StagerRun, Copies
  <2>4. sd >= 3 * host.count
    BY <1>1, <2>1, <2>2, <2>3
  <2>5. PICK s \in {-1, 0} : sd = 3 * host.count + 1 + s
    BY <1>1, <2>1, <2>4
  <2>6. TalkerRun(td, tt)' /\ TalkerLag(td, tt)'
    BY <1>1, <1>3, <1>5, SameTalkerRun DEF Behind, TalkerLag, cuda
  <2>7. StagerLag(s, 0)'
    <3>1. talker'.frames - delivered' = 0 /\ delivered' # 0 /\ host'.pc \in {"complete", "idle"}
      BY <1>1, <1>5
    <3>2. QED
      BY <2>5, <3>1 DEF StagerLag
  <2>8. StagerRun(s, 0)'
    <3>1. Len(queue'["stager"]) = 0 - s
      BY <1>1, <1>3, <2>1, <2>5 DEF Behind, StagerRun, cuda
    <3>2. ASSUME NEW i \in 1 .. Len(queue'["stager"])
          PROVE  StagerOp(s + i, 0, queue["stager"][i])'
      <4>1. i = 1 /\ s = -1
        BY <2>5, <3>1
      <4>2. StagerOp(sd + 1, st, queue["stager"][1])
        BY <1>1, <1>3, <3>1, <4>1 DEF Behind, StagerRun, cuda
      <4>3. (sd + 1) % 3 = 1
        BY <1>1, <2>5, <4>1, SMTT(60)
      <4>4. queue["stager"][1].op = "wait"
        BY <4>2, <4>3 DEF StagerOp
      <4>5. QED
        BY <1>1, <4>1, <4>4 DEF StagerOp, cuda
    <3>3. reached'["copied"] = delivered' + Copies(s)
      BY <1>1, <1>5, <2>1, <2>3, <2>5 DEF Copies, cuda
    <3>4. recorded'["copied"] = delivered' + 0 \div 3
      <4>1. recorded["copied"] = delivered + st \div 3
        BY <1>3 DEF Behind, StagerRun
      <4>2. st \div 3 = host.count /\ 0 \div 3 = 0
        BY <1>1, <2>1
      <4>3. QED
        BY <1>1, <1>5, <4>1, <4>2 DEF cuda
    <3>5. QED
      BY <2>5, <3>1, <3>2, <3>3, <3>4 DEF StagerRun, Copies
  <2>9. CodecRun(0, 0)' /\ CodecLag(0, 0)'
    BY <1>1, <1>5, <2>2 DEF CodecRun, CodecLag, Drained, cuda
  <2>10. Behind(td, tt, s, 0, 0, 0)'
    BY <2>6, <2>7, <2>8, <2>9 DEF Behind
  <2>11. s \in Int /\ 0 \in Int
    BY <2>5
  <2>12. DeviceInv'
    BY <2>10, <2>11 DEF DeviceInv
  <2>13. QuietInv'
    BY <1>1, <1>5 DEF QuietInv
  <2>14. QED
    BY <1>2, <2>12, <2>13
<1>6. QED
  BY <1>4, <1>5 DEF FinishPacket, Goto, Returned, IInv, HostInv, HostTyped, Hosts

-----------------------------------------------------------------------------
(* The streams: work is enqueued.                                          *)

\* The operations of a frame.
LEMMA FrameOpsTyped ==
  ASSUME HostInv, talker.frames < MaxFrames
  PROVE  FrameOps \in Seq(Operations) /\ Len(FrameOps) = 3
<1>1. talker.frames + 1 \in 1 .. MaxFrames
  BY HandoffAssumption DEF HandoffAssumption, HostInv, HostTyped, Talker
<1>2. Pack(talker.frames + 1) \in Operations
  BY <1>1 DEF Pack, Operations
<1>3. Record("codes_ready") \in Operations /\ Record("semantic_ready") \in Operations
  BY DEF Record, Operations, Events
<1>4. QED
  BY <1>2, <1>3 DEF FrameOps

\* Operations come in fours ...
LEMMA DivFour ==
  ASSUME NEW n \in Nat, NEW k \in 0 .. 7
  PROVE  /\ (4 * n + k) \div 4 = n + (IF k >= 4 THEN 1 ELSE 0)
         /\ (4 * n + k) % 4 = IF k >= 4 THEN k - 4 ELSE k
OBVIOUS

\* ... and in threes.
LEMMA DivThree ==
  ASSUME NEW n \in Nat, NEW k \in 0 .. 5
  PROVE  /\ (3 * n + k) \div 3 = n + (IF k >= 3 THEN 1 ELSE 0)
         /\ (3 * n + k) % 3 = IF k >= 3 THEN k - 3 ELSE k
OBVIOUS

\* The talker's stream gets the first k operations of the next frame.
LEMMA TalkerGets ==
  ASSUME HostInv, CudaTyped, talker.frames < MaxFrames, NEW k \in 0 .. 3,
         EnqueuePart("talker", FrameOps, k)
  PROVE  /\ CudaTyped' /\ UNCHANGED <<reached, codes, slots, decoded>>
         /\ queue'["stager"] = queue["stager"] /\ queue'["codec"] = queue["codec"]
         /\ recorded'["copied"] = recorded["copied"]
         /\ \A td, tt \in Int :
              TalkerRun(td, tt) /\ tt = 4 * talker.frames => TalkerRun(td, tt + k)'
<1> DEFINE ops == SubSeq(FrameOps, 1, k)
           n == talker.frames
<1>1. /\ ops \in Seq(Operations) /\ Len(ops) = k
      /\ \A i \in 1 .. k : ops[i] = FrameOps[i]
  BY FrameOpsTyped, Parts
<1>2. /\ k >= 1 => ops[1] = Pack(n + 1)
      /\ k >= 2 => ops[2] = Record("codes_ready")
      /\ k >= 3 => ops[3] = Record("semantic_ready")
  BY <1>1 DEF FrameOps
<1>0. n \in Nat
  BY DEF HostInv, HostTyped, Talker
<1> HIDE DEF ops, n
<1>3. Enqueue("talker", ops) /\ "talker" \in Streams
  BY DEF EnqueuePart, ops, Streams
<1>4. /\ CudaTyped' /\ UNCHANGED <<reached, codes, slots, decoded>>
      /\ Len(queue'["talker"]) = Len(queue["talker"]) + k
      /\ \A i \in 1 .. Len(queue'["talker"]) :
           queue'["talker"][i] = IF i <= Len(queue["talker"]) THEN queue["talker"][i]
                                 ELSE ops[i - Len(queue["talker"])]
      /\ \A t \in Streams : t # "talker" => queue'[t] = queue[t]
      /\ \A e \in Events :
           /\ (\A i \in 1 .. k : ops[i] # Record(e)) => recorded'[e] = recorded[e]
           /\ \A j \in 1 .. k :
                ops[j] = Record(e) /\ (\A i \in 1 .. k : i # j => ops[i] # Record(e))
                  => recorded'[e] = recorded[e] + 1
  BY <1>1, <1>3, Enqueued
<1>5. \A e \in Events : Pack(n + 1) # Record(e)
  BY DEF Pack, Record
<1>6. /\ Record("codes_ready") # Record("semantic_ready") /\ Record("codes_ready") # Record("copied")
      /\ Record("semantic_ready") # Record("copied")
  BY DEF Record
<1>7. /\ recorded'["copied"] = recorded["copied"]
      /\ recorded'["codes_ready"] = recorded["codes_ready"] + (IF k >= 2 THEN 1 ELSE 0)
      /\ recorded'["semantic_ready"] = recorded["semantic_ready"] + (IF k >= 3 THEN 1 ELSE 0)
  <2>1. recorded["codes_ready"] \in Nat /\ recorded["semantic_ready"] \in Nat
    BY DEF CudaTyped, Events
  <2>2. \A i \in 1 .. k : i \in {1, 2, 3}
    OBVIOUS
  <2>3. \A i \in 1 .. k : ops[i] # Record("copied")
    BY <1>2, <1>5, <1>6, <2>2 DEF Events
  <2>4. k < 2 => \A i \in 1 .. k : ops[i] # Record("codes_ready")
    BY <1>2, <1>5, <2>2 DEF Events
  <2>5. k >= 2 => \A i \in 1 .. k : i # 2 => ops[i] # Record("codes_ready")
    BY <1>2, <1>5, <1>6, <2>2 DEF Events
  <2>6. k < 3 => \A i \in 1 .. k : ops[i] # Record("semantic_ready")
    BY <1>2, <1>5, <1>6, <2>2 DEF Events
  <2>7. k >= 3 => \A i \in 1 .. k : i # 3 => ops[i] # Record("semantic_ready")
    BY <1>2, <1>5, <1>6, <2>2 DEF Events
  <2>8. (k >= 2 => 2 \in 1 .. k) /\ (k >= 3 => 3 \in 1 .. k)
    OBVIOUS
  <2>9. /\ recorded'["copied"] = recorded["copied"]
        /\ k < 2 => recorded'["codes_ready"] = recorded["codes_ready"]
        /\ k < 3 => recorded'["semantic_ready"] = recorded["semantic_ready"]
    BY <1>4, <2>3, <2>4, <2>6 DEF Events
  <2>10. /\ k >= 2 => recorded'["codes_ready"] = recorded["codes_ready"] + 1
         /\ k >= 3 => recorded'["semantic_ready"] = recorded["semantic_ready"] + 1
    BY <1>2, <1>4, <2>5, <2>7, <2>8 DEF Events
  <2>11. QED
    BY <2>1, <2>9, <2>10
<1>8. ASSUME NEW td \in Int, NEW tt \in Int, TalkerRun(td, tt), tt = 4 * n
      PROVE  TalkerRun(td, tt + k)'
  <2>1. Len(queue["talker"]) \in Nat /\ Len(queue["talker"]) = tt - td
    BY <1>8 DEF CudaTyped, Streams, TalkerRun
  <2>2. Len(queue'["talker"]) = tt + k - td
    BY <1>4, <2>1
  <2>3. ASSUME NEW i \in 1 .. Len(queue'["talker"])
        PROVE  TalkerOp(td + i, queue["talker"][i])'
    <3>1. CASE i <= Len(queue["talker"])
      <4>1. TalkerOp(td + i, queue["talker"][i]) /\ queue'["talker"][i] = queue["talker"][i]
        BY <1>4, <1>8, <2>1, <3>1 DEF TalkerRun
      <4>2. QED
        BY <4>1 DEF TalkerOp, Pack, Record
    <3>2. CASE i > Len(queue["talker"])
      <4>1. PICK j \in 1 .. k : i = Len(queue["talker"]) + j
        BY <1>4, <2>1, <3>2
      <4>2. td + i = 4 * n + j /\ i - Len(queue["talker"]) = j
        BY <1>0, <1>8, <2>1, <4>1
      <4>3. queue'["talker"][i] = ops[j]
        <5>1. queue'["talker"][i] = IF i <= Len(queue["talker"]) THEN queue["talker"][i]
                                    ELSE ops[i - Len(queue["talker"])]
          BY <1>4
        <5>2. ~(i <= Len(queue["talker"]))
          BY <2>1, <3>2
        <5>3. QED
          BY <4>2, <5>1, <5>2
      <4>4. j \in {1, 2, 3} /\ (td + i) % 4 = j /\ (td + i + 3) \div 4 = n + 1
        BY <1>0, <4>2
      <4>5. /\ j = 1 => ops[j] = Pack(n + 1)
            /\ j = 2 => ops[j] = Record("codes_ready")
            /\ j = 3 => ops[j] = Record("semantic_ready")
        BY <1>2, <4>1
      <4> DEFINE x == td + i
                 op == queue'["talker"][i]
      <4>6. op = ops[j] /\ x % 4 = j /\ (x + 3) \div 4 = n + 1
        BY <4>3, <4>4
      <4> HIDE DEF x, op
      <4>7. TalkerOp(x, op)
        BY <4>4, <4>5, <4>6 DEF TalkerOp
      <4>8. QED
        BY <4>7 DEF x, op, TalkerOp, Pack, Record
    <3>3. QED
      BY <2>1, <3>1, <3>2
  <2>4. /\ (tt + k + 2) \div 4 = n + (IF k >= 2 THEN 1 ELSE 0) /\ (tt + 2) \div 4 = n
        /\ (tt + k + 1) \div 4 = n + (IF k >= 3 THEN 1 ELSE 0) /\ (tt + 1) \div 4 = n
    BY <1>0, <1>8
  <2>5. recorded'["codes_ready"] = (tt + k + 2) \div 4 /\ recorded'["semantic_ready"] = (tt + k + 1) \div 4
    BY <1>0, <1>7, <1>8, <2>4 DEF TalkerRun
  <2>6. QED
    BY <1>4, <1>8, <2>2, <2>3, <2>5 DEF TalkerRun
<1>9. QED
  BY <1>4, <1>7, <1>8 DEF Streams, n

\* All calls of a frame succeeded.
LEMMA FullFrameOps ==
  ASSUME HostInv, talker.frames < MaxFrames, Enqueue("talker", FrameOps)
  PROVE  EnqueuePart("talker", FrameOps, 3)
<1>1. SubSeq(FrameOps, 1, 3) = FrameOps
  BY FrameOpsTyped, Parts
<1>2. QED
  BY <1>1 DEF EnqueuePart

\* begin_device_frame, whichever of its calls fails.
LEMMA BeginFrameKeeps ==
  ASSUME IInv, BeginFrame, HostInv' PROVE QuietInv' /\ CudaTyped' /\ DeviceInv'
<1> USE HandoffAssumption DEF HandoffAssumption, InFrame, AtPacket
<1>1. /\ UNCHANGED <<path, delivered>> /\ host.pc = "begin" /\ path = "device" /\ HostInv /\ CudaTyped
      /\ host \in Hosts /\ talker \in Talker /\ talker.frames < MaxFrames /\ talker.frames \in Nat
  BY DEF BeginFrame, At, IInv, HostInv, HostTyped, SessionInv, TalkerInv, Talker
<1>2. talker'.frames = talker.frames /\ host'.count = host.count
  BY <1>1, ZenonT(60) DEF BeginFrame, PoisonedTalker, Goto, Hosts, Talker
<1>3. PICK k \in 0 .. 3 : /\ EnqueuePart("talker", FrameOps, k)
                          /\ host'.pc = "failed" \/ (host'.pc = "stage" /\ k = 3)
  <2>1. Len(FrameOps) = 3
    BY <1>1, FrameOpsTyped
  <2>2. QED
    BY <1>1, <2>1, FullFrameOps DEF BeginFrame, Goto, Hosts
<1>4. /\ CudaTyped' /\ UNCHANGED <<reached, codes, slots, decoded>>
      /\ queue'["stager"] = queue["stager"] /\ queue'["codec"] = queue["codec"]
      /\ recorded'["copied"] = recorded["copied"]
      /\ \A td, tt \in Int :
           TalkerRun(td, tt) /\ tt = 4 * talker.frames => TalkerRun(td, tt + k)'
  BY <1>1, <1>3, TalkerGets
<1>5. PICK td, tt, sd, st, cd, ct \in Int : Behind(td, tt, sd, st, cd, ct)
  BY <1>1 DEF IInv, DeviceInv
<1>6. tt = 4 * talker.frames
  BY <1>1, <1>5 DEF Behind, TalkerLag
<1>7. TalkerRun(td, tt + k)'
  BY <1>4, <1>5, <1>6 DEF Behind
<1>8. StagerRun(sd, st)' /\ CodecRun(cd, ct)'
  BY <1>1, <1>2, <1>4, <1>5, SameStagerRun, SameCodecRun DEF Behind
<1>9. TalkerLag(td, tt + k)'
  BY <1>1, <1>2, <1>3, <1>5, <1>6 DEF Behind, TalkerLag
<1>10. StagerLag(sd, st)' /\ CodecLag(cd, ct)'
  BY <1>1, <1>2, <1>3, <1>5 DEF Behind, StagerLag, CodecLag
<1>11. tt + k \in Int /\ Behind(td, tt + k, sd, st, cd, ct)'
  BY <1>7, <1>8, <1>9, <1>10 DEF Behind
<1>12. DeviceInv'
  BY <1>11 DEF DeviceInv
<1>13. QuietInv'
  BY <1>1, <1>3 DEF QuietInv
<1>14. QED
  BY <1>4, <1>12, <1>13

StageOps == StageWait \o <<Copy(stager.staged + 1), Record("copied")>>

\* The operations that stage a frame: wait, copy, record.
LEMMA StageOpsTyped ==
  ASSUME HostInv, CudaTyped, host.pc = "stage"
  PROVE  /\ StageOps \in Seq(Operations) /\ Len(StageOps) = 3
         /\ StageOps[1] = Wait("codes_ready") /\ StageOps[2] = Copy(stager.staged + 1)
         /\ StageOps[3] = Record("copied")
         /\ stager.staged + 1 \in 1 .. PacketFrames /\ talker.frames + 1 \in 1 .. MaxFrames
<1> USE HandoffAssumption DEF HandoffAssumption, InFrame
<1>1. stager.staged = host.count /\ host.count < host.want /\ talker.frames < MaxFrames
  BY DEF HostInv, SessionInv, CountInv, TalkerInv
<1>2. stager.staged + 1 \in 1 .. PacketFrames /\ talker.frames + 1 \in 1 .. MaxFrames
  BY <1>1 DEF HostInv, HostTyped, Hosts, Talker
<1>3. Copy(stager.staged + 1) \in Operations
  BY <1>2 DEF Copy, Operations
<1>4. Wait("codes_ready") \in Operations /\ Record("copied") \in Operations
  BY DEF CudaTyped, Wait, Record, Operations, Events
<1> DEFINE rest == <<Copy(stager.staged + 1), Record("copied")>>
<1>5. /\ StageWait \in Seq(Operations) /\ Len(StageWait) = 1 /\ StageWait[1] = Wait("codes_ready")
      /\ rest \in Seq(Operations) /\ Len(rest) = 2
      /\ rest[1] = Copy(stager.staged + 1) /\ rest[2] = Record("copied")
  BY <1>3, <1>4 DEF StageWait
<1>6. StageOps = StageWait \o rest
  BY DEF StageOps
<1> HIDE DEF rest
<1>7. /\ StageOps \in Seq(Operations) /\ Len(StageOps) = Len(StageWait) + Len(rest)
      /\ \A i \in 1 .. Len(StageWait) + Len(rest) :
           StageOps[i] = IF i <= Len(StageWait) THEN StageWait[i] ELSE rest[i - Len(StageWait)]
  <2>1. StageWait \in Seq(Operations) /\ rest \in Seq(Operations)
    BY <1>5
  <2>2. QED
    BY <1>6, <2>1, ConcatProperties
<1>8. /\ Len(StageOps) = 3
      /\ StageOps[1] = StageWait[1] /\ StageOps[2] = rest[1] /\ StageOps[3] = rest[2]
  <2>1. Len(StageWait) = 1 /\ Len(rest) = 2
    BY <1>5
  <2>2. QED
    BY <1>7, <2>1
<1>9. QED
  BY <1>2, <1>5, <1>7, <1>8

\* The stager's stream gets the first k of them.
LEMMA StagerGets ==
  ASSUME HostInv, CudaTyped, host.pc = "stage", NEW k \in 0 .. 3, UNCHANGED delivered,
         recorded["codes_ready"] = talker.frames + 1,
         EnqueuePart("stager", StageOps, k)
  PROVE  /\ CudaTyped' /\ UNCHANGED <<reached, codes, slots, decoded>>
         /\ queue'["talker"] = queue["talker"] /\ queue'["codec"] = queue["codec"]
         /\ recorded'["codes_ready"] = recorded["codes_ready"]
         /\ recorded'["semantic_ready"] = recorded["semantic_ready"]
         /\ \A sd, st \in Int :
              StagerRun(sd, st) /\ sd <= st /\ st = 3 * host.count => StagerRun(sd, st + k)'
<1> USE HandoffAssumption DEF HandoffAssumption, InFrame
<1> DEFINE ops == SubSeq(StageOps, 1, k)
           n == host.count
<1>1. /\ ops \in Seq(Operations) /\ Len(ops) = k
      /\ \A i \in 1 .. k : ops[i] = StageOps[i]
  BY StageOpsTyped, Parts
<1>2. /\ n \in Nat /\ delivered \in Nat /\ n < PacketFrames
      /\ delivered + n = talker.frames /\ stager.staged = n
  BY DEF HostInv, HostTyped, Hosts, CountInv, SessionInv
<1>3. /\ k >= 1 => ops[1] = [op |-> "wait", event |-> "codes_ready", upto |-> delivered + n + 1]
      /\ k >= 2 => ops[2] = [op |-> "copy", slot |-> n + 1, frame |-> delivered + n + 1]
      /\ k >= 3 => ops[3] = Record("copied")
  BY <1>1, <1>2, StageOpsTyped DEF Wait, Copy
<1> HIDE DEF ops, n
<1>4. Enqueue("stager", ops) /\ "stager" \in Streams
  BY DEF EnqueuePart, ops, Streams
<1>5. /\ CudaTyped' /\ UNCHANGED <<reached, codes, slots, decoded>>
      /\ Len(queue'["stager"]) = Len(queue["stager"]) + k
      /\ \A i \in 1 .. Len(queue'["stager"]) :
           queue'["stager"][i] = IF i <= Len(queue["stager"]) THEN queue["stager"][i]
                                 ELSE ops[i - Len(queue["stager"])]
      /\ \A t \in Streams : t # "stager" => queue'[t] = queue[t]
      /\ \A e \in Events :
           /\ (\A i \in 1 .. k : ops[i] # Record(e)) => recorded'[e] = recorded[e]
           /\ \A j \in 1 .. k :
                ops[j] = Record(e) /\ (\A i \in 1 .. k : i # j => ops[i] # Record(e))
                  => recorded'[e] = recorded[e] + 1
  BY <1>1, <1>4, Enqueued
<1>6. /\ recorded'["codes_ready"] = recorded["codes_ready"]
      /\ recorded'["semantic_ready"] = recorded["semantic_ready"]
      /\ recorded'["copied"] = recorded["copied"] + (IF k >= 3 THEN 1 ELSE 0)
  <2>1. \A i \in 1 .. k : i \in {1, 2, 3}
    OBVIOUS
  <2>2. \A e \in Events : \A i \in 1 .. k : i # 3 => ops[i] # Record(e)
    BY <1>3, <2>1 DEF Record
  <2>3. Record("copied") # Record("codes_ready") /\ Record("copied") # Record("semantic_ready")
    BY DEF Record
  <2>4. /\ \A i \in 1 .. k : ops[i] # Record("codes_ready")
        /\ \A i \in 1 .. k : ops[i] # Record("semantic_ready")
        /\ k < 3 => \A i \in 1 .. k : ops[i] # Record("copied")
    BY <1>3, <2>1, <2>2, <2>3 DEF Events
  <2>5. k >= 3 => recorded'["copied"] = recorded["copied"] + 1
    BY <1>3, <1>5, <2>2 DEF Events
  <2>6. recorded["copied"] \in Nat
    BY DEF CudaTyped, Events
  <2>7. QED
    BY <1>5, <2>4, <2>5, <2>6 DEF Events
<1>7. ASSUME NEW sd \in Int, NEW st \in Int, StagerRun(sd, st), sd <= st, st = 3 * n
      PROVE  StagerRun(sd, st + k)'
  <2>1. Len(queue["stager"]) \in Nat /\ Len(queue["stager"]) = st - sd
    BY <1>7 DEF CudaTyped, Streams, StagerRun
  <2>2. Len(queue'["stager"]) = st + k - sd
    BY <1>5, <2>1
  <2>3. ASSUME NEW i \in 1 .. Len(queue'["stager"])
        PROVE  StagerOp(sd + i, st + k, queue["stager"][i])'
    <3>1. CASE i <= Len(queue["stager"])
      <4>1. StagerOp(sd + i, st, queue["stager"][i]) /\ queue'["stager"][i] = queue["stager"][i]
        BY <1>5, <1>7, <2>1, <3>1 DEF StagerRun
      <4>2. (sd + i) % 3 = 1 => sd + i < st
        BY <1>2, <1>7, <2>1, <3>1
      <4>3. QED
        BY <4>1, <4>2 DEF StagerOp, Record
    <3>2. CASE i > Len(queue["stager"])
      <4>1. PICK j \in 1 .. k : i = Len(queue["stager"]) + j
        BY <1>5, <2>1, <3>2
      <4>2. sd + i = 3 * n + j /\ i - Len(queue["stager"]) = j
        BY <1>2, <1>7, <2>1, <4>1
      <4>3. queue'["stager"][i] = ops[j]
        <5>1. queue'["stager"][i] = IF i <= Len(queue["stager"]) THEN queue["stager"][i]
                                    ELSE ops[i - Len(queue["stager"])]
          BY <1>5
        <5>2. ~(i <= Len(queue["stager"]))
          BY <2>1, <3>2
        <5>3. QED
          BY <4>2, <5>1, <5>2
      <4>4. /\ j \in {1, 2, 3} /\ (sd + i) % 3 = (IF j = 3 THEN 0 ELSE j)
            /\ (sd + i + 2) \div 3 = n + 1 /\ sd + i # 0
        BY <1>2, <4>2
      <4>5. delivered' + (n + 1) = delivered + n + 1
        BY <1>2
      <4>6. CASE j = 1
        <5>1. (sd + i) % 3 = 1 /\ (sd + i + 2) \div 3 = n + 1
          BY <4>4, <4>6
        <5>2. queue'["stager"][i] = ops[1]
          BY <4>3, <4>6
        <5>3. (sd + i) % 3 # 2 /\ (sd + i) % 3 # 0
          BY <5>1
        <5>4. QED
          BY <1>3, <4>5, <5>1, <5>2, <5>3 DEF StagerOp
      <4>7. CASE j = 2
        <5>1. (sd + i) % 3 = 2 /\ (sd + i + 2) \div 3 = n + 1
          BY <4>4, <4>7
        <5>2. queue'["stager"][i] = [op |-> "copy", slot |-> n + 1, frame |-> delivered' + (n + 1)]
          BY <1>3, <4>1, <4>3, <4>5, <4>7
        <5>3. (sd + i) % 3 # 1 /\ (sd + i) % 3 # 0
          BY <5>1
        <5>4. QED
          BY <5>1, <5>2, <5>3, ZenonT(30) DEF StagerOp
      <4>8. CASE j = 3
        <5>1. (sd + i) % 3 = 0 /\ sd + i # 0
          BY <4>4, <4>8
        <5>2. queue'["stager"][i] = Record("copied")
          BY <1>3, <4>1, <4>3, <4>8
        <5>3. QED
          BY <5>1, <5>2 DEF StagerOp, Record
      <4>9. QED
        BY <4>4, <4>6, <4>7, <4>8
    <3>3. QED
      BY <2>1, <3>1, <3>2
  <2>4. (st + k) \div 3 = n + (IF k >= 3 THEN 1 ELSE 0) /\ st \div 3 = n
    BY <1>2, <1>7
  <2>5. recorded'["copied"] = delivered' + (st + k) \div 3
    BY <1>2, <1>6, <1>7, <2>4 DEF StagerRun
  <2>6. ASSUME NEW i \in 1 .. PacketFrames
        PROVE  /\ 3 * i - 2 <= sd /\ 3 * i - 1 <= st + k => reached'["codes_ready"] >= delivered' + i
               /\ 3 * i - 1 <= sd => slots'[i] = delivered' + i
    <3>1. 3 * i - 2 <= sd => 3 * i - 1 <= st
      BY <1>2, <1>7
    <3>2. QED
      BY <1>5, <1>7, <3>1 DEF StagerRun
  <2>7. (reached["copied"] = delivered + Copies(sd))'
    BY <1>2, <1>5, <1>7 DEF StagerRun, Copies
  <2>8. (Len(queue["stager"]) = (st + k) - sd)'
    BY <2>2
  <2>9. \A i \in 1 .. Len(queue'["stager"]) : StagerOp(sd + i, st + k, queue["stager"][i])'
    BY <2>3
  <2>10. \A i \in 1 .. PacketFrames :
            /\ 3 * i - 2 <= sd /\ 3 * i - 1 <= st + k => reached'["codes_ready"] >= delivered' + i
            /\ 3 * i - 1 <= sd => slots'[i] = delivered' + i
    BY <2>6
  <2>11. QED
    BY <2>5, <2>7, <2>8, <2>9, <2>10, Zenon DEF StagerRun
<1>8. QED
  BY <1>5, <1>6, <1>7 DEF Streams, n

\* stage_frame, whichever of its calls fails.
LEMMA StageFrameKeeps ==
  ASSUME IInv, StageFrame, HostInv' PROVE QuietInv' /\ CudaTyped' /\ DeviceInv'
<1> USE HandoffAssumption DEF HandoffAssumption, InFrame, AtPacket
<1>1. /\ UNCHANGED <<path, delivered, talker>> /\ host.pc = "stage" /\ path = "device"
      /\ HostInv /\ CudaTyped /\ host \in Hosts /\ talker.frames \in Nat /\ delivered \in Nat
      /\ delivered + host.count = talker.frames /\ host.count \in Nat /\ host.count < PacketFrames
  BY SMTT(60) DEF StageFrame, At, IInv, HostInv, HostTyped, SessionInv, CountInv, Talker, Hosts
<1>2. host'.count = host.count
  BY <1>1 DEF StageFrame, Goto, Hosts
<1>3. PICK k \in 0 .. 3 : /\ EnqueuePart("stager", StageOps, k)
                          /\ \/ host'.pc = "abandon" /\ k <= 2
                             \/ host'.pc = "finish" /\ k = 3
  <2>1. StageOps \in Seq(Operations) /\ Len(StageOps) = 3
    BY <1>1, StageOpsTyped
  <2>2. SubSeq(StageOps, 1, 3) = StageOps
    BY <2>1, Parts
  <2>3. CASE Enqueue("stager", StageOps) /\ Goto("finish")
    <3>1. EnqueuePart("stager", StageOps, 3)
      BY <2>2, <2>3 DEF EnqueuePart
    <3>2. host'.pc = "finish"
      BY <1>1, <2>3 DEF Goto, Hosts
    <3>3. QED
      BY <3>1, <3>2
  <2>4. CASE Goto("abandon") /\ \E k \in 0 .. Len(StageOps) - 1 : EnqueuePart("stager", StageOps, k)
    BY <1>1, <2>1, <2>4 DEF Goto, Hosts
  <2>5. QED
    BY <2>3, <2>4 DEF StageFrame, StageOps
<1>4. PICK td, tt, sd, st, cd, ct \in Int : Behind(td, tt, sd, st, cd, ct)
  BY <1>1 DEF IInv, DeviceInv
<1>5. tt = 4 * talker.frames + 3 /\ st = 3 * host.count /\ sd <= st
  <2>1. talker.frames - delivered = host.count
    BY <1>1
  <2>2. QED
    BY <1>1, <1>4, <2>1 DEF Behind, TalkerLag, StagerLag
<1>6. recorded["codes_ready"] = talker.frames + 1
  <2>1. recorded["codes_ready"] = (tt + 2) \div 4
    BY <1>4 DEF Behind, TalkerRun
  <2>2. tt + 2 = 4 * talker.frames + 5
    BY <1>1, <1>5
  <2>3. QED
    BY <1>1, <2>1, <2>2, DivFour
<1>7. /\ CudaTyped' /\ UNCHANGED <<reached, codes, slots, decoded>>
      /\ queue'["talker"] = queue["talker"] /\ queue'["codec"] = queue["codec"]
      /\ recorded'["codes_ready"] = recorded["codes_ready"]
      /\ recorded'["semantic_ready"] = recorded["semantic_ready"]
      /\ StagerRun(sd, st + k)'
  BY <1>1, <1>3, <1>4, <1>5, <1>6, StagerGets DEF Behind
<1>8. TalkerRun(td, tt)' /\ CodecRun(cd, ct)'
  BY <1>1, <1>2, <1>4, <1>7, SameTalkerRun, SameCodecRun DEF Behind
<1>9. TalkerLag(td, tt)' /\ CodecLag(cd, ct)'
  BY <1>1, <1>2, <1>3, <1>4 DEF Behind, TalkerLag, CodecLag
<1>10. StagerLag(sd, st + k)'
  <2>1. talker'.frames - delivered' = host.count /\ delivered' = delivered
    BY <1>1
  <2>2. /\ sd >= -1 /\ (delivered = 0 => sd >= 0) /\ sd <= st + k
        /\ st + k \in 3 * host.count .. 3 * host.count + 3 /\ st + k <= 3 * PacketFrames + 2
    <3>1. sd >= -1 /\ (delivered = 0 => sd >= 0)
      BY <1>4 DEF Behind, StagerLag
    <3>2. host.count + 1 <= PacketFrames /\ PacketFrames \in Nat
      BY <1>1
    <3>3. QED
      BY <1>1, <1>5, <3>1, <3>2
  <2>3. QED
    BY <1>1, <1>3, <1>5, <2>1, <2>2 DEF StagerLag
<1>11. st + k \in Int /\ Behind(td, tt, sd, st + k, cd, ct)'
  BY <1>7, <1>8, <1>9, <1>10 DEF Behind
<1>12. DeviceInv'
  BY <1>11 DEF DeviceInv
<1>13. QuietInv'
  BY <1>1, <1>3 DEF QuietInv
<1>14. QED
  BY <1>7, <1>12, <1>13

\* finish_frame: the next frame is behind the copy of this one.
LEMMA FinishFrameKeeps ==
  ASSUME IInv, FinishFrame, HostInv' PROVE QuietInv' /\ CudaTyped' /\ DeviceInv'
<1> USE HandoffAssumption DEF HandoffAssumption, InFrame, AtPacket
<1>1. /\ UNCHANGED <<path, delivered>> /\ host.pc = "finish" /\ path = "device"
      /\ HostInv /\ CudaTyped /\ host \in Hosts /\ talker \in Talker
      /\ talker.frames \in Nat /\ delivered \in Nat /\ delivered <= talker.frames
  BY DEF FinishFrame, At, IInv, HostInv, HostTyped, SessionInv, CountInv, Talker
<1>2. host'.count = host.count /\ talker'.frames = talker.frames
  BY <1>1 DEF FinishFrame, Goto, Hosts, Talker
<1>3. ConsumerWait \in Seq(Operations) /\ Len(ConsumerWait) = 1
  BY <1>1 DEF ConsumerWait, Wait, Operations, Events, CudaTyped
<1>4. PICK k \in 0 .. 1 : /\ EnqueuePart("talker", ConsumerWait, k)
                          /\ \/ host'.pc = "abandon"
                             \/ host'.pc = "semantic" /\ k = 1
  <2>1. SubSeq(ConsumerWait, 1, 1) = ConsumerWait
    BY <1>3, Parts
  <2>2. CASE Enqueue("talker", ConsumerWait) /\ Goto("semantic")
    <3>1. EnqueuePart("talker", ConsumerWait, 1)
      BY <2>1, <2>2 DEF EnqueuePart
    <3>2. host'.pc = "semantic"
      BY <1>1, <2>2 DEF Goto, Hosts
    <3>3. QED
      BY <3>1, <3>2
  <2>3. CASE Goto("abandon") /\ \E k \in 0 .. Len(ConsumerWait) : EnqueuePart("talker", ConsumerWait, k)
    BY <1>1, <1>3, <2>3 DEF Goto, Hosts
  <2>4. QED
    BY <2>2, <2>3 DEF FinishFrame
<1>5. PICK td, tt, sd, st, cd, ct \in Int : Behind(td, tt, sd, st, cd, ct)
  BY <1>1 DEF IInv, DeviceInv
<1>6. tt = 4 * talker.frames + 3 /\ st = 3 * (talker.frames - delivered) + 3
  BY <1>1, <1>5 DEF Behind, TalkerLag, StagerLag
<1> DEFINE n == talker.frames
           ops == SubSeq(ConsumerWait, 1, k)
<1>7. recorded["copied"] = n + 1
  <2>1. recorded["copied"] = delivered + st \div 3
    BY <1>5 DEF Behind, StagerRun
  <2>2. st = 3 * (n - delivered + 1) /\ n - delivered + 1 \in Nat
    BY <1>1, <1>6
  <2>3. st \div 3 = n - delivered + 1
    BY <2>2
  <2>4. QED
    BY <1>1, <2>1, <2>3
<1>8. /\ ops \in Seq(Operations) /\ Len(ops) = k
      /\ k = 1 => ops[1] = [op |-> "wait", event |-> "copied", upto |-> n + 1]
  BY <1>3, <1>7, Parts DEF ConsumerWait, Wait
<1>9. \A e \in Events : \A i \in 1 .. k : ops[i] # Record(e)
  <2>1. \A i \in 1 .. k : i = 1 /\ k = 1
    OBVIOUS
  <2>2. QED
    BY <1>8, <2>1 DEF Record
<1> HIDE DEF ops, n
<1>10. /\ CudaTyped' /\ UNCHANGED <<reached, codes, slots, decoded>>
       /\ Len(queue'["talker"]) = Len(queue["talker"]) + k
       /\ \A i \in 1 .. Len(queue'["talker"]) :
            queue'["talker"][i] = IF i <= Len(queue["talker"]) THEN queue["talker"][i]
                                  ELSE ops[i - Len(queue["talker"])]
       /\ queue'["stager"] = queue["stager"] /\ queue'["codec"] = queue["codec"]
       /\ \A e \in Events : recorded'[e] = recorded[e]
  <2>1. Enqueue("talker", ops) /\ "talker" \in Streams
    BY <1>4 DEF EnqueuePart, ops, Streams
  <2>2. QED
    BY <1>1, <1>8, <1>9, <2>1, Enqueued DEF Streams
<1>11. TalkerRun(td, tt + k)'
  <2>1. /\ TalkerRun(td, tt) /\ Len(queue["talker"]) \in Nat /\ Len(queue["talker"]) = tt - td
        /\ n \in Nat /\ tt = 4 * n + 3
    BY <1>1, <1>5, <1>6, SMTT(60) DEF Behind, TalkerRun, CudaTyped, Streams, n
  <2>2. Len(queue'["talker"]) = tt + k - td
    BY <1>10, <2>1
  <2>3. ASSUME NEW i \in 1 .. Len(queue'["talker"])
        PROVE  TalkerOp(td + i, queue["talker"][i])'
    <3>1. CASE i <= Len(queue["talker"])
      <4>1. i \in 1 .. Len(queue["talker"])
        BY <1>10, <2>1, <3>1
      <4>2. TalkerOp(td + i, queue["talker"][i]) /\ queue'["talker"][i] = queue["talker"][i]
        BY <1>10, <2>1, <3>1, <4>1 DEF TalkerRun
      <4>3. QED
        BY <4>2 DEF TalkerOp, Pack, Record
    <3>2. CASE i > Len(queue["talker"])
      <4>1. k = 1 /\ i - Len(queue["talker"]) = 1 /\ td + i = 4 * n + 4
        BY <1>10, <2>1, <3>2
      <4>2. queue'["talker"][i] = [op |-> "wait", event |-> "copied", upto |-> n + 1]
        BY <1>8, <1>10, <3>2, <4>1
      <4>3. (td + i) % 4 = 0 /\ (td + i + 3) \div 4 = n + 1
        BY <2>1, <4>1
      <4>4. QED
        BY <4>2, <4>3 DEF TalkerOp
    <3>3. QED
      BY <2>1, <3>1, <3>2
  <2>4. /\ (tt + k + 2) \div 4 = (tt + 2) \div 4
        /\ (tt + k + 1) \div 4 = (tt + 1) \div 4
    BY <2>1
  <2>5. /\ codes = (td + 3) \div 4 /\ reached["codes_ready"] = (td + 2) \div 4
        /\ reached["semantic_ready"] = (td + 1) \div 4 /\ reached["copied"] >= td \div 4
        /\ recorded["codes_ready"] = (tt + 2) \div 4 /\ recorded["semantic_ready"] = (tt + 1) \div 4
    BY <2>1 DEF TalkerRun
  <2>6. /\ recorded'["codes_ready"] = recorded["codes_ready"]
        /\ recorded'["semantic_ready"] = recorded["semantic_ready"]
    BY <1>10 DEF Events
  <2>7. /\ recorded'["codes_ready"] = (tt + k + 2) \div 4
        /\ recorded'["semantic_ready"] = (tt + k + 1) \div 4
    BY <2>4, <2>5, <2>6
  <2>8. /\ codes' = (td + 3) \div 4 /\ reached'["codes_ready"] = (td + 2) \div 4
        /\ reached'["semantic_ready"] = (td + 1) \div 4 /\ reached'["copied"] >= td \div 4
    BY <1>10, <2>5
  <2>9. \A i \in 1 .. Len(queue'["talker"]) : TalkerOp(td + i, queue'["talker"][i])
    BY <2>3, Zenon
  <2>10. QED
    BY <2>2, <2>7, <2>8, <2>9 DEF TalkerRun
<1>12. StagerRun(sd, st)' /\ CodecRun(cd, ct)'
  BY <1>1, <1>2, <1>5, <1>10, SameStagerRun, SameCodecRun DEF Behind, Events
<1>13. TalkerLag(td, tt + k)'
  BY <1>1, <1>2, <1>4, <1>5, <1>6 DEF Behind, TalkerLag
<1>14. StagerLag(sd, st)' /\ CodecLag(cd, ct)'
  BY <1>1, <1>2, <1>4, <1>5 DEF Behind, StagerLag, CodecLag
<1>15. tt + k \in Int /\ Behind(td, tt + k, sd, st, cd, ct)'
  BY <1>11, <1>12, <1>13, <1>14 DEF Behind
<1>16. DeviceInv'
  BY <1>15 DEF DeviceInv
<1>17. QuietInv'
  BY <1>1, <1>4 DEF QuietInv
<1>18. QED
  BY <1>10, <1>16, <1>17

PacketOps == <<Wait("copied"), Snapshot(host.count), Record("consumed")>>

\* begin_device_packet: the snapshot is behind the packet's last copy.
LEMMA BeginPacketKeeps ==
  ASSUME IInv, BeginPacket, HostInv' PROVE QuietInv' /\ CudaTyped' /\ DeviceInv'
<1> USE HandoffAssumption DEF HandoffAssumption, InFrame, AtPacket
<1>1. /\ UNCHANGED <<path, delivered, talker>> /\ host.pc = "packet" /\ path = "device"
      /\ HostInv /\ CudaTyped /\ host \in Hosts
      /\ talker.frames \in Nat /\ delivered \in Nat /\ delivered + host.count = talker.frames
      /\ host.count \in 1 .. PacketFrames
  BY DEF BeginPacket, At, IInv, HostInv, HostTyped, SessionInv, CountInv, Talker, Hosts
<1>2. host'.count = host.count
  BY <1>1 DEF BeginPacket, Goto, Hosts
<1>3. PacketOps \in Seq(Operations) /\ Len(PacketOps) = 3
  BY <1>1 DEF PacketOps, Wait, Snapshot, Record, Operations, Events, CudaTyped
<1>4. CASE host'.pc = "failed" /\ UNCHANGED cuda
  <2>1. ASSUME NEW td \in Int, NEW tt \in Int, NEW sd \in Int, NEW st \in Int, NEW cd \in Int, NEW ct \in Int,
               Behind(td, tt, sd, st, cd, ct)
        PROVE  TalkerLag(td, tt)' /\ StagerLag(sd, st)' /\ CodecLag(cd, ct)'
    BY <1>1, <1>2, <1>4, <2>1 DEF Behind, TalkerLag, StagerLag, CodecLag
  <2>2. LagsFollow
    BY <1>1, <1>2, <1>4, <2>1 DEF LagsFollow
  <2>3. QED
    BY <1>1, <1>2, <1>4, <2>2, ThreadKeeps
<1>5. ASSUME NEW k \in 0 .. 3, EnqueuePart("codec", PacketOps, k),
             host'.pc = "failed" \/ (host'.pc = "release" /\ k = 3)
      PROVE  QuietInv' /\ CudaTyped' /\ DeviceInv'
  <2>1. PICK td, tt, sd, st, cd, ct \in Int : Behind(td, tt, sd, st, cd, ct)
    BY <1>1 DEF IInv, DeviceInv
  <2>2. /\ tt = 4 * talker.frames /\ st = 3 * host.count /\ ct = 0 /\ cd = 0
        /\ queue["codec"] = <<>>
    <3>1. talker.frames - delivered = host.count
      BY <1>1
    <3>2. tt = 4 * talker.frames /\ st = 3 * host.count /\ ct = 0 /\ cd = 0
      BY <1>1, <2>1, <3>1 DEF Behind, TalkerLag, StagerLag, CodecLag
    <3>3. Len(queue["codec"]) = 0
      BY <2>1, <3>2 DEF Behind, CodecRun
    <3>4. QED
      BY <1>1, <3>2, <3>3, EmptySeq DEF CudaTyped, Streams
  <2>3. recorded["copied"] = delivered + host.count
    BY <1>1, <2>1, <2>2 DEF Behind, StagerRun
  <2> DEFINE ops == SubSeq(PacketOps, 1, k)
  <2>4. /\ ops \in Seq(Operations) /\ Len(ops) = k
        /\ \A i \in 1 .. k : ops[i] = PacketOps[i]
    BY <1>3, Parts
  <2>5. /\ k >= 1 => ops[1] = [op |-> "wait", event |-> "copied", upto |-> delivered + host.count]
        /\ k >= 2 => ops[2] = Snapshot(host.count)
        /\ k >= 3 => ops[3] = Record("consumed")
    BY <2>3, <2>4 DEF PacketOps, Wait
  <2>6. \A i \in 1 .. k : i \in {1, 2, 3}
    OBVIOUS
  <2>7. \A e \in Events : e # "consumed" => \A i \in 1 .. k : ops[i] # Record(e)
    BY <2>5, <2>6 DEF Record, Snapshot
  <2> HIDE DEF ops
  <2>8. /\ CudaTyped' /\ UNCHANGED <<reached, codes, slots, decoded>>
        /\ Len(queue'["codec"]) = k /\ \A i \in 1 .. k : queue'["codec"][i] = ops[i]
        /\ queue'["stager"] = queue["stager"] /\ queue'["talker"] = queue["talker"]
        /\ \A e \in Events : e # "consumed" => recorded'[e] = recorded[e]
    <3>1. Enqueue("codec", ops) /\ "codec" \in Streams
      BY <1>5 DEF EnqueuePart, ops, Streams
    <3>2. /\ CudaTyped' /\ UNCHANGED <<reached, codes, slots, decoded>>
          /\ Len(queue'["codec"]) = 0 + k
          /\ \A i \in 1 .. Len(queue'["codec"]) :
               queue'["codec"][i] = IF i <= 0 THEN queue["codec"][i] ELSE ops[i - 0]
          /\ \A t \in Streams : t # "codec" => queue'[t] = queue[t]
          /\ \A e \in Events : e # "consumed" => recorded'[e] = recorded[e]
      BY <1>1, <2>2, <2>4, <2>7, <3>1, Enqueued, EmptySeq, ZenonT(60)
    <3>3. QED
      BY <3>2 DEF Streams
  <2>9. CodecRun(0, k)'
    <3>1. decoded' = Frames(delivered')
      BY <1>1, <2>1, <2>2, <2>8 DEF Behind, CodecRun
    <3>2. ASSUME NEW i \in 1 .. k PROVE CodecOp(0 + i, queue["codec"][i])'
      BY <1>1, <1>2, <2>5, <2>6, <2>8 DEF CodecOp, Snapshot, Record
    <3>3. QED
      BY <2>8, <3>1, <3>2 DEF CodecRun
  <2>10. TalkerRun(td, tt)' /\ StagerRun(sd, st)'
    BY <1>1, <2>1, <2>8, SameTalkerRun, SameStagerRun DEF Behind, Events
  <2>11. TalkerLag(td, tt)' /\ StagerLag(sd, st)'
    BY <1>1, <1>5, <2>1, <2>2 DEF Behind, TalkerLag, StagerLag
  <2>12. CodecLag(0, k)'
    BY <1>1, <1>2, <1>5 DEF CodecLag
  <2>13. 0 \in Int /\ k \in Int /\ Behind(td, tt, sd, st, 0, k)'
    BY <2>9, <2>10, <2>11, <2>12 DEF Behind
  <2>14. DeviceInv'
    BY <2>13 DEF DeviceInv
  <2>15. QuietInv'
    BY <1>1, <1>5 DEF QuietInv
  <2>16. QED
    BY <2>8, <2>14, <2>15
<1>6. CASE Enqueue("codec", PacketOps) /\ Goto("release")
  <2>1. EnqueuePart("codec", PacketOps, 3)
    <3>1. SubSeq(PacketOps, 1, 3) = PacketOps
      BY <1>3, Parts
    <3>2. QED
      BY <1>6, <3>1 DEF EnqueuePart
  <2>2. host'.pc = "release"
    BY <1>1, <1>6 DEF Goto, Hosts
  <2>3. QED
    BY <1>5, <2>1, <2>2
<1>7. CASE Goto("failed") /\ UNCHANGED cuda
  BY <1>1, <1>4, <1>7 DEF Goto, Hosts
<1>8. CASE Goto("failed") /\ \E k \in 0 .. Len(PacketOps) : EnqueuePart("codec", PacketOps, k)
  BY <1>1, <1>3, <1>5, <1>8 DEF Goto, Hosts
<1>9. QED
  BY <1>6, <1>7, <1>8 DEF BeginPacket, PacketOps

\* release_after_consumer: the next packet is behind the snapshot.
LEMMA ReleaseKeeps ==
  ASSUME IInv, Release, HostInv' PROVE QuietInv' /\ CudaTyped' /\ DeviceInv'
<1> USE HandoffAssumption DEF HandoffAssumption, InFrame, AtPacket
<1>1. /\ UNCHANGED <<path, delivered, talker>> /\ host.pc = "release" /\ path = "device"
      /\ HostInv /\ CudaTyped /\ host \in Hosts
      /\ talker.frames \in Nat /\ delivered \in Nat /\ delivered + host.count = talker.frames
      /\ host.count \in 1 .. PacketFrames
  BY DEF Release, At, IInv, HostInv, HostTyped, SessionInv, CountInv, Talker, Hosts
<1>2. host'.count = host.count
  BY <1>1 DEF Release, Goto, Hosts
<1>3. CASE host'.pc = "dropPacket" /\ UNCHANGED cuda
  <2>1. ASSUME NEW td \in Int, NEW tt \in Int, NEW sd \in Int, NEW st \in Int, NEW cd \in Int, NEW ct \in Int,
               Behind(td, tt, sd, st, cd, ct)
        PROVE  TalkerLag(td, tt)' /\ StagerLag(sd, st)' /\ CodecLag(cd, ct)'
    BY <1>1, <1>2, <1>3, <2>1 DEF Behind, TalkerLag, StagerLag, CodecLag
  <2>2. LagsFollow
    BY <1>1, <1>2, <1>3, <2>1 DEF LagsFollow
  <2>3. QED
    BY <1>1, <1>2, <1>3, <2>2, ThreadKeeps
<1>4. CASE Enqueue("stager", <<Wait("consumed")>>) /\ host'.pc = "finishPacket"
  <2>1. PICK td, tt, sd, st, cd, ct \in Int : Behind(td, tt, sd, st, cd, ct)
    BY <1>1 DEF IInv, DeviceInv
  <2> DEFINE n == host.count
             ops == <<Wait("consumed")>>
  <2>2. st = 3 * n /\ sd \in Int /\ sd <= st
    <3>1. talker.frames - delivered = n
      BY <1>1
    <3>2. QED
      BY <1>1, <2>1, <3>1 DEF Behind, StagerLag
  <2>3. ops \in Seq(Operations) /\ Len(ops) = 1 /\ ops[1].op = "wait"
    BY <1>1 DEF Wait, Operations, Events, CudaTyped
  <2>4. \A e \in Events : \A i \in 1 .. 1 : ops[i] # Record(e)
    BY <2>3 DEF Record
  <2>5. n \in Nat
    BY <1>1
  <2> HIDE DEF ops, n
  <2>6. /\ CudaTyped' /\ UNCHANGED <<reached, codes, slots, decoded>>
        /\ Len(queue'["stager"]) = Len(queue["stager"]) + 1
        /\ \A i \in 1 .. Len(queue'["stager"]) :
             queue'["stager"][i] = IF i <= Len(queue["stager"]) THEN queue["stager"][i]
                                   ELSE ops[i - Len(queue["stager"])]
        /\ queue'["talker"] = queue["talker"] /\ queue'["codec"] = queue["codec"]
        /\ \A e \in Events : recorded'[e] = recorded[e]
    <3>1. Enqueue("stager", ops) /\ "stager" \in Streams
      BY <1>4 DEF ops, Streams
    <3>2. /\ CudaTyped' /\ UNCHANGED <<reached, codes, slots, decoded>>
          /\ Len(queue'["stager"]) = Len(queue["stager"]) + Len(ops)
          /\ \A i \in 1 .. Len(queue'["stager"]) :
               queue'["stager"][i] = IF i <= Len(queue["stager"]) THEN queue["stager"][i]
                                     ELSE ops[i - Len(queue["stager"])]
          /\ \A t \in Streams : t # "stager" => queue'[t] = queue[t]
          /\ \A e \in Events :
               (\A i \in 1 .. Len(ops) : ops[i] # Record(e)) => recorded'[e] = recorded[e]
      BY <1>1, <2>3, <3>1, Enqueued
    <3>3. \A e \in Events : \A i \in 1 .. Len(ops) : ops[i] # Record(e)
      BY <2>3, <2>4
    <3>4. queue'["talker"] = queue["talker"] /\ queue'["codec"] = queue["codec"]
      BY <3>2 DEF Streams
    <3>5. QED
      BY <2>3, <3>2, <3>3, <3>4
  <2>7. StagerRun(sd, st + 1)'
    <3>1. /\ StagerRun(sd, st) /\ Len(queue["stager"]) \in Nat /\ Len(queue["stager"]) = st - sd
      BY <1>1, <2>1 DEF Behind, StagerRun, CudaTyped, Streams
    <3>2. Len(queue'["stager"]) = st + 1 - sd
      BY <2>6, <3>1
    <3>3. ASSUME NEW i \in 1 .. Len(queue'["stager"])
          PROVE  StagerOp(sd + i, st + 1, queue["stager"][i])'
      <4>1. CASE i <= Len(queue["stager"])
        <5>1. i \in 1 .. Len(queue["stager"])
          BY <2>6, <3>1, <4>1
        <5>2. StagerOp(sd + i, st, queue["stager"][i]) /\ queue'["stager"][i] = queue["stager"][i]
          BY <2>6, <3>1, <4>1, <5>1 DEF StagerRun
        <5>3. (sd + i) % 3 = 1 => sd + i < st
          BY <2>2, <2>5, <3>1, <4>1
        <5>4. QED
          BY <1>1, <5>2, <5>3 DEF StagerOp, Record
      <4>2. CASE i > Len(queue["stager"])
        <5>1. i - Len(queue["stager"]) = 1 /\ sd + i = 3 * n + 1
          <6>1. i = Len(queue["stager"]) + 1
            BY <2>6, <3>1, <4>2
          <6>2. QED
            BY <2>2, <2>5, <3>1, <6>1
        <5>2. queue'["stager"][i].op = "wait"
          <6>1. queue'["stager"][i] = ops[i - Len(queue["stager"])]
            BY <2>6, <3>1, <4>2
          <6>2. QED
            BY <2>3, <5>1, <6>1
        <5>3. (sd + i) % 3 = 1 /\ ~(sd + i < st + 1)
          BY <2>2, <2>5, <5>1
        <5>4. QED
          BY <5>2, <5>3 DEF StagerOp
      <4>3. QED
        BY <3>1, <4>1, <4>2
    <3>4. (st + 1) \div 3 = st \div 3
      BY <2>2, <2>5
    <3>5. \A i \in 1 .. PacketFrames : 3 * i - 1 <= st + 1 => 3 * i - 1 <= st
      BY <2>2, <2>5
    <3>6. reached'["copied"] = delivered' + Copies(sd)
      BY <1>1, <2>6, <3>1 DEF StagerRun, Copies
    <3>7. recorded'["copied"] = delivered' + (st + 1) \div 3
      BY <1>1, <2>6, <3>1, <3>4 DEF StagerRun, Events
    <3>8. ASSUME NEW i \in 1 .. PacketFrames
          PROVE  /\ 3 * i - 2 <= sd /\ 3 * i - 1 <= st + 1 => reached'["codes_ready"] >= delivered' + i
                 /\ 3 * i - 1 <= sd => slots'[i] = delivered' + i
      <4>1. /\ 3 * i - 2 <= sd /\ 3 * i - 1 <= st => reached["codes_ready"] >= delivered + i
            /\ 3 * i - 1 <= sd => slots[i] = delivered + i
        BY <3>1 DEF StagerRun
      <4>2. reached' = reached /\ slots' = slots /\ delivered' = delivered
        BY <1>1, <2>6
      <4>3. 3 * i - 1 <= st + 1 => 3 * i - 1 <= st
        BY <3>5
      <4>4. QED
        BY <4>1, <4>2, <4>3
    <3>9. (reached["copied"] = delivered + Copies(sd))'
      BY <3>6 DEF Copies
    <3>10. \A i \in 1 .. Len(queue'["stager"]) : StagerOp(sd + i, st + 1, queue["stager"][i])'
      BY <3>3
    <3>11. \A i \in 1 .. PacketFrames :
              /\ 3 * i - 2 <= sd /\ 3 * i - 1 <= st + 1 => reached'["codes_ready"] >= delivered' + i
              /\ 3 * i - 1 <= sd => slots'[i] = delivered' + i
      BY <3>8
    <3>12. (Len(queue["stager"]) = (st + 1) - sd)'
      BY <3>2
    <3>13. QED
      BY <3>7, <3>9, <3>10, <3>11, <3>12, Zenon DEF StagerRun
  <2>8. TalkerRun(td, tt)' /\ CodecRun(cd, ct)'
    <3>1. TalkerRun(td, tt) /\ CodecRun(cd, ct) /\ CodecLag(cd, ct)
      BY <2>1 DEF Behind
    <3>2. /\ recorded'["codes_ready"] = recorded["codes_ready"]
          /\ recorded'["semantic_ready"] = recorded["semantic_ready"]
      BY <2>6 DEF Events
    <3>3. /\ queue'["talker"] = queue["talker"] /\ queue'["codec"] = queue["codec"]
          /\ UNCHANGED <<codes, decoded, reached, delivered>> /\ host'.count = host.count
      BY <1>1, <1>2, <2>6
    <3>4. TalkerRun(td, tt)'
      BY <2>1, <3>1, <3>2, <3>3, SameTalkerRun
    <3>5. QED
      BY <2>1, <3>1, <3>3, <3>4, SameCodecRun
  <2>9. TalkerLag(td, tt)' /\ CodecLag(cd, ct)'
    <3>1. TalkerLag(td, tt) /\ CodecLag(cd, ct)
      BY <2>1 DEF Behind
    <3>2. TalkerLag(td, tt)'
      BY <1>1, <1>4, <3>1 DEF TalkerLag
    <3>3. QED
      BY <1>1, <1>2, <1>4, <3>1, <3>2 DEF CodecLag
  <2>10. StagerLag(sd, st + 1)'
    <3>1. talker'.frames - delivered' = n /\ delivered' = delivered /\ n <= PacketFrames
      BY <1>1 DEF n
    <3>2. sd >= -1 /\ (delivered = 0 => sd >= 0)
      BY <2>1 DEF Behind, StagerLag
    <3>3. QED
      BY <1>4, <2>2, <2>5, <3>1, <3>2 DEF StagerLag
  <2>11. st + 1 \in Int /\ Behind(td, tt, sd, st + 1, cd, ct)'
    BY <2>7, <2>8, <2>9, <2>10 DEF Behind
  <2>12. DeviceInv'
    BY <2>11 DEF DeviceInv
  <2>13. QuietInv'
    BY <1>1, <1>4 DEF QuietInv
  <2>14. QED
    BY <2>6, <2>12, <2>13
<1>5. QED
  BY <1>1, <1>3, <1>4 DEF Release, Goto, Hosts


-----------------------------------------------------------------------------
(* The streams: the GPU executes an operation.                             *)

\* The GPU changes nothing of the host's.
LEMMA ExecuteHost ==
  ASSUME HostInv, NEW s \in Streams, Execute(s) PROVE HostInv'
BY DEF HostInv, HostTyped, TalkerInv, CountInv, SessionInv, Execute, Wanted, NewStager, NewCodec

\* What is at the head of a stream has its type; the rest moves up.
LEMMA Executed ==
  ASSUME CudaTyped, NEW s \in Streams, Execute(s)
  PROVE  /\ Len(queue[s]) \in Nat /\ Len(queue[s]) >= 1
         /\ Head(queue[s]) = queue[s][1] /\ queue[s][1] \in Operations
         /\ queue' \in [Streams -> Seq(Operations)]
         /\ Len(queue'[s]) = Len(queue[s]) - 1
         /\ \A i \in 1 .. Len(queue'[s]) : i + 1 \in 1 .. Len(queue[s]) /\ queue'[s][i] = queue[s][i + 1]
         /\ \A t \in Streams : t # s => queue'[t] = queue[t]
<1>1. queue \in [Streams -> Seq(Operations)] /\ queue[s] \in Seq(Operations) /\ queue[s] # <<>>
      /\ queue' = [queue EXCEPT ![s] = Tail(@)]
  BY DEF CudaTyped, Execute, Drained
<1>2. /\ Len(queue[s]) \in Nat /\ Len(queue[s]) >= 1
      /\ Head(queue[s]) = queue[s][1] /\ queue[s][1] \in Operations
  <2>1. Len(queue[s]) \in Nat /\ Len(queue[s]) # 0
    BY <1>1, EmptySeq
  <2>2. 1 \in 1 .. Len(queue[s])
    BY <2>1
  <2>3. QED
    BY <1>1, <2>1, <2>2, HeadTailProperties, ElementOfSeq
<1>3. /\ Tail(queue[s]) \in Seq(Operations) /\ Len(Tail(queue[s])) = Len(queue[s]) - 1
      /\ \A i \in 1 .. Len(Tail(queue[s])) : Tail(queue[s])[i] = queue[s][i + 1]
  BY <1>1, HeadTailProperties
<1>4. /\ queue' \in [Streams -> Seq(Operations)] /\ queue'[s] = Tail(queue[s])
      /\ \A t \in Streams : t # s => queue'[t] = queue[t]
  BY <1>1, <1>3, SMTT(60)
<1>5. QED
  BY <1>2, <1>3, <1>4

\* The effects of an operation by its kind.
LEMMA Effects ==
  ASSUME CudaTyped, NEW s \in Streams, Execute(s), NEW op, op = queue[s][1]
  PROVE  /\ op.op = "wait" => /\ reached[op.event] >= op.upto
                              /\ UNCHANGED <<reached, codes, slots, decoded>>
         /\ op.op = "pack" => codes' = op.frame /\ UNCHANGED <<reached, slots, decoded>>
         /\ op.op = "record" => /\ reached' = [reached EXCEPT ![op.event] = @ + 1]
                                /\ UNCHANGED <<codes, slots, decoded>>
         /\ op.op = "copy" => /\ slots' = [slots EXCEPT ![op.slot] = codes]
                              /\ UNCHANGED <<reached, codes, decoded>>
         /\ op.op = "snapshot" => /\ decoded' = decoded \o SubSeq(slots, 1, op.frames)
                                  /\ UNCHANGED <<reached, codes, slots>>
<1>1. op = Head(queue[s])
  BY Executed
<1>2. QED
  BY <1>1 DEF Execute

\* Whatever operation runs, the GPU's state keeps its types.
LEMMA ExecuteTyped ==
  ASSUME CudaTyped, NEW s \in Streams, Execute(s) PROVE CudaTyped'
<1> USE HandoffAssumption DEF HandoffAssumption
<1> DEFINE op == queue[s][1]
<1>1. op \in Operations /\ queue' \in [Streams -> Seq(Operations)] /\ recorded' = recorded
  BY Executed DEF Execute
<1>2. /\ codes \in 0 .. MaxFrames /\ slots \in [1 .. PacketFrames -> 0 .. MaxFrames]
      /\ decoded \in Seq(0 .. MaxFrames) /\ reached \in [Events -> Nat] /\ recorded \in [Events -> Nat]
  BY DEF CudaTyped
<1> HIDE DEF op
<1>3. CASE op \in [op : {"pack"}, frame : 1 .. MaxFrames]
  <2>1. op.op = "pack" /\ op.frame \in 0 .. MaxFrames
    BY <1>3
  <2>2. codes' = op.frame /\ UNCHANGED <<reached, slots, decoded>>
    BY <2>1, Effects DEF op
  <2>3. QED
    BY <1>1, <1>2, <2>1, <2>2 DEF CudaTyped
<1>4. CASE op \in [op : {"record"}, event : Events]
  <2>1. op.op = "record" /\ op.event \in Events
    BY <1>4
  <2>2. reached' = [reached EXCEPT ![op.event] = @ + 1] /\ UNCHANGED <<codes, slots, decoded>>
    BY <2>1, Effects DEF op
  <2>3. reached' \in [Events -> Nat]
    BY <1>2, <2>1, <2>2
  <2>4. QED
    BY <1>1, <1>2, <2>2, <2>3 DEF CudaTyped
<1>5. CASE op \in [op : {"wait"}, event : Events, upto : Nat]
  <2>1. op.op = "wait"
    BY <1>5
  <2>2. UNCHANGED <<reached, codes, slots, decoded>>
    BY <2>1, Effects DEF op
  <2>3. QED
    BY <1>1, <1>2, <2>2 DEF CudaTyped
<1>6. CASE op \in [op : {"copy"}, slot : 1 .. PacketFrames, frame : 1 .. MaxFrames]
  <2>1. op.op = "copy" /\ op.slot \in 1 .. PacketFrames
    BY <1>6
  <2>2. slots' = [slots EXCEPT ![op.slot] = codes] /\ UNCHANGED <<reached, codes, decoded>>
    BY <2>1, Effects DEF op
  <2>3. slots' \in [1 .. PacketFrames -> 0 .. MaxFrames]
    BY <1>2, <2>1, <2>2
  <2>4. QED
    BY <1>1, <1>2, <2>2, <2>3 DEF CudaTyped
<1>7. CASE op \in [op : {"snapshot"}, frames : 1 .. PacketFrames]
  <2>1. op.op = "snapshot" /\ op.frames \in 1 .. PacketFrames
    BY <1>7
  <2>2. decoded' = decoded \o SubSeq(slots, 1, op.frames) /\ UNCHANGED <<reached, codes, slots>>
    BY <2>1, Effects DEF op
  <2>3. slots \in Seq(0 .. MaxFrames) /\ Len(slots) = PacketFrames
    BY <1>2, HandoffAssumption
  <2>4. SubSeq(slots, 1, op.frames) \in Seq(0 .. MaxFrames)
    BY <2>1, <2>3, SubSeqProperties
  <2>5. decoded' \in Seq(0 .. MaxFrames)
    BY <1>2, <2>2, <2>4, ConcatProperties
  <2>6. QED
    BY <1>1, <1>2, <2>2, <2>5 DEF CudaTyped
<1>8. QED
  BY <1>1, <1>3, <1>4, <1>5, <1>6, <1>7 DEF Operations

\* Between requests a recycled session's stream may still drain.
LEMMA DrainingIsQuiet ==
  ASSUME IInv, NEW s \in Streams, Execute(s), host.pc = "start" PROVE QuietInv' /\ DeviceInv'
<1>1. s = "talker" /\ talker.home = "pool" /\ UNCHANGED <<path, host, talker>>
  BY DEF IInv, QuietInv, Streams, Execute
<1>2. Drained("stager") /\ Drained("codec") /\ decoded = <<>> /\ path # "host"
      /\ \A i \in 1 .. Len(queue["talker"]) : queue["talker"][i].op # "snapshot"
  BY <1>1 DEF IInv, QuietInv, Execute
<1>3. /\ Len(queue["talker"]) \in Nat /\ Len(queue["talker"]) >= 1
      /\ \A i \in 1 .. Len(queue'["talker"]) :
           i + 1 \in 1 .. Len(queue["talker"]) /\ queue'["talker"][i] = queue["talker"][i + 1]
      /\ queue'["stager"] = queue["stager"] /\ queue'["codec"] = queue["codec"]
      /\ queue["talker"][1] = Head(queue["talker"])
  BY <1>1, Executed DEF IInv, Streams
<1>4. 1 \in 1 .. Len(queue["talker"])
  BY <1>3
<1>5. decoded' = decoded
  BY <1>1, <1>2, <1>3, <1>4 DEF Execute
<1>6. QED
  BY <1>1, <1>2, <1>3, <1>5 DEF QuietInv, DeviceInv, Drained

\* A stream goes on; what it has reached is never taken back.
LEMMA StagerRunGoesOn ==
  ASSUME NEW done \in Int, NEW total \in Int, StagerRun(done, total), CudaTyped, HostInv,
         queue'["stager"] = queue["stager"], UNCHANGED <<slots, recorded, delivered>>,
         reached'["copied"] = reached["copied"],
         reached'["codes_ready"] \in {reached["codes_ready"], reached["codes_ready"] + 1}
  PROVE  StagerRun(done, total)'
<1>1. /\ Len(queue'["stager"]) = total - done
      /\ \A i \in 1 .. Len(queue'["stager"]) : StagerOp(done + i, total, queue["stager"][i])'
      /\ reached'["copied"] = delivered' + Copies(done)
      /\ recorded'["copied"] = delivered' + total \div 3
  BY DEF StagerRun, StagerOp, Record, Copies
<1>2. reached["codes_ready"] \in Nat /\ delivered \in Nat
  BY DEF CudaTyped, Events, HostInv, HostTyped
<1>3. ASSUME NEW i \in 1 .. PacketFrames
      PROVE  /\ 3 * i - 2 <= done /\ 3 * i - 1 <= total => reached'["codes_ready"] >= delivered' + i
             /\ 3 * i - 1 <= done => slots'[i] = delivered' + i
  BY <1>2 DEF StagerRun
<1>4. QED
  BY <1>1, <1>3 DEF StagerRun, Copies

\* A copy that is done lets the talker's stream go on.
LEMMA TalkerRunGoesOn ==
  ASSUME NEW done \in Int, NEW total \in Int, TalkerRun(done, total), CudaTyped,
         queue'["talker"] = queue["talker"], UNCHANGED <<codes, recorded>>,
         reached'["codes_ready"] = reached["codes_ready"],
         reached'["semantic_ready"] = reached["semantic_ready"],
         reached'["copied"] \in {reached["copied"], reached["copied"] + 1}
  PROVE  TalkerRun(done, total)'
<1>1. reached["copied"] \in Nat
  BY DEF CudaTyped, Events
<1>2. reached'["copied"] >= done \div 4
  <2>1. reached["copied"] >= done \div 4 /\ done \div 4 \in Int
    BY DEF TalkerRun
  <2> DEFINE q == done \div 4
  <2> HIDE DEF q
  <2>2. reached["copied"] >= q /\ q \in Int
    BY <2>1 DEF q
  <2>3. reached'["copied"] >= q
    BY <1>1, <2>2
  <2>4. QED
    BY <2>3 DEF q
<1>3. \A i \in 1 .. Len(queue'["talker"]) : TalkerOp(done + i, queue["talker"][i])'
  BY ZenonT(60) DEF TalkerRun, TalkerOp, Pack, Record
<1>4. QED
  BY <1>2, <1>3 DEF TalkerRun

\* And the codec's.
LEMMA CodecRunGoesOn ==
  ASSUME NEW done \in Int, NEW total \in Int, CodecRun(done, total), CudaTyped, HostInv,
         queue'["codec"] = queue["codec"], UNCHANGED <<decoded, delivered, host>>,
         reached'["copied"] \in {reached["copied"], reached["copied"] + 1}
  PROVE  CodecRun(done, total)'
<1>1. reached["copied"] \in Nat /\ delivered \in Nat /\ host.count \in Nat
  BY HandoffAssumption DEF HandoffAssumption, CudaTyped, Events, HostInv, HostTyped, Hosts
<1>2. done >= 1 => reached'["copied"] >= delivered' + host'.count
  BY <1>1 DEF CodecRun
<1>3. \A i \in 1 .. Len(queue'["codec"]) : CodecOp(done + i, queue["codec"][i])'
  BY DEF CodecRun, CodecOp, Snapshot, Record
<1>4. QED
  BY <1>2, <1>3 DEF CodecRun

\* The thread stands still while the GPU works.
LEMMA LagShrinks ==
  ASSUME NEW td \in Int, NEW tt \in Int, NEW sd \in Int, NEW st \in Int, NEW cd \in Int, NEW ct \in Int,
         Behind(td, tt, sd, st, cd, ct), HostInv, UNCHANGED <<host, talker, delivered>>
  PROVE  /\ TalkerLag(td, tt)' /\ StagerLag(sd, st)' /\ CodecLag(cd, ct)'
         /\ td < tt => TalkerLag(td + 1, tt)'
         /\ sd < st => StagerLag(sd + 1, st)'
         /\ cd < ct => CodecLag(cd + 1, ct)'
<1>1. TalkerLag(td, tt)' /\ (td < tt => TalkerLag(td + 1, tt)')
  <2>1. talker.frames \in Nat
    BY HandoffAssumption DEF HandoffAssumption, HostInv, HostTyped, Talker
  <2>2. QED
    BY <2>1 DEF Behind, TalkerLag
<1>2. StagerLag(sd, st)' /\ (sd < st => StagerLag(sd + 1, st)')
  BY DEF Behind, StagerLag
<1>3. CodecLag(cd, ct)' /\ (cd < ct => CodecLag(cd + 1, ct)')
  BY DEF Behind, CodecLag
<1>4. QED
  BY <1>1, <1>2, <1>3

\* The talker's stream: a frame is packed only after the last one was copied.
LEMMA TalkerExecutes ==
  ASSUME IInv, Execute("talker"), host.pc # "start" PROVE QuietInv' /\ DeviceInv'
<1>1. /\ UNCHANGED <<path, host, talker, delivered, recorded>> /\ CudaTyped /\ HostInv
      /\ talker.frames \in Nat
  BY DEF Execute, IInv, HostInv, HostTyped, Talker
<1>2. path = "device"
  BY DEF IInv, QuietInv, Execute, Streams, HostInv, HostTyped
<1> DEFINE op == queue["talker"][1]
<1>3. /\ Len(queue["talker"]) \in Nat /\ Len(queue["talker"]) >= 1
      /\ Len(queue'["talker"]) = Len(queue["talker"]) - 1
      /\ \A i \in 1 .. Len(queue'["talker"]) :
           i + 1 \in 1 .. Len(queue["talker"]) /\ queue'["talker"][i] = queue["talker"][i + 1]
      /\ queue'["stager"] = queue["stager"] /\ queue'["codec"] = queue["codec"]
  BY <1>1, Executed DEF Streams
<1>4. PICK td, tt, sd, st, cd, ct \in Int : Behind(td, tt, sd, st, cd, ct)
  BY <1>2 DEF IInv, DeviceInv
<1>5. /\ td < tt /\ td >= 0 /\ td \in Nat /\ Len(queue["talker"]) = tt - td
      /\ TalkerOp(td + 1, op)
      /\ codes = (td + 3) \div 4 /\ reached["codes_ready"] = (td + 2) \div 4
      /\ reached["semantic_ready"] = (td + 1) \div 4 /\ reached["copied"] >= td \div 4
      /\ recorded["codes_ready"] = (tt + 2) \div 4 /\ recorded["semantic_ready"] = (tt + 1) \div 4
  <2>1. Len(queue["talker"]) = tt - td /\ td >= 0
    BY <1>4 DEF Behind, TalkerRun, TalkerLag
  <2>2. 1 \in 1 .. Len(queue["talker"])
    BY <1>3
  <2>3. QED
    BY <1>3, <1>4, <2>1, <2>2 DEF Behind, TalkerRun
<1>6. /\ reached \in [Events -> Nat] /\ {"codes_ready", "semantic_ready", "copied"} \subseteq Events
  BY <1>1 DEF CudaTyped, Events
<1> HIDE DEF op
<1>7. /\ codes' = (td + 1 + 3) \div 4 /\ reached'["codes_ready"] = (td + 1 + 2) \div 4
      /\ reached'["semantic_ready"] = (td + 1 + 1) \div 4 /\ reached'["copied"] >= (td + 1) \div 4
      /\ reached'["copied"] = reached["copied"] /\ UNCHANGED <<slots, decoded>>
      /\ reached'["codes_ready"] \in {reached["codes_ready"], reached["codes_ready"] + 1}
  <2>1. (td + 1) % 4 \in {0, 1, 2, 3}
    BY <1>5
  <2>2. CASE (td + 1) % 4 = 1
    <3>1. op = Pack((td + 4) \div 4) /\ (td + 1) \div 4 = td \div 4 /\ (td + 2) \div 4 = td \div 4
          /\ (td + 3) \div 4 = td \div 4
      BY <1>5, <2>2 DEF TalkerOp
    <3>2. codes' = (td + 4) \div 4 /\ UNCHANGED <<reached, slots, decoded>>
      BY <1>1, <3>1, Effects DEF op, Pack, Streams
    <3>3. QED
      BY <1>5, <1>6, <3>1, <3>2, SMTT(60)
  <2>3. CASE (td + 1) % 4 = 2
    <3>1. op = Record("codes_ready") /\ (td + 1) \div 4 = td \div 4 /\ (td + 2) \div 4 = td \div 4
          /\ (td + 3) \div 4 = td \div 4 + 1 /\ (td + 4) \div 4 = td \div 4 + 1
      BY <1>5, <2>3 DEF TalkerOp
    <3>2. reached' = [reached EXCEPT !["codes_ready"] = @ + 1] /\ UNCHANGED <<codes, slots, decoded>>
      BY <1>1, <3>1, Effects, SMTT(60) DEF op, Record, Streams
    <3>3. /\ reached'["codes_ready"] = reached["codes_ready"] + 1
          /\ reached'["semantic_ready"] = reached["semantic_ready"]
          /\ reached'["copied"] = reached["copied"]
      BY <1>6, <3>2
    <3>4. QED
      BY <1>5, <3>1, <3>2, <3>3
  <2>4. CASE (td + 1) % 4 = 3
    <3>1. op = Record("semantic_ready") /\ (td + 1) \div 4 = td \div 4
          /\ (td + 2) \div 4 = td \div 4 + 1 /\ (td + 3) \div 4 = td \div 4 + 1
          /\ (td + 4) \div 4 = td \div 4 + 1
      BY <1>5, <2>4 DEF TalkerOp
    <3>2. reached' = [reached EXCEPT !["semantic_ready"] = @ + 1] /\ UNCHANGED <<codes, slots, decoded>>
      BY <1>1, <3>1, Effects DEF op, Record, Streams
    <3>3. /\ reached'["semantic_ready"] = reached["semantic_ready"] + 1
          /\ reached'["codes_ready"] = reached["codes_ready"]
          /\ reached'["copied"] = reached["copied"]
      BY <1>6, <3>2
    <3>4. QED
      BY <1>5, <3>1, <3>2, <3>3
  <2>5. CASE (td + 1) % 4 = 0
    <3>1. /\ op = [op |-> "wait", event |-> "copied", upto |-> (td + 4) \div 4]
          /\ (td + 1) \div 4 = td \div 4 + 1 /\ (td + 2) \div 4 = td \div 4 + 1
          /\ (td + 3) \div 4 = td \div 4 + 1 /\ (td + 4) \div 4 = td \div 4 + 1
      BY <1>5, <2>5 DEF TalkerOp
    <3>2. reached["copied"] >= (td + 4) \div 4 /\ UNCHANGED <<codes, reached, slots, decoded>>
      BY <1>1, <3>1, Effects DEF op, Streams
    <3>3. QED
      BY <1>5, <3>1, <3>2
  <2>6. QED
    BY <2>1, <2>2, <2>3, <2>4, <2>5
<1>8. TalkerRun(td + 1, tt)'
  <2>1. Len(queue'["talker"]) = tt - (td + 1)
    BY <1>3, <1>5
  <2>2. ASSUME NEW i \in 1 .. Len(queue'["talker"]) PROVE TalkerOp(td + 1 + i, queue["talker"][i])'
    <3>1. i + 1 \in 1 .. Len(queue["talker"]) /\ queue'["talker"][i] = queue["talker"][i + 1]
      BY <1>3
    <3>2. TalkerOp(td + (i + 1), queue["talker"][i + 1])
      BY <1>4, <3>1 DEF Behind, TalkerRun
    <3>3. td + (i + 1) = td + 1 + i
      BY <3>1
    <3>4. QED
      BY <3>1, <3>2, <3>3 DEF TalkerOp, Pack, Record
  <2>3. QED
    BY <1>1, <1>5, <1>7, <2>1, <2>2 DEF TalkerRun
<1>9. StagerRun(sd, st)'
  BY <1>1, <1>3, <1>4, <1>7, StagerRunGoesOn DEF Behind
<1>10. CodecRun(cd, ct)'
  BY <1>1, <1>3, <1>4, <1>7, CodecRunGoesOn DEF Behind
<1>11. TalkerLag(td + 1, tt)' /\ StagerLag(sd, st)' /\ CodecLag(cd, ct)'
  BY <1>1, <1>4, <1>5, LagShrinks
<1>12. td + 1 \in Int /\ Behind(td + 1, tt, sd, st, cd, ct)'
  BY <1>8, <1>9, <1>10, <1>11 DEF Behind
<1>13. QED
  BY <1>1, <1>2, <1>12 DEF DeviceInv, QuietInv

\* The stager's stream: a copy finds its frame, not the one before or after.
LEMMA StagerExecutes ==
  ASSUME IInv, Execute("stager"), host.pc # "start" PROVE QuietInv' /\ DeviceInv'
<1> USE HandoffAssumption DEF HandoffAssumption
<1>1. /\ UNCHANGED <<path, host, talker, delivered, recorded>> /\ CudaTyped /\ HostInv
      /\ delivered \in Nat
  BY DEF Execute, IInv, HostInv, HostTyped
<1>2. path = "device"
  BY DEF IInv, QuietInv, Execute, Streams, HostInv, HostTyped
<1> DEFINE op == queue["stager"][1]
<1>3. /\ Len(queue["stager"]) \in Nat /\ Len(queue["stager"]) >= 1 /\ op \in Operations
      /\ Len(queue'["stager"]) = Len(queue["stager"]) - 1
      /\ \A i \in 1 .. Len(queue'["stager"]) :
           i + 1 \in 1 .. Len(queue["stager"]) /\ queue'["stager"][i] = queue["stager"][i + 1]
      /\ queue'["talker"] = queue["talker"] /\ queue'["codec"] = queue["codec"]
  BY <1>1, Executed DEF Streams
<1>4. PICK td, tt, sd, st, cd, ct \in Int : Behind(td, tt, sd, st, cd, ct)
  BY <1>2 DEF IInv, DeviceInv
<1>5. /\ sd < st /\ sd >= -1 /\ Len(queue["stager"]) = st - sd
      /\ StagerOp(sd + 1, st, op)
      /\ reached["copied"] = delivered + Copies(sd) /\ recorded["copied"] = delivered + st \div 3
  <2>1. Len(queue["stager"]) = st - sd /\ sd >= -1
    BY <1>4 DEF Behind, StagerRun, StagerLag
  <2>2. 1 \in 1 .. Len(queue["stager"])
    BY <1>3
  <2>3. QED
    BY <1>3, <1>4, <2>1, <2>2 DEF Behind, StagerRun
<1>6. /\ reached \in [Events -> Nat] /\ {"codes_ready", "semantic_ready", "copied"} \subseteq Events
      /\ slots \in [1 .. PacketFrames -> 0 .. MaxFrames]
  BY <1>1 DEF CudaTyped, Events
<1>7. /\ td \in Nat /\ codes = (td + 3) \div 4 /\ reached["codes_ready"] = (td + 2) \div 4
      /\ reached["copied"] >= td \div 4
  BY <1>4 DEF Behind, TalkerRun, TalkerLag
<1>8. \A i \in 1 .. PacketFrames :
         /\ 3 * i - 2 <= sd /\ 3 * i - 1 <= st => reached["codes_ready"] >= delivered + i
         /\ 3 * i - 1 <= sd => slots[i] = delivered + i
  BY <1>4 DEF Behind, StagerRun
<1> HIDE DEF op
<1>9. (sd + 1) % 3 \in {0, 1, 2}
  BY <1>5
<1>10. /\ reached'["copied"] = delivered' + Copies(sd + 1)
       /\ \A i \in 1 .. PacketFrames :
            /\ 3 * i - 2 <= sd + 1 /\ 3 * i - 1 <= st => reached'["codes_ready"] >= delivered' + i
            /\ 3 * i - 1 <= sd + 1 => slots'[i] = delivered' + i
       /\ reached'["copied"] \in {reached["copied"], reached["copied"] + 1}
       /\ reached'["codes_ready"] = reached["codes_ready"]
       /\ reached'["semantic_ready"] = reached["semantic_ready"]
       /\ UNCHANGED <<codes, decoded>>
  <2>1. CASE (sd + 1) % 3 = 1
    <3>1. PICK n \in Nat : sd = 3 * n
      BY <1>5, <2>1
    <3>2. /\ op.op = "wait"
          /\ sd + 1 < st => op = [op |-> "wait", event |-> "codes_ready", upto |-> delivered + (n + 1)]
      <4>1. (sd + 1 + 2) \div 3 = n + 1
        BY <3>1
      <4>2. QED
        BY <1>5, <2>1, <4>1 DEF StagerOp
    <3>3. /\ UNCHANGED <<codes, reached, slots, decoded>>
          /\ sd + 1 < st => reached["codes_ready"] >= delivered + (n + 1)
      BY <1>1, <3>2, Effects DEF op, Streams
    <3>4. Copies(sd + 1) = Copies(sd)
      BY <3>1 DEF Copies
    <3>5. ASSUME NEW i \in 1 .. PacketFrames
          PROVE  /\ 3 * i - 2 <= sd + 1 /\ 3 * i - 1 <= st => reached["codes_ready"] >= delivered + i
                 /\ 3 * i - 1 <= sd + 1 => slots[i] = delivered + i
      <4>1. 3 * i - 1 <= sd + 1 => 3 * i - 1 <= sd
        BY <3>1
      <4>2. CASE i = n + 1
        BY <1>8, <3>1, <3>3, <4>1, <4>2
      <4>3. CASE i # n + 1
        <5>1. 3 * i - 2 <= sd + 1 => 3 * i - 2 <= sd
          BY <3>1, <4>3
        <5>2. QED
          BY <1>8, <4>1, <5>1
      <4>4. QED
        BY <4>2, <4>3
    <3>6. QED
      BY <1>1, <1>5, <3>3, <3>4, <3>5
  <2>2. CASE (sd + 1) % 3 = 2
    <3>1. PICK n \in Nat : sd = 3 * n + 1
      BY <1>5, <2>2
    <3>2. op = [op |-> "copy", slot |-> n + 1, frame |-> delivered + (n + 1)]
      <4>1. (sd + 1 + 2) \div 3 = n + 1
        BY <3>1
      <4>2. QED
        BY <1>5, <2>2, <4>1 DEF StagerOp
    <3>3. n + 1 \in 1 .. PacketFrames
      BY <1>3, <3>2 DEF Operations
    <3>4. Copies(sd) = n /\ Copies(sd + 1) = n
      BY <3>1 DEF Copies
    <3>5. codes = delivered + (n + 1)
      <4>1. (td + 2) \div 4 >= delivered + (n + 1)
        BY <1>5, <1>7, <1>8, <3>1, <3>3
      <4>2. td \div 4 <= delivered + n
        BY <1>5, <1>7, <3>4
      <4>3. QED
        BY <1>1, <1>7, <3>1, <4>1, <4>2
    <3>6. slots' = [slots EXCEPT ![n + 1] = codes] /\ UNCHANGED <<reached, codes, decoded>>
      BY <1>1, <3>2, Effects DEF op, Streams
    <3>7. ASSUME NEW i \in 1 .. PacketFrames
          PROVE  /\ 3 * i - 2 <= sd + 1 /\ 3 * i - 1 <= st => reached["codes_ready"] >= delivered + i
                 /\ 3 * i - 1 <= sd + 1 => slots'[i] = delivered + i
      <4>1. 3 * i - 2 <= sd + 1 => 3 * i - 2 <= sd
        BY <3>1
      <4>2. CASE i = n + 1
        BY <1>6, <1>8, <3>3, <3>5, <3>6, <4>1, <4>2
      <4>3. CASE i # n + 1
        <5>1. 3 * i - 1 <= sd + 1 => 3 * i - 1 <= sd
          BY <3>1, <4>3
        <5>2. slots'[i] = slots[i]
          BY <1>6, <3>6, <4>3
        <5>3. QED
          BY <1>8, <4>1, <5>1, <5>2
      <4>4. QED
        BY <4>2, <4>3
    <3>8. QED
      BY <1>1, <1>5, <3>4, <3>6, <3>7
  <2>3. CASE (sd + 1) % 3 = 0 /\ sd + 1 = 0
    <3>1. op.op = "wait"
      BY <1>5, <2>3 DEF StagerOp
    <3>2. UNCHANGED <<codes, reached, slots, decoded>>
      BY <1>1, <3>1, Effects DEF op, Streams
    <3>3. Copies(sd + 1) = Copies(sd)
      BY <2>3 DEF Copies
    <3>4. \A i \in 1 .. PacketFrames : ~(3 * i - 2 <= sd + 1) /\ ~(3 * i - 1 <= sd + 1)
      BY <2>3
    <3>5. QED
      BY <1>1, <1>5, <3>2, <3>3, <3>4
  <2>4. CASE (sd + 1) % 3 = 0 /\ sd + 1 # 0
    <3>1. PICK n \in Nat : sd = 3 * n + 2
      <4>1. sd >= 0 /\ sd % 3 = 2
        BY <1>5, <2>4
      <4>2. sd \div 3 \in Nat /\ sd = 3 * (sd \div 3) + 2
        BY <4>1
      <4>3. QED
        BY <4>2
    <3>2. op = Record("copied")
      BY <1>5, <2>4 DEF StagerOp
    <3>3. reached' = [reached EXCEPT !["copied"] = @ + 1] /\ UNCHANGED <<codes, slots, decoded>>
      BY <1>1, <3>2, Effects DEF op, Record, Streams
    <3>4. Copies(sd) = n /\ Copies(sd + 1) = n + 1
      BY <3>1 DEF Copies
    <3>5. /\ reached'["copied"] = reached["copied"] + 1
          /\ reached'["codes_ready"] = reached["codes_ready"]
          /\ reached'["semantic_ready"] = reached["semantic_ready"]
      BY <1>6, <3>3
    <3>6. ASSUME NEW i \in 1 .. PacketFrames
          PROVE  /\ 3 * i - 2 <= sd + 1 => 3 * i - 2 <= sd
                 /\ 3 * i - 1 <= sd + 1 => 3 * i - 1 <= sd
      BY <3>1
    <3>7. reached'["copied"] = delivered' + Copies(sd + 1)
      BY <1>1, <1>5, <3>1, <3>4, <3>5
    <3>8. \A i \in 1 .. PacketFrames :
            /\ 3 * i - 2 <= sd + 1 /\ 3 * i - 1 <= st => reached'["codes_ready"] >= delivered' + i
            /\ 3 * i - 1 <= sd + 1 => slots'[i] = delivered' + i
      BY <1>1, <1>8, <3>3, <3>5, <3>6
    <3>9. QED
      BY <3>3, <3>5, <3>7, <3>8
  <2>5. QED
    BY <1>9, <2>1, <2>2, <2>3, <2>4
<1>11. StagerRun(sd + 1, st)'
  <2>1. Len(queue'["stager"]) = st - (sd + 1)
    BY <1>3, <1>5
  <2>2. ASSUME NEW i \in 1 .. Len(queue'["stager"]) PROVE StagerOp(sd + 1 + i, st, queue["stager"][i])'
    <3>1. i + 1 \in 1 .. Len(queue["stager"]) /\ queue'["stager"][i] = queue["stager"][i + 1]
      BY <1>3
    <3>2. StagerOp(sd + (i + 1), st, queue["stager"][i + 1])
      BY <1>4, <3>1 DEF Behind, StagerRun
    <3>3. sd + (i + 1) = sd + 1 + i
      BY <3>1
    <3>4. QED
      BY <1>1, <3>1, <3>2, <3>3 DEF StagerOp, Record
  <2>3. recorded'["copied"] = delivered' + st \div 3
    BY <1>1, <1>5
  <2>4. QED
    BY <1>10, <2>1, <2>2, <2>3 DEF StagerRun, Copies
<1>12. TalkerRun(td, tt)'
  BY <1>1, <1>3, <1>4, <1>10, TalkerRunGoesOn DEF Behind
<1>13. CodecRun(cd, ct)'
  BY <1>1, <1>3, <1>4, <1>10, CodecRunGoesOn DEF Behind
<1>14. TalkerLag(td, tt)' /\ StagerLag(sd + 1, st)' /\ CodecLag(cd, ct)'
  BY <1>1, <1>4, <1>5, LagShrinks
<1>15. sd + 1 \in Int /\ Behind(td, tt, sd + 1, st, cd, ct)'
  BY <1>11, <1>12, <1>13, <1>14 DEF Behind
<1>16. QED
  BY <1>1, <1>2, <1>15 DEF DeviceInv, QuietInv

\* The snapshot takes the packet whole: the copies of its frames are done.
LEMMA CodecExecutes ==
  ASSUME IInv, Execute("codec"), host.pc # "start" PROVE QuietInv' /\ DeviceInv'
<1> USE HandoffAssumption DEF HandoffAssumption
<1>1. /\ UNCHANGED <<path, host, talker, delivered, recorded>> /\ CudaTyped /\ HostInv
      /\ delivered \in Nat /\ talker.frames \in 0 .. MaxFrames
  BY DEF Execute, IInv, HostInv, HostTyped, Talker
<1>2. path = "device"
  BY DEF IInv, QuietInv, Execute, Streams, HostInv, HostTyped
<1> DEFINE op == queue["codec"][1]
           n == host.count
<1>3. /\ Len(queue["codec"]) \in Nat /\ Len(queue["codec"]) >= 1
      /\ Len(queue'["codec"]) = Len(queue["codec"]) - 1
      /\ \A i \in 1 .. Len(queue'["codec"]) :
           i + 1 \in 1 .. Len(queue["codec"]) /\ queue'["codec"][i] = queue["codec"][i + 1]
      /\ queue'["talker"] = queue["talker"] /\ queue'["stager"] = queue["stager"]
  BY <1>1, Executed DEF Streams
<1>4. PICK td, tt, sd, st, cd, ct \in Int : Behind(td, tt, sd, st, cd, ct)
  BY <1>2 DEF IInv, DeviceInv
<1>5. /\ cd < ct /\ cd \in {0, 1, 2} /\ Len(queue["codec"]) = ct - cd
      /\ CodecOp(cd + 1, op)
      /\ cd >= 1 => reached["copied"] >= delivered + n
      /\ decoded = Frames(IF cd < 2 THEN delivered ELSE delivered + n)
      /\ delivered + n = talker.frames /\ n \in 1 .. PacketFrames
  <2>1. Len(queue["codec"]) = ct - cd /\ cd >= 0 /\ ct <= 3
    BY <1>4 DEF Behind, CodecRun, CodecLag
  <2>2. 1 \in 1 .. Len(queue["codec"]) /\ cd < ct /\ ct >= 1 /\ cd \in {0, 1, 2}
    BY <1>3, <2>1
  <2>3. CodecOp(cd + 1, op)
    BY <1>4, <2>2 DEF Behind, CodecRun
  <2>4. QED
    BY <1>4, <2>1, <2>2, <2>3 DEF Behind, CodecRun, CodecLag
<1>6. /\ reached \in [Events -> Nat]
      /\ {"codes_ready", "semantic_ready", "copied", "consumed"} \subseteq Events
      /\ slots \in [1 .. PacketFrames -> 0 .. MaxFrames]
  BY <1>1 DEF CudaTyped, Events
<1>7. /\ sd >= -1 /\ reached["copied"] = delivered + Copies(sd)
      /\ \A i \in 1 .. PacketFrames : 3 * i - 1 <= sd => slots[i] = delivered + i
  BY <1>4 DEF Behind, StagerRun, StagerLag
<1> HIDE DEF op, n
<1>8. /\ cd + 1 >= 1 => reached'["copied"] >= delivered' + n
      /\ decoded' = Frames(IF cd + 1 < 2 THEN delivered' ELSE delivered' + n)
      /\ reached'["copied"] = reached["copied"]
      /\ reached'["codes_ready"] = reached["codes_ready"]
      /\ reached'["semantic_ready"] = reached["semantic_ready"]
      /\ UNCHANGED <<codes, slots>>
  <2>1. CASE cd = 0
    <3>1. op = [op |-> "wait", event |-> "copied", upto |-> delivered + n]
      BY <1>5, <2>1 DEF CodecOp, n
    <3>2. reached["copied"] >= delivered + n /\ UNCHANGED <<codes, reached, slots, decoded>>
      BY <1>1, <3>1, Effects DEF op, Streams
    <3>3. QED
      BY <1>1, <1>5, <2>1, <3>2
  <2>2. CASE cd = 1
    <3>1. op = Snapshot(n)
      BY <1>5, <2>2 DEF CodecOp, n
    <3>2. decoded' = decoded \o SubSeq(slots, 1, n) /\ UNCHANGED <<reached, codes, slots>>
      <4>1. op.op = "snapshot" /\ op.frames = n
        BY <3>1 DEF Snapshot
      <4>2. QED
        BY <1>1, <4>1, Effects DEF op, Streams
    <3>3. \A i \in 1 .. n : slots[i] = delivered + i
      <4>1. Copies(sd) >= n
        BY <1>1, <1>5, <1>7, <2>2 DEF Copies
      <4>2. sd >= 3 * n
        BY <1>5, <1>7, <4>1 DEF Copies
      <4>3. QED
        BY <1>5, <1>7, <4>2
    <3>4. decoded = Frames(delivered)
      BY <1>5, <2>2
    <3>5. slots \in Seq(0 .. MaxFrames) /\ Len(slots) = PacketFrames
      BY <1>6
    <3>6. /\ SubSeq(slots, 1, n) \in Seq(0 .. MaxFrames) /\ Len(SubSeq(slots, 1, n)) = n
          /\ \A i \in 1 .. n : SubSeq(slots, 1, n)[i] = delivered + i
      BY <1>5, <3>3, <3>5, SubSeqProperties
    <3>7. Frames(delivered) \in Seq(0 .. MaxFrames) /\ Frames(delivered + n) \in Seq(0 .. MaxFrames)
      BY <1>1, <1>5 DEF Frames
    <3>8. decoded' \in Seq(0 .. MaxFrames) /\ Len(decoded') = delivered + n
      BY <1>1, <1>5, <3>2, <3>4, <3>6, <3>7, ConcatProperties DEF Frames
    <3>9. ASSUME NEW i \in 1 .. delivered + n PROVE decoded'[i] = i
      BY <1>1, <1>5, <3>2, <3>4, <3>6, <3>7, ConcatProperties DEF Frames
    <3>10. decoded' = Frames(delivered + n)
      BY <1>1, <1>5, <3>7, <3>8, <3>9, SeqEqual DEF Frames
    <3>11. QED
      BY <1>1, <1>5, <2>2, <3>2, <3>10
  <2>3. CASE cd = 2
    <3>1. op = Record("consumed")
      BY <1>5, <2>3 DEF CodecOp
    <3>2. reached' = [reached EXCEPT !["consumed"] = @ + 1] /\ UNCHANGED <<codes, slots, decoded>>
      BY <1>1, <3>1, Effects DEF op, Record, Streams
    <3>3. /\ reached'["copied"] = reached["copied"]
          /\ reached'["codes_ready"] = reached["codes_ready"]
          /\ reached'["semantic_ready"] = reached["semantic_ready"]
      BY <1>6, <3>2
    <3>4. QED
      BY <1>1, <1>5, <2>3, <3>2, <3>3
  <2>4. QED
    BY <1>5, <2>1, <2>2, <2>3
<1>9. CodecRun(cd + 1, ct)'
  <2>1. Len(queue'["codec"]) = ct - (cd + 1)
    BY <1>3, <1>5
  <2>2. ASSUME NEW i \in 1 .. Len(queue'["codec"]) PROVE CodecOp(cd + 1 + i, queue["codec"][i])'
    <3>1. i + 1 \in 1 .. Len(queue["codec"]) /\ queue'["codec"][i] = queue["codec"][i + 1]
      BY <1>3
    <3>2. CodecOp(cd + (i + 1), queue["codec"][i + 1])
      BY <1>4, <3>1 DEF Behind, CodecRun
    <3>3. cd + (i + 1) = cd + 1 + i
      BY <3>1
    <3>4. QED
      BY <1>1, <3>1, <3>2, <3>3 DEF CodecOp, Snapshot, Record
  <2>3. host'.count = n
    BY <1>1 DEF n
  <2>4. QED
    BY <1>8, <2>1, <2>2, <2>3 DEF CodecRun
<1>10. TalkerRun(td, tt)'
  BY <1>1, <1>3, <1>4, <1>8, TalkerRunGoesOn DEF Behind
<1>11. StagerRun(sd, st)'
  BY <1>1, <1>3, <1>4, <1>8, StagerRunGoesOn DEF Behind
<1>12. TalkerLag(td, tt)' /\ StagerLag(sd, st)' /\ CodecLag(cd + 1, ct)'
  BY <1>1, <1>4, <1>5, LagShrinks
<1>13. cd + 1 \in Int /\ Behind(td, tt, sd, st, cd + 1, ct)'
  BY <1>9, <1>10, <1>11, <1>12 DEF Behind
<1>14. QED
  BY <1>1, <1>2, <1>13 DEF DeviceInv, QuietInv

-----------------------------------------------------------------------------
(* The invariant.                                                          *)

\* The program starts in the invariant.
LEMMA InvInit == Init => IInv
<1> SUFFICES ASSUME Init PROVE IInv
  OBVIOUS
<1> USE HandoffAssumption DEF HandoffAssumption
<1>1. 0 \in 0 .. MaxFaults /\ 0 \in 0 .. MaxFrames /\ 0 \in 0 .. PacketFrames
  OBVIOUS
<1>2. host \in Hosts /\ host.pc = "start"
  BY <1>1 DEF Init, Hosts
<1>3. talker \in Talker /\ stager \in Stagers /\ codec \in Codecs
  BY NewSessions DEF Init
<1>4. HostTyped
  BY <1>1, <1>2, <1>3 DEF Init, HostTyped
<1>5. TalkerInv /\ CountInv /\ SessionInv
  BY <1>2 DEF Init, TalkerInv, CountInv, SessionInv, NoTalker, InFrame, AtPacket, OnHost
<1>6. CudaTyped
  <2>1. <<>> \in Seq(Operations) /\ <<>> \in Seq(0 .. MaxFrames)
    OBVIOUS
  <2>2. queue \in [Streams -> Seq(Operations)]
    BY <2>1 DEF Init
  <2>3. QED
    BY <1>1, <2>1, <2>2 DEF Init, CudaTyped, NoFrames
<1>7. QuietInv /\ DeviceInv
  BY <1>2 DEF Init, QuietInv, DeviceInv, Drained, Streams
<1>8. QED
  BY <1>4, <1>5, <1>6, <1>7 DEF IInv, HostInv

\* Every step keeps it.
LEMMA InvNext == IInv /\ [Next]_vars => IInv'
<1> SUFFICES ASSUME IInv, [Next]_vars PROVE IInv'
  OBVIOUS
<1>1. HostInv
  BY DEF IInv
<1>2. CASE Acquire
  BY <1>1, <1>2, AcquireHost, AcquireKeeps DEF IInv
<1>3. CASE Prefill
  BY <1>1, <1>3, PrefillHost, PrefillKeeps DEF IInv
<1>4. CASE Open
  BY <1>1, <1>4, OpenHost, OpenKeeps DEF IInv
<1>5. CASE BeginStep
  BY <1>1, <1>5, BeginStepHost, BeginStepKeeps DEF IInv
<1>6. CASE BeginFrame
  BY <1>1, <1>6, BeginFrameHost, BeginFrameKeeps DEF IInv
<1>7. CASE StageFrame
  BY <1>1, <1>7, StageFrameHost, StageFrameKeeps DEF IInv
<1>8. CASE FinishFrame
  BY <1>1, <1>8, FinishFrameHost, FinishFrameKeeps DEF IInv
<1>9. CASE CommitFrame
  BY <1>1, <1>9, CommitFrameHost, CommitFrameKeeps DEF IInv
<1>10. CASE AbandonFrame
  BY <1>1, <1>10, AbandonFrameHost, AbandonFrameKeeps DEF IInv
<1>11. CASE BeginPacket
  BY <1>1, <1>11, BeginPacketHost, BeginPacketKeeps DEF IInv
<1>12. CASE Release
  BY <1>1, <1>12, ReleaseHost, ReleaseKeeps DEF IInv
<1>13. CASE FinishPacket
  BY <1>1, <1>13, FinishPacketHost, FinishPacketKeeps DEF IInv
<1>14. CASE DropPacket
  BY <1>1, <1>14, DropPacketHost, DropPacketKeeps DEF IInv
<1>15. CASE HostFrame
  BY <1>1, <1>15, HostFrameHost, HostFrameKeeps DEF IInv
<1>16. CASE HostPacket
  BY <1>1, <1>16, HostPacketHost, HostPacketKeeps DEF IInv
<1>17. CASE Retire
  BY <1>1, <1>17, RetireHost, RetireKeeps DEF IInv
<1>18. ASSUME NEW s \in Streams, Execute(s) PROVE IInv'
  <2>1. HostInv' /\ CudaTyped'
    BY <1>1, <1>18, ExecuteHost, ExecuteTyped DEF IInv
  <2>2. QuietInv' /\ DeviceInv'
    BY <1>18, DrainingIsQuiet, TalkerExecutes, StagerExecutes, CodecExecutes DEF Streams
  <2>3. QED
    BY <2>1, <2>2 DEF IInv
<1>19. CASE UNCHANGED vars
  <2>1. UNCHANGED <<path, host, talker, stager, codec, delivered, cuda, faults>>
    BY <1>19 DEF vars
  <2>2. HostInv'
    BY <1>1, <2>1 DEF HostInv, HostTyped, TalkerInv, CountInv, SessionInv, Wanted, NewStager, NewCodec
  <2>3. CASE host.pc = "start"
    BY <2>1, <2>2, <2>3, SameCuda DEF IInv, QuietInv, DeviceInv, Drained, cuda
  <2>4. CASE host.pc # "start"
    <3>1. ASSUME NEW td \in Int, NEW tt \in Int, NEW sd \in Int, NEW st \in Int, NEW cd \in Int, NEW ct \in Int,
                 Behind(td, tt, sd, st, cd, ct)
          PROVE  TalkerLag(td, tt)' /\ StagerLag(sd, st)' /\ CodecLag(cd, ct)'
      BY <1>1, <2>1, <3>1, LagShrinks
    <3>2. LagsFollow
      BY <2>1, <2>2, <2>4, <3>1 DEF LagsFollow
    <3>3. QED
      BY <2>1, <2>2, <2>4, <3>2, ThreadKeeps DEF IInv
  <2>5. QED
    BY <2>3, <2>4
<1>20. QED
  BY <1>2, <1>3, <1>4, <1>5, <1>6, <1>7, <1>8, <1>9, <1>10, <1>11, <1>12, <1>13, <1>14, <1>15,
     <1>16, <1>17, <1>18, <1>19 DEF Next, Host

\* So it holds throughout.
LEMMA Invariant == Spec => []IInv
BY InvInit, InvNext, PTL DEF Spec

-----------------------------------------------------------------------------
(* What the invariant implies.                                             *)

\* A codec stream with n frames is the frames 1 .. n, and the talker has made
\* them.
LEMMA Decoded ==
  ASSUME IInv
  PROVE  /\ \E n \in Nat : decoded = Frames(n) /\ n <= talker.frames
         /\ host.pc \in {"idle", "complete"} => decoded = Frames(delivered)
<1> USE HandoffAssumption DEF HandoffAssumption
<1>1. delivered \in Nat /\ talker.frames \in Nat /\ host.count \in Nat
      /\ (host.pc # "start" => delivered <= talker.frames)
  BY DEF IInv, HostInv, HostTyped, Hosts, Talker, CountInv
<1>2. CASE host.pc = "start"
  BY <1>1, <1>2, FramesNone DEF IInv, QuietInv
<1>3. CASE host.pc # "start" /\ path = "host"
  BY <1>1, <1>3 DEF IInv, QuietInv
<1>4. CASE host.pc # "start" /\ path = "device"
  <2>1. PICK td, tt, sd, st, cd, ct \in Int : Behind(td, tt, sd, st, cd, ct)
    BY <1>4 DEF IInv, DeviceInv
  <2>2. /\ decoded = Frames(IF cd < 2 THEN delivered ELSE delivered + host.count)
        /\ cd >= 2 => delivered + host.count = talker.frames
        /\ host.pc \in {"idle", "complete"} => cd < 2
    BY <2>1 DEF Behind, CodecRun, CodecLag
  <2>3. QED
    BY <1>1, <1>4, <2>2
<1>5. QED
  BY <1>2, <1>3, <1>4 DEF IInv, HostInv, HostTyped

\* The frames 1 .. n, as a sequence.
LEMMA FramesLength ==
  ASSUME NEW n \in Nat PROVE Len(Frames(n)) = n /\ Frames(n) = [i \in 1 .. Len(Frames(n)) |-> i]
<1>1. Frames(n) \in Seq(Nat)
  BY DEF Frames
<1>2. Len(Frames(n)) = n
  BY <1>1 DEF Frames
<1>3. QED
  BY <1>2 DEF Frames

\* However the streams interleave and whatever call fails, the decoder
\* (codec_state.cu) gets the frames of a request once and in order, through
\* one frame buffer and one packet buffer; and a packet that is returned holds
\* all of them.
THEOREM HandoffInOrder == Spec => []FramesAreWhole
<1>1. ASSUME IInv PROVE FramesAreWhole
  <2>1. TypeOK
    BY <1>1 DEF IInv, HostInv, HostTyped, CudaTyped, TypeOK, Hosts, Stagers, Codecs
  <2>2. DecodedInOrder
    <3>1. PICK n \in Nat : decoded = Frames(n) /\ n <= talker.frames
      BY <1>1, Decoded
    <3>2. QED
      BY <3>1, FramesLength DEF DecodedInOrder
  <2>3. PacketIsWhole
    <3>1. SUFFICES ASSUME host.pc \in {"idle", "complete"}
                   PROVE  /\ delivered = talker.frames /\ Len(decoded) = talker.frames
                          /\ codec.finalized = (talker.end # "none")
                          /\ (host.pc = "complete") = codec.finalized
      BY DEF PacketIsWhole
    <3>2. delivered = talker.frames /\ delivered \in Nat
      BY <1>1, <3>1, HandoffAssumption DEF HandoffAssumption, IInv, HostInv, CountInv, HostTyped
    <3>3. Len(decoded) = delivered
      BY <1>1, <3>1, <3>2, Decoded, FramesLength
    <3>4. codec.finalized = (host.pc = "complete")
      BY <1>1, <3>1 DEF IInv, HostInv, SessionInv
    <3>5. (host.pc = "complete") = (talker.end # "none")
      BY <1>1, <3>1 DEF IInv, HostInv, SessionInv, TalkerInv
    <3>6. QED
      BY <3>2, <3>3, <3>4, <3>5
  <2>4. QED
    BY <2>1, <2>2, <2>3 DEF FramesAreWhole
<1>2. QED
  BY <1>1, Invariant, PTL

\* A step that has returned leaves no lease, ticket or staged frame, and only
\* a session that is neither leased nor poisoned goes back to the pool
\* (native_talker.rs, Drop of the session).
THEOREM NothingIsLeft == Spec => []NothingLeftBehind
<1>1. ASSUME IInv PROVE NothingLeftBehind
  <2>1. NothingHeldBetweenSteps
    <3>1. SUFFICES ASSUME host.pc = "idle"
                   PROVE  ~talker.lease /\ ~talker.poisoned /\ stager = NewStager /\ codec = NewCodec
      BY DEF NothingHeldBetweenSteps
    <3>2. ~talker.poisoned /\ ~talker.lease
      BY <1>1, <3>1 DEF IInv, HostInv, TalkerInv, InFrame
    <3>3. /\ ~stager.poisoned /\ stager.staged = 0
          /\ ~codec.cancelled /\ codec.pending = 0 /\ codec.finalized = FALSE
      BY <1>1, <3>1 DEF IInv, HostInv, SessionInv
    <3>4. stager \in Stagers /\ codec \in Codecs
      BY <1>1 DEF IInv, HostInv, HostTyped
    <3>5. QED
      BY <3>2, <3>3, <3>4 DEF Stagers, Codecs, NewStager, NewCodec
  <2>2. PooledIsClean
    BY <1>1 DEF IInv, HostInv, TalkerInv, PooledIsClean
  <2>3. QED
    BY <2>1, <2>2 DEF NothingLeftBehind
<1>2. QED
  BY <1>1, Invariant, PTL

\* A copy that has not run is of a later frame than the one the talker's next
\* kernel overwrites: that kernel is behind a wait for the copy.
LEMMA PendingCopyIsNewer ==
  ASSUME IInv, Execute("talker"), queue["talker"][1].op = "pack", NEW i \in 1 .. Len(queue["stager"]),
         queue["stager"][i].op = "copy"
  PROVE  queue["stager"][i].frame # codes
<1>1. path = "device" /\ host.pc # "start" /\ delivered \in Nat
  BY DEF IInv, QuietInv, Execute, Drained, Streams, HostInv, HostTyped
<1>2. PICK td, tt, sd, st, cd, ct \in Int : Behind(td, tt, sd, st, cd, ct)
  BY <1>1 DEF IInv, DeviceInv
<1> DEFINE op == queue["talker"][1]
           copy == queue["stager"][i]
<1>3. TalkerOp(td + 1, op) /\ td \in Nat
  <2>1. 1 \in 1 .. Len(queue["talker"])
    BY Executed DEF IInv, Streams
  <2>2. QED
    BY <1>2, <2>1 DEF Behind, TalkerRun, TalkerLag
<1>4. StagerOp(sd + i, st, copy) /\ sd >= -1 /\ i \in Nat /\ i >= 1
  <2>1. StagerOp(sd + i, st, copy) /\ sd >= -1
    BY <1>2 DEF Behind, StagerRun, StagerLag
  <2>2. i \in Nat /\ i >= 1
    OBVIOUS
  <2>3. QED
    BY <2>1, <2>2
<1>5. /\ codes = (td + 3) \div 4 /\ reached["copied"] >= td \div 4
      /\ reached["copied"] = delivered + Copies(sd)
  BY <1>2 DEF Behind, TalkerRun, StagerRun
<1> HIDE DEF op, copy
<1>6. (td + 1) % 4 = 1
  <2>1. (td + 1) % 4 \in {0, 1, 2, 3}
    BY <1>3
  <2>2. op.op = "pack"
    BY DEF op
  <2>3. QED
    BY <1>3, <2>1, <2>2 DEF TalkerOp, Record
<1>7. (sd + i) % 3 = 2
  <2>1. (sd + i) % 3 \in {0, 1, 2}
    BY <1>4, SMTT(60)
  <2>2. copy.op = "copy"
    BY DEF copy
  <2>3. QED
    BY <1>4, <2>1, <2>2 DEF StagerOp, Record
<1>8. copy.frame = delivered + (sd + i + 2) \div 3
  BY <1>4, <1>7 DEF StagerOp
<1>9. Copies(sd) < (sd + i + 2) \div 3
  <2> DEFINE x == sd + i
             m == x \div 3
  <2>1. x \in Int /\ x >= sd + 1 /\ x % 3 = 2
    BY <1>4, <1>7, SMTT(60)
  <2>2. (sd + i + 2) \div 3 = (x + 2) \div 3
    OBVIOUS
  <2> HIDE DEF x
  <2>3. m \in Int /\ x = 3 * m + 2
    BY <2>1
  <2> HIDE DEF m
  <2>4. (x + 2) \div 3 = m + 1
    BY <2>3
  <2>5. CASE sd < 0
    <3>1. m >= 0
      BY <1>4, <2>1, <2>3
    <3>2. QED
      BY <2>2, <2>3, <2>4, <2>5, <3>1 DEF Copies
  <2>6. CASE ~(sd < 0)
    <3>1. sd <= 3 * m + 1
      BY <2>1, <2>3
    <3>2. sd \div 3 <= m /\ sd \div 3 \in Int
      BY <2>3, <3>1
    <3>3. QED
      BY <2>2, <2>3, <2>4, <2>6, <3>2 DEF Copies
  <2>7. QED
    BY <2>5, <2>6
<1>10. codes = td \div 4
  BY <1>3, <1>5, <1>6
<1>11. copy.frame > codes
  <2>1. Copies(sd) \in Int /\ (sd + i + 2) \div 3 \in Int /\ td \div 4 \in Int
    BY <1>3, <1>4 DEF Copies
  <2>2. QED
    BY <1>1, <1>5, <1>8, <1>9, <1>10, <2>1
<1>12. QED
  BY <1>1, <1>3, <1>10, <1>11 DEF copy

\* The talker's buffer keeps a frame until the stager has copied it, after a
\* failed copy or a failed event too (finish_frame orders the consumer).
THEOREM CopiesAreInTime == Spec => CopiedBeforeOverwritten
<1>1. ASSUME IInv, [Next]_vars, NEW i \in 1 .. Len(queue["stager"]),
             queue["stager"][i].op = "copy", queue["stager"][i].frame = codes
      PROVE  codes' = codes
  <2>1. ~Drained("stager")
    BY <1>1 DEF Drained, IInv, CudaTyped, Streams
  <2>2. host.pc # "start"
    BY <1>1, <2>1 DEF IInv, QuietInv
  <2>3. CASE UNCHANGED vars
    BY <2>3 DEF vars, cuda
  <2>4. CASE Host
    BY <2>2, <2>4, Zenon
       DEF Host, Acquire, At, Prefill, Open, BeginStep, BeginFrame, StageFrame, FinishFrame,
           CommitFrame, AbandonFrame, BeginPacket, Release, FinishPacket, DropPacket, HostFrame,
           HostPacket, Retire, Enqueue, EnqueuePart, cuda
  <2>5. ASSUME NEW s \in Streams, Execute(s) PROVE codes' = codes
    <3>1. queue[s][1].op # "pack" => codes' = codes
      BY <2>5, Executed, <1>1 DEF Execute, IInv
    <3>2. s = "talker" => queue[s][1].op # "pack"
      BY <1>1, <2>5, PendingCopyIsNewer
    <3>3. s # "talker" => queue[s][1].op # "pack"
      <4>1. SUFFICES ASSUME s # "talker" PROVE queue[s][1].op # "pack"
        OBVIOUS
      <4>2. path = "device" /\ 1 \in 1 .. Len(queue[s])
        <5>1. path = "device"
          BY <1>1, <2>5 DEF IInv, QuietInv, Execute, HostInv, HostTyped
        <5>2. Len(queue[s]) \in Nat /\ Len(queue[s]) >= 1
          BY <1>1, <2>5, Executed DEF IInv
        <5>3. QED
          BY <5>1, <5>2
      <4>3. PICK td, tt, sd, st, cd, ct \in Int : Behind(td, tt, sd, st, cd, ct)
        BY <1>1, <2>2, <4>2 DEF IInv, DeviceInv
      <4>4. CASE s = "stager"
        <5>1. StagerOp(sd + 1, st, queue["stager"][1]) /\ sd >= -1
          BY <4>2, <4>3, <4>4 DEF Behind, StagerRun, StagerLag
        <5>2. (sd + 1) % 3 \in {0, 1, 2}
          BY <5>1
        <5>3. QED
          BY <4>4, <5>1, <5>2 DEF StagerOp, Record
      <4>5. CASE s = "codec"
        <5>1. CodecOp(cd + 1, queue["codec"][1])
          BY <4>2, <4>3, <4>5 DEF Behind, CodecRun
        <5>2. cd + 1 \in {1, 2, 3}
          <6>1. Len(queue["codec"]) >= 1 /\ Len(queue["codec"]) \in Nat
            BY <1>1, <2>5, <4>5, Executed DEF IInv, Streams
          <6>2. Len(queue["codec"]) = ct - cd /\ cd >= 0 /\ ct <= 3
            BY <4>3 DEF Behind, CodecRun, CodecLag
          <6>3. QED
            BY <6>1, <6>2
        <5>3. QED
          BY <4>5, <5>1, <5>2 DEF CodecOp, Snapshot, Record
      <4>6. QED
        BY <4>1, <4>4, <4>5 DEF Streams
    <3>4. QED
      BY <3>1, <3>2, <3>3
  <2>6. QED
    BY <1>1, <2>3, <2>4, <2>5 DEF Next
<1>2. IInv /\ [Next]_vars =>
        [\A i \in 1 .. Len(queue["stager"]) :
           LET op == queue["stager"][i]
           IN  op.op = "copy" /\ op.frame = codes => codes' = codes]_vars
  BY <1>1
<1>3. QED
  BY <1>2, Invariant, PTL DEF Spec, CopiedBeforeOverwritten

-----------------------------------------------------------------------------
(* The backend's contract with the scheduler.                              *)

\* A step that returns no packet changes the session at most by failing.
LEMMA NoPacketKeepsContract ==
  ASSUME UNCHANGED delivered,
         Session' = Session \/ (Session = "open" /\ Session' = "failed")
  PROVE  [Contract!Next]_Contract!vars
<1>1. CASE Session' = Session
  BY <1>1 DEF Contract!vars
<1>2. CASE Session = "open" /\ Session' = "failed"
  BY <1>2 DEF Contract!Next, Contract!Fail
<1>3. QED
  BY <1>1, <1>2

\* A packet holds the frames the step has counted: the contract's Step.
LEMMA PacketKeepsContract ==
  ASSUME IInv, host.pc \in {"finishPacket", "hostPacket"},
         delivered' = delivered + host.count, host'.pc = Returned
  PROVE  Contract!Next
<1> USE HandoffAssumption DEF HandoffAssumption
<1>1. /\ host.count \in 1 .. host.want /\ host.want = Wanted /\ delivered + host.count = talker.frames
      /\ (host.count < host.want => talker.end # "none")
      /\ (talker.end = "none" => talker.frames < MaxFrames)
  BY DEF IInv, HostInv, CountInv, AtPacket, OnHost
<1>2. talker.frames <= MaxFrames /\ delivered \in Nat
  BY DEF IInv, HostInv, HostTyped, Talker
<1>3. Session = "open" /\ Session' = IF talker.end # "none" THEN "complete" ELSE "open"
  BY DEF Session, Returned, IsFinal
<1>4. Contract!Step
  BY <1>1, <1>2, <1>3 DEF Contract!Step, Wanted
<1>5. QED
  BY <1>4 DEF Contract!Next

\* Each step of the thread is a step of the contract, or none at all.
LEMMA StepKeepsContract ==
  ASSUME IInv, [Next]_vars PROVE [Contract!Next]_Contract!vars
<1>1. host \in Hosts /\ HostInv
  BY DEF IInv, HostInv, HostTyped
<1>2. CASE Acquire \/ Prefill
  <2>1. /\ UNCHANGED delivered /\ host.pc \in {"start", "prefill"}
        /\ host'.pc \in {"start", "prefill", "open"}
    BY <1>1, <1>2 DEF Acquire, Prefill, At, Goto, Hosts
  <2>2. QED
    BY <2>1, NoPacketKeepsContract DEF Session
<1>3. CASE Open
  <2>1. /\ UNCHANGED delivered /\ host.pc = "open" /\ host'.pc \in {"idle", "start"}
        /\ delivered = 0
    BY <1>1, <1>3 DEF Open, At, Goto, Hosts, HostInv, CountInv
  <2>2. CASE host'.pc = "start"
    BY <2>1, <2>2, NoPacketKeepsContract DEF Session
  <2>3. CASE host'.pc = "idle"
    <3>1. Session = "none" /\ Session' = "open" /\ delivered' = 0
      BY <2>1, <2>3 DEF Session
    <3>2. QED
      BY <3>1 DEF Contract!Next, Contract!Open
  <2>4. QED
    BY <2>1, <2>2, <2>3
<1>4. CASE BeginStep \/ BeginFrame \/ StageFrame \/ FinishFrame \/ BeginPacket \/ Release
  <2>1. /\ UNCHANGED delivered
        /\ host.pc \in {"idle", "begin", "stage", "finish", "packet", "release"}
        /\ host'.pc \in {"begin", "hostFrame", "stage", "failed", "finish", "abandon", "semantic",
                         "release", "finishPacket", "dropPacket"}
    BY <1>1, <1>4
       DEF BeginStep, BeginFrame, StageFrame, FinishFrame, BeginPacket, Release, At, Goto, Hosts
  <2>2. Session = "open" /\ Session' \in {"open", "failed"}
    BY <2>1 DEF Session
  <2>3. QED
    BY <2>1, <2>2, NoPacketKeepsContract
<1>5. CASE CommitFrame \/ HostFrame
  <2>1. /\ UNCHANGED delivered /\ host.pc \in {"semantic", "hostFrame"}
        /\ host'.pc \in {"begin", "packet", "hostFrame", "hostPacket", "failed"}
    BY <1>1, <1>5 DEF CommitFrame, HostFrame, NextFrame, At, Goto, Hosts
  <2>2. Session = "open" /\ Session' \in {"open", "failed"}
    BY <2>1 DEF Session
  <2>3. QED
    BY <2>1, <2>2, NoPacketKeepsContract
<1>6. CASE AbandonFrame \/ DropPacket
  <2>1. /\ UNCHANGED delivered /\ host.pc \in {"abandon", "dropPacket"} /\ host'.pc = "failed"
    BY <1>1, <1>6 DEF AbandonFrame, DropPacket, At, Goto, Hosts
  <2>2. QED
    BY <2>1, NoPacketKeepsContract DEF Session
<1>7. CASE FinishPacket \/ HostPacket
  <2>1. /\ host.pc \in {"finishPacket", "hostPacket"}
        /\ \/ delivered' = delivered + host.count /\ host'.pc = Returned
           \/ UNCHANGED delivered /\ host'.pc \in {"dropPacket", "failed"}
    BY <1>1, <1>7 DEF FinishPacket, HostPacket, At, Goto, Hosts
  <2>2. CASE delivered' = delivered + host.count /\ host'.pc = Returned
    BY <2>1, <2>2, PacketKeepsContract
  <2>3. CASE UNCHANGED delivered /\ host'.pc \in {"dropPacket", "failed"}
    <3>1. Session = "open" /\ Session' = "failed"
      BY <2>1, <2>3 DEF Session
    <3>2. QED
      BY <2>3, <3>1, NoPacketKeepsContract
  <2>4. QED
    BY <2>1, <2>2, <2>3
<1>8. CASE Retire
  <2>1. host.pc \in {"idle", "failed", "complete"} /\ host'.pc = "start" /\ delivered' = 0
    BY <1>1, <1>8 DEF Retire, DropSession, Goto, Hosts
  <2>2. Session # "none" /\ Session' = "none"
    BY <2>1 DEF Session
  <2>3. QED
    BY <2>1, <2>2 DEF Contract!Next, Contract!Close
<1>9. ASSUME NEW s \in Streams, Execute(s) PROVE UNCHANGED <<host, delivered>>
  BY <1>9 DEF Execute
<1>10. CASE UNCHANGED <<host, delivered>>
  BY <1>10, NoPacketKeepsContract DEF Session
<1>11. QED
  BY <1>2, <1>3, <1>4, <1>5, <1>6, <1>7, <1>8, <1>9, <1>10 DEF Next, Host, vars

\* What the scheduler checks of a session's packets (scheduler.rs,
\* handle_step_result): the frames wanted, fewer only in the last packet, and
\* never more than max_codec_frames, on either path and after any failure.
THEOREM ContractIsKept == Spec => KeepsBackendContract
<1>1. Init => Contract!Init
  BY DEF Init, Contract!Init, Session
<1>2. IInv /\ [Next]_vars => [Contract!Next]_Contract!vars
  BY StepKeepsContract
<1>3. QED
  BY <1>1, <1>2, Invariant, PTL DEF Spec, KeepsBackendContract, Contract!Spec
=============================================================================
