----------------------- MODULE SchedulerStreamProofs -----------------------
(***************************************************************************)
(* More about the scheduler for every number of requests, capacity, ring   *)
(* size, packet size and channel bound: what a retired request has left    *)
(* behind, where its PCM buffers are, and what its client is given.        *)
(***************************************************************************)
EXTENDS SchedulerProofs

-----------------------------------------------------------------------------
(* The inductive invariant.                                                *)

QueuedCancels(q) ==
  {r \in Requests : \E i \in DOMAIN q : q[i].kind = "cancel" /\ q[i].id = r}

\* The working sets of the worker at each point of its loop.
At(p) == Walking(worker, p)

ShapeInv ==
  /\ worker.todo \subseteq worker.active
  /\ worker.todo # {} =>
       At("sweep") \/ At("reap") \/ worker.pc \in {"scan", "scanFree", "take"}
  /\ worker.batch \subseteq worker.active
  /\ worker.batch # {} => worker.pc \in {"scan", "scanFree", "take", "step"}
  /\ worker.todo \cap worker.batch = {}
  /\ worker.ready # {} => At("filter") \/ At("prefill")
  /\ worker.pc \notin {"scanFree", "release", "retire"} => worker.cur = {}
  /\ \A r, x \in worker.cur : r = x
  /\ worker.pc = "scanFree" => worker.cur \subseteq worker.todo
  /\ worker.pc \in {"closing", "done"} =>
       worker.active = {} /\ worker.pending = {} /\ QueuedStarts(commands) = {}

\* Where the worker has request r.
Waiting(r) ==
  \/ handle[r] \in {"new", "starting"}
  \/ r \in QueuedStarts(commands) \cup worker.pending \cup worker.ready
Releasing(r) == worker.pc = "release" /\ r \in worker.cur
Retiring(r) == worker.pc = "retire" /\ r \in worker.cur
Accepting(r) == worker.pc = "scanFree" /\ r \in worker.cur
Scanned(r) ==
  \/ worker.pc \in {"scan", "scanFree"} /\ r \in worker.batch
  \/ worker.pc = "take" /\ r \in worker.todo
Took(r) == worker.pc \in {"take", "step"} /\ r \in worker.batch
Stepped(r) ==
  \/ worker.pc = "step" /\ r \notin worker.batch
  \/ At("reap") /\ r \in worker.todo

\* The client has been told, or can be, how the request ends.
Decided(s) == s.producer_finished \/ s.failure # "none" \/ s.cancel_requested

\* A request loses permit and session before it is marked retired.
LifeInv(r) ==
  /\ handle[r] \in {"new", "starting"} => state[r] = NewState
  /\ permit[r] => ~state[r].retired
  /\ permit[r] \/ handle[r] = "new" \/ state[r].retired \/ Retiring(r)
  /\ Retiring(r) => ~permit[r] /\ ~state[r].retired /\ session[r] \in {"none", "dropped"}
  /\ state[r].retired => session[r] \in {"none", "dropped"}
  /\ Waiting(r) => session[r] = "none"
  /\ r \in worker.active => session[r] = "open"
  /\ Releasing(r) /\ session[r] = "open" =>
       state[r].producer_finished /\ state[r].failure = "none"
  /\ Releasing(r) \/ Retiring(r) \/ state[r].retired => Decided(state[r])

\* What the scan has seen of a request stays true until its packet is pushed.
BufferInv(r) ==
  /\ Alive(r) => BuffersOf(r) = RingSlots
  /\ state[r].failure \in {"none", "backend"}
  /\ Accepting(r) \/ Scanned(r) \/ Took(r) => state[r].failure = "none"
  /\ Scanned(r) => free[r] > 0

\* The packets q continue the audio from frame e to frame n.
StartOf(q, e, i) == IF i = 1 THEN e ELSE q[i - 1].first + q[i - 1].frames
Chain(q, e, n, finished) ==
  /\ \A i \in 1 .. Len(q) :
       /\ q[i].first = StartOf(q, e, i)
       /\ q[i].frames \in 1 .. PacketFrames
       /\ q[i].final => i = Len(q) /\ finished
  /\ StartOf(q, e, Len(q) + 1) = n

\* A withdrawn request is silent for good; the audio of another is whole, and
\* once its last packet is queued the worker steps it no more.
StreamInv(r) ==
  LET s == state[r]
  IN  /\ s.phase = "Cancelled" => s.cancel_requested
      /\ handle[r] \in {"cancelling", "dropping"} \/ r \in QueuedCancels(commands) =>
           s.cancel_requested
      /\ Withdrawn(s) =>
           s.packets = <<>> /\ s.finish_reason = "None" /\ s.phase # "Completed"
      /\ ~Withdrawn(s) =>
           /\ Chain(s.packets, s.emitted, produced[r], s.producer_finished)
           /\ produced[r] <= MaxFrames
           /\ produced[r] = MaxFrames => s.producer_finished
           /\ s.phase = "Completed" => s.producer_finished /\ s.packets = <<>>
           /\ s.producer_finished <=> s.finish_reason # "None"
           /\ Waiting(r) => ~s.producer_finished /\ produced[r] = 0
           /\ r \in worker.active /\ s.producer_finished => Stepped(r)

RequestInv(r) == LifeInv(r) /\ BufferInv(r) /\ StreamInv(r)

StreamIInv == ShapeInv /\ \A r \in Requests : RequestInv(r)

-----------------------------------------------------------------------------
(* Cancel commands in the channel.                                         *)

\* Lossy wakes, sends and receptions of other commands add no Cancel.
LEMMA WokenCancels ==
  ASSUME NEW q \in Seq(Command), Len(q) <= ChannelCap, NEW n \in Nat
  PROVE  QueuedCancels(Woken(q, n)) \subseteq QueuedCancels(q)
<1>1. \A i \in DOMAIN Woken(q, n) :
        \/ i \in DOMAIN q /\ Woken(q, n)[i] = q[i]
        \/ i \notin DOMAIN q /\ Woken(q, n)[i] = Wake
  BY WokenCommands
<1>2. Wake.kind # "cancel"
  BY DEF Wake
<1>3. QED
  BY <1>1, <1>2 DEF QueuedCancels

LEMMA SendCancels ==
  ASSUME NEW q \in Seq(Command), NEW c \in Command
  PROVE  \A r \in QueuedCancels(Append(q, c)) :
           r \in QueuedCancels(q) \/ (c.kind = "cancel" /\ c.id = r)
<1> DEFINE z == Append(q, c)
<1>1. /\ DOMAIN z = 1 .. (Len(q) + 1) /\ DOMAIN q = 1 .. Len(q) /\ Len(q) \in Nat
      /\ \A i \in 1 .. Len(q) : z[i] = q[i]
      /\ z[Len(q) + 1] = c
  OBVIOUS
<1> HIDE DEF z
<1>2. \A i \in DOMAIN z : i \in DOMAIN q \/ i = Len(q) + 1
  BY <1>1
<1>3. \A r \in QueuedCancels(z) : r \in QueuedCancels(q) \/ (c.kind = "cancel" /\ c.id = r)
  BY <1>1, <1>2 DEF QueuedCancels
<1>4. QED
  BY <1>3 DEF z

LEMMA ReceiveCancels ==
  ASSUME NEW q \in Seq(Command), q # <<>>
  PROVE  /\ QueuedCancels(Tail(q)) \subseteq QueuedCancels(q)
         /\ Head(q).kind = "cancel" /\ Head(q).id \in Requests =>
              Head(q).id \in QueuedCancels(q)
<1> DEFINE z == Tail(q)
<1>1. /\ DOMAIN z = 1 .. (Len(q) - 1) /\ DOMAIN q = 1 .. Len(q)
      /\ Len(q) \in Nat /\ Len(q) >= 1
      /\ \A i \in 1 .. (Len(q) - 1) : z[i] = q[i + 1]
      /\ Head(q) = q[1]
  OBVIOUS
<1> HIDE DEF z
<1>2. 1 \in DOMAIN q /\ \A i \in DOMAIN z : i + 1 \in DOMAIN q /\ z[i] = q[i + 1]
  BY <1>1
<1>3. QueuedCancels(z) \subseteq QueuedCancels(q)
  BY <1>2 DEF QueuedCancels
<1>4. QED
  BY <1>1, <1>2, <1>3 DEF QueuedCancels, z

-----------------------------------------------------------------------------
(* The transitions of a request's state, field by field.                   *)

\* mark_cancelled, mark_failed and cancel leave nothing queued.
LEMMA MarkFields ==
  ASSUME NEW s \in RequestState, NEW e
  PROVE  /\ LET x == MarkCancelled(s)
            IN  /\ x.phase = "Cancelled" /\ x.packets = <<>> /\ x.producer_finished
                /\ x.finish_reason = "None" /\ x.retired = s.retired
                /\ x.cancel_requested /\ x.failure = s.failure /\ x.emitted = s.emitted
         /\ LET x == MarkFailed(s, e)
            IN  /\ x.phase = "Failed" /\ x.packets = <<>> /\ x.producer_finished
                /\ x.finish_reason = "None" /\ x.retired = s.retired
                /\ x.cancel_requested = s.cancel_requested /\ x.failure = e
                /\ x.emitted = s.emitted
         /\ LET x == RequestCancel(s)
            IN  /\ x.phase = s.phase /\ x.packets = <<>>
                /\ x.producer_finished = s.producer_finished
                /\ x.finish_reason = "None" /\ x.retired = s.retired
                /\ x.cancel_requested /\ x.failure = s.failure /\ x.emitted = s.emitted
<1>1. s = [phase |-> s.phase, packets |-> s.packets,
           producer_finished |-> s.producer_finished,
           finish_reason |-> s.finish_reason, retired |-> s.retired,
           cancel_requested |-> s.cancel_requested, failure |-> s.failure,
           emitted |-> s.emitted]
  BY DEF RequestState
<1>2. QED
  BY <1>1 DEF MarkCancelled, MarkFailed, RequestCancel

\* A move of the phase, and retirement.
LEMMA PhaseFields ==
  ASSUME NEW s \in RequestState, NEW ph
  PROVE  /\ LET x == [s EXCEPT !.phase = ph]
            IN  /\ x.phase = ph /\ x.packets = s.packets
                /\ x.producer_finished = s.producer_finished
                /\ x.finish_reason = s.finish_reason /\ x.retired = s.retired
                /\ x.cancel_requested = s.cancel_requested
                /\ x.failure = s.failure /\ x.emitted = s.emitted
         /\ LET x == [s EXCEPT !.retired = TRUE]
            IN  /\ x.phase = s.phase /\ x.packets = s.packets
                /\ x.producer_finished = s.producer_finished
                /\ x.finish_reason = s.finish_reason /\ x.retired
                /\ x.cancel_requested = s.cancel_requested
                /\ x.failure = s.failure /\ x.emitted = s.emitted
  BY DEF RequestState

\* push_packet, which marks the end of the stream with its last packet.
LEMMA PushFields ==
  ASSUME NEW s \in RequestState, NEW p \in Packet
  PROVE  LET x == PushPacket(s, p)
         IN  /\ x.packets = Append(s.packets, p)
             /\ x.phase = IF p.final THEN "Draining" ELSE s.phase
             /\ x.producer_finished = (p.final \/ s.producer_finished)
             /\ x.finish_reason = IF p.final THEN p.reason ELSE s.finish_reason
             /\ x.retired = s.retired /\ x.cancel_requested = s.cancel_requested
             /\ x.failure = s.failure /\ x.emitted = s.emitted
<1>1. p.final \in BOOLEAN /\ s.producer_finished \in BOOLEAN
  BY DEF Packet, RequestState
<1>2. CASE p.final
  BY <1>1, <1>2 DEF PushPacket, RequestState
<1>3. CASE ~p.final
  BY <1>1, <1>3 DEF PushPacket, RequestState
<1>4. QED
  BY <1>2, <1>3

\* poll when it hands out a packet.
LEMMA PopFields ==
  ASSUME NEW s \in RequestState, s.packets # <<>>
  PROVE  LET x == PopPacket(s)
             p == Head(s.packets)
         IN  /\ x.packets = Tail(s.packets) /\ x.emitted = s.emitted + p.frames
             /\ x.phase = IF p.final /\ Tail(s.packets) = <<>> THEN "Completed"
                          ELSE s.phase
             /\ x.producer_finished = s.producer_finished
             /\ x.finish_reason = s.finish_reason /\ x.retired = s.retired
             /\ x.cancel_requested = s.cancel_requested /\ x.failure = s.failure
<1> DEFINE p == Head(s.packets)
           y == [s EXCEPT !.packets = Tail(@), !.emitted = @ + p.frames]
<1>1. /\ y.packets = Tail(s.packets) /\ y.emitted = s.emitted + p.frames
      /\ y.phase = s.phase /\ y.producer_finished = s.producer_finished
      /\ y.finish_reason = s.finish_reason /\ y.retired = s.retired
      /\ y.cancel_requested = s.cancel_requested /\ y.failure = s.failure
  BY DEF RequestState
<1>2. DEFINE z == [y EXCEPT !.phase = "Completed"]
<1>3. /\ z.packets = y.packets /\ z.emitted = y.emitted
      /\ z.phase = "Completed" /\ z.producer_finished = y.producer_finished
      /\ z.finish_reason = y.finish_reason /\ z.retired = y.retired
      /\ z.cancel_requested = y.cancel_requested /\ z.failure = y.failure
  BY DEF RequestState
<1>4. PopPacket(s) = IF p.final /\ y.packets = <<>> THEN z ELSE y
  BY DEF PopPacket
<1> HIDE DEF y, z, p
<1>5. QED
  BY <1>1, <1>3, <1>4 DEF p

-----------------------------------------------------------------------------
(* Packets that continue the audio.                                        *)

PacketSeq == Seq(Packet)

LEMMA ChainEmpty ==
  ASSUME NEW e, NEW n, NEW finished
  PROVE  Chain(<<>>, e, n, finished) <=> e = n
<1>1. Len(<<>>) = 0 /\ 1 .. 0 = {}
  OBVIOUS
<1>2. QED
  BY <1>1 DEF Chain, StartOf

\* A packet queued behind packets of which none is the last.
LEMMA ChainGrows ==
  ASSUME NEW q \in PacketSeq, NEW e \in Nat, NEW n \in Nat, NEW p \in Packet,
         Chain(q, e, n, FALSE), p.first = n, p.frames \in 1 .. PacketFrames
  PROVE  Chain(Append(q, p), e, n + p.frames, p.final)
<1> DEFINE z == Append(q, p)
<1>1. /\ Len(q) \in Nat /\ Len(z) = Len(q) + 1
      /\ \A i \in 1 .. Len(q) : z[i] = q[i] /\ i \in 1 .. Len(z)
      /\ z[Len(q) + 1] = p
      /\ \A i \in 1 .. Len(z) : i \in 1 .. Len(q) \/ i = Len(q) + 1
  BY DEF PacketSeq
<1> HIDE DEF z
<1>2. \A i \in 1 .. Len(q) : StartOf(z, e, i) = StartOf(q, e, i)
  <2> SUFFICES ASSUME NEW i \in 1 .. Len(q), i # 1
               PROVE  z[i - 1] = q[i - 1]
    BY DEF StartOf
  <2>1. i - 1 \in 1 .. Len(q)
    BY <1>1
  <2>2. QED
    BY <1>1, <2>1
<1>3. StartOf(z, e, Len(q) + 1) = n
  <2>1. CASE Len(q) = 0
    BY <2>1 DEF Chain, StartOf
  <2>2. CASE Len(q) # 0
    <3>1. Len(q) + 1 # 1 /\ (Len(q) + 1) - 1 = Len(q) /\ Len(q) \in 1 .. Len(q)
      BY <1>1, <2>2
    <3>2. QED
      BY <1>1, <3>1 DEF Chain, StartOf
  <2>3. QED
    BY <2>1, <2>2
<1>4. StartOf(z, e, Len(z) + 1) = n + p.frames
  <2>1. Len(z) + 1 # 1 /\ (Len(z) + 1) - 1 = Len(q) + 1
    BY <1>1
  <2>2. QED
    BY <1>1, <2>1 DEF StartOf
<1>5. ASSUME NEW i \in 1 .. Len(z)
      PROVE  /\ z[i].first = StartOf(z, e, i) /\ z[i].frames \in 1 .. PacketFrames
             /\ z[i].final => i = Len(z) /\ p.final
  <2>1. CASE i \in 1 .. Len(q)
    <3>1. z[i] = q[i] /\ StartOf(z, e, i) = StartOf(q, e, i)
      BY <1>1, <1>2, <2>1
    <3>2. q[i].first = StartOf(q, e, i) /\ q[i].frames \in 1 .. PacketFrames /\ ~q[i].final
      BY <2>1 DEF Chain
    <3>3. QED
      BY <3>1, <3>2
  <2>2. CASE i = Len(q) + 1
    BY <1>1, <1>3, <2>2
  <2>3. QED
    BY <1>1, <2>1, <2>2
<1>6. QED
  BY <1>4, <1>5 DEF Chain, z

\* Handing out the first packet; if it is the last of the stream, nothing is
\* left.
LEMMA ChainShrinks ==
  ASSUME NEW q \in PacketSeq, q # <<>>, NEW e \in Nat, NEW n, NEW finished,
         Chain(q, e, n, finished)
  PROVE  /\ Chain(Tail(q), e + Head(q).frames, n, finished)
         /\ Head(q).final => Tail(q) = <<>> /\ finished
         /\ Head(q).frames \in 1 .. PacketFrames /\ Head(q).first = e
<1> DEFINE z == Tail(q)
<1>1. /\ Len(q) \in Nat /\ Len(q) >= 1 /\ Len(z) = Len(q) - 1
      /\ \A i \in 1 .. Len(z) : z[i] = q[i + 1] /\ i + 1 \in 1 .. Len(q)
      /\ Head(q) = q[1] /\ 1 \in 1 .. Len(q) /\ z \in PacketSeq
  <2>1. Len(q) \in Nat /\ Len(q) >= 1 /\ Len(z) = Len(q) - 1 /\ z \in PacketSeq
    BY DEF PacketSeq
  <2>2. Head(q) = q[1] /\ \A i \in 1 .. Len(z) : z[i] = q[i + 1]
    BY DEF PacketSeq
  <2> DEFINE k == Len(q)
             m == Len(z)
  <2>3. k \in Nat /\ k >= 1 /\ m = k - 1
    BY <2>1
  <2>a. m \in Int
    BY <2>3
  <2> HIDE DEF k, m, z
  <2>4. 1 \in 1 .. k
    BY <2>3
  <2>5. ASSUME NEW i \in 1 .. m
        PROVE  i + 1 \in 1 .. k
    <3>1. i \in Nat /\ i >= 1 /\ i <= m
      BY <2>a, SMTT(60)
    <3>2. QED
      BY <2>3, <3>1
  <2>6. QED
    BY <2>1, <2>2, <2>4, <2>5 DEF k, m
<1>2. q[1].first = e
  BY <1>1, ZenonT(60) DEF Chain, StartOf
<1> HIDE DEF z
<1>3. ASSUME NEW i \in 1 .. (Len(z) + 1)
      PROVE  StartOf(z, e + Head(q).frames, i) = StartOf(q, e, i + 1)
  <2>1. CASE i = 1
    BY <1>1, <1>2, <2>1 DEF StartOf
  <2>2. CASE i # 1
    <3>1. i - 1 \in 1 .. Len(z) /\ (i - 1) + 1 = i /\ (i + 1) - 1 = i /\ i + 1 # 1
      BY <1>1, <2>2
    <3>2. z[i - 1] = q[i]
      BY <1>1, <3>1
    <3>3. QED
      BY <2>2, <3>1, <3>2 DEF StartOf
  <2>3. QED
    BY <2>1, <2>2
<1>4. StartOf(z, e + Head(q).frames, Len(z) + 1) = n
  BY <1>1, <1>3 DEF Chain
<1>5. ASSUME NEW i \in 1 .. Len(z)
      PROVE  /\ z[i].first = StartOf(z, e + Head(q).frames, i)
             /\ z[i].frames \in 1 .. PacketFrames
             /\ z[i].final => i = Len(z) /\ finished
  <2>1. i + 1 \in 1 .. Len(q) /\ z[i] = q[i + 1] /\ i \in 1 .. (Len(z) + 1)
    BY <1>1
  <2>2. QED
    BY <1>1, <1>3, <2>1, SMTT(60) DEF Chain
<1>6. Head(q).final => Len(z) = 0 /\ finished
  BY <1>1 DEF Chain
<1>7. Len(z) = 0 => z = <<>>
  BY <1>1 DEF PacketSeq
<1>8. Chain(z, e + Head(q).frames, n, finished)
  BY <1>4, <1>5 DEF Chain
<1>9. Head(q).frames \in 1 .. PacketFrames /\ Head(q).first = e
  BY <1>1, <1>2 DEF Chain
<1>10. QED
  BY <1>6, <1>7, <1>8, <1>9, Zenon DEF z

-----------------------------------------------------------------------------
(* Requests a step is not about.                                           *)

\* The places of a request exclude each other, and each comes with a permit.
LEMMA Places ==
  ASSUME SlotCore, NEW r \in Requests
  PROVE  /\ r \in worker.active => permit[r] /\ ~Waiting(r) /\ ~Releasing(r)
         /\ r \in worker.pending => permit[r] /\ Waiting(r) /\ ~Releasing(r)
                                    /\ r \notin worker.ready \cup worker.active
                                    /\ r \notin QueuedStarts(commands)
                                    /\ handle[r] \notin {"new", "starting"}
         /\ r \in worker.ready => permit[r] /\ Waiting(r) /\ ~Releasing(r)
                                  /\ r \notin worker.pending \cup worker.active
                                  /\ r \notin QueuedStarts(commands)
                                  /\ handle[r] \notin {"new", "starting"}
         /\ r \in QueuedStarts(commands) => permit[r] /\ Waiting(r) /\ ~Releasing(r)
                                  /\ r \notin worker.pending \cup worker.ready \cup worker.active
                                  /\ handle[r] \notin {"new", "starting"}
         /\ Releasing(r) => permit[r] /\ ~Waiting(r)
         /\ handle[r] = "new" => ~permit[r]
         /\ handle[r] = "starting" =>
              /\ permit[r]
              /\ r \notin worker.pending \cup worker.ready \cup worker.active
              /\ r \notin QueuedStarts(commands) /\ ~Releasing(r)
<1>1. Releasing(r) <=> r \in Dropping
  BY DEF Releasing, Dropping
<1>2. handle[r] = "starting" <=> r \in Starting
  BY DEF Starting
<1>3. permit[r] <=> r \in Holders
  BY DEF Holders
<1>4. /\ Ownership
      /\ handle[r] = "new" => ~permit[r]
  BY DEF SlotCore, OwnerInv
<1>5. QED
  BY <1>1, <1>2, <1>3, <1>4 DEF Ownership, Owned, Waiting

\* Where the worker has r is as before, or r has left a place.
ViewKept(r) ==
  /\ Waiting(r)' => Waiting(r)
  /\ r \in worker'.active => r \in worker.active
  /\ Releasing(r)' => Releasing(r)
  /\ Retiring(r)' <=> Retiring(r)
  /\ Accepting(r)' => Accepting(r)
  /\ Scanned(r)' => Scanned(r)
  /\ Took(r)' <=> Took(r)
  /\ (r \in worker'.active /\ Stepped(r)) => Stepped(r)'
  /\ r \in QueuedCancels(commands') => r \in QueuedCancels(commands)

\* A step is not about r.
Bystander(r) ==
  /\ state'[r] = state[r] /\ free'[r] = free[r] /\ held'[r] = held[r]
  /\ handle'[r] = handle[r] /\ permit'[r] = permit[r]
  /\ session'[r] = session[r] /\ produced'[r] = produced[r]
  /\ ViewKept(r)

LEMMA BystanderKeeps ==
  ASSUME NEW r \in Requests, RequestInv(r), Bystander(r)
  PROVE  RequestInv(r)'
<1>1. LifeInv(r)'
  BY DEF RequestInv, LifeInv, Bystander, ViewKept
<1>2. BufferInv(r)'
  <2>1. Taken(r) = (IF Took(r) THEN 1 ELSE 0) /\ Taken(r)' = (IF Took(r)' THEN 1 ELSE 0)
    BY DEF Taken, Took
  <2>2. Took(r)' <=> Took(r)
    BY DEF Bystander, ViewKept
  <2>3. Taken(r)' = Taken(r)
    BY <2>1, <2>2
  <2>4. BuffersOf(r)' = BuffersOf(r) /\ Alive(r)' = Alive(r)
    BY <2>3 DEF BuffersOf, Alive, Bystander
  <2>5. QED
    BY <2>4 DEF RequestInv, BufferInv, Bystander, ViewKept
<1>3. StreamInv(r)'
  BY DEF RequestInv, StreamInv, Bystander, ViewKept
<1>4. QED
  BY <1>1, <1>2, <1>3 DEF RequestInv

\* The parts of the worker that the places are made of.
LEMMA WorkerParts ==
  ASSUME TypeOK
  PROVE  /\ worker \in WorkerLocals
         /\ worker.pending \subseteq Requests /\ worker.ready \subseteq Requests
         /\ worker.active \subseteq Requests /\ worker.todo \subseteq Requests
         /\ worker.batch \subseteq Requests /\ worker.cur \subseteq Requests
         /\ \A r \in Requests :
              /\ state[r] \in RequestState /\ free[r] \in Nat /\ held[r] \in Nat
              /\ Len(state[r].packets) \in Nat /\ produced[r] \in Nat
              /\ state[r].emitted \in Nat /\ state[r].packets \in PacketSeq
  BY DEF TypeOK, WorkerLocals, RequestState, PacketSeq

\* A step of the worker's own, in which no request's variables change.
LEMMA LoopShape ==
  ASSUME SlotCore, ShapeInv,
         \/ Top \/ Check \/ PrefillDone \/ SweepDone \/ ScanDone \/ StepBatch
         \/ StepDone \/ ReapDone \/ ExitEmpty
         \/ /\ worker.pc \in {"drain", "coalesce", "idle"}
            /\ \E pc \in LoopPcs : GoTo(pc) /\ UNCHANGED workerFrame
  PROVE  ShapeInv' /\ \A r \in Requests : Bystander(r)
<1>0. worker \in WorkerLocals
  BY WorkerParts DEF SlotCore
<1>1. UNCHANGED workerFrame
  BY DEF Top, Check, PrefillDone, SweepDone, ScanDone, StepBatch, StepDone, ReapDone, ExitEmpty
<1>2. /\ UNCHANGED <<commands, state, free, held, handle, permit, session, produced>>
      /\ QueuedStarts(commands') = QueuedStarts(commands)
      /\ QueuedCancels(commands') = QueuedCancels(commands)
  BY <1>1 DEF workerFrame, clientVars
<1>3. ASSUME ShapeInv', \A r \in Requests : ViewKept(r)
      PROVE  ShapeInv' /\ \A r \in Requests : Bystander(r)
  BY <1>2, <1>3 DEF Bystander
<1> USE DEF ShapeInv, ViewKept, Waiting, Releasing, Retiring, Accepting, Scanned, Took,
            Stepped, At, Walking
<1>4. CASE Top \/ Check
  BY <1>0, <1>2, <1>3, <1>4 DEF Top, Check, GoTo, WorkerLocals
<1>5. CASE PrefillDone
  BY <1>0, <1>2, <1>3, <1>5 DEF PrefillDone, WorkerLocals
<1>6. CASE SweepDone
  BY <1>0, <1>2, <1>3, <1>6 DEF SweepDone, WorkerLocals
<1>7. CASE ScanDone
  <2>1. worker.pc = "scan" /\ worker.todo = {}
    BY <1>7 DEF ScanDone
  <2>2. CASE worker' = [worker EXCEPT !.pc = "idle"] /\ worker.batch = {}
    BY <1>0, <1>2, <1>3, <2>1, <2>2 DEF WorkerLocals
  <2>3. CASE worker' = [worker EXCEPT !.pc = "take", !.todo = worker.batch, !.batch = {}]
    <3>1. /\ worker'.pc = "take" /\ worker'.todo = worker.batch /\ worker'.batch = {}
          /\ worker'.pending = worker.pending /\ worker'.ready = worker.ready
          /\ worker'.active = worker.active /\ worker'.cur = worker.cur
          /\ worker'.ret = worker.ret
      BY <1>0, <2>3 DEF WorkerLocals
    <3>2. ShapeInv'
      BY <1>2, <2>1, <3>1
    <3>3. \A r \in Requests : ViewKept(r)
      BY <1>2, <2>1, <3>1
    <3>4. QED
      BY <1>3, <3>2, <3>3
  <2>4. QED
    BY <1>7, <2>2, <2>3 DEF ScanDone, NothingEligible
<1>8. CASE StepBatch \/ ReapDone
  BY <1>0, <1>2, <1>3, <1>8 DEF StepBatch, ReapDone, GoTo, WorkerLocals
<1>9. CASE StepDone
  BY <1>0, <1>2, <1>3, <1>9 DEF StepDone, WorkerLocals
<1>10. CASE ExitEmpty
  BY <1>0, <1>2, <1>3, <1>10 DEF ExitEmpty, GoTo, WorkerLocals, QueuedStarts
<1>11. CASE /\ worker.pc \in {"drain", "coalesce", "idle"}
            /\ \E pc \in LoopPcs : GoTo(pc) /\ UNCHANGED workerFrame
  BY <1>0, <1>2, <1>3, <1>11 DEF GoTo, LoopPcs, WorkerLocals
<1>12. QED
  BY <1>4, <1>5, <1>6, <1>7, <1>8, <1>9, <1>10, <1>11

-----------------------------------------------------------------------------
(* Requests that are withdrawn or taken out for retirement.                *)

\* The queue has lost at most one command, or has gained wakes.
QuietQueue ==
  /\ QueuedStarts(commands') \subseteq QueuedStarts(commands)
  /\ QueuedCancels(commands') \subseteq QueuedCancels(commands)

\* Clearing a request's packets returns their buffers to its own pool.
LEMMA ClearEffect ==
  ASSUME TypeOK, NEW r \in Requests, NEW s, NEW q \in Seq(Command),
         Len(q) <= ChannelCap, Clear(r, s, q)
  PROVE  /\ QueuedStarts(commands') = QueuedStarts(q)
         /\ QueuedCancels(commands') \subseteq QueuedCancels(q)
         /\ state'[r] = s /\ free'[r] = free[r] + Len(state[r].packets)
         /\ \A x \in Requests : x # r => state'[x] = state[x] /\ free'[x] = free[x]
<1>1. Len(state[r].packets) \in Nat
  BY WorkerParts
<1>2. commands' = Woken(q, Len(state[r].packets))
  BY DEF Clear
<1>3. state' = [state EXCEPT ![r] = s]
      /\ free' = [free EXCEPT ![r] = @ + Len(state[r].packets)]
  BY DEF Clear
<1>4. state \in [Requests -> RequestState] /\ free \in [Requests -> Nat]
  BY DEF TypeOK
<1>5. QED
  BY <1>1, <1>2, <1>3, <1>4, WokenStarts, WokenCancels

\* So does recycling the buffer of a step.
LEMMA RecycleEffect ==
  ASSUME TypeOK, NEW r \in Requests, NEW s, NEW n \in Nat, Recycle(r, s, n)
  PROVE  /\ QueuedStarts(commands') = QueuedStarts(commands)
         /\ QueuedCancels(commands') \subseteq QueuedCancels(commands)
         /\ state'[r] = s /\ free'[r] = free[r] + 1 + n
         /\ \A x \in Requests : x # r => state'[x] = state[x] /\ free'[x] = free[x]
<1>1. commands' = Woken(commands, 1 + n) /\ 1 + n \in Nat
  BY DEF Recycle
<1>2. /\ state \in [Requests -> RequestState] /\ free \in [Requests -> Nat]
      /\ commands \in Seq(Command) /\ Len(commands) <= ChannelCap
  BY DEF TypeOK
<1>3. state' = [state EXCEPT ![r] = s] /\ free' = [free EXCEPT ![r] = @ + 1 + n]
  BY DEF Recycle
<1>4. QED
  BY <1>1, <1>2, <1>3, WokenStarts, WokenCancels

\* r is withdrawn by the worker.
Emptied(r) ==
  /\ \/ state'[r] = MarkCancelled(state[r])
     \/ state'[r] = MarkFailed(state[r], "backend")
  /\ free'[r] = free[r] + Len(state[r].packets)

LEMMA EmptiedFields ==
  ASSUME TypeOK, NEW r \in Requests, Emptied(r)
  PROVE  LET x == state'[r]
         IN  /\ x.packets = <<>> /\ x.finish_reason = "None" /\ x.producer_finished
             /\ x.retired = state[r].retired /\ Withdrawn(x) /\ x.phase # "Completed"
             /\ x.phase = "Cancelled" => x.cancel_requested
             /\ state[r].cancel_requested => x.cancel_requested
             /\ x.failure \in {state[r].failure, "backend"}
<1>1. state[r] \in RequestState
  BY WorkerParts
<1>2. CASE state'[r] = MarkCancelled(state[r])
  BY <1>1, <1>2, MarkFields DEF Withdrawn
<1>3. CASE state'[r] = MarkFailed(state[r], "backend")
  BY <1>1, <1>3, MarkFields DEF Withdrawn
<1>4. QED
  BY <1>2, <1>3 DEF Emptied

\* A withdrawn request stays silent and keeps its buffers.
LEMMA EmptiedStream ==
  ASSUME TypeOK, NEW r \in Requests, RequestInv(r), Emptied(r),
         handle'[r] = handle[r], QueuedCancels(commands') \subseteq QueuedCancels(commands)
  PROVE  StreamInv(r)'
<1>1. /\ state'[r].packets = <<>> /\ state'[r].finish_reason = "None"
      /\ Withdrawn(state'[r]) /\ state'[r].phase # "Completed"
      /\ state'[r].phase = "Cancelled" => state'[r].cancel_requested
      /\ state[r].cancel_requested => state'[r].cancel_requested
  BY EmptiedFields
<1>2. QED
  BY <1>1 DEF RequestInv, StreamInv

LEMMA EmptiedBuffers ==
  ASSUME TypeOK, NEW r \in Requests, RequestInv(r), Emptied(r),
         handle'[r] = handle[r], held'[r] = held[r], ~Took(r), ~Took(r)'
  PROVE  /\ Alive(r)' => BuffersOf(r)' = RingSlots
         /\ state'[r].failure \in {"none", "backend"}
<1>1. /\ state'[r].packets = <<>> /\ state'[r].retired = state[r].retired
      /\ state'[r].failure \in {state[r].failure, "backend"}
      /\ free'[r] = free[r] + Len(state[r].packets)
  BY EmptiedFields DEF Emptied
<1>2. Alive(r)' = Alive(r)
  BY <1>1 DEF Alive
<1>3. Taken(r) = 0 /\ Taken(r)' = 0
  BY DEF Taken, Took
<1>4. Len(state'[r].packets) = 0
  BY <1>1
<1>5. free[r] \in Nat /\ held[r] \in Nat /\ Len(state[r].packets) \in Nat
  BY WorkerParts
<1>6. BuffersOf(r)' = BuffersOf(r)
  BY <1>1, <1>3, <1>4, <1>5 DEF BuffersOf
<1>7. QED
  BY <1>1, <1>2, <1>6 DEF RequestInv, BufferInv

\* r leaves the collection that owned it, from which the worker goes on at ret.
TakenOut(r, ret) ==
  /\ \/ worker.pc \in {"recv", "drain", "coalesce", "idle"} /\ ret \in LoopPcs
     \/ worker.pc \in {"filter", "prefill", "sweep", "reap", "exit"} /\ ret = worker.pc
  /\ worker'.pc = "release" /\ worker'.cur = {r} /\ worker'.ret = ret
  /\ worker'.batch = worker.batch
  /\ r \in worker.pending \cup worker.ready \cup worker.active \cup QueuedStarts(commands)
  /\ worker'.pending = worker.pending \ {r} /\ worker'.ready = worker.ready \ {r}
  /\ worker'.active = worker.active \ {r} /\ worker'.todo = worker.todo \ {r}
  /\ QuietQueue /\ r \notin QueuedStarts(commands')

LEMMA TakenOutShape ==
  ASSUME SlotCore, ShapeInv, NEW r \in Requests, NEW ret, TakenOut(r, ret),
         UNCHANGED handle
  PROVE  /\ ShapeInv' /\ \A x \in Requests : x # r => ViewKept(x)
         /\ ~Took(r) /\ ~Retiring(r)
         /\ ~Accepting(r)' /\ ~Scanned(r)' /\ ~Took(r)' /\ ~Retiring(r)'
<1>1. ShapeInv'
  BY DEF TakenOut, ShapeInv, At, Walking, LoopPcs, QuietQueue
<1>2. ASSUME NEW x \in Requests, x # r
      PROVE  ViewKept(x)
  BY <1>2 DEF TakenOut, QuietQueue, LoopPcs, ViewKept, Waiting, Releasing, Retiring,
              Accepting, Scanned, Took, Stepped, At, Walking, ShapeInv
<1>3. QED
  BY <1>1, <1>2 DEF TakenOut, Took, Retiring, Accepting, Scanned, ShapeInv

\* A request taken out has been decided, and its session cancelled unless the
\* backend is done with it.
LEMMA TakenOutKeeps ==
  ASSUME SlotCore, StreamIInv, NEW r \in Requests, NEW ret, TakenOut(r, ret),
         UNCHANGED <<handle, held, permit, produced>>,
         \A x \in Requests : x # r =>
           state'[x] = state[x] /\ free'[x] = free[x] /\ session'[x] = session[x],
         Emptied(r) \/ (state'[r] = state[r] /\ free'[r] = free[r]),
         Decided(state'[r]),
         session'[r] \in {session[r], "cancelled"},
         session'[r] = "open" =>
           state'[r].producer_finished /\ state'[r].failure = "none"
  PROVE  StreamIInv'
<1>0. TypeOK /\ ShapeInv /\ RequestInv(r)
  BY DEF SlotCore, StreamIInv
<1>1. /\ ShapeInv' /\ \A x \in Requests : x # r => ViewKept(x)
      /\ ~Took(r) /\ ~Retiring(r)
      /\ ~Accepting(r)' /\ ~Scanned(r)' /\ ~Took(r)' /\ ~Retiring(r)'
  BY <1>0, TakenOutShape
<1>2. \A x \in Requests : x # r => RequestInv(x)'
  BY <1>1, BystanderKeeps DEF Bystander, StreamIInv
<1>3. permit[r] /\ handle[r] \notin {"new", "starting"} /\ ~Waiting(r)' /\ r \notin worker'.active
  BY Places DEF TakenOut, Waiting
<1>4. state'[r].retired = state[r].retired /\ ~state[r].retired
  BY <1>0, <1>3, EmptiedFields DEF RequestInv, LifeInv
<1>5. LifeInv(r)'
  BY <1>1, <1>3, <1>4 DEF LifeInv
<1>6. BufferInv(r)'
  <2>1. CASE Emptied(r)
    BY <1>0, <1>1, <2>1, EmptiedBuffers DEF BufferInv
  <2>2. CASE state'[r] = state[r] /\ free'[r] = free[r]
    <3>1. Taken(r) = 0 /\ Taken(r)' = 0
      BY <1>1 DEF Taken, Took
    <3>2. BuffersOf(r)' = BuffersOf(r) /\ Alive(r)' = Alive(r)
      BY <2>2, <3>1 DEF BuffersOf, Alive
    <3>3. QED
      BY <1>0, <1>1, <2>2, <3>2 DEF RequestInv, BufferInv
  <2>3. QED
    BY <2>1, <2>2
<1>7. StreamInv(r)'
  <2>0. QueuedCancels(commands') \subseteq QueuedCancels(commands)
    BY DEF TakenOut, QuietQueue
  <2>1. CASE Emptied(r)
    BY <1>0, <2>0, <2>1, EmptiedStream
  <2>2. CASE state'[r] = state[r] /\ free'[r] = free[r]
    BY <1>0, <1>3, <2>0, <2>2 DEF RequestInv, StreamInv
  <2>3. QED
    BY <2>1, <2>2
<1>8. QED
  BY <1>1, <1>2, <1>5, <1>6, <1>7 DEF StreamIInv, RequestInv

\* The worker drops a pending request with mark_cancelled or mark_failed.
LEMMA DropUnstarted ==
  ASSUME SlotCore, StreamIInv, NEW r \in Requests, NEW ret, TakenOut(r, ret),
         UNCHANGED <<handle, held, permit, produced, session>>, Waiting(r),
         \A x \in Requests : x # r => state'[x] = state[x] /\ free'[x] = free[x],
         Emptied(r)
  PROVE  StreamIInv'
<1>1. Decided(state'[r])
  BY EmptiedFields DEF SlotCore, Decided
<1>2. session[r] = "none"
  BY DEF StreamIInv, RequestInv, LifeInv
<1>3. QED
  BY <1>1, <1>2, TakenOutKeeps

\* remove_cancelled, and the clean-up, cancel the session of an active request

\* on the backend.
LEMMA CancelActiveKeeps ==
  ASSUME SlotCore, StreamIInv, NEW r \in worker.active, NEW w, NEW ret,
         \/ worker.pc = "exit" /\ w = worker
         \/ worker.pc = "sweep" /\ w = [worker EXCEPT !.todo = @ \ {r}],
         ret = worker.pc,
         CancelActive(w, r, ret), UNCHANGED closeFrame
  PROVE  StreamIInv'
<1>0. /\ TypeOK /\ worker \in WorkerLocals /\ r \in Requests
      /\ commands \in Seq(Command) /\ Len(commands) <= ChannelCap
      /\ session \in [Requests -> {"none", "open", "cancelled", "dropped"}]
  BY WorkerParts DEF SlotCore, TypeOK
<1>1. /\ session' = [session EXCEPT ![r] = "cancelled"]
      /\ Clear(r, MarkCancelled(state[r]), commands)
      /\ Retire([w EXCEPT !.active = @ \ {r}], r, ret)
      /\ UNCHANGED <<handle, held, permit, produced>>
  BY DEF CancelActive, closeFrame, clientVars
<1>2. /\ QuietQueue /\ QueuedStarts(commands') = QueuedStarts(commands)
      /\ state'[r] = MarkCancelled(state[r])
      /\ free'[r] = free[r] + Len(state[r].packets)
      /\ \A x \in Requests : x # r => state'[x] = state[x] /\ free'[x] = free[x]
  BY <1>0, <1>1, ClearEffect DEF QuietQueue
<1>3. Emptied(r)
  BY <1>2 DEF Emptied
<1>4. Decided(state'[r])
  BY <1>0, <1>3, EmptiedFields DEF Decided
<1>5. worker.pc = "exit" => worker.todo = {}
  BY DEF StreamIInv, ShapeInv, At, Walking
<1>6. /\ r \notin worker.pending /\ r \notin worker.ready
      /\ r \notin QueuedStarts(commands)
  BY <1>0, Places DEF Waiting
<1>7. /\ worker'.pc = "release" /\ worker'.cur = {r} /\ worker'.ret = ret
      /\ worker'.batch = worker.batch /\ worker'.pending = worker.pending
      /\ worker'.ready = worker.ready /\ worker'.active = worker.active \ {r}
      /\ worker'.todo = worker.todo \ {r}
  BY <1>0, <1>1, <1>5 DEF Retire, WorkerLocals
<1>8. TakenOut(r, ret)
  BY <1>2, <1>6, <1>7 DEF TakenOut
<1>9. session'[r] = "cancelled" /\ \A x \in Requests : x # r => session'[x] = session[x]
  BY <1>0, <1>1
<1>10. QED
  BY <1>0, <1>1, <1>2, <1>3, <1>4, <1>8, <1>9, TakenOutKeeps

-----------------------------------------------------------------------------
(* Receiving commands.                                                     *)

\* The worker has received a command that retires nothing.
Received ==
  /\ worker.pc \in {"recv", "drain", "coalesce", "idle"} /\ worker'.pc \in LoopPcs
  /\ worker'.pending \subseteq worker.pending \cup QueuedStarts(commands)
  /\ worker'.ready = worker.ready /\ worker'.active = worker.active
  /\ worker'.todo = worker.todo /\ worker'.batch = worker.batch
  /\ worker'.cur = worker.cur /\ worker'.ret = worker.ret
  /\ QuietQueue
  /\ UNCHANGED <<handle, held, permit, produced, session>>

LEMMA ReceivedView ==
  ASSUME ShapeInv, Received
  PROVE  ShapeInv' /\ \A x \in Requests : ViewKept(x)
<1>1. ShapeInv'
  BY DEF Received, ShapeInv, At, Walking, LoopPcs
<1>2. \A x \in Requests : Waiting(x)' => Waiting(x)
  BY DEF Received, QuietQueue, Waiting
<1>3. \A x \in Requests : ViewKept(x)
  BY <1>2 DEF Received, QuietQueue, LoopPcs, ViewKept, Releasing, Retiring,
              Accepting, Scanned, Took, Stepped, At, Walking, ShapeInv
<1>4. QED
  BY <1>1, <1>3

LEMMA ReceivedKeeps ==
  ASSUME StreamIInv, Received, UNCHANGED <<state, free>>
  PROVE  StreamIInv'
<1>1. ShapeInv' /\ \A x \in Requests : ViewKept(x)
  BY ReceivedView DEF StreamIInv
<1>2. \A x \in Requests : Bystander(x)
  BY <1>1 DEF Bystander, Received
<1>3. QED
  BY <1>1, <1>2, BystanderKeeps DEF StreamIInv

\* handle_command cancels an active request, which remove_cancelled will retire.
LEMMA CancelInPlace ==
  ASSUME SlotCore, StreamIInv, Received, NEW r \in worker.active, Emptied(r),
         \A x \in Requests : x # r => state'[x] = state[x] /\ free'[x] = free[x]
  PROVE  StreamIInv'
<1>0. TypeOK /\ ShapeInv /\ r \in Requests /\ RequestInv(r)
  BY WorkerParts DEF SlotCore, StreamIInv
<1>1. ShapeInv' /\ \A x \in Requests : ViewKept(x)
  BY <1>0, ReceivedView
<1>2. \A x \in Requests : x # r => RequestInv(x)'
  BY <1>1, BystanderKeeps DEF Bystander, Received, StreamIInv
<1>3. /\ state'[r].retired = state[r].retired /\ Decided(state'[r])
      /\ UNCHANGED <<handle, held, permit, produced, session>>
      /\ QueuedCancels(commands') \subseteq QueuedCancels(commands)
  BY <1>0, EmptiedFields DEF Decided, Received, QuietQueue
<1>4. ~Waiting(r) /\ permit[r]
  BY <1>0, Places
<1>5. LifeInv(r)'
  <2>1. ~Waiting(r)' /\ handle'[r] \notin {"new", "starting"}
    <3>1. ~Waiting(r)'
      BY <1>0, <1>1, <1>4 DEF ViewKept
    <3>2. QED
      BY <3>1 DEF Waiting
  <2>2. ~Releasing(r)' /\ ~Retiring(r)'
    BY DEF Received, LoopPcs, Releasing, Retiring
  <2>3. QED
    BY <1>0, <1>3, <1>4, <2>1, <2>2 DEF RequestInv, LifeInv, Received
<1>6. BufferInv(r)'
  <2>1. ~Took(r) /\ ~Took(r)' /\ ~Accepting(r)' /\ ~Scanned(r)'
    BY DEF Received, LoopPcs, Took, Accepting, Scanned
  <2>2. QED
    BY <1>0, <1>3, <2>1, EmptiedBuffers DEF BufferInv
<1>7. StreamInv(r)'
  BY <1>0, <1>3, EmptiedStream
<1>8. QED
  BY <1>1, <1>2, <1>5, <1>6, <1>7 DEF StreamIInv, RequestInv

LEMMA HandleKeeps ==
  ASSUME SlotCore, StreamIInv, NEW next \in LoopPcs, NEW stopped \in LoopPcs,
         worker.pc \in {"recv", "drain", "coalesce", "idle"},
         HandleCommand(next, stopped)
  PROVE  StreamIInv'
<1> DEFINE m == Head(commands)
           rest == Tail(commands)
<1>0. /\ TypeOK /\ worker \in WorkerLocals /\ UniqueStarts(commands)
      /\ commands \in Seq(Command) /\ commands # <<>> /\ Len(commands) <= ChannelCap
  BY WorkerParts DEF SlotCore, TypeOK, OwnerInv, HandleCommand
<1>1. /\ rest \in Seq(Command) /\ Len(rest) <= ChannelCap
      /\ m.kind \in {"start", "cancel"} => m.id \in Requests
  BY <1>0, ReceiveType
<1>2. /\ m.kind = "start" => m.id \in QueuedStarts(commands)
      /\ QueuedStarts(rest) \subseteq QueuedStarts(commands)
      /\ QueuedCancels(rest) \subseteq QueuedCancels(commands)
  BY <1>0, ReceiveStarts, ReceiveCancels
<1>3. UNCHANGED <<handle, held, permit, produced, session>>
  BY DEF HandleCommand, clientVars
<1> HIDE DEF m, rest
<1>4. commands' = rest => QuietQueue
  BY <1>2 DEF QuietQueue
<1>5. ASSUME m.kind = "cancel", Clear(m.id, MarkCancelled(state[m.id]), rest)
      PROVE  /\ QuietQueue /\ Emptied(m.id) /\ m.id \in Requests
             /\ \A x \in Requests : x # m.id => state'[x] = state[x] /\ free'[x] = free[x]
  BY <1>0, <1>1, <1>2, <1>5, ClearEffect DEF QuietQueue, Emptied
<1>6. CASE /\ m.kind = "start"
           /\ worker' = [worker EXCEPT !.pc = next, !.pending = @ \cup {m.id}]
           /\ commands' = rest
           /\ UNCHANGED <<state, free>>
  <2>1. Received
    BY <1>0, <1>2, <1>3, <1>4, <1>6 DEF Received, WorkerLocals
  <2>2. QED
    BY <1>6, <2>1, ReceivedKeeps
<1>7. CASE /\ m.kind = "cancel" /\ m.id \in worker.pending
           /\ Clear(m.id, MarkCancelled(state[m.id]), rest)
           /\ Retire(WithoutPending(m.id), m.id, next)
  <2>1. /\ QuietQueue /\ Emptied(m.id) /\ m.id \in Requests
        /\ \A x \in Requests : x # m.id => state'[x] = state[x] /\ free'[x] = free[x]
    BY <1>5, <1>7
  <2>2. /\ m.id \notin worker.ready \cup worker.active \cup QueuedStarts(commands)
        /\ Waiting(m.id)
    BY <1>7, <2>1, Places
  <2>3. worker.todo = {}
    BY DEF StreamIInv, ShapeInv, At, Walking
  <2>4. /\ worker'.pc = "release" /\ worker'.cur = {m.id} /\ worker'.ret = next
        /\ worker'.batch = worker.batch /\ worker'.pending = worker.pending \ {m.id}
        /\ worker'.ready = worker.ready /\ worker'.active = worker.active
        /\ worker'.todo = worker.todo
    BY <1>0, <1>7 DEF Retire, WithoutPending, WorkerLocals
  <2>5. TakenOut(m.id, next)
    BY <1>7, <2>1, <2>2, <2>3, <2>4 DEF TakenOut, QuietQueue
  <2>6. QED
    BY <1>3, <2>1, <2>2, <2>5, DropUnstarted
<1>8. CASE /\ m.kind = "cancel" /\ m.id \in worker.active \ worker.pending
           /\ Clear(m.id, MarkCancelled(state[m.id]), rest)
           /\ GoTo(next)
  <2>1. /\ QuietQueue /\ Emptied(m.id)
        /\ \A x \in Requests : x # m.id => state'[x] = state[x] /\ free'[x] = free[x]
    BY <1>5, <1>8
  <2>2. Received
    BY <1>0, <1>3, <1>8, <2>1 DEF Received, GoTo, WorkerLocals
  <2>3. QED
    BY <1>8, <2>1, <2>2, CancelInPlace
<1>9. CASE /\ GoTo(next)
           /\ commands' = rest
           /\ UNCHANGED <<state, free>>
  <2>1. Received
    BY <1>0, <1>3, <1>4, <1>9 DEF Received, GoTo, WorkerLocals
  <2>2. QED
    BY <1>9, <2>1, ReceivedKeeps
<1>10. CASE /\ worker' = [worker EXCEPT !.pc = stopped, !.stop = TRUE]
            /\ commands' = rest
            /\ UNCHANGED <<state, free>>
  <2>1. Received
    BY <1>0, <1>3, <1>4, <1>10 DEF Received, WorkerLocals
  <2>2. QED
    BY <1>10, <2>1, ReceivedKeeps
<1>11. QED
  BY <1>6, <1>7, <1>8, <1>9, <1>10 DEF HandleCommand, m, rest

\* The clean-up retires the starts still queued, and discards the rest.
LEMMA ExitDrainKeeps ==
  ASSUME SlotCore, StreamIInv, ExitDrain
  PROVE  StreamIInv'
<1> DEFINE m == Head(commands)
           rest == Tail(commands)
<1>0. /\ TypeOK /\ worker \in WorkerLocals /\ UniqueStarts(commands)
      /\ commands \in Seq(Command) /\ commands # <<>> /\ Len(commands) <= ChannelCap
      /\ worker.pc = "exit"
      /\ UNCHANGED <<handle, held, permit, produced, session>>
  BY WorkerParts DEF SlotCore, TypeOK, OwnerInv, ExitDrain, stateFrame, clientVars
<1>1. /\ rest \in Seq(Command) /\ Len(rest) <= ChannelCap
      /\ m.kind = "start" => m.id \in Requests
  BY <1>0, ReceiveType
<1>2. /\ m.kind = "start" => m.id \in QueuedStarts(commands)
      /\ QueuedStarts(rest) = IF m.kind = "start" THEN QueuedStarts(commands) \ {m.id}
                              ELSE QueuedStarts(commands)
      /\ QueuedCancels(rest) \subseteq QueuedCancels(commands)
  BY <1>0, ReceiveStarts, ReceiveCancels
<1>3. \/ /\ m.kind = "start"
         /\ Clear(m.id, MarkCancelled(state[m.id]), rest)
         /\ Retire(worker, m.id, "exit")
      \/ commands' = rest /\ UNCHANGED <<state, free, worker>>
  BY DEF ExitDrain
<1> HIDE DEF m, rest
<1>4. CASE /\ m.kind = "start"
           /\ Clear(m.id, MarkCancelled(state[m.id]), rest)
           /\ Retire(worker, m.id, "exit")
  <2>1. /\ QuietQueue /\ m.id \notin QueuedStarts(commands') /\ Emptied(m.id)
        /\ \A x \in Requests : x # m.id => state'[x] = state[x] /\ free'[x] = free[x]
    BY <1>0, <1>1, <1>2, <1>4, ClearEffect DEF QuietQueue, Emptied
  <2>2. /\ m.id \notin worker.pending \cup worker.ready \cup worker.active
        /\ Waiting(m.id)
    BY <1>1, <1>2, <1>4, Places
  <2>3. worker.todo = {}
    BY <1>0 DEF StreamIInv, ShapeInv, At, Walking
  <2>4. /\ worker'.pc = "release" /\ worker'.cur = {m.id} /\ worker'.ret = "exit"
        /\ worker'.batch = worker.batch /\ worker'.pending = worker.pending
        /\ worker'.ready = worker.ready /\ worker'.active = worker.active
        /\ worker'.todo = worker.todo
    BY <1>0, <1>4 DEF Retire, WorkerLocals
  <2>5. TakenOut(m.id, "exit")
    BY <1>0, <1>2, <1>4, <2>1, <2>2, <2>3, <2>4 DEF TakenOut
  <2>6. QED
    BY <1>0, <1>1, <1>4, <2>1, <2>2, <2>5, DropUnstarted
<1>5. CASE commands' = rest /\ UNCHANGED <<state, free, worker>>
  <2>1. QuietQueue
    BY <1>2, <1>5 DEF QuietQueue
  <2>2. ShapeInv'
    BY <1>0, <1>5 DEF StreamIInv, ShapeInv, At
  <2>3. \A x \in Requests : ViewKept(x)
    BY <1>0, <1>5, <2>1 DEF QuietQueue, ViewKept, Waiting, Releasing, Retiring, Accepting,
                            Scanned, Took, Stepped, At
  <2>4. \A x \in Requests : Bystander(x)
    BY <1>0, <1>5, <2>3 DEF Bystander
  <2>5. QED
    BY <2>2, <2>4, BystanderKeeps DEF StreamIInv
<1>6. QED
  BY <1>3, <1>4, <1>5

\* Nobody was left in the channel when the receiver goes.
LEMMA ReceiverKeeps ==
  ASSUME SlotCore, StreamIInv, DropReceiver
  PROVE  StreamIInv'
<1>0. /\ worker \in WorkerLocals /\ worker.pc = "closing" /\ GoTo("done")
      /\ UNCHANGED <<handle, held, permit, produced, session, state, free>>
      /\ commands' = <<>>
  BY WorkerParts DEF SlotCore, DropReceiver, clientVars
<1>1. QueuedStarts(commands') = {} /\ QueuedCancels(commands') = {}
  BY <1>0 DEF QueuedStarts, QueuedCancels
<1>2. /\ worker'.pc = "done" /\ worker'.pending = worker.pending
      /\ worker'.ready = worker.ready /\ worker'.active = worker.active
      /\ worker'.todo = worker.todo /\ worker'.batch = worker.batch
      /\ worker'.cur = worker.cur
  BY <1>0 DEF GoTo, WorkerLocals
<1>3. ShapeInv'
  BY <1>0, <1>1, <1>2 DEF StreamIInv, ShapeInv, At, Walking
<1>4. \A x \in Requests : ViewKept(x)
  BY <1>0, <1>1, <1>2 DEF ViewKept, Waiting, Releasing, Retiring, Accepting, Scanned,
                          Took, Stepped, At, Walking
<1>5. \A x \in Requests : Bystander(x)
  BY <1>0, <1>4 DEF Bystander
<1>6. QED
  BY <1>3, <1>5, BystanderKeeps DEF StreamIInv

-----------------------------------------------------------------------------
(* Prefill, the sweep of cancelled requests, and the scan.                 *)

\* mark_prefilling and the start of generation move the phase alone; a request

\* cancelled meanwhile stays so.
LEMMA PhaseStream ==
  ASSUME TypeOK, NEW r \in Requests, NEW ph \in {"Prefilling", "Generating"},
         state'[r] = [state[r] EXCEPT !.phase = ph], StreamInv(r), Waiting(r),
         produced'[r] = produced[r], handle'[r] = handle[r],
         handle[r] \notin {"new", "starting"},
         QueuedCancels(commands') = QueuedCancels(commands)
  PROVE  StreamInv(r)'
<1>1. state[r] \in RequestState
  BY WorkerParts
<1>2. /\ state'[r].phase = ph /\ state'[r].packets = state[r].packets
      /\ state'[r].producer_finished = state[r].producer_finished
      /\ state'[r].finish_reason = state[r].finish_reason
      /\ state'[r].cancel_requested = state[r].cancel_requested
      /\ state'[r].failure = state[r].failure /\ state'[r].emitted = state[r].emitted
  BY <1>1, PhaseFields
<1>3. Withdrawn(state'[r]) <=> Withdrawn(state[r])
  BY <1>2 DEF Withdrawn, StreamInv
<1>4. QED
  BY <1>2, <1>3 DEF StreamInv

LEMMA PrefillKeeps ==
  ASSUME SlotCore, StreamIInv, BeginPrefill
  PROVE  StreamIInv'
<1>0. /\ TypeOK /\ worker \in WorkerLocals /\ worker.pc = "filter"
      /\ UNCHANGED <<handle, held, permit, produced, session, commands, free>>
      /\ \A r \in Requests :
           state'[r] = IF r \in worker.ready
                       THEN [state[r] EXCEPT !.phase = "Prefilling"] ELSE state[r]
  BY WorkerParts DEF SlotCore, BeginPrefill, stateFrame, clientVars
<1>1. /\ worker'.pc = "prefill" /\ worker'.pending = worker.pending
      /\ worker'.ready = worker.ready /\ worker'.active = worker.active
      /\ worker'.todo = worker.todo /\ worker'.batch = worker.batch
      /\ worker'.cur = worker.cur
  BY <1>0 DEF BeginPrefill, GoTo, WorkerLocals
<1>2. ShapeInv'
  BY <1>0, <1>1 DEF StreamIInv, ShapeInv, At, Walking
<1>3. \A x \in Requests : ViewKept(x)
  BY <1>0, <1>1 DEF ViewKept, Waiting, Releasing, Retiring, Accepting, Scanned,
                    Took, Stepped, At, Walking
<1>4. ASSUME NEW r \in Requests
      PROVE  RequestInv(r)'
  <2>0. RequestInv(r) /\ ViewKept(r)
    BY <1>3 DEF StreamIInv
  <2>1. CASE r \notin worker.ready
    BY <1>0, <2>0, <2>1, BystanderKeeps DEF Bystander
  <2>2. CASE r \in worker.ready
    <3>1. handle[r] \notin {"new", "starting"} /\ Waiting(r)
      BY <2>2, Places
    <3>2. state'[r] = [state[r] EXCEPT !.phase = "Prefilling"] /\ state[r] \in RequestState
      BY <1>0, <2>2, WorkerParts
    <3>3. /\ state'[r].packets = state[r].packets
          /\ state'[r].producer_finished = state[r].producer_finished
          /\ state'[r].cancel_requested = state[r].cancel_requested
          /\ state'[r].failure = state[r].failure /\ state'[r].retired = state[r].retired
      BY <3>2, PhaseFields
    <3>4. LifeInv(r)'
      BY <1>0, <1>1, <2>0, <3>1, <3>3 DEF RequestInv, LifeInv, ViewKept, Decided
    <3>5. BufferInv(r)'
      <4>1. Taken(r) = 0 /\ Taken(r)' = 0
        BY <1>0, <1>1 DEF Taken
      <4>2. BuffersOf(r)' = BuffersOf(r) /\ Alive(r)' = Alive(r)
        BY <1>0, <3>3, <4>1 DEF BuffersOf, Alive
      <4>3. QED
        BY <1>0, <2>0, <3>3, <4>2 DEF RequestInv, BufferInv, ViewKept
    <3>6. StreamInv(r)'
      BY <1>0, <2>0, <3>1, <3>2, PhaseStream DEF RequestInv
    <3>7. QED
      BY <3>4, <3>5, <3>6 DEF RequestInv
  <2>3. QED
    BY <2>1, <2>2
<1>5. QED
  BY <1>2, <1>4 DEF StreamIInv

LEMMA PrefillOkKeeps ==
  ASSUME SlotCore, StreamIInv, NEW r \in Requests, PrefillOk(r)
  PROVE  StreamIInv'
<1>0. /\ TypeOK /\ worker \in WorkerLocals /\ worker.pc = "prefill" /\ r \in worker.ready
      /\ UNCHANGED <<handle, held, permit, produced, commands, free>>
      /\ state \in [Requests -> RequestState] /\ session' = [session EXCEPT ![r] = "open"]
      /\ session \in [Requests -> {"none", "open", "cancelled", "dropped"}]
      /\ state' = [state EXCEPT ![r].phase = "Generating"]
  BY WorkerParts DEF SlotCore, PrefillOk, clientVars, TypeOK
<1>1. /\ worker'.pc = "prefill" /\ worker'.pending = worker.pending
      /\ worker'.ready = worker.ready \ {r} /\ worker'.active = worker.active \cup {r}
      /\ worker'.todo = worker.todo /\ worker'.batch = worker.batch
      /\ worker'.cur = worker.cur
  BY <1>0 DEF PrefillOk, WorkerLocals
<1>2. ShapeInv'
  BY <1>0, <1>1 DEF StreamIInv, ShapeInv, At, Walking
<1>3. \A x \in Requests : x # r => ViewKept(x)
  BY <1>0, <1>1 DEF ViewKept, Waiting, Releasing, Retiring, Accepting, Scanned,
                    Took, Stepped, At, Walking
<1>4. \A x \in Requests : x # r => RequestInv(x)'
  BY <1>0, <1>3, BystanderKeeps DEF Bystander, StreamIInv
<1>5. RequestInv(r)'
  <2>0. RequestInv(r)
    BY DEF StreamIInv
  <2>1. /\ handle[r] \notin {"new", "starting"} /\ Waiting(r) /\ permit[r]
        /\ r \notin worker.pending /\ r \notin QueuedStarts(commands)
    BY <1>0, Places
  <2>2. /\ state'[r] = [state[r] EXCEPT !.phase = "Generating"]
        /\ state[r] \in RequestState /\ session'[r] = "open"
    BY <1>0
  <2>3. /\ state'[r].packets = state[r].packets
        /\ state'[r].producer_finished = state[r].producer_finished
        /\ state'[r].cancel_requested = state[r].cancel_requested
        /\ state'[r].failure = state[r].failure /\ state'[r].retired = state[r].retired
    BY <2>2, PhaseFields
  <2>4. ~Waiting(r)' /\ ~Releasing(r)' /\ ~Retiring(r)' /\ ~Retiring(r)
    BY <1>0, <1>1, <2>1 DEF Waiting, Releasing, Retiring
  <2>5. LifeInv(r)'
    BY <1>0, <2>0, <2>1, <2>2, <2>3, <2>4 DEF RequestInv, LifeInv
  <2>6. BufferInv(r)'
    <3>1. Taken(r) = 0 /\ Taken(r)' = 0
      BY <1>0, <1>1 DEF Taken
    <3>2. BuffersOf(r)' = BuffersOf(r) /\ Alive(r)' = Alive(r)
      BY <1>0, <2>3, <3>1 DEF BuffersOf, Alive
    <3>3. QED
      BY <1>0, <1>1, <2>0, <2>3, <3>2 DEF RequestInv, BufferInv, Accepting, Scanned, Took
  <2>7. StreamInv(r)'
    BY <1>0, <2>0, <2>1, <2>2, PhaseStream DEF RequestInv
  <2>8. QED
    BY <2>5, <2>6, <2>7 DEF RequestInv
<1>6. QED
  BY <1>2, <1>4, <1>5 DEF StreamIInv

\* A pending request is cancelled, prepared, or fails; the clean-up cancels it.
LEMMA PendingKeeps ==
  ASSUME SlotCore, StreamIInv, NEW r \in Requests,
         FilterPending(r) \/ PrefillErr(r) \/ ExitPending(r)
  PROVE  StreamIInv'
<1>0. /\ TypeOK /\ worker \in WorkerLocals
      /\ commands \in Seq(Command) /\ Len(commands) <= ChannelCap
      /\ UNCHANGED <<handle, held, permit, produced, session>>
  BY WorkerParts DEF SlotCore, TypeOK, FilterPending, PrefillErr, ExitPending,
                     stateFrame, clientVars
<1>1. ASSUME NEW s, Clear(r, s, commands),
             s = MarkCancelled(state[r]) \/ s = MarkFailed(state[r], "backend")
      PROVE  /\ QuietQueue /\ QueuedStarts(commands') = QueuedStarts(commands) /\ Emptied(r)
             /\ \A x \in Requests : x # r => state'[x] = state[x] /\ free'[x] = free[x]
  BY <1>0, <1>1, ClearEffect DEF QuietQueue, Emptied
<1>2. ASSUME NEW w \in WorkerLocals, NEW ret \in {"filter", "prefill", "exit"},
             worker.pc = ret, Retire(w, r, ret), worker.todo = {},
             w.pending = worker.pending \ {r}, w.ready = worker.ready \ {r},
             w.active = worker.active, w.todo = worker.todo, w.batch = worker.batch,
             r \in worker.pending \cup worker.ready, QuietQueue,
             QueuedStarts(commands') = QueuedStarts(commands)
      PROVE  TakenOut(r, ret) /\ Waiting(r)
  <2>1. /\ worker'.pc = "release" /\ worker'.cur = {r} /\ worker'.ret = ret
        /\ worker'.batch = w.batch /\ worker'.pending = w.pending
        /\ worker'.ready = w.ready /\ worker'.active = w.active
        /\ worker'.todo = w.todo
    BY <1>2 DEF Retire, WorkerLocals
  <2>2. Waiting(r) /\ r \notin worker.active \cup QueuedStarts(commands)
    BY <1>2, Places
  <2>3. QED
    BY <1>2, <2>1, <2>2 DEF TakenOut
<1>3. worker.pc \in {"filter", "prefill", "exit"} => worker.todo = {}
  BY DEF StreamIInv, ShapeInv, At, Walking
<1>4. CASE FilterPending(r) /\ state[r].cancel_requested
  <2>1. /\ worker.pc = "filter" /\ r \in worker.pending
        /\ Clear(r, MarkCancelled(state[r]), commands)
        /\ Retire(WithoutPending(r), r, "filter")
    BY <1>4 DEF FilterPending
  <2>2. r \notin worker.ready
    BY <2>1, Places
  <2>3. /\ WithoutPending(r) \in WorkerLocals
        /\ WithoutPending(r).pending = worker.pending \ {r}
        /\ WithoutPending(r).ready = worker.ready \ {r}
        /\ WithoutPending(r).active = worker.active
        /\ WithoutPending(r).todo = worker.todo /\ WithoutPending(r).batch = worker.batch
    BY <1>0, <2>2 DEF WithoutPending, WorkerLocals
  <2>4. TakenOut(r, "filter") /\ Waiting(r)
    BY <1>1, <1>2, <1>3, <2>1, <2>3
  <2>5. QED
    BY <1>0, <1>1, <2>1, <2>4, DropUnstarted
<1>5. CASE PrefillErr(r)
  <2> DEFINE w == [worker EXCEPT !.ready = @ \ {r}]
  <2>1. /\ worker.pc = "prefill" /\ r \in worker.ready
        /\ Clear(r, MarkFailed(state[r], "backend"), commands)
        /\ Retire(w, r, "prefill")
    BY <1>5 DEF PrefillErr
  <2>2. r \notin worker.pending
    BY <2>1, Places
  <2>3. /\ w \in WorkerLocals /\ w.pending = worker.pending \ {r}
        /\ w.ready = worker.ready \ {r} /\ w.active = worker.active
        /\ w.todo = worker.todo /\ w.batch = worker.batch
    BY <1>0, <2>2 DEF WorkerLocals
  <2> HIDE DEF w
  <2>4. TakenOut(r, "prefill") /\ Waiting(r)
    BY <1>1, <1>2, <1>3, <2>1, <2>3
  <2>5. QED
    BY <1>0, <1>1, <2>1, <2>4, DropUnstarted
<1>6. CASE ExitPending(r)
  <2>1. /\ worker.pc = "exit" /\ r \in worker.pending
        /\ Clear(r, MarkCancelled(state[r]), commands)
        /\ Retire(WithoutPending(r), r, "exit")
    BY <1>6 DEF ExitPending
  <2>2. r \notin worker.ready
    BY <2>1, Places
  <2>3. /\ WithoutPending(r) \in WorkerLocals
        /\ WithoutPending(r).pending = worker.pending \ {r}
        /\ WithoutPending(r).ready = worker.ready \ {r}
        /\ WithoutPending(r).active = worker.active
        /\ WithoutPending(r).todo = worker.todo /\ WithoutPending(r).batch = worker.batch
    BY <1>0, <2>2 DEF WithoutPending, WorkerLocals
  <2>4. TakenOut(r, "exit") /\ Waiting(r)
    BY <1>1, <1>2, <1>3, <2>1, <2>3
  <2>5. QED
    BY <1>0, <1>1, <2>1, <2>4, DropUnstarted
<1>7. CASE FilterPending(r) /\ ~state[r].cancel_requested
  <2>1. /\ worker.pc = "filter" /\ r \in worker.pending
        /\ worker' = [WithoutPending(r) EXCEPT !.ready = @ \cup {r}]
        /\ UNCHANGED <<state, free, commands>>
    BY <1>7 DEF FilterPending
  <2>2. /\ worker'.pc = "filter" /\ worker'.pending = worker.pending \ {r}
        /\ worker'.ready = worker.ready \cup {r} /\ worker'.active = worker.active
        /\ worker'.todo = worker.todo /\ worker'.batch = worker.batch
        /\ worker'.cur = worker.cur
    BY <1>0, <2>1 DEF WithoutPending, WorkerLocals
  <2>3. ShapeInv'
    BY <2>1, <2>2 DEF StreamIInv, ShapeInv, At, Walking
  <2>4. \A x \in Requests : ViewKept(x)
    BY <1>0, <2>1, <2>2 DEF ViewKept, Waiting, Releasing, Retiring, Accepting, Scanned,
                            Took, Stepped, At, Walking
  <2>5. \A x \in Requests : Bystander(x)
    BY <1>0, <2>1, <2>4 DEF Bystander
  <2>6. QED
    BY <2>3, <2>5, BystanderKeeps DEF StreamIInv
<1>8. QED
  BY <1>4, <1>5, <1>6, <1>7

\* remove_cancelled, and the clean-up of active requests.
LEMMA SweepKeeps ==
  ASSUME SlotCore, StreamIInv, NEW r \in Requests, Sweep(r) \/ ExitActive(r)
  PROVE  StreamIInv'
<1>0. TypeOK /\ worker \in WorkerLocals
  BY WorkerParts DEF SlotCore
<1>1. worker.todo \subseteq worker.active
  BY DEF StreamIInv, ShapeInv
<1>2. CASE Sweep(r) /\ state[r].cancel_requested
  <2>1. /\ worker.pc = "sweep" /\ r \in worker.todo /\ UNCHANGED closeFrame
        /\ CancelActive([worker EXCEPT !.todo = @ \ {r}], r, "sweep")
    BY <1>2 DEF Sweep
  <2>2. QED
    BY <1>1, <2>1, CancelActiveKeeps
<1>3. CASE ExitActive(r)
  BY <1>3, CancelActiveKeeps DEF ExitActive
<1>4. CASE Sweep(r) /\ ~state[r].cancel_requested
  <2>1. /\ worker.pc = "sweep" /\ r \in worker.todo
        /\ worker' = [worker EXCEPT !.todo = @ \ {r}]
        /\ UNCHANGED <<state, free, commands, handle, held, permit, produced, session>>
    BY <1>4 DEF Sweep, closeFrame, clientVars
  <2>2. /\ worker'.pc = "sweep" /\ worker'.pending = worker.pending
        /\ worker'.ready = worker.ready /\ worker'.active = worker.active
        /\ worker'.todo = worker.todo \ {r} /\ worker'.batch = worker.batch
        /\ worker'.cur = worker.cur
    BY <1>0, <2>1 DEF WorkerLocals
  <2>3. ShapeInv'
    BY <2>1, <2>2 DEF StreamIInv, ShapeInv, At, Walking
  <2>4. \A x \in Requests : ViewKept(x)
    BY <2>1, <2>2 DEF ViewKept, Waiting, Releasing, Retiring, Accepting, Scanned,
                      Took, Stepped, At, Walking
  <2>5. \A x \in Requests : Bystander(x)
    BY <2>1, <2>4 DEF Bystander
  <2>6. QED
    BY <2>3, <2>5, BystanderKeeps DEF StreamIInv
<1>5. QED
  BY <1>2, <1>3, <1>4

\* remove_finished takes out what is finished, has failed or is cancelled.
LEMMA ReapKeeps ==
  ASSUME SlotCore, StreamIInv, NEW r \in Requests, Reap(r)
  PROVE  StreamIInv'
<1> DEFINE s == state[r]
           w == [worker EXCEPT !.todo = @ \ {r}]
<1>0. /\ TypeOK /\ worker \in WorkerLocals /\ worker.pc = "reap" /\ r \in worker.todo
      /\ UNCHANGED <<state, free, commands, handle, held, permit, produced>>
      /\ session \in [Requests -> {"none", "open", "cancelled", "dropped"}]
      /\ session' = IF Aborted(s) THEN [session EXCEPT ![r] = "cancelled"] ELSE session
      /\ IF s.producer_finished \/ Aborted(s)
         THEN Retire([w EXCEPT !.active = @ \ {r}], r, "reap")
         ELSE worker' = w
  BY WorkerParts DEF SlotCore, TypeOK, Reap, closeFrame, clientVars
<1>1. r \in worker.active /\ QuietQueue
  BY <1>0 DEF StreamIInv, ShapeInv, QuietQueue
<1>2. CASE s.producer_finished \/ Aborted(s)
  <2>1. /\ worker'.pc = "release" /\ worker'.cur = {r} /\ worker'.ret = "reap"
        /\ worker'.batch = worker.batch /\ worker'.pending = worker.pending
        /\ worker'.ready = worker.ready /\ worker'.active = worker.active \ {r}
        /\ worker'.todo = worker.todo \ {r}
    <3> DEFINE v == [w EXCEPT !.active = @ \ {r}]
    <3>1. /\ v \in WorkerLocals /\ v.batch = worker.batch /\ v.pending = worker.pending
          /\ v.ready = worker.ready /\ v.active = worker.active \ {r}
          /\ v.todo = worker.todo \ {r}
      BY <1>0 DEF WorkerLocals
    <3> HIDE DEF v
    <3>2. Retire(v, r, "reap")
      BY <1>0, <1>2 DEF v
    <3>3. worker' = [v EXCEPT !.pc = "release", !.cur = {r}, !.ret = "reap"]
      BY <3>2 DEF Retire
    <3>4. QED
      BY <3>1, <3>3 DEF WorkerLocals
  <2>2. r \notin worker.pending \cup worker.ready \cup QueuedStarts(commands)
    BY <1>1, Places DEF Waiting
  <2>3. TakenOut(r, "reap")
    BY <1>0, <1>1, <2>1, <2>2 DEF TakenOut
  <2>4. Decided(s)
    BY <1>2 DEF Decided, Aborted
  <2>5. /\ \A x \in Requests : x # r => session'[x] = session[x]
        /\ session'[r] = IF Aborted(s) THEN "cancelled" ELSE session[r]
    BY <1>0
  <2>6. session'[r] = "open" => s.producer_finished /\ s.failure = "none"
    BY <1>2, <2>5 DEF Aborted
  <2>7. QED
    BY <1>0, <2>3, <2>4, <2>5, <2>6, TakenOutKeeps
<1>3. CASE ~(s.producer_finished \/ Aborted(s))
  <2>1. worker' = w /\ UNCHANGED session
    BY <1>0, <1>3
  <2>2. /\ worker'.pc = "reap" /\ worker'.pending = worker.pending
        /\ worker'.ready = worker.ready /\ worker'.active = worker.active
        /\ worker'.todo = worker.todo \ {r} /\ worker'.batch = worker.batch
        /\ worker'.cur = worker.cur
    BY <1>0, <2>1 DEF WorkerLocals
  <2>3. ShapeInv'
    BY <1>0, <2>2 DEF StreamIInv, ShapeInv, At, Walking
  <2>4. \A x \in Requests : x # r => ViewKept(x)
    BY <1>0, <2>2 DEF ViewKept, Waiting, Releasing, Retiring, Accepting, Scanned,
                      Took, Stepped, At, Walking
  <2>5. \A x \in Requests : x # r => RequestInv(x)'
    BY <1>0, <2>1, <2>4, BystanderKeeps DEF Bystander, StreamIInv
  <2>6. /\ Waiting(r)' <=> Waiting(r)
        /\ ~Releasing(r)' /\ ~Retiring(r)' /\ ~Retiring(r)
        /\ ~Accepting(r)' /\ ~Scanned(r)' /\ ~Took(r)' /\ ~Took(r)
    BY <1>0, <2>2 DEF Waiting, Releasing, Retiring, Accepting, Scanned, Took
  <2>7. LifeInv(r)'
    BY <1>0, <2>1, <2>2, <2>6 DEF StreamIInv, RequestInv, LifeInv
  <2>8. BufferInv(r)'
    BY <1>0, <2>1, <2>2, <2>6
    DEF StreamIInv, RequestInv, BufferInv, Alive, BuffersOf, Taken, Took
  <2>9. StreamInv(r)'
    BY <1>0, <1>3, <2>2, <2>6 DEF StreamIInv, RequestInv, StreamInv
  <2>10. QED
    BY <2>3, <2>5, <2>7, <2>8, <2>9 DEF StreamIInv, RequestInv
<1>4. QED
  BY <1>2, <1>3

\* The drop of a request gives up session and permit; mark_retired comes after.
LEMMA ReleaseKeeps ==
  ASSUME SlotCore, StreamIInv, NEW r \in Requests, Release(r)
  PROVE  StreamIInv'
<1>0. /\ TypeOK /\ worker \in WorkerLocals /\ worker.pc = "release" /\ r \in worker.cur
      /\ UNCHANGED <<state, free, commands, handle, held, produced>>
      /\ session \in [Requests -> {"none", "open", "cancelled", "dropped"}]
      /\ permit \in [Requests -> BOOLEAN] /\ permit' = [permit EXCEPT ![r] = FALSE]
      /\ session' = [session EXCEPT ![r] = IF @ = "none" THEN @ ELSE "dropped"]
  BY WorkerParts DEF SlotCore, TypeOK, Release, clientVars
<1>1. /\ worker'.pc = "retire" /\ worker'.pending = worker.pending
      /\ worker'.ready = worker.ready /\ worker'.active = worker.active
      /\ worker'.todo = worker.todo /\ worker'.batch = worker.batch
      /\ worker'.cur = worker.cur /\ worker'.ret = worker.ret
  BY <1>0 DEF Release, GoTo, WorkerLocals
<1>2. ShapeInv'
  BY <1>0, <1>1 DEF StreamIInv, ShapeInv, At, Walking
<1>3. worker.cur = {r}
  BY <1>0 DEF StreamIInv, ShapeInv
<1>4. \A x \in Requests : x # r => ViewKept(x)
  BY <1>0, <1>1, <1>3 DEF ViewKept, Waiting, Releasing, Retiring, Accepting, Scanned,
                          Took, Stepped, At, Walking
<1>5. \A x \in Requests : x # r => RequestInv(x)'
  BY <1>0, <1>4, BystanderKeeps DEF Bystander, StreamIInv
<1>6. Releasing(r) /\ permit[r] /\ ~Waiting(r) /\ r \notin worker.active
  BY <1>0, Places DEF Releasing
<1>7. /\ ~Waiting(r)' /\ handle[r] \notin {"new", "starting"} /\ ~Releasing(r)'
      /\ ~Accepting(r)' /\ ~Scanned(r)' /\ ~Took(r)' /\ ~Took(r)
  BY <1>0, <1>1, <1>6 DEF Waiting, Releasing, Accepting, Scanned, Took
<1>8. LifeInv(r)'
  <2>1. LifeInv(r) /\ Decided(state[r])
    BY <1>6 DEF StreamIInv, RequestInv, LifeInv
  <2>2. session'[r] \in {"none", "dropped"} /\ ~permit'[r]
    BY <1>0
  <2>3. QED
    BY <1>0, <1>1, <1>6, <1>7, <2>1, <2>2 DEF LifeInv, Retiring
<1>9. BufferInv(r)'
  BY <1>0, <1>7 DEF StreamIInv, RequestInv, BufferInv, Alive, BuffersOf, Taken, Took
<1>10. StreamInv(r)'
  BY <1>0, <1>1, <1>6, <1>7 DEF StreamIInv, RequestInv, StreamInv
<1>11. QED
  BY <1>2, <1>5, <1>8, <1>9, <1>10 DEF StreamIInv, RequestInv

LEMMA RetiredKeeps ==
  ASSUME SlotCore, StreamIInv, NEW r \in Requests, MarkRetired(r)
  PROVE  StreamIInv'
<1>0. /\ TypeOK /\ worker \in WorkerLocals /\ worker.pc = "retire" /\ r \in worker.cur
      /\ UNCHANGED <<free, commands, handle, held, produced, permit, session>>
      /\ state \in [Requests -> RequestState]
      /\ state' = [state EXCEPT ![r].retired = TRUE]
      /\ worker.ret \notin {"closing", "done"}
  BY WorkerParts DEF SlotCore, TypeOK, MarkRetired, stateFrame, clientVars, QuitInv
<1>1. /\ worker'.pc = worker.ret /\ worker'.pending = worker.pending
      /\ worker'.ready = worker.ready /\ worker'.active = worker.active
      /\ worker'.todo = worker.todo /\ worker'.batch = worker.batch
      /\ worker'.cur = {} /\ worker'.ret = worker.ret
  BY <1>0 DEF MarkRetired, WorkerLocals
<1>2. worker.batch = {} /\ worker.cur = {r}
      /\ (worker.todo # {} => worker.ret \in {"sweep", "reap"})
  BY <1>0 DEF StreamIInv, ShapeInv, At, Walking
<1>3. ShapeInv'
  BY <1>0, <1>1, <1>2 DEF StreamIInv, ShapeInv, At, Walking
<1>4. \A x \in Requests : x # r => ViewKept(x)
  BY <1>0, <1>1, <1>2 DEF ViewKept, Waiting, Releasing, Retiring, Accepting, Scanned,
                          Took, Stepped, At, Walking
<1>5. \A x \in Requests : x # r => RequestInv(x)'
  BY <1>0, <1>4, BystanderKeeps DEF Bystander, StreamIInv
<1>6. /\ state[r] \in RequestState /\ state'[r] = [state[r] EXCEPT !.retired = TRUE]
  BY <1>0
<1>7. /\ state'[r].phase = state[r].phase /\ state'[r].packets = state[r].packets
      /\ state'[r].producer_finished = state[r].producer_finished
      /\ state'[r].finish_reason = state[r].finish_reason /\ state'[r].retired
      /\ state'[r].cancel_requested = state[r].cancel_requested
      /\ state'[r].failure = state[r].failure /\ state'[r].emitted = state[r].emitted
  BY <1>6, PhaseFields
<1>8. Retiring(r) /\ ~permit[r]
  BY <1>0 DEF Retiring, StreamIInv, RequestInv, LifeInv
<1>9. r \notin worker.active /\ ~Waiting(r)
  <2>1. r \notin worker.active \cup worker.pending \cup worker.ready
             \cup QueuedStarts(commands) /\ handle[r] # "starting"
    BY <1>8, Places
  <2>2. Decided(state[r])
    BY <1>8 DEF StreamIInv, RequestInv, LifeInv
  <2>3. handle[r] # "new"
    BY <2>2 DEF StreamIInv, RequestInv, LifeInv, Decided, NewState
  <2>4. QED
    BY <2>1, <2>3 DEF Waiting
<1>10. /\ ~Waiting(r)' /\ handle[r] \notin {"new", "starting"} /\ ~Releasing(r)'
       /\ ~Retiring(r)' /\ ~Accepting(r)' /\ ~Scanned(r)' /\ ~Took(r)' /\ ~Took(r)
  BY <1>0, <1>1, <1>2, <1>9 DEF Waiting, Releasing, Retiring, Accepting, Scanned, Took,
                                StreamIInv, ShapeInv
<1>11. LifeInv(r)'
  BY <1>0, <1>1, <1>7, <1>8, <1>9, <1>10 DEF StreamIInv, RequestInv, LifeInv, Decided
<1>12. BufferInv(r)'
  <2>1. Taken(r) = 0 /\ Taken(r)' = 0
    BY <1>10 DEF Taken, Took
  <2>2. BuffersOf(r)' = BuffersOf(r) /\ (Alive(r)' => Alive(r))
    BY <1>0, <1>7, <2>1 DEF BuffersOf, Alive
  <2>3. QED
    BY <1>7, <1>10, <2>2 DEF StreamIInv, RequestInv, BufferInv
<1>13. StreamInv(r)'
  <2>1. Withdrawn(state'[r]) <=> Withdrawn(state[r])
    BY <1>7 DEF Withdrawn
  <2>2. QED
    BY <1>0, <1>1, <1>7, <1>9, <1>10, <2>1 DEF StreamIInv, RequestInv, StreamInv
<1>14. QED
  BY <1>3, <1>5, <1>11, <1>12, <1>13 DEF StreamIInv, RequestInv

\* can_accept_packet: the scan remembers r only after both locks.
LEMMA ScanKeeps ==
  ASSUME SlotCore, StreamIInv, NEW r \in Requests, ScanState(r) \/ ScanFree(r)
  PROVE  StreamIInv'
<1>0. /\ TypeOK /\ worker \in WorkerLocals
      /\ UNCHANGED <<state, free, commands, handle, held, produced, permit, session>>
  BY WorkerParts DEF SlotCore, ScanState, ScanFree, workerFrame, clientVars
<1>1. /\ worker.pc \in {"scan", "scanFree"} /\ worker'.pc \in {"scan", "scanFree"}
      /\ worker'.pending = worker.pending
      /\ worker'.ready = worker.ready /\ worker'.active = worker.active
  BY <1>0 DEF ScanState, ScanFree, WorkerLocals
<1>2. ShapeInv' /\ \A x \in Requests : x # r => ViewKept(x)
  <2> USE DEF StreamIInv, ShapeInv, ViewKept, Waiting, Releasing, Retiring, Accepting,
              Scanned, Took, Stepped, At, Walking
  <2>1. CASE ScanState(r)
    BY <1>0, <2>1 DEF ScanState, WorkerLocals
  <2>2. CASE ScanFree(r)
    <3>1. /\ worker.pc = "scanFree" /\ r \in worker.cur /\ worker.cur = {r}
          /\ worker'.pc = "scan" /\ worker'.cur = {} /\ worker'.todo = worker.todo \ {r}
          /\ worker'.batch \in {worker.batch, worker.batch \cup {r}}
      BY <1>0, <2>2 DEF ScanFree, WorkerLocals
    <3>2. ShapeInv'
      BY <1>0, <1>1, <3>1
    <3>3. QED
      BY <1>0, <1>1, <3>1, <3>2
  <2>3. QED
    BY <2>1, <2>2
<1>3. \A x \in Requests : x # r => RequestInv(x)'
  BY <1>0, <1>2, BystanderKeeps DEF Bystander, StreamIInv
<1>4. /\ Waiting(r)' <=> Waiting(r)
      /\ ~Releasing(r)' /\ ~Retiring(r)' /\ ~Retiring(r)
      /\ ~Took(r)' /\ ~Took(r) /\ ~Stepped(r)
  BY <1>0, <1>1 DEF Waiting, Releasing, Retiring, Took, Stepped, At, Walking
<1>5. LifeInv(r)'
  BY <1>0, <1>1, <1>4 DEF StreamIInv, RequestInv, LifeInv
<1>6. BufferInv(r)'
  <2>1. /\ Accepting(r)' => AcceptsPacket(state[r])
        /\ Scanned(r)' => Scanned(r) \/ (Accepting(r) /\ free[r] > 0)
    <3>1. CASE ScanState(r)
      BY <1>0, <3>1 DEF ScanState, Accepting, Scanned, WorkerLocals
    <3>2. CASE ScanFree(r)
      BY <1>0, <3>2 DEF ScanFree, HasFreePcm, Accepting, Scanned, WorkerLocals
    <3>3. QED
      BY <3>1, <3>2
  <2>2. QED
    BY <1>0, <1>4, <2>1 DEF StreamIInv, RequestInv, BufferInv, AcceptsPacket, Alive,
                            BuffersOf, Taken, Took
<1>7. StreamInv(r)'
  BY <1>0, <1>1, <1>4 DEF StreamIInv, RequestInv, StreamInv
<1>8. QED
  BY <1>2, <1>3, <1>5, <1>6, <1>7 DEF StreamIInv, RequestInv

-----------------------------------------------------------------------------
(* The step of the backend.                                                *)

\* take_pcm finds the buffer that the scan has seen: only the worker takes any.
LEMMA TakeKeeps ==
  ASSUME SlotCore, StreamIInv, NEW r \in Requests, TakePcm(r)
  PROVE  StreamIInv'
<1>0. /\ TypeOK /\ worker \in WorkerLocals /\ worker.pc = "take" /\ r \in worker.todo
      /\ UNCHANGED <<handle, held, produced, permit, session>>
      /\ free \in [Requests -> Nat]
  BY WorkerParts DEF SlotCore, TypeOK, TakePcm, stateFrame, clientVars
<1>1. free[r] > 0 /\ state[r].failure = "none" /\ r \notin worker.batch
  BY <1>0 DEF StreamIInv, ShapeInv, RequestInv, BufferInv, Scanned
<1>2. /\ free' = [free EXCEPT ![r] = @ - 1]
      /\ worker' = [worker EXCEPT !.todo = @ \ {r}, !.batch = @ \cup {r}]
      /\ UNCHANGED <<state, commands>>
  BY <1>1 DEF TakePcm
<1>3. /\ worker'.pc = "take" /\ worker'.pending = worker.pending
      /\ worker'.ready = worker.ready /\ worker'.active = worker.active
      /\ worker'.todo = worker.todo \ {r} /\ worker'.batch = worker.batch \cup {r}
      /\ worker'.cur = worker.cur
  BY <1>0, <1>2 DEF WorkerLocals
<1>4. ShapeInv'
  BY <1>0, <1>2, <1>3 DEF StreamIInv, ShapeInv, At, Walking
<1>5. \A x \in Requests : x # r => ViewKept(x)
  BY <1>0, <1>2, <1>3 DEF ViewKept, Waiting, Releasing, Retiring, Accepting, Scanned,
                          Took, Stepped, At, Walking
<1>6. /\ free'[r] = free[r] - 1
      /\ \A x \in Requests : x # r => free'[x] = free[x]
  BY <1>0, <1>2
<1>7. \A x \in Requests : x # r => RequestInv(x)'
  BY <1>0, <1>2, <1>5, <1>6, BystanderKeeps DEF Bystander, StreamIInv
<1>8. /\ Waiting(r)' <=> Waiting(r)
      /\ ~Releasing(r)' /\ ~Retiring(r)' /\ ~Retiring(r)
      /\ ~Accepting(r)' /\ ~Scanned(r)' /\ ~Stepped(r)
  BY <1>0, <1>2, <1>3 DEF Waiting, Releasing, Retiring, Accepting, Scanned, Stepped, At,
                          Walking
<1>9. LifeInv(r)'
  BY <1>0, <1>2, <1>3, <1>8 DEF StreamIInv, RequestInv, LifeInv
<1>10. BufferInv(r)'
  <2>1. Taken(r) = 0 /\ Taken(r)' = 1
    BY <1>0, <1>1, <1>3 DEF Taken
  <2>2. Len(state[r].packets) \in Nat /\ held[r] \in Nat /\ free[r] \in Nat
    BY <1>0, WorkerParts
  <2>3. Alive(r)' = Alive(r)
    BY <1>0, <1>2 DEF Alive
  <2>4. state'[r] = state[r] /\ held'[r] = held[r]
    BY <1>0, <1>2
  <2>5. BuffersOf(r)' = BuffersOf(r)
    <3> DEFINE f == free[r]
               l == Len(state[r].packets)
               h == held[r]
    <3>1. BuffersOf(r)' = (f - 1) + l + h + 1
      BY <1>6, <2>1, <2>4 DEF BuffersOf
    <3>2. BuffersOf(r) = f + l + h + 0
      BY <2>1 DEF BuffersOf
    <3>3. f \in Nat /\ l \in Nat /\ h \in Nat
      BY <2>2
    <3> HIDE DEF f, l, h
    <3>4. QED
      BY <3>1, <3>2, <3>3
  <2>6. QED
    BY <1>1, <1>2, <1>8, <2>3, <2>5 DEF StreamIInv, RequestInv, BufferInv
<1>11. StreamInv(r)'
  BY <1>0, <1>2, <1>3, <1>8 DEF StreamIInv, RequestInv, StreamInv
<1>12. QED
  BY <1>4, <1>7, <1>9, <1>10, <1>11 DEF StreamIInv, RequestInv

\* What every result of step_batch does to the worker and the other requests.
StepsOn(r) ==
  /\ worker.pc = "step" /\ r \in worker.batch
  /\ worker' = [worker EXCEPT !.batch = @ \ {r}]
  /\ QuietQueue
  /\ UNCHANGED <<handle, held, permit, session>>
  /\ \A x \in Requests : x # r =>
       state'[x] = state[x] /\ free'[x] = free[x] /\ produced'[x] = produced[x]

LEMMA StepView ==
  ASSUME SlotCore, StreamIInv, NEW r \in Requests, StepsOn(r)
  PROVE  /\ ShapeInv' /\ \A x \in Requests : x # r => RequestInv(x)'
         /\ r \in worker.active /\ worker'.active = worker.active
         /\ ~Waiting(r) /\ ~Waiting(r)' /\ handle[r] \notin {"new", "starting"}
         /\ permit[r] /\ ~state[r].retired /\ session[r] = "open"
         /\ ~Releasing(r)' /\ ~Retiring(r)' /\ ~Accepting(r)' /\ ~Scanned(r)'
         /\ ~Took(r)' /\ Stepped(r)' /\ Took(r) /\ ~Stepped(r)
<1>0. worker \in WorkerLocals
  BY WorkerParts DEF SlotCore
<1>1. /\ worker'.pc = "step" /\ worker'.pending = worker.pending
      /\ worker'.ready = worker.ready /\ worker'.active = worker.active
      /\ worker'.todo = worker.todo /\ worker'.batch = worker.batch \ {r}
      /\ worker'.cur = worker.cur
  BY <1>0 DEF StepsOn, WorkerLocals
<1>2. ShapeInv'
  BY <1>1 DEF StepsOn, QuietQueue, StreamIInv, ShapeInv, At, Walking
<1>3. \A x \in Requests : Waiting(x)' => Waiting(x)
  BY <1>1 DEF StepsOn, QuietQueue, Waiting
<1>4. \A x \in Requests : x # r => ViewKept(x)
  BY <1>1, <1>3 DEF StepsOn, QuietQueue, ViewKept, Releasing, Retiring, Accepting,
                    Scanned, Took, Stepped, At, Walking
<1>5. \A x \in Requests : x # r => RequestInv(x)'
  BY <1>4, BystanderKeeps DEF StepsOn, Bystander, StreamIInv
<1>6. r \in worker.active
  BY DEF StepsOn, StreamIInv, ShapeInv
<1>7. ~Waiting(r) /\ permit[r]
  BY <1>6, Places
<1>8. ~Waiting(r)' /\ handle[r] \notin {"new", "starting"}
  BY <1>3, <1>7 DEF Waiting
<1>9. ~state[r].retired /\ session[r] = "open"
  BY <1>6, <1>7 DEF StreamIInv, RequestInv, LifeInv
<1>10. QED
  BY <1>1, <1>2, <1>5, <1>6, <1>7, <1>8, <1>9
  DEF StepsOn, Releasing, Retiring, Accepting, Scanned, Took, Stepped, At, Walking

LEMMA StepErrKeeps ==
  ASSUME SlotCore, StreamIInv, NEW r \in Requests, StepErr(r)
  PROVE  StreamIInv'
<1>0. /\ TypeOK /\ state[r] \in RequestState /\ Len(state[r].packets) \in Nat
      /\ free[r] \in Nat /\ held[r] \in Nat /\ RequestInv(r)
  BY WorkerParts DEF SlotCore, StreamIInv
<1>1. /\ QuietQueue /\ state'[r] = MarkFailed(state[r], "backend")
      /\ free'[r] = free[r] + 1 + Len(state[r].packets)
      /\ \A x \in Requests : x # r => state'[x] = state[x] /\ free'[x] = free[x]
      /\ UNCHANGED <<handle, held, permit, session, produced>>
  BY <1>0, RecycleEffect DEF StepErr, QuietQueue, stateFrame, clientVars
<1>2. StepsOn(r)
  BY <1>1 DEF StepErr, StepsOn
<1>3. /\ state'[r].phase = "Failed" /\ state'[r].packets = <<>>
      /\ state'[r].producer_finished /\ state'[r].finish_reason = "None"
      /\ state'[r].retired = state[r].retired /\ state'[r].failure = "backend"
      /\ state'[r].cancel_requested = state[r].cancel_requested
  BY <1>0, <1>1, MarkFields
<1>4. LifeInv(r)'
  BY <1>1, <1>2, <1>3, StepView DEF LifeInv
<1>5. BufferInv(r)'
  <2>1. Taken(r) = 1 /\ Taken(r)' = 0
    BY <1>2, StepView DEF Taken, Took
  <2>2. Len(state'[r].packets) = 0 /\ Alive(r)' = Alive(r)
    BY <1>1, <1>3 DEF Alive
  <2>3. /\ Len(state[r].packets) \in Nat /\ free[r] \in Nat /\ held[r] \in Nat
        /\ free'[r] = free[r] + 1 + Len(state[r].packets) /\ held'[r] = held[r]
    BY <1>0, <1>1
  <2>4. Len(state'[r].packets) = 0
    BY <2>2
  <2>5. BuffersOf(r)' = BuffersOf(r)
    <3> DEFINE f == free[r]
               l == Len(state[r].packets)
               h == held[r]
    <3>1. BuffersOf(r)' = (f + 1 + l) + 0 + h + 0
      BY <2>1, <2>3, <2>4 DEF BuffersOf
    <3>2. BuffersOf(r) = f + l + h + 1
      BY <2>1 DEF BuffersOf
    <3>3. f \in Nat /\ l \in Nat /\ h \in Nat
      BY <2>3
    <3> HIDE DEF f, l, h
    <3>4. QED
      BY <3>1, <3>2, <3>3
  <2>6. QED
    BY <1>0, <1>2, <1>3, <2>2, <2>5, StepView DEF RequestInv, BufferInv
<1>6. StreamInv(r)'
  <2>1. Withdrawn(state'[r])
    BY <1>3 DEF Withdrawn
  <2>2. QED
    BY <1>0, <1>1, <1>3, <2>1 DEF RequestInv, StreamInv, QuietQueue
<1>7. QED
  BY <1>2, <1>4, <1>5, <1>6, StepView DEF StreamIInv, RequestInv

\* The packet of a step is queued unless the client has cancelled meanwhile;

\* nothing else can have filled the ring or failed the request.
LEMMA StepPacketKeeps ==
  ASSUME SlotCore, StreamIInv, NEW r \in Requests, StepPacket(r)
  PROVE  StreamIInv'
<1> DEFINE s == state[r]
<1>0. /\ TypeOK /\ s \in RequestState /\ Len(s.packets) \in Nat
      /\ free[r] \in Nat /\ held[r] \in Nat /\ produced[r] \in Nat /\ s.emitted \in Nat
      /\ RequestInv(r) /\ state \in [Requests -> RequestState]
      /\ produced \in [Requests -> Nat] /\ s.packets \in PacketSeq
      /\ PacketFrames \in Nat /\ MaxFrames \in Nat /\ RingSlots \in Nat
  BY WorkerParts, ConstantsAssumption DEF SlotCore, StreamIInv, TypeOK
<1>1. worker.pc = "step" /\ r \in worker.batch /\ r \in worker.active
  BY DEF StepPacket, StreamIInv, ShapeInv
<1>2. Took(r) /\ Taken(r) = 1 /\ ~Stepped(r)
  BY <1>1 DEF Took, Taken, Stepped, At, Walking
<1>3. permit[r] /\ ~s.retired
  BY <1>0, <1>1, Places DEF RequestInv, LifeInv
<1>4. s.failure = "none" /\ BuffersOf(r) = RingSlots
  BY <1>0, <1>2, <1>3 DEF RequestInv, BufferInv, Alive
<1>5. Len(s.packets) < RingSlots
  BY <1>0, <1>2, <1>4 DEF BuffersOf
<1>6. PICK b \in BackendPacket :
        /\ ValidPacket(b) /\ WithinLimit(r, b)
        /\ produced' = [produced EXCEPT ![r] = @ + b.frames]
        /\ LET p == [first |-> produced[r], frames |-> b.frames,
                     final |-> b.final, reason |-> b.reason]
           IN  IF AcceptsPacket(s)
               THEN /\ state' = [state EXCEPT ![r] = PushPacket(s, p)]
                    /\ UNCHANGED <<free, commands>>
               ELSE IF s.cancel_requested THEN Recycle(r, s, 0)
               ELSE Recycle(r, MarkFailed(s, "overflow"), Len(s.packets))
  BY DEF StepPacket
<1> DEFINE p == [first |-> produced[r], frames |-> b.frames,
                 final |-> b.final, reason |-> b.reason]
<1>7. /\ b.frames \in Nat /\ b.frames \in 1 .. PacketFrames /\ b.final \in BOOLEAN
      /\ b.final <=> b.reason # "None"
  BY <1>0, <1>6 DEF BackendPacket, ValidPacket
<1>8. /\ p \in Packet /\ p.first = produced[r] /\ p.frames = b.frames
      /\ p.final = b.final /\ p.reason = b.reason
  BY <1>0, <1>7 DEF BackendPacket, Packet
<1>9. /\ produced'[r] = produced[r] + b.frames
      /\ \A x \in Requests : x # r => produced'[x] = produced[x]
  BY <1>0, <1>6
<1>10. UNCHANGED <<handle, held, permit, session>>
       /\ worker' = [worker EXCEPT !.batch = @ \ {r}]
  BY DEF StepPacket, clientVars
<1> HIDE DEF p
<1>11. CASE AcceptsPacket(s)
  <2>1. /\ state'[r] = PushPacket(s, p) /\ UNCHANGED <<free, commands>>
        /\ \A x \in Requests : x # r => state'[x] = state[x]
    BY <1>0, <1>6, <1>11 DEF p
  <2>2. StepsOn(r)
    BY <1>1, <1>9, <1>10, <2>1 DEF StepsOn, QuietQueue
  <2>3. /\ state'[r].packets = Append(s.packets, p)
        /\ state'[r].phase = IF b.final THEN "Draining" ELSE s.phase
        /\ state'[r].producer_finished = (b.final \/ s.producer_finished)
        /\ state'[r].finish_reason = IF b.final THEN b.reason ELSE s.finish_reason
        /\ state'[r].retired = s.retired
        /\ state'[r].cancel_requested = s.cancel_requested
        /\ state'[r].failure = s.failure /\ state'[r].emitted = s.emitted
    BY <1>0, <1>8, <2>1, PushFields
  <2>4. LifeInv(r)'
    BY <1>3, <1>10, <2>2, <2>3, StepView DEF LifeInv
  <2>5. BufferInv(r)'
    <3>1. Taken(r)' = 0
      BY <2>2, StepView DEF Taken, Took
    <3>2. Len(state'[r].packets) = Len(s.packets) + 1 /\ Alive(r)' = Alive(r)
      BY <1>0, <1>8, <1>10, <2>3 DEF Alive, PacketSeq
    <3>3. BuffersOf(r)' = BuffersOf(r)
      <4> DEFINE f == free[r]
                 l == Len(s.packets)
                 h == held[r]
      <4>1. BuffersOf(r)' = f + (l + 1) + h + 0
        BY <1>10, <2>1, <3>1, <3>2 DEF BuffersOf
      <4>2. BuffersOf(r) = f + l + h + 1
        BY <1>2 DEF BuffersOf
      <4>3. f \in Nat /\ l \in Nat /\ h \in Nat
        BY <1>0
      <4> HIDE DEF f, l, h
      <4>4. QED
        BY <4>1, <4>2, <4>3
    <3>4. QED
      BY <1>4, <2>2, <2>3, <3>3, StepView DEF BufferInv
  <2>6. ~Withdrawn(s) /\ ~Withdrawn(state'[r])
    BY <1>0, <1>11, <2>3 DEF AcceptsPacket, Withdrawn, RequestInv, StreamInv
  <2>7. /\ ~s.producer_finished /\ s.phase # "Completed" /\ s.finish_reason = "None"
        /\ Chain(s.packets, s.emitted, produced[r], FALSE)
    <3>1. /\ ~s.producer_finished /\ s.phase # "Completed" /\ s.finish_reason = "None"
          /\ Chain(s.packets, s.emitted, produced[r], s.producer_finished)
      BY <1>0, <1>1, <1>2, <2>6 DEF RequestInv, StreamInv
    <3>2. QED
      BY <3>1 DEF Chain
  <2>8. Chain(state'[r].packets, state'[r].emitted, produced'[r],
              state'[r].producer_finished)
    <3>1. Chain(Append(s.packets, p), s.emitted, produced[r] + p.frames, p.final)
      BY <1>0, <1>7, <1>8, <2>7, ChainGrows
    <3>2. state'[r].producer_finished = p.final
      BY <1>7, <1>8, <2>3, <2>7
    <3>3. QED
      BY <1>8, <1>9, <2>3, <3>1, <3>2
  <2>9. /\ produced'[r] <= MaxFrames
        /\ produced'[r] = MaxFrames => state'[r].producer_finished
    BY <1>0, <1>6, <1>7, <1>9, <2>3 DEF WithinLimit
  <2>10. /\ state'[r].phase \notin {"Completed", "Cancelled"}
         /\ (state'[r].producer_finished <=> state'[r].finish_reason # "None")
    BY <1>0, <1>7, <1>11, <2>3, <2>7 DEF AcceptsPacket, RequestInv, StreamInv
  <2>11. StreamInv(r)'
    <3>1. handle'[r] \in {"cancelling", "dropping"} \/ r \in QueuedCancels(commands') =>
            state'[r].cancel_requested
      BY <1>0, <1>10, <2>1, <2>3 DEF RequestInv, StreamInv
    <3>2. ~Waiting(r)' /\ Stepped(r)'
      BY <2>2, StepView
    <3>3. QED
      BY <2>6, <2>8, <2>9, <2>10, <3>1, <3>2 DEF StreamInv
  <2>12. QED
    BY <2>2, <2>4, <2>5, <2>11, StepView DEF StreamIInv, RequestInv
<1>12. CASE ~AcceptsPacket(s)
  <2>1. s.cancel_requested
    BY <1>4, <1>5, <1>12 DEF AcceptsPacket
  <2>2. Recycle(r, s, 0)
    BY <1>6, <1>12, <2>1
  <2>3. /\ QuietQueue /\ state'[r] = s /\ free'[r] = free[r] + 1
        /\ \A x \in Requests : x # r => state'[x] = state[x] /\ free'[x] = free[x]
    BY <1>0, <2>2, RecycleEffect DEF QuietQueue
  <2>4. StepsOn(r)
    BY <1>1, <1>9, <1>10, <2>3 DEF StepsOn
  <2>5. LifeInv(r)'
    BY <1>3, <1>10, <2>3, <2>4, StepView DEF LifeInv
  <2>6. BufferInv(r)'
    <3>1. Taken(r)' = 0
      BY <2>4, StepView DEF Taken, Took
    <3>2. BuffersOf(r)' = BuffersOf(r)
      <4> DEFINE f == free[r]
                 l == Len(s.packets)
                 h == held[r]
      <4>1. BuffersOf(r)' = (f + 1) + l + h + 0
        BY <1>10, <2>3, <3>1 DEF BuffersOf
      <4>2. BuffersOf(r) = f + l + h + 1
        BY <1>2 DEF BuffersOf
      <4>3. f \in Nat /\ l \in Nat /\ h \in Nat
        BY <1>0
      <4> HIDE DEF f, l, h
      <4>4. QED
        BY <4>1, <4>2, <4>3
    <3>3. QED
      BY <1>4, <2>3, <2>4, <3>2, StepView DEF BufferInv
  <2>7. StreamInv(r)'
    <3>1. Withdrawn(s)
      BY <2>1 DEF Withdrawn
    <3>2. QED
      BY <1>0, <1>10, <2>3, <3>1 DEF RequestInv, StreamInv, QuietQueue
  <2>8. QED
    BY <2>4, <2>5, <2>6, <2>7, StepView DEF StreamIInv, RequestInv
<1>13. QED
  BY <1>11, <1>12

-----------------------------------------------------------------------------
(* The clients.                                                            *)

\* The branches of RequestHandle::poll.
LEMMA PollBranches ==
  ASSUME NEW s
  PROVE  /\ PollOutcome(s) = "Packet" => ~Withdrawn(s) /\ s.packets # <<>>
         /\ PollOutcome(s) = "EndOfStream" =>
              ~Withdrawn(s) /\ s.packets = <<>> /\ s.producer_finished
         /\ PollOutcome(s) = "WouldBlock" =>
              ~Withdrawn(s) /\ s.packets = <<>> /\ ~s.producer_finished
         /\ Withdrawn(s) => PollOutcome(s) \in {"Cancelled", "Failed"}
<1>1. CASE s.failure # "none"
  <2>1. Withdrawn(s) /\ PollOutcome(s) = "Failed"
    BY <1>1 DEF Withdrawn, PollOutcome
  <2>2. QED
    BY <2>1
<1>2. CASE s.failure = "none" /\ Withdrawn(s)
  <2>1. PollOutcome(s) = "Cancelled"
    BY <1>2 DEF PollOutcome
  <2>2. QED
    BY <1>2, <2>1
<1>3. CASE ~Withdrawn(s) /\ s.packets # <<>>
  <2>1. s.failure = "none"
    BY <1>3 DEF Withdrawn
  <2>2. PollOutcome(s) = "Packet"
    BY <1>3, <2>1 DEF PollOutcome
  <2>3. QED
    BY <1>3, <2>2
<1>4. CASE ~Withdrawn(s) /\ s.packets = <<>>
  <2>1. s.failure = "none"
    BY <1>4 DEF Withdrawn
  <2>2. PollOutcome(s) = IF s.producer_finished THEN "EndOfStream" ELSE "WouldBlock"
    BY <1>4, <2>1 DEF PollOutcome
  <2>3. QED
    BY <1>4, <2>2
<1>5. QED
  BY <1>1, <1>2, <1>3, <1>4 DEF Withdrawn

\* A step of the client of r, of which the worker notices at most a command.
ClientStep(r) ==
  /\ UNCHANGED <<worker, session, produced>>
  /\ QueuedStarts(commands') = QueuedStarts(commands)
  /\ \A x \in QueuedCancels(commands') : x \in QueuedCancels(commands) \/ x = r
  /\ \A x \in Requests : x # r =>
       /\ state'[x] = state[x] /\ free'[x] = free[x] /\ held'[x] = held[x]
       /\ handle'[x] = handle[x] /\ permit'[x] = permit[x]
  /\ handle'[r] \in {"new", "starting"} => handle[r] \in {"new", "starting"}

LEMMA ClientView ==
  ASSUME StreamIInv, NEW r \in Requests, ClientStep(r)
  PROVE  /\ ShapeInv' /\ \A x \in Requests : x # r => RequestInv(x)'
         /\ Waiting(r)' => Waiting(r)
         /\ Releasing(r)' <=> Releasing(r)
         /\ Retiring(r)' <=> Retiring(r)
         /\ Accepting(r)' <=> Accepting(r)
         /\ Scanned(r)' <=> Scanned(r)
         /\ Took(r)' <=> Took(r)
         /\ Taken(r)' = Taken(r)
         /\ Stepped(r)' <=> Stepped(r)
<1>1. ShapeInv'
  BY DEF ClientStep, StreamIInv, ShapeInv, At
<1>2. \A x \in Requests : x # r => ViewKept(x)
  BY DEF ClientStep, ViewKept, Waiting, Releasing, Retiring, Accepting, Scanned, Took,
         Stepped, At
<1>3. \A x \in Requests : x # r => RequestInv(x)'
  BY <1>2, BystanderKeeps DEF ClientStep, Bystander, StreamIInv
<1>4. QED
  BY <1>1, <1>3 DEF ClientStep, Waiting, Releasing, Retiring, Accepting, Scanned, Took,
                    Taken, Stepped, At

\* A packet that is dropped moves its buffer from the client to the pool.
LEMMA ReturnedBuffer ==
  ASSUME TypeOK, NEW r \in Requests, state'[r] = state[r], Taken(r)' = Taken(r),
         Taken(r) \in Nat, free'[r] = free[r] + 1, held'[r] = held[r] - 1
  PROVE  BuffersOf(r)' = BuffersOf(r)
<1> DEFINE k == Len(state[r].packets) + Taken(r)
<1>1. free[r] \in Nat /\ Len(state[r].packets) \in Nat /\ held[r] \in Nat
  BY WorkerParts
<1>2. k \in Nat
  BY <1>1, SMTT(60)
<1>3. BuffersOf(r) = free[r] + k + held[r]
  BY <1>1 DEF BuffersOf
<1>4. BuffersOf(r)' = free'[r] + k + held'[r]
  <2>1. free'[r] \in Nat /\ Len(state'[r].packets) = Len(state[r].packets)
    BY <1>1
  <2>2. held'[r] \in Int
    BY <1>1
  <2>3. QED
    BY <1>1, <2>1, <2>2 DEF BuffersOf
<1> HIDE DEF k
<1>5. QED
  BY <1>1, <1>2, <1>3, <1>4, SMTT(60)

\* Clients that poll, and packets that are dropped whenever they like.
LEMMA PollKeeps ==
  ASSUME SlotCore, StreamIInv, NEW r \in Requests,
         PollPacket(r) \/ PollEnd(r) \/ DropPacket(r)
  PROVE  StreamIInv'
<1> DEFINE s == state[r]
<1>0. /\ TypeOK /\ s \in RequestState /\ Len(s.packets) \in Nat
      /\ free[r] \in Nat /\ held[r] \in Nat /\ produced[r] \in Nat /\ s.emitted \in Nat
      /\ RequestInv(r) /\ state \in [Requests -> RequestState] /\ s.packets \in PacketSeq
      /\ free \in [Requests -> Nat] /\ held \in [Requests -> Nat]
      /\ commands \in Seq(Command) /\ Len(commands) <= ChannelCap
  BY WorkerParts DEF SlotCore, StreamIInv, TypeOK
<1>1. /\ commands' = commands \/ commands' = Woken(commands, 1)
      /\ UNCHANGED <<worker, session, produced, permit, handle>>
  BY DEF PollPacket, PollEnd, DropPacket, clientVars
<1>2. /\ QueuedStarts(commands') = QueuedStarts(commands)
      /\ QueuedCancels(commands') \subseteq QueuedCancels(commands)
  BY <1>0, <1>1, WokenStarts, WokenCancels
<1>3. ASSUME \A x \in Requests : x # r =>
               state'[x] = state[x] /\ free'[x] = free[x] /\ held'[x] = held[x]
      PROVE  ClientStep(r)
  BY <1>1, <1>2, <1>3 DEF ClientStep
<1>4. CASE PollPacket(r)
  <2>1. /\ handle[r] \in {"open", "cancelling"} /\ PollOutcome(s) = "Packet"
        /\ state' = [state EXCEPT ![r] = PopPacket(@)]
        /\ held' = [held EXCEPT ![r] = @ + 1] /\ UNCHANGED free
    BY <1>4 DEF PollPacket, CanPoll
  <2>2. ~Withdrawn(s) /\ s.packets # <<>>
    BY <2>1, PollBranches
  <2>3. /\ state'[r] = PopPacket(s) /\ held'[r] = held[r] + 1 /\ free'[r] = free[r]
        /\ ClientStep(r)
    BY <1>0, <1>3, <2>1
  <2>4. /\ state'[r].packets = Tail(s.packets)
        /\ state'[r].emitted = s.emitted + Head(s.packets).frames
        /\ state'[r].phase = IF Head(s.packets).final /\ Tail(s.packets) = <<>>
                             THEN "Completed" ELSE s.phase
        /\ state'[r].producer_finished = s.producer_finished
        /\ state'[r].finish_reason = s.finish_reason /\ state'[r].retired = s.retired
        /\ state'[r].cancel_requested = s.cancel_requested
        /\ state'[r].failure = s.failure
    <3> DEFINE x == PopPacket(s)
    <3>1. /\ x.packets = Tail(s.packets) /\ x.emitted = s.emitted + Head(s.packets).frames
          /\ x.phase = IF Head(s.packets).final /\ Tail(s.packets) = <<>>
                       THEN "Completed" ELSE s.phase
          /\ x.producer_finished = s.producer_finished
          /\ x.finish_reason = s.finish_reason /\ x.retired = s.retired
          /\ x.cancel_requested = s.cancel_requested /\ x.failure = s.failure
      BY <1>0, <2>2, PopFields
    <3> HIDE DEF x
    <3>2. state'[r] = x
      BY <2>3 DEF x
    <3>3. QED
      BY <3>1, <3>2
  <2>5. LifeInv(r)'
    <3>1. /\ Decided(state[r]) => Decided(state'[r])
          /\ state'[r].retired = state[r].retired /\ state'[r].failure = state[r].failure
          /\ state'[r].producer_finished = state[r].producer_finished
      BY <2>4 DEF Decided
    <3>2. LifeInv(r)
      BY <1>0 DEF RequestInv
    <3>3. handle'[r] = handle[r] /\ permit'[r] = permit[r] /\ session'[r] = session[r]
      BY <1>1
    <3>4. QED
      BY <1>1, <2>1, <2>3, <3>1, <3>2, <3>3, ClientView DEF LifeInv
  <2>6. BufferInv(r)'
    <3>1. Len(state'[r].packets) = Len(s.packets) - 1
      BY <1>0, <2>2, <2>4 DEF PacketSeq
    <3>2. Alive(r)' = Alive(r)
      BY <1>1, <2>4 DEF Alive
    <3>3. Taken(r)' = Taken(r) /\ Taken(r) \in Nat
      BY <2>3, ClientView DEF Taken
    <3>4. BuffersOf(r)' = BuffersOf(r)
      <4>1. /\ free[r] \in Nat /\ free'[r] = free[r]
            /\ held[r] \in Nat /\ held'[r] = held[r] + 1
            /\ Len(s.packets) \in Nat /\ Len(state'[r].packets) = Len(s.packets) - 1
        BY <1>0, <2>3, <3>1
      <4> DEFINE f == free[r]
                 l == Len(s.packets)
                 h == held[r]
                 k == Taken(r)
      <4>2. f \in Nat /\ l \in Nat /\ h \in Nat /\ k \in Nat
        BY <3>3, <4>1
      <4>3. BuffersOf(r)' = f + (l - 1) + (h + 1) + k
        BY <3>3, <4>1 DEF BuffersOf
      <4>4. BuffersOf(r) = f + l + h + k
        BY DEF BuffersOf
      <4> HIDE DEF f, l, h, k
      <4>5. QED
        BY <4>2, <4>3, <4>4
    <3>5. QED
      BY <1>0, <2>3, <2>4, <3>2, <3>4, ClientView DEF RequestInv, BufferInv
  <2>7. StreamInv(r)'
    <3>1. ~Withdrawn(state'[r])
      BY <2>2, <2>4 DEF Withdrawn
    <3>2. Chain(s.packets, s.emitted, produced[r], s.producer_finished)
      BY <1>0, <2>2 DEF RequestInv, StreamInv
    <3>3. /\ Chain(state'[r].packets, state'[r].emitted, produced'[r],
                   state'[r].producer_finished)
          /\ Head(s.packets).final => Tail(s.packets) = <<>> /\ s.producer_finished
      <4>1. s.packets \in PacketSeq /\ s.packets # <<>> /\ s.emitted \in Nat
        BY <1>0, <2>2
      <4>2. /\ Chain(Tail(s.packets), s.emitted + Head(s.packets).frames, produced[r],
                     s.producer_finished)
            /\ Head(s.packets).final => Tail(s.packets) = <<>> /\ s.producer_finished
        BY <3>2, <4>1, ChainShrinks
      <4>3. produced'[r] = produced[r]
        BY <1>1
      <4>4. QED
        BY <2>4, <4>2, <4>3
    <3>4. s.phase # "Completed"
      BY <1>0, <2>2 DEF RequestInv, StreamInv
    <3>5. /\ state'[r].phase = "Completed" =>
               state'[r].producer_finished /\ state'[r].packets = <<>>
          /\ state'[r].phase = "Cancelled" => state'[r].cancel_requested
      <4>1. s.phase = "Cancelled" => s.cancel_requested
        BY <1>0 DEF RequestInv, StreamInv
      <4>2. QED
        BY <2>4, <3>3, <3>4, <4>1
    <3>6. QED
      BY <1>0, <1>1, <1>2, <2>2, <2>3, <2>4, <3>1, <3>3, <3>5, ClientView
      DEF RequestInv, StreamInv
  <2>8. QED
    BY <2>3, <2>5, <2>6, <2>7, ClientView DEF StreamIInv, RequestInv
<1>5. CASE PollEnd(r)
  <2>1. /\ handle[r] \in {"open", "cancelling"} /\ PollOutcome(s) = "EndOfStream"
        /\ state' = [state EXCEPT ![r].phase = "Completed"] /\ UNCHANGED <<free, held>>
    BY <1>5 DEF PollEnd, CanPoll, clientVars
  <2>2. ~Withdrawn(s) /\ s.packets = <<>> /\ s.producer_finished
    BY <2>1, PollBranches
  <2>3. state'[r] = [s EXCEPT !.phase = "Completed"] /\ ClientStep(r)
    BY <1>0, <1>3, <2>1
  <2>4. /\ state'[r].packets = s.packets /\ state'[r].emitted = s.emitted
        /\ state'[r].phase = "Completed"
        /\ state'[r].producer_finished = s.producer_finished
        /\ state'[r].finish_reason = s.finish_reason /\ state'[r].retired = s.retired
        /\ state'[r].cancel_requested = s.cancel_requested
        /\ state'[r].failure = s.failure
    BY <1>0, <2>3, PhaseFields
  <2>5. LifeInv(r)'
    BY <1>0, <1>1, <2>1, <2>3, <2>4, ClientView DEF RequestInv, LifeInv, Decided
  <2>6. BufferInv(r)'
    <3>1. Alive(r)' = Alive(r)
      BY <1>1, <2>4 DEF Alive
    <3>2. Taken(r)' = Taken(r)
      BY <2>3, ClientView
    <3>3. BuffersOf(r)' = BuffersOf(r)
      BY <2>1, <2>4, <3>2 DEF BuffersOf
    <3>4. QED
      BY <1>0, <2>1, <2>3, <2>4, <3>1, <3>3, ClientView DEF RequestInv, BufferInv
  <2>7. StreamInv(r)'
    <3>1. ~Withdrawn(state'[r])
      BY <2>2, <2>4 DEF Withdrawn
    <3>2. QED
      BY <1>0, <1>1, <1>2, <2>2, <2>3, <2>4, <3>1, ClientView DEF RequestInv, StreamInv
  <2>8. QED
    BY <2>3, <2>5, <2>6, <2>7, ClientView DEF StreamIInv, RequestInv
<1>6. CASE DropPacket(r)
  <2>1. /\ held[r] > 0 /\ held' = [held EXCEPT ![r] = @ - 1] /\ UNCHANGED state
        /\ IF Alive(r) THEN free' = [free EXCEPT ![r] = @ + 1] ELSE UNCHANGED free
    BY <1>6 DEF DropPacket
  <2>2. /\ ClientStep(r) /\ held'[r] = held[r] - 1
        /\ free'[r] = IF Alive(r) THEN free[r] + 1 ELSE free[r]
    BY <1>0, <1>3, <2>1
  <2>3. LifeInv(r)'
    BY <1>0, <1>1, <2>1, <2>2, ClientView DEF RequestInv, LifeInv
  <2>4. BufferInv(r)'
    <3>1. Alive(r)' = Alive(r)
      BY <1>1, <2>1 DEF Alive
    <3>2. Taken(r)' = Taken(r) /\ Taken(r) \in Nat
      BY <2>2, ClientView DEF Taken
    <3>3. ASSUME Alive(r)
          PROVE  BuffersOf(r)' = BuffersOf(r)
      <4>1. free'[r] = free[r] + 1 /\ held'[r] = held[r] - 1
        BY <2>2, <3>3
      <4>2. state'[r] = state[r]
        BY <2>1
      <4>3. QED
        BY <3>2, <4>1, <4>2, ReturnedBuffer DEF SlotCore
    <3>4. free'[r] >= free[r]
      BY <1>0, <2>2
    <3>5. QED
      BY <1>0, <2>1, <2>2, <3>1, <3>3, <3>4, ClientView DEF RequestInv, BufferInv
  <2>5. StreamInv(r)'
    BY <1>0, <1>1, <1>2, <2>1, <2>2, ClientView DEF RequestInv, StreamInv
  <2>6. QED
    BY <2>2, <2>3, <2>4, <2>5, ClientView DEF StreamIInv, RequestInv
<1>7. QED
  BY <1>4, <1>5, <1>6

\* Scheduler::start takes a slot.
LEMMA AcquireKeeps ==
  ASSUME SlotCore, StreamIInv, NEW r \in Requests, StartAcquire(r)
  PROVE  StreamIInv'
<1>0. /\ TypeOK /\ RequestInv(r) /\ state[r] = NewState
      /\ permit \in [Requests -> BOOLEAN] /\ DOMAIN handle = Requests
  BY DEF SlotCore, StreamIInv, TypeOK, StartAcquire, RequestInv, LifeInv
<1>1. /\ handle[r] = "new" /\ permit' = [permit EXCEPT ![r] = TRUE]
      /\ handle' = [handle EXCEPT ![r] = "starting"]
      /\ UNCHANGED <<state, free, held, commands, session, produced, worker>>
  BY DEF StartAcquire
<1>2. ClientStep(r) /\ permit'[r] /\ handle'[r] = "starting"
  BY <1>0, <1>1 DEF ClientStep
<1>3. ~permit[r] /\ Waiting(r) /\ r \notin worker.active /\ ~Releasing(r)
  BY <1>1, Places DEF Waiting
<1>4. ~Retiring(r) /\ ~state[r].retired
  BY <1>0 DEF NewState, RequestInv, LifeInv, Decided
<1>5. LifeInv(r)'
  BY <1>0, <1>1, <1>2, <1>3, <1>4, ClientView DEF RequestInv, LifeInv
<1>6. BufferInv(r)'
  <2>1. Alive(r)' /\ Alive(r)
    BY <1>1, <1>2 DEF Alive
  <2>2. BuffersOf(r)' = BuffersOf(r)
    BY <1>1, <1>2, ClientView DEF BuffersOf
  <2>3. QED
    BY <1>0, <1>1, <1>2, <2>1, <2>2, ClientView DEF RequestInv, BufferInv
<1>7. StreamInv(r)'
  BY <1>0, <1>1, <1>2, <1>3, ClientView DEF RequestInv, StreamInv
<1>8. QED
  BY <1>2, <1>5, <1>6, <1>7, ClientView DEF StreamIInv, RequestInv

\* The Start command is sent; no thread is inside start once the worker leaves.
LEMMA StartSendKeeps ==
  ASSUME SlotCore, StreamIInv, NEW r \in Requests, StartSend(r)
  PROVE  StreamIInv'
<1> DEFINE c == [kind |-> "start", id |-> r]
<1>0. /\ TypeOK /\ ShapeInv /\ RequestInv(r) /\ commands \in Seq(Command)
      /\ DOMAIN handle = Requests /\ c \in Command /\ c.kind = "start" /\ c.id = r
  BY DEF SlotCore, StreamIInv, TypeOK, Command, IdCommand
<1>1. /\ handle[r] = "starting" /\ commands' = Append(commands, c)
      /\ handle' = [handle EXCEPT ![r] = "open"]
      /\ UNCHANGED <<state, free, held, permit, session, produced, worker>>
  BY DEF StartSend
<1> HIDE DEF c
<1>2. /\ QueuedStarts(commands') = QueuedStarts(commands) \cup {r}
      /\ QueuedCancels(commands') \subseteq QueuedCancels(commands)
  BY <1>0, <1>1, SendStarts, SendCancels
<1>3. worker.pc \notin {"closing", "done"}
  BY <1>1 DEF SlotCore, QuitInv, Leaving, Starting
<1>4. ShapeInv'
  BY <1>0, <1>1, <1>3 DEF ShapeInv, At
<1>5. /\ Releasing(r)' <=> Releasing(r)
      /\ Retiring(r)' <=> Retiring(r)
      /\ Accepting(r)' <=> Accepting(r)
      /\ Scanned(r)' <=> Scanned(r)
      /\ Took(r)' <=> Took(r)
      /\ Taken(r)' = Taken(r)
      /\ Stepped(r)' <=> Stepped(r)
  BY <1>1 DEF Releasing, Retiring, Accepting, Scanned, Took, Taken, Stepped, At
<1>6. \A x \in Requests : x # r => RequestInv(x)'
  <2>1. \A x \in Requests : x # r => ViewKept(x)
    BY <1>0, <1>1, <1>2 DEF ViewKept, Waiting, Releasing, Retiring, Accepting, Scanned,
                            Took, Stepped, At
  <2>2. QED
    BY <1>0, <1>1, <2>1, BystanderKeeps DEF Bystander, StreamIInv
<1>7. handle'[r] = "open" /\ Waiting(r)
  BY <1>0, <1>1 DEF Waiting
<1>8. LifeInv(r)'
  BY <1>0, <1>1, <1>5, <1>7 DEF RequestInv, LifeInv
<1>9. BufferInv(r)'
  <2>1. Alive(r)' /\ Alive(r)
    BY <1>1, <1>7 DEF Alive
  <2>2. BuffersOf(r)' = BuffersOf(r)
    BY <1>1, <1>5 DEF BuffersOf
  <2>3. QED
    BY <1>0, <1>1, <1>5, <2>1, <2>2 DEF RequestInv, BufferInv
<1>10. StreamInv(r)'
  BY <1>0, <1>1, <1>2, <1>5, <1>7 DEF RequestInv, StreamInv
<1>11. QED
  BY <1>4, <1>6, <1>8, <1>9, <1>10 DEF StreamIInv, RequestInv

\* The locked half of cancel empties the queue.
LEMMA CancelKeeps ==
  ASSUME SlotCore, StreamIInv, NEW r \in Requests, Cancel(r) \/ DropHandle(r)
  PROVE  StreamIInv'
<1> DEFINE s == state[r]
<1>0. /\ TypeOK /\ s \in RequestState /\ Len(s.packets) \in Nat /\ RequestInv(r)
      /\ free[r] \in Nat /\ held[r] \in Nat /\ DOMAIN handle = Requests
      /\ commands \in Seq(Command) /\ Len(commands) <= ChannelCap
  BY WorkerParts DEF SlotCore, StreamIInv, TypeOK
<1>1. PICK then \in {"cancelling", "dropping"}, after \in {"open", "closed"} :
        CancelMark(r, then, after)
  BY DEF Cancel, DropHandle
<1>2. /\ handle[r] = "open"
      /\ UNCHANGED <<permit, held, session, produced, worker>>
  BY <1>1 DEF CancelMark
<1>3. Alive(r)
  BY <1>2 DEF Alive
<1>4. CASE cancelSent[r] \/ IsTerminal(s.phase)
  <2>1. handle' = [handle EXCEPT ![r] = after] /\ UNCHANGED <<state, free, commands>>
    BY <1>1, <1>4 DEF CancelMark
  <2>2. ClientStep(r) /\ handle'[r] \in {"open", "closed"}
    BY <1>0, <1>2, <2>1 DEF ClientStep
  <2>3. LifeInv(r)'
    BY <1>0, <1>2, <2>1, <2>2, ClientView DEF RequestInv, LifeInv
  <2>4. BufferInv(r)'
    <3>1. BuffersOf(r)' = BuffersOf(r)
      BY <1>2, <2>1, <2>2, ClientView DEF BuffersOf
    <3>2. QED
      BY <1>0, <1>3, <2>1, <2>2, <3>1, ClientView DEF RequestInv, BufferInv
  <2>5. StreamInv(r)'
    BY <1>0, <1>2, <2>1, <2>2, ClientView DEF RequestInv, StreamInv
  <2>6. QED
    BY <2>2, <2>3, <2>4, <2>5, ClientView DEF StreamIInv, RequestInv
<1>5. CASE ~(cancelSent[r] \/ IsTerminal(s.phase))
  <2>1. handle' = [handle EXCEPT ![r] = then] /\ Clear(r, RequestCancel(s), commands)
    BY <1>1, <1>5 DEF CancelMark
  <2>2. /\ QueuedStarts(commands') = QueuedStarts(commands)
        /\ QueuedCancels(commands') \subseteq QueuedCancels(commands)
        /\ state'[r] = RequestCancel(s) /\ free'[r] = free[r] + Len(s.packets)
        /\ \A x \in Requests : x # r => state'[x] = state[x] /\ free'[x] = free[x]
    BY <1>0, <2>1, ClearEffect
  <2>3. ClientStep(r) /\ handle'[r] \in {"cancelling", "dropping"}
    BY <1>0, <1>2, <2>1, <2>2 DEF ClientStep
  <2>4. /\ state'[r].phase = s.phase /\ state'[r].packets = <<>>
        /\ state'[r].producer_finished = s.producer_finished
        /\ state'[r].finish_reason = "None" /\ state'[r].retired = s.retired
        /\ state'[r].cancel_requested /\ state'[r].failure = s.failure
    BY <1>0, <2>2, MarkFields, SMTT(60)
  <2>5. LifeInv(r)'
    BY <1>0, <1>2, <2>3, <2>4, ClientView DEF RequestInv, LifeInv, Decided
  <2>6. BufferInv(r)'
    <3>1. Taken(r)' = Taken(r) /\ Taken(r) \in Nat
      BY <2>3, ClientView DEF Taken
    <3>2. BuffersOf(r)' = BuffersOf(r)
      <4>1. Len(state'[r].packets) = 0
        BY <2>4
      <4>2. QED
        BY <1>0, <1>2, <2>2, <3>1, <4>1 DEF BuffersOf
    <3>3. Alive(r)' => BuffersOf(r)' = RingSlots
      BY <1>0, <1>3, <3>2 DEF RequestInv, BufferInv
    <3>4. Scanned(r)' => free'[r] > 0
      <4>1. free'[r] >= free[r] /\ free'[r] \in Nat
        BY <1>0, <2>2
      <4>2. Scanned(r)' => free[r] > 0
        BY <1>0, <2>3, ClientView DEF RequestInv, BufferInv
      <4>3. QED
        BY <1>0, <4>1, <4>2
    <3>5. QED
      BY <1>0, <2>3, <2>4, <3>3, <3>4, ClientView DEF RequestInv, BufferInv
  <2>7. StreamInv(r)'
    BY <1>5, <2>4 DEF StreamInv, Withdrawn, IsTerminal
  <2>8. QED
    BY <2>3, <2>5, <2>6, <2>7, ClientView DEF StreamIInv, RequestInv
<1>6. QED
  BY <1>4, <1>5

\* The blocking half sends Cancel, unless the worker is gone.
LEMMA CancelSendKeeps ==
  ASSUME SlotCore, StreamIInv, NEW r \in Requests, CancelSend(r)
  PROVE  StreamIInv'
<1> DEFINE c == [kind |-> "cancel", id |-> r]
<1>0. /\ TypeOK /\ RequestInv(r) /\ commands \in Seq(Command)
      /\ DOMAIN handle = Requests /\ c \in Command /\ c.kind = "cancel" /\ c.id = r
  BY DEF SlotCore, StreamIInv, TypeOK, Command, IdCommand
<1>1. /\ handle[r] \in {"cancelling", "dropping"}
      /\ commands' = commands \/ commands' = Append(commands, c)
      /\ \E h \in {"open", "closed"} : handle' = [handle EXCEPT ![r] = h]
      /\ UNCHANGED <<state, free, held, permit, session, produced, worker>>
  BY DEF CancelSend
<1> HIDE DEF c
<1>2. /\ QueuedStarts(commands') = QueuedStarts(commands)
      /\ \A x \in QueuedCancels(commands') : x \in QueuedCancels(commands) \/ x = r
  <2>1. CASE commands' = commands
    BY <2>1
  <2>2. CASE commands' = Append(commands, c)
    <3>1. QueuedStarts(commands') = QueuedStarts(commands)
      BY <1>0, <2>2, SendStarts
    <3>2. \A x \in QueuedCancels(commands') : x \in QueuedCancels(commands) \/ x = r
      BY <1>0, <2>2, SendCancels
    <3>3. QED
      BY <3>1, <3>2
  <2>3. QED
    BY <1>1, <2>1, <2>2
<1>3. ClientStep(r) /\ handle'[r] \in {"open", "closed"}
  BY <1>0, <1>1, <1>2 DEF ClientStep
<1>4. Alive(r) /\ state[r].cancel_requested
  BY <1>0, <1>1 DEF Alive, RequestInv, StreamInv
<1>5. LifeInv(r)'
  BY <1>0, <1>1, <1>3, ClientView DEF RequestInv, LifeInv
<1>6. BufferInv(r)'
  <2>1. BuffersOf(r)' = BuffersOf(r)
    BY <1>1, <1>3, ClientView DEF BuffersOf
  <2>2. QED
    BY <1>0, <1>1, <1>3, <1>4, <2>1, ClientView DEF RequestInv, BufferInv
<1>7. StreamInv(r)'
  BY <1>0, <1>1, <1>3, <1>4, ClientView DEF RequestInv, StreamInv, Withdrawn
<1>8. QED
  BY <1>3, <1>5, <1>6, <1>7, ClientView DEF StreamIInv, RequestInv

\* A step that touches no request and adds no Start or Cancel.
LEMMA QuietKeeps ==
  ASSUME StreamIInv,
         UNCHANGED <<permit, state, free, held, handle, session, produced, worker>>,
         QueuedStarts(commands') = QueuedStarts(commands),
         QueuedCancels(commands') \subseteq QueuedCancels(commands)
  PROVE  StreamIInv'
<1>1. ShapeInv'
  BY DEF StreamIInv, ShapeInv, At
<1>2. \A x \in Requests : ViewKept(x)
  BY DEF ViewKept, Waiting, Releasing, Retiring, Accepting, Scanned, Took, Stepped, At
<1>3. \A x \in Requests : RequestInv(x)'
  BY <1>2, BystanderKeeps DEF Bystander, StreamIInv
<1>4. QED
  BY <1>1, <1>3 DEF StreamIInv

\* Scheduler::drop.
LEMMA OwnerKeeps ==
  ASSUME SlotCore, StreamIInv, Owner
  PROVE  StreamIInv'
<1>0. commands \in Seq(Command) /\ Shutdown \in Command
      /\ Shutdown.kind \notin {"start", "cancel"}
  BY DEF SlotCore, TypeOK, Command, Shutdown
<1>1. /\ UNCHANGED <<permit, state, free, held, handle, session, produced, worker>>
      /\ commands' = commands \/ commands' = Append(commands, Shutdown)
  BY DEF Owner, StoreShutdown, SendShutdown, JoinWorker, ownerFrame, clientVars
<1>2. /\ QueuedStarts(commands') = QueuedStarts(commands)
      /\ QueuedCancels(commands') \subseteq QueuedCancels(commands)
  BY <1>0, <1>1, SendStarts, SendCancels
<1>3. QED
  BY <1>1, <1>2, QuietKeeps

-----------------------------------------------------------------------------
(* Every step of any thread.                                               *)

\* The worker moves on in its loop.
LEMMA LoopStepKeeps ==
  ASSUME SlotCore, StreamIInv,
         \/ Top \/ Check \/ PrefillDone \/ SweepDone \/ ScanDone \/ StepBatch
         \/ StepDone \/ ReapDone \/ ExitEmpty
         \/ /\ worker.pc \in {"drain", "coalesce", "idle"}
            /\ \E pc \in LoopPcs : GoTo(pc) /\ UNCHANGED workerFrame
  PROVE  StreamIInv'
<1>1. ShapeInv' /\ \A r \in Requests : Bystander(r)
  BY LoopShape DEF StreamIInv
<1>2. \A r \in Requests : RequestInv(r)'
  BY <1>1, BystanderKeeps DEF StreamIInv
<1>3. QED
  BY <1>1, <1>2 DEF StreamIInv

\* The worker.
LEMMA WorkerKeeps ==
  ASSUME SlotCore, StreamIInv, Worker
  PROVE  StreamIInv'
<1>1. CASE Top \/ Check \/ PrefillDone \/ SweepDone \/ ScanDone \/ StepBatch
           \/ StepDone \/ ReapDone \/ ExitEmpty
  BY <1>1, LoopStepKeeps
<1>2. CASE Recv
  BY <1>2, HandleKeeps DEF Recv, LoopPcs
<1>3. CASE Drain
  BY <1>3, HandleKeeps, LoopStepKeeps DEF Drain, LoopPcs
<1>4. CASE Coalesce
  BY <1>4, HandleKeeps, LoopStepKeeps DEF Coalesce, LoopPcs
<1>5. CASE Idle
  BY <1>5, HandleKeeps, LoopStepKeeps DEF Idle, LoopPcs
<1>6. CASE BeginPrefill \/ ExitDrain \/ DropReceiver
  BY <1>6, PrefillKeeps, ExitDrainKeeps, ReceiverKeeps
<1>7. ASSUME NEW r \in Requests, WorkerOn(r)
      PROVE  StreamIInv'
  <2>1. CASE FilterPending(r) \/ PrefillErr(r) \/ ExitPending(r)
    BY <2>1, PendingKeeps
  <2>2. CASE PrefillOk(r)
    BY <2>2, PrefillOkKeeps
  <2>3. CASE Sweep(r) \/ ExitActive(r)
    BY <2>3, SweepKeeps
  <2>4. CASE ScanState(r) \/ ScanFree(r)
    BY <2>4, ScanKeeps
  <2>5. CASE TakePcm(r)
    BY <2>5, TakeKeeps
  <2>6. CASE StepErr(r)
    BY <2>6, StepErrKeeps
  <2>7. CASE StepPacket(r)
    BY <2>7, StepPacketKeeps
  <2>8. CASE Reap(r)
    BY <2>8, ReapKeeps
  <2>9. CASE Release(r)
    BY <2>9, ReleaseKeeps
  <2>10. CASE MarkRetired(r)
    BY <2>10, RetiredKeeps
  <2>11. QED
    BY <1>7, <2>1, <2>2, <2>3, <2>4, <2>5, <2>6, <2>7, <2>8, <2>9, <2>10 DEF WorkerOn
<1>8. QED
  BY <1>1, <1>2, <1>3, <1>4, <1>5, <1>6, <1>7 DEF Worker

\* At the start there is nothing to keep.
LEMMA InitStream == Init => StreamIInv
<1> SUFFICES ASSUME Init PROVE StreamIInv
  OBVIOUS
<1>1. /\ worker = [pc |-> "top", ret |-> "top", stop |-> FALSE,
                   pending |-> {}, ready |-> {}, active |-> {},
                   todo |-> {}, batch |-> {}, cur |-> {}]
      /\ commands = <<>> /\ QueuedStarts(commands) = {} /\ QueuedCancels(commands) = {}
  BY DEF Init, QueuedStarts, QueuedCancels
<1>2. ShapeInv
  BY <1>1 DEF ShapeInv, At, Walking
<1>3. ASSUME NEW r \in Requests
      PROVE  RequestInv(r)
  <2>1. /\ state[r] = NewState /\ ~permit[r] /\ handle[r] = "new" /\ free[r] = RingSlots
        /\ held[r] = 0 /\ session[r] = "none" /\ produced[r] = 0
    BY DEF Init
  <2>2. /\ ~Releasing(r) /\ ~Retiring(r) /\ ~Accepting(r) /\ ~Scanned(r) /\ ~Took(r)
        /\ r \notin worker.active /\ Taken(r) = 0
    BY <1>1 DEF Releasing, Retiring, Accepting, Scanned, Took, Taken
  <2>3. LifeInv(r)
    BY <2>1, <2>2 DEF LifeInv, NewState
  <2>4. BufferInv(r)
    <3>1. Len(state[r].packets) = 0
      BY <2>1 DEF NewState
    <3>2. BuffersOf(r) = RingSlots
      BY <2>1, <2>2, <3>1, ConstantsAssumption DEF BuffersOf
    <3>3. QED
      BY <2>1, <2>2, <3>2 DEF BufferInv, NewState
  <2>5. StreamInv(r)
    <3>1. Chain(state[r].packets, state[r].emitted, produced[r], state[r].producer_finished)
      <4>1. \A f : Chain(<<>>, 0, 0, f)
        BY ChainEmpty
      <4>2. state[r].packets = <<>> /\ state[r].emitted = 0
        BY <2>1 DEF NewState
      <4>3. QED
        BY <2>1, <4>1, <4>2
    <3>2. produced[r] <= MaxFrames /\ produced[r] # MaxFrames
      BY <2>1, ConstantsAssumption
    <3>3. /\ state[r].phase = "Queued" /\ ~state[r].producer_finished
          /\ state[r].finish_reason = "None" /\ ~Withdrawn(state[r])
      BY <2>1 DEF NewState, Withdrawn
    <3>4. QED
      BY <1>1, <2>1, <2>2, <3>1, <3>2, <3>3 DEF StreamInv
  <2>6. QED
    BY <2>3, <2>4, <2>5 DEF RequestInv
<1>4. QED
  BY <1>2, <1>3 DEF StreamIInv

\* Every step preserves the invariant.
LEMMA NextStream == SlotInv /\ StreamIInv /\ [Next]_vars => StreamIInv'
<1> SUFFICES ASSUME SlotInv, StreamIInv, [Next]_vars PROVE StreamIInv'
  OBVIOUS
<1>0. SlotCore
  BY DEF SlotInv, SlotCore
<1>1. CASE Worker
  BY <1>0, <1>1, WorkerKeeps
<1>2. CASE Owner
  BY <1>0, <1>2, OwnerKeeps
<1>3. ASSUME NEW r \in Requests, Client(r)
      PROVE  StreamIInv'
  BY <1>0, <1>3, AcquireKeeps, StartSendKeeps, PollKeeps, CancelKeeps, CancelSendKeeps
  DEF Client
<1>4. CASE Finished \/ UNCHANGED vars
  <2>1. UNCHANGED vars
    BY <1>4 DEF Finished
  <2>2. UNCHANGED <<permit, state, free, held, handle, session, produced, worker, commands>>
    BY <2>1 DEF vars, clientVars
  <2>3. QED
    BY <2>2, QuietKeeps
<1>5. QED
  BY <1>1, <1>2, <1>3, <1>4 DEF Next

LEMMA StreamInductive == Spec => [](SlotInv /\ StreamIInv)
<1>1. Init => SlotInv /\ StreamIInv
  BY InitSlots, InitStream
<1>2. SlotInv /\ StreamIInv /\ [Next]_vars => (SlotInv /\ StreamIInv)'
  BY NextSlots, NextStream
<1>3. QED
  BY <1>1, <1>2, PTL DEF Spec

-----------------------------------------------------------------------------
(* What follows from it.                                                   *)

\* A session goes from open to dropped only when the worker drops the request.
LEMMA OpenIsDropped ==
  ASSUME TypeOK, [Next]_vars, NEW r \in Requests,
         session[r] = "open", session'[r] = "dropped"
  PROVE  Releasing(r)
<1>0. session \in [Requests -> {"none", "open", "cancelled", "dropped"}]
  BY DEF TypeOK
<1>1. session' # session
  OBVIOUS
<1>2. PICK x \in Requests : \/ PrefillOk(x) \/ Sweep(x) \/ Reap(x) \/ Release(x)
                            \/ ExitActive(x)
  <2>1. ~UNCHANGED vars /\ ~Finished /\ ~Owner
    BY <1>1 DEF vars, Finished, Owner, StoreShutdown, SendShutdown, JoinWorker, ownerFrame
  <2>2. ASSUME NEW x \in Requests
        PROVE  ~Client(x)
    BY <1>1 DEF Client, StartAcquire, StartSend, PollPacket, PollEnd, DropPacket, Cancel,
                DropHandle, CancelMark, CancelSend
  <2>3. Worker
    BY <2>1, <2>2 DEF Next
  <2>4. PICK x \in Requests : WorkerOn(x)
    BY <1>1, <2>3 DEF Worker, Top, Recv, Drain, Coalesce, Check, Idle, BeginPrefill,
       PrefillDone, SweepDone, ScanDone, StepBatch, StepDone, ReapDone, ExitDrain,
       ExitEmpty, DropReceiver, HandleCommand, workerFrame, stateFrame
  <2>5. QED
    BY <1>1, <2>4 DEF WorkerOn, FilterPending, PrefillErr, ScanState, ScanFree, TakePcm,
       StepErr, StepPacket, MarkRetired, ExitPending, workerFrame, stateFrame
<1>3. CASE PrefillOk(x)
  BY <1>0, <1>3 DEF PrefillOk
<1>4. CASE Sweep(x) \/ ExitActive(x) \/ Reap(x)
  BY <1>0, <1>4 DEF Sweep, ExitActive, Reap, CancelActive
<1>5. CASE Release(x)
  BY <1>0, <1>5 DEF Release, Releasing
<1>6. QED
  BY <1>2, <1>3, <1>4, <1>5

\* drop_session (scheduler.rs) is reached with an open session only after its

\* final packet: on every other path cancel_session ran before.
THEOREM OpenSessionsFinished == Spec => SessionsCancelledBeforeDrop
<1>1. SlotInv /\ StreamIInv /\ [Next]_vars =>
        [\A r \in Requests : session[r] = "open" /\ session'[r] = "dropped" =>
           state[r].producer_finished /\ state[r].failure = "none"]_session
  <2> SUFFICES ASSUME SlotInv, StreamIInv, [Next]_vars, NEW r \in Requests,
                      session[r] = "open", session'[r] = "dropped"
               PROVE  state[r].producer_finished /\ state[r].failure = "none"
    OBVIOUS
  <2>1. Releasing(r)
    BY OpenIsDropped DEF SlotInv
  <2>2. QED
    BY <2>1 DEF StreamIInv, RequestInv, LifeInv
<1>2. QED
  BY <1>1, StreamInductive, PTL DEF Spec, SessionsCancelledBeforeDrop

\* mark_retired (scheduler.rs) comes last: a client that sees it finds the slot

\* free and the worker without a trace of the request.
THEOREM RetiredLeavesNothing == Spec => []RetiredIsReleased
<1>1. SlotInv /\ StreamIInv => RetiredIsReleased
  <2> SUFFICES ASSUME SlotInv, StreamIInv, NEW r \in Requests, state[r].retired
               PROVE  /\ ~permit[r] /\ session[r] \in {"none", "dropped"}
                      /\ r \notin worker.pending \cup worker.ready \cup worker.active
                                  \cup worker.todo \cup worker.batch \cup worker.cur
    BY DEF RetiredIsReleased
  <2>1. ~permit[r] /\ ~Retiring(r) /\ session[r] \in {"none", "dropped"}
    BY DEF StreamIInv, RequestInv, LifeInv
  <2>2. /\ r \notin worker.pending \cup worker.ready \cup worker.active
        /\ ~Releasing(r)
    BY <2>1, Places DEF SlotInv, SlotCore
  <2>3. /\ worker.todo \subseteq worker.active /\ worker.batch \subseteq worker.active
        /\ r \in worker.cur => worker.pc \in {"scanFree", "release", "retire"}
        /\ worker.pc = "scanFree" => worker.cur \subseteq worker.todo
    BY DEF StreamIInv, ShapeInv
  <2>4. r \notin worker.cur
    BY <2>1, <2>2, <2>3 DEF Releasing, Retiring
  <2>5. QED
    BY <2>1, <2>2, <2>3, <2>4
<1>2. QED
  BY <1>1, StreamInductive, PTL

\* worker_loop (scheduler.rs) retires whatever is left before it closes: nobody

\* waits for a request of a scheduler that is gone.
THEOREM ExitRetiresAll == Spec => []ExitLeavesNothing
<1>1. SlotInv /\ StreamIInv => ExitLeavesNothing
  <2> SUFFICES ASSUME SlotInv, StreamIInv, worker.pc = "done"
               PROVE  /\ used = 0
                      /\ \A r \in Requests : handle[r] # "new" =>
                           state[r].retired /\ PollOutcome(state[r]) # "WouldBlock"
    BY DEF ExitLeavesNothing
  <2>1. /\ worker.active = {} /\ worker.pending = {} /\ worker.ready = {}
        /\ QueuedStarts(commands) = {}
    BY DEF StreamIInv, ShapeInv, At, Walking
  <2>2. Starting = {} /\ Dropping = {}
    BY DEF SlotInv, QuitInv, Leaving, Dropping
  <2>3. Holders = {}
    BY <2>1, <2>2 DEF SlotInv, OwnerInv, Ownership, Owned
  <2>4. used = 0
    BY <2>3, FS_EmptySet DEF SlotInv, SlotAccounting
  <2>5. ASSUME NEW r \in Requests, handle[r] # "new"
        PROVE  state[r].retired /\ PollOutcome(state[r]) # "WouldBlock"
    <3>1. ~permit[r] /\ ~Retiring(r)
      BY <2>3 DEF Holders, Retiring
    <3>2. state[r].retired /\ Decided(state[r])
      BY <2>5, <3>1 DEF StreamIInv, RequestInv, LifeInv
    <3>3. QED
      BY <3>2, PollBranches DEF Decided, Withdrawn
  <2>6. QED
    BY <2>4, <2>5
<1>2. QED
  BY <1>1, StreamInductive, PTL

\* RequestShared's free_pcm, the packet queue, the client's packets and take_pcm

\* (scheduler.rs) share pcm_ring_slots buffers; none is lost or made twice.
THEOREM BuffersConserved == Spec => []BufferConservation
<1>1. SlotInv /\ StreamIInv => BufferConservation
  BY DEF StreamIInv, RequestInv, BufferInv, BufferConservation
<1>2. QED
  BY <1>1, StreamInductive, PTL

\* Whatever happens between can_accept_packet, take_pcm and push_packet

\* (scheduler.rs), the two internal errors are unreachable.
THEOREM NoInternalErrors == Spec => []NoInternalFailure
<1>1. SlotInv /\ StreamIInv => NoInternalFailure
  BY DEF StreamIInv, RequestInv, BufferInv, NoInternalFailure
<1>2. QED
  BY <1>1, StreamInductive, PTL

\* RequestHandle::poll (scheduler.rs) hands out the audio in order and whole, or

\* nothing more once the request is withdrawn.
THEOREM StreamsAreTrue == Spec => []StreamIsTrue
<1>1. ASSUME SlotInv, StreamIInv, NEW r \in Requests
      PROVE  StreamInv(r)
  BY <1>1 DEF StreamIInv, RequestInv
<1>2. SlotInv /\ StreamIInv => WithdrawnIsSilent
  BY <1>1, PollBranches DEF StreamInv, WithdrawnIsSilent
<1>3. SlotInv /\ StreamIInv => StreamContiguous
  <2> SUFFICES ASSUME SlotInv, StreamIInv PROVE StreamContiguous
    OBVIOUS
  <2>1. ASSUME NEW r \in Requests, ~Withdrawn(state[r])
        PROVE  /\ Chain(state[r].packets, state[r].emitted, produced[r],
                        state[r].producer_finished)
               /\ produced[r] <= MaxFrames
               /\ produced[r] = MaxFrames => state[r].producer_finished
    BY <1>1, <2>1 DEF StreamInv
  <2>2. QED
    BY <2>1 DEF StreamContiguous, Chain, StartOf
<1>4. SlotInv /\ StreamIInv => CompletedIsComplete
  <2> SUFFICES ASSUME SlotInv, StreamIInv, NEW r \in Requests,
                      state[r].phase = "Completed" \/ PollOutcome(state[r]) = "EndOfStream"
               PROVE  /\ ~Withdrawn(state[r])
                      /\ state[r].packets = <<>> /\ state[r].producer_finished
                      /\ state[r].emitted = produced[r]
                      /\ state[r].finish_reason # "None"
    BY DEF CompletedIsComplete
  <2>1. ~Withdrawn(state[r])
    BY <1>1, PollBranches DEF StreamInv
  <2>2. /\ state[r].packets = <<>> /\ state[r].producer_finished
        /\ Chain(state[r].packets, state[r].emitted, produced[r], state[r].producer_finished)
        /\ state[r].finish_reason # "None"
    BY <1>1, <2>1, PollBranches DEF StreamInv
  <2>3. state[r].emitted = produced[r]
    <3>1. Chain(<<>>, state[r].emitted, produced[r], state[r].producer_finished)
      BY <2>2
    <3>2. QED
      BY <3>1, ChainEmpty
  <2>4. QED
    BY <2>1, <2>2, <2>3
<1>5. SlotInv /\ StreamIInv => StreamIsTrue
  BY <1>2, <1>3, <1>4 DEF StreamIsTrue
<1>6. QED
  BY <1>5, StreamInductive, PTL

-----------------------------------------------------------------------------
(* The refinement of RequestContract, step by step.                        *)

\* What StreamInv does not say of the packets of a request that is not
\* withdrawn: none is ahead of what the worker has recorded, and a stream whose
\* end is known has its final packet at the end of the queue or is completed.
Pace(s, n) ==
  ~Withdrawn(s) =>
    /\ s.emitted <= n
    /\ \A i \in 1 .. Len(s.packets) : s.packets[i].first + s.packets[i].frames <= n
    /\ s.producer_finished =>
         IF s.packets = <<>> THEN s.phase = "Completed"
         ELSE s.packets[Len(s.packets)].final

PaceInv == \A r \in Requests : Pace(state[r], produced[r])

\* Steps of the contract, in terms of one request.
SameView(r) ==
  /\ Status(r)' = Status(r) /\ produced'[r] = produced[r]
  /\ state'[r].emitted = state[r].emitted
  /\ Closed(state'[r]) <=> Closed(state[r])
  /\ permit'[r] <=> permit[r]

Admits(r) ==
  /\ Status(r) = "idle" /\ Status(r)' = "live" /\ used # Capacity
  /\ ~permit[r] /\ permit'[r]
  /\ produced'[r] = produced[r] /\ state'[r].emitted = state[r].emitted
  /\ Closed(state'[r]) <=> Closed(state[r])

Generates(r) ==
  /\ permit[r] /\ Status(r) \in {"live", "cancelled"} /\ ~Closed(state[r])
  /\ produced'[r] - produced[r] \in 1 .. MaxFrames - produced[r]
  /\ Closed(state'[r]) => Status(r) = "live"
  /\ Status(r)' = Status(r) /\ state'[r].emitted = state[r].emitted
  /\ permit'[r] <=> permit[r]

Delivers(r) ==
  /\ Status(r) = "live"
  /\ state'[r].emitted - state[r].emitted \in 1 .. produced[r] - state[r].emitted
  /\ Status(r)' = IF Closed(state[r]) /\ state'[r].emitted = produced[r]
                  THEN "ended" ELSE "live"
  /\ produced'[r] = produced[r]
  /\ Closed(state'[r]) <=> Closed(state[r])
  /\ permit'[r] <=> permit[r]

Withdraws(r) ==
  /\ \/ Status(r) = "live" /\ Status(r)' = "cancelled"
     \/ permit[r] /\ Status(r) \in {"live", "cancelled"} /\ Status(r)' = "failed"
  /\ ~Closed(state'[r])
  /\ produced'[r] = produced[r] /\ state'[r].emitted = state[r].emitted
  /\ permit'[r] <=> permit[r]

Returns(r) ==
  /\ permit[r] /\ (Closed(state[r]) \/ Status(r) \in {"cancelled", "failed"})
  /\ ~permit'[r]
  /\ Status(r)' = Status(r) /\ produced'[r] = produced[r]
  /\ state'[r].emitted = state[r].emitted
  /\ Closed(state'[r]) <=> Closed(state[r])

Contracted ==
  \/ \A r \in Requests : SameView(r)
  \/ \E r \in Requests :
       /\ \A x \in Requests : x # r => SameView(x)
       /\ \/ SameView(r) \/ Admits(r) \/ Generates(r) \/ Delivers(r)
          \/ Withdraws(r) \/ Returns(r)

\* The mapped variables, as functions.
LEMMA MappedStep ==
  ASSUME SlotInv, TypeOK', Contracted
  PROVE  [Contract!Next]_Contract!vars
<1> DEFINE st == [r \in Requests |-> Status(r)]
           hd == [r \in Requests |-> state[r].emitted]
           cl == [r \in Requests |-> Closed(state[r])]
           st1 == [r \in Requests |-> Status(r)']
           hd1 == [r \in Requests |-> state'[r].emitted]
           cl1 == [r \in Requests |-> Closed(state'[r])]
<1>0. /\ produced \in [Requests -> Nat] /\ produced' \in [Requests -> Nat]
      /\ \A r \in Requests : state[r] \in RequestState /\ state'[r] \in RequestState
      /\ \A r \in Requests : permit[r] \in BOOLEAN /\ permit'[r] \in BOOLEAN
  BY DEF SlotInv, TypeOK
<1>1. \A r \in Requests : state[r].emitted \in Nat /\ state'[r].emitted \in Nat
  BY <1>0 DEF RequestState
<1>2. CASE \A r \in Requests : SameView(r)
  <2>1. st1 = st /\ hd1 = hd /\ produced' = produced
    BY <1>0, <1>2 DEF SameView
  <2>2. cl1 = cl
    BY <1>2 DEF SameView, Closed
  <2>3. Holders' = Holders
    BY <1>2 DEF SameView, Holders
  <2>4. UNCHANGED Contract!vars
    BY <2>1, <2>2, <2>3 DEF Contract!vars
  <2>5. QED
    BY <2>4
<1>3. ASSUME NEW r \in Requests, \A x \in Requests : x # r => SameView(x),
             \/ Admits(r) \/ Generates(r) \/ Delivers(r) \/ Withdraws(r) \/ Returns(r)
      PROVE  [Contract!Next]_Contract!vars
  <2>1. /\ st1 = [st EXCEPT ![r] = Status(r)']
        /\ hd1 = [hd EXCEPT ![r] = state'[r].emitted]
        /\ produced' = [produced EXCEPT ![r] = produced'[r]]
    BY <1>0, <1>3 DEF SameView
  <2>2. cl1 = [cl EXCEPT ![r] = Closed(state'[r])]
    BY <1>3 DEF SameView, Closed
  <2>3. /\ permit'[r] => Holders' = Holders \cup {r}
        /\ ~permit'[r] => Holders' = Holders \ {r}
        /\ r \in Holders <=> permit[r]
    BY <1>3 DEF SameView, Holders
  <2> DEFINE emittedSame == state'[r].emitted = state[r].emitted
  <2>a. emittedSame => hd1 = hd
    <3> SUFFICES ASSUME emittedSame
                 PROVE  \A x \in Requests : state'[x].emitted = state[x].emitted
      OBVIOUS
    <3>1. QED
      BY <1>3 DEF SameView
  <2>b. produced'[r] = produced[r] => produced' = produced
    BY <1>0, <2>1
  <2>4. CASE Admits(r)
    <3>1. Cardinality(Holders) < Capacity
      <4>1. used = Cardinality(Holders) /\ used <= Capacity /\ used # Capacity /\ used \in Nat
        BY <2>4 DEF Admits, SlotInv, SlotAccounting, TypeOK
      <4>2. QED
        BY <4>1, ConstantsAssumption
    <3>2. hd1 = hd /\ produced' = produced
      BY <2>4, <2>a, <2>b DEF Admits
    <3>3. cl1 = cl
      BY <2>2, <2>4 DEF Admits, Closed
    <3>4. st[r] = "idle" /\ st1 = [st EXCEPT ![r] = "live"]
      BY <2>1, <2>4 DEF Admits
    <3>5. Holders' = Holders \cup {r}
      BY <2>3, <2>4 DEF Admits
    <3>6. Contract!Cardinality(Holders) = Cardinality(Holders)
      BY DEF Contract!Cardinality, Cardinality
    <3>7. Contract!Admit(r)
      BY <3>1, <3>2, <3>3, <3>4, <3>5, <3>6 DEF Contract!Admit
    <3>8. QED
      BY <3>7 DEF Contract!Next
  <2>5. CASE Generates(r)
    <3>1. hd1 = hd /\ st1 = st
      BY <1>0, <2>1, <2>5 DEF Generates
    <3>2. Holders' = Holders
      BY <2>3, <2>5 DEF Generates
    <3>3. cl1 \in {cl, [cl EXCEPT ![r] = st[r] = "live"]}
      <4>1. CASE Closed(state'[r])
        BY <2>2, <2>5, <4>1 DEF Generates, Closed
      <4>2. CASE ~Closed(state'[r])
        BY <2>2, <2>5, <4>2, ZenonT(60) DEF Generates, Closed
      <4>3. QED
        BY <4>1, <4>2
    <3>4. \E n \in 1 .. MaxFrames - produced[r] :
            produced' = [produced EXCEPT ![r] = produced[r] + n]
      <4>1. produced'[r] = produced[r] + (produced'[r] - produced[r])
        BY <1>0
      <4>2. QED
        BY <2>1, <2>5, <4>1 DEF Generates
    <3>5. Contract!Generate(r)
      BY <2>3, <2>5, <3>1, <3>2, <3>3, <3>4 DEF Generates, Contract!Generate
    <3>6. QED
      BY <3>5 DEF Contract!Next
  <2>6. CASE Delivers(r)
    <3>1. produced' = produced
      BY <1>0, <2>1, <2>6 DEF Delivers
    <3>2. Holders' = Holders
      BY <2>3, <2>6 DEF Delivers
    <3>3. cl1 = cl
      BY <2>2, <2>6 DEF Delivers, Closed
    <3>4. \E n \in 1 .. produced[r] - hd[r] : hd1 = [hd EXCEPT ![r] = hd[r] + n]
      <4>1. state'[r].emitted = state[r].emitted + (state'[r].emitted - state[r].emitted)
        BY <1>1
      <4>2. QED
        BY <2>1, <2>6, <4>1 DEF Delivers
    <3>5. st1 = [st EXCEPT ![r] = IF cl[r] /\ hd1[r] = produced[r] THEN "ended" ELSE st[r]]
      BY <2>1, <2>6 DEF Delivers
    <3>6. Contract!Deliver(r)
      BY <2>6, <3>1, <3>2, <3>3, <3>4, <3>5 DEF Delivers, Contract!Deliver
    <3>7. QED
      BY <3>6 DEF Contract!Next
  <2>7. CASE Withdraws(r)
    <3>1. hd1 = hd /\ produced' = produced
      BY <2>7, <2>a, <2>b DEF Withdraws
    <3>2. Holders' = Holders
      BY <2>3, <2>7 DEF Withdraws
    <3>3. cl1 = [cl EXCEPT ![r] = FALSE]
      BY <2>2, <2>7 DEF Withdraws, Closed
    <3>4. Contract!Cancel(r) \/ Contract!Fail(r)
      BY <2>1, <2>3, <2>7, <3>1, <3>2, <3>3 DEF Withdraws, Contract!Cancel, Contract!Fail
    <3>5. QED
      BY <3>4 DEF Contract!Next
  <2>8. CASE Returns(r)
    <3>1. hd1 = hd /\ produced' = produced /\ st1 = st
      BY <2>1, <2>8, <2>a, <2>b DEF Returns
    <3>2. cl1 = cl
      BY <2>2, <2>8 DEF Returns, Closed
    <3>3. Contract!Return(r)
      BY <2>3, <2>8, <3>1, <3>2 DEF Returns, Contract!Return
    <3>4. QED
      BY <3>3 DEF Contract!Next
  <2>9. QED
    BY <1>3, <2>4, <2>5, <2>6, <2>7, <2>8
<1>4. QED
  BY <1>2, <1>3 DEF Contracted

-----------------------------------------------------------------------------
(* What the steps of the scheduler do to a request in the client's view.   *)

\* The branches of Verdict.
LEMMA VerdictBranches ==
  ASSUME NEW s
  PROVE  /\ s.failure # "none" => Verdict(s) = "failed"
         /\ s.failure = "none" /\ s.cancel_requested => Verdict(s) = "cancelled"
         /\ s.failure = "none" /\ ~s.cancel_requested =>
              Verdict(s) = IF s.phase = "Completed" THEN "ended" ELSE "live"
<1>1. CASE s.failure # "none"
  <2>1. Verdict(s) = "failed"
    BY <1>1 DEF Verdict
  <2>2. QED
    BY <1>1, <2>1
<1>2. CASE s.failure = "none" /\ s.cancel_requested
  <2>1. Verdict(s) = "cancelled"
    BY <1>2 DEF Verdict
  <2>2. QED
    BY <1>2, <2>1
<1>3. CASE s.failure = "none" /\ ~s.cancel_requested
  <2>1. Verdict(s) = IF s.phase = "Completed" THEN "ended" ELSE "live"
    BY <1>3 DEF Verdict
  <2>2. QED
    BY <1>3, <2>1
<1>4. QED
  BY <1>1, <1>2, <1>3

\* A step that is not about r at all.
Unseen(r) ==
  /\ state'[r] = state[r] /\ produced'[r] = produced[r] /\ permit'[r] = permit[r]
  /\ handle'[r] = "new" <=> handle[r] = "new"

LEMMA UnseenKeeps ==
  ASSUME NEW r \in Requests, Unseen(r), PaceInv
  PROVE  SameView(r) /\ Pace(state'[r], produced'[r])
<1>1. Status(r)' = Status(r)
  BY DEF Unseen, Status
<1>2. Pace(state'[r], produced'[r])
  BY DEF Unseen, PaceInv
<1>3. QED
  BY <1>1, <1>2 DEF Unseen, SameView

LEMMA NobodySeen ==
  ASSUME PaceInv, \A x \in Requests : Unseen(x)
  PROVE  PaceInv' /\ Contracted
<1>1. \A x \in Requests : SameView(x) /\ Pace(state'[x], produced'[x])
  BY UnseenKeeps
<1>2. QED
  BY <1>1 DEF PaceInv, Contracted

\* A step about r alone.
LEMMA OneSeen ==
  ASSUME PaceInv, NEW r \in Requests, \A x \in Requests : x # r => Unseen(x),
         Pace(state'[r], produced'[r]),
         \/ SameView(r) \/ Admits(r) \/ Generates(r) \/ Delivers(r)
         \/ Withdraws(r) \/ Returns(r)
  PROVE  PaceInv' /\ Contracted
<1>1. \A x \in Requests : x # r => SameView(x) /\ Pace(state'[x], produced'[x])
  BY UnseenKeeps
<1>2. QED
  BY <1>1 DEF PaceInv, Contracted

\* A started request that is not completed is withdrawn: by mark_cancelled, by
\* the locked half of cancel, or, by the worker, with mark_failed.
LEMMA WithdrawSeen ==
  ASSUME SlotCore, StreamIInv, PaceInv, NEW r \in Requests,
         \A x \in Requests : x # r => Unseen(x),
         handle[r] # "new", handle'[r] # "new", state[r].phase # "Completed",
         produced'[r] = produced[r], permit'[r] = permit[r],
         \/ state'[r] \in {MarkCancelled(state[r]), RequestCancel(state[r])}
         \/ permit[r] /\ state'[r] = MarkFailed(state[r], "backend")
  PROVE  PaceInv' /\ Contracted
<1> DEFINE s == state[r]
           x == state'[r]
<1>0. s \in RequestState /\ StreamInv(r) /\ s.failure \in {"none", "backend"}
  BY WorkerParts DEF SlotCore, StreamIInv, RequestInv, BufferInv
<1>1. /\ x.finish_reason = "None" /\ x.emitted = s.emitted /\ Withdrawn(x)
      /\ \/ x.failure = s.failure /\ x.cancel_requested
         \/ permit[r] /\ x.failure = "backend"
  <2>1. CASE x = MarkCancelled(s)
    BY <1>0, <2>1, MarkFields DEF Withdrawn
  <2>2. CASE x = RequestCancel(s)
    BY <1>0, <2>2, MarkFields DEF Withdrawn
  <2>3. CASE permit[r] /\ x = MarkFailed(s, "backend")
    BY <1>0, <2>3, MarkFields DEF Withdrawn
  <2>4. QED
    BY <2>1, <2>2, <2>3
<1>2. Status(r) = Verdict(s) /\ Status(r)' = Verdict(x)
  BY DEF Status
<1>3. Withdrawn(s) => ~Closed(s)
  BY <1>0 DEF StreamInv, Closed
<1>4. ~Closed(x) /\ Pace(x, produced'[r])
  BY <1>1 DEF Closed, Pace
<1> HIDE DEF s, x
<1>5. CASE s.failure # "none"
  <2>1. Verdict(s) = "failed" /\ ~Closed(s) /\ x.failure # "none"
    BY <1>0, <1>1, <1>3, <1>5, VerdictBranches DEF Withdrawn
  <2>2. Verdict(x) = "failed"
    BY <2>1, VerdictBranches
  <2>3. SameView(r)
    BY <1>1, <1>2, <1>4, <2>1, <2>2 DEF SameView, s, x
  <2>4. QED
    BY <1>4, <2>3, OneSeen DEF x
<1>6. CASE s.failure = "none" /\ s.cancel_requested
  <2>1. Verdict(s) = "cancelled" /\ ~Closed(s)
    BY <1>3, <1>6, VerdictBranches DEF Withdrawn
  <2>2. CASE x.failure = s.failure /\ x.cancel_requested
    <3>1. Verdict(x) = "cancelled"
      BY <1>6, <2>2, VerdictBranches
    <3>2. SameView(r)
      BY <1>1, <1>2, <1>4, <2>1, <3>1 DEF SameView, s, x
    <3>3. QED
      BY <1>4, <3>2, OneSeen DEF x
  <2>3. CASE permit[r] /\ x.failure = "backend"
    <3>1. Verdict(x) = "failed"
      BY <2>3, VerdictBranches
    <3>2. Withdraws(r)
      BY <1>1, <1>2, <1>4, <2>1, <2>3, <3>1 DEF Withdraws, s, x
    <3>3. QED
      BY <1>4, <3>2, OneSeen DEF x
  <2>4. QED
    BY <1>1, <2>2, <2>3
<1>7. CASE s.failure = "none" /\ ~s.cancel_requested
  <2>1. Verdict(s) = "live"
    BY <1>7, VerdictBranches DEF s
  <2>2. CASE x.failure = s.failure /\ x.cancel_requested
    <3>1. Verdict(x) = "cancelled"
      BY <1>7, <2>2, VerdictBranches
    <3>2. Withdraws(r)
      BY <1>1, <1>2, <1>4, <2>1, <3>1 DEF Withdraws, s, x
    <3>3. QED
      BY <1>4, <3>2, OneSeen DEF x
  <2>3. CASE permit[r] /\ x.failure = "backend"
    <3>1. Verdict(x) = "failed"
      BY <2>3, VerdictBranches
    <3>2. Withdraws(r)
      BY <1>1, <1>2, <1>4, <2>1, <2>3, <3>1 DEF Withdraws, s, x
    <3>3. QED
      BY <1>4, <3>2, OneSeen DEF x
  <2>4. QED
    BY <1>1, <2>2, <2>3
<1>8. QED
  BY <1>5, <1>6, <1>7

\* A request that the worker has not pushed the last packet of is not completed.
LEMMA NotCompleted ==
  ASSUME StreamIInv, NEW r \in Requests,
         Waiting(r) \/ (r \in worker.active /\ ~Stepped(r))
  PROVE  state[r].phase # "Completed"
<1>1. StreamInv(r)
  BY DEF StreamIInv, RequestInv
<1>2. QED
  BY <1>1 DEF StreamInv

\* Steps that leave every request as its client sees it.
LEMMA QuietSeen ==
  ASSUME PaceInv, UNCHANGED <<state, produced, permit, handle>>
  PROVE  PaceInv' /\ Contracted
<1>1. \A x \in Requests : Unseen(x)
  BY DEF Unseen
<1>2. QED
  BY <1>1, NobodySeen

\* Only the phase or the retirement of r changes, and not to or from completed.
LEMMA SeenAlike ==
  ASSUME PaceInv, NEW r \in Requests,
         state'[r].packets = state[r].packets, state'[r].emitted = state[r].emitted,
         state'[r].producer_finished = state[r].producer_finished,
         state'[r].finish_reason = state[r].finish_reason,
         state'[r].cancel_requested = state[r].cancel_requested,
         state'[r].failure = state[r].failure,
         state[r].phase = "Cancelled" => state[r].cancel_requested,
         state'[r].phase = "Cancelled" => state'[r].cancel_requested,
         state'[r].phase = "Completed" <=> state[r].phase = "Completed",
         produced'[r] = produced[r], permit'[r] = permit[r], handle'[r] = handle[r]
  PROVE  SameView(r) /\ Pace(state'[r], produced'[r])
<1> DEFINE s == state[r]
           x == state'[r]
<1>1. Withdrawn(x) <=> Withdrawn(s)
  BY DEF Withdrawn
<1>2. Pace(x, produced'[r])
  <2>1. Pace(s, produced[r])
    BY DEF PaceInv
  <2>2. QED
    BY <1>1, <2>1 DEF Pace
<1>3. Verdict(x) = Verdict(s)
  <2>1. CASE s.failure # "none"
    BY <2>1, VerdictBranches
  <2>2. CASE s.failure = "none" /\ s.cancel_requested
    BY <2>2, VerdictBranches
  <2>3. CASE s.failure = "none" /\ ~s.cancel_requested
    <3>1. Verdict(s) = IF s.phase = "Completed" THEN "ended" ELSE "live"
      BY <2>3, VerdictBranches
    <3>2. Verdict(x) = IF x.phase = "Completed" THEN "ended" ELSE "live"
      BY <2>3, VerdictBranches
    <3>3. QED
      BY <3>1, <3>2
  <2>4. QED
    BY <2>1, <2>2, <2>3
<1>4. Status(r)' = Status(r)
  BY <1>3 DEF Status
<1>5. QED
  BY <1>2, <1>4 DEF SameView, Closed

-----------------------------------------------------------------------------
(* The worker withdraws a request that still holds its permit.             *)

Unfinished(r) ==
  /\ permit[r] /\ handle[r] # "new"
  /\ Waiting(r) \/ (r \in worker.active /\ ~Stepped(r))

LEMMA WorkerWithdraws ==
  ASSUME SlotCore, StreamIInv, PaceInv, NEW r \in Requests, Unfinished(r),
         UNCHANGED <<handle, permit, produced>>,
         \A x \in Requests : x # r => state'[x] = state[x],
         Emptied(r)
  PROVE  PaceInv' /\ Contracted
<1>1. \A x \in Requests : x # r => Unseen(x)
  BY DEF Unseen
<1>2. state[r].phase # "Completed"
  BY NotCompleted DEF Unfinished
<1>3. handle[r] # "new" /\ handle'[r] # "new" /\ permit[r]
  BY DEF Unfinished
<1>4. \/ state'[r] = MarkCancelled(state[r])
      \/ state'[r] = MarkFailed(state[r], "backend")
  BY DEF Emptied
<1>5. QED
  BY <1>1, <1>2, <1>3, <1>4, WithdrawSeen

LEMMA ClearWithdraws ==
  ASSUME SlotCore, StreamIInv, PaceInv, NEW r \in Requests, Unfinished(r),
         UNCHANGED <<handle, permit, produced>>,
         NEW q \in Seq(Command), Len(q) <= ChannelCap,
         NEW s \in {MarkCancelled(state[r]), MarkFailed(state[r], "backend")},
         Clear(r, s, q)
  PROVE  PaceInv' /\ Contracted
<1>1. /\ state'[r] = s /\ free'[r] = free[r] + Len(state[r].packets)
      /\ \A x \in Requests : x # r => state'[x] = state[x] /\ free'[x] = free[x]
  BY ClearEffect DEF SlotCore
<1>2. QED
  BY <1>1, WorkerWithdraws DEF Emptied

\* Every request in the worker's hands before its step is unfinished.
LEMMA HeldUnfinished ==
  ASSUME SlotCore, NEW r \in Requests,
         \/ r \in worker.pending \cup worker.ready \cup QueuedStarts(commands)
         \/ r \in worker.active /\ ~Stepped(r)
  PROVE  Unfinished(r)
  BY Places DEF Unfinished, Waiting

\* handle_command, which cancels a request wherever the worker has it.
LEMMA HandleSeen ==
  ASSUME SlotCore, StreamIInv, PaceInv, NEW next, NEW stopped,
         worker.pc \in {"recv", "drain", "coalesce", "idle"},
         HandleCommand(next, stopped)
  PROVE  PaceInv' /\ Contracted
<1> DEFINE m == Head(commands)
           rest == Tail(commands)
<1>0. /\ commands \in Seq(Command) /\ commands # <<>> /\ Len(commands) <= ChannelCap
      /\ UNCHANGED <<handle, permit, produced>>
  BY DEF SlotCore, TypeOK, HandleCommand, clientVars
<1>1. /\ rest \in Seq(Command) /\ Len(rest) <= ChannelCap
      /\ m.kind \in {"start", "cancel"} => m.id \in Requests
  BY <1>0, ReceiveType
<1>2. \/ UNCHANGED state
      \/ /\ m.kind = "cancel" /\ m.id \in worker.pending \cup worker.active
         /\ Clear(m.id, MarkCancelled(state[m.id]), rest)
  BY DEF HandleCommand
<1> HIDE DEF m, rest
<1>3. CASE UNCHANGED state
  BY <1>0, <1>3, QuietSeen
<1>4. CASE /\ m.kind = "cancel" /\ m.id \in worker.pending \cup worker.active
           /\ Clear(m.id, MarkCancelled(state[m.id]), rest)
  <2>1. m.id \in Requests /\ ~Stepped(m.id)
    BY <1>1, <1>4 DEF Stepped, At, Walking
  <2>2. Unfinished(m.id)
    BY <1>4, <2>1, HeldUnfinished
  <2>3. QED
    BY <1>0, <1>1, <1>4, <2>1, <2>2, ClearWithdraws
<1>5. QED
  BY <1>2, <1>3, <1>4

\* Requests the worker has not started are cancelled or fail in prefill.
LEMMA PendingSeen ==
  ASSUME SlotCore, StreamIInv, PaceInv, NEW r \in Requests,
         FilterPending(r) \/ PrefillErr(r) \/ ExitPending(r)
  PROVE  PaceInv' /\ Contracted
<1>0. /\ commands \in Seq(Command) /\ Len(commands) <= ChannelCap
      /\ UNCHANGED <<handle, permit, produced>>
  BY DEF SlotCore, TypeOK, FilterPending, PrefillErr, ExitPending, stateFrame, clientVars
<1>1. \/ UNCHANGED state
      \/ /\ r \in worker.pending \cup worker.ready
         /\ \/ Clear(r, MarkCancelled(state[r]), commands)
            \/ Clear(r, MarkFailed(state[r], "backend"), commands)
  BY DEF FilterPending, PrefillErr, ExitPending
<1>2. CASE UNCHANGED state
  BY <1>0, <1>2, QuietSeen
<1>3. CASE /\ r \in worker.pending \cup worker.ready
           /\ \/ Clear(r, MarkCancelled(state[r]), commands)
              \/ Clear(r, MarkFailed(state[r], "backend"), commands)
  <2>1. Unfinished(r)
    BY <1>3, HeldUnfinished
  <2>2. QED
    BY <1>0, <1>3, <2>1, ClearWithdraws
<1>4. QED
  BY <1>1, <1>2, <1>3

\* Active requests are cancelled by the sweep and by the clean-up.
LEMMA SweepSeen ==
  ASSUME SlotCore, StreamIInv, PaceInv, NEW r \in Requests, Sweep(r) \/ ExitActive(r)
  PROVE  PaceInv' /\ Contracted
<1>0. /\ commands \in Seq(Command) /\ Len(commands) <= ChannelCap
      /\ UNCHANGED <<handle, permit, produced>>
  BY DEF SlotCore, TypeOK, Sweep, ExitActive, closeFrame, clientVars
<1>1. /\ worker.pc \in {"sweep", "exit"} /\ r \in worker.active
      /\ UNCHANGED state \/ Clear(r, MarkCancelled(state[r]), commands)
  BY DEF Sweep, ExitActive, CancelActive, StreamIInv, ShapeInv
<1>2. Unfinished(r)
  <2>1. ~Stepped(r)
    BY <1>1 DEF Stepped, At, Walking
  <2>2. QED
    BY <1>1, <2>1, HeldUnfinished
<1>3. CASE UNCHANGED state
  BY <1>0, <1>3, QuietSeen
<1>4. CASE Clear(r, MarkCancelled(state[r]), commands)
  BY <1>0, <1>2, <1>4, ClearWithdraws
<1>5. QED
  BY <1>1, <1>3, <1>4

\* So are the starts still queued when the worker leaves.
LEMMA ExitDrainSeen ==
  ASSUME SlotCore, StreamIInv, PaceInv, ExitDrain
  PROVE  PaceInv' /\ Contracted
<1> DEFINE m == Head(commands)
           rest == Tail(commands)
<1>0. /\ commands \in Seq(Command) /\ commands # <<>> /\ Len(commands) <= ChannelCap
      /\ UNCHANGED <<handle, permit, produced>> /\ UniqueStarts(commands)
  BY DEF SlotCore, TypeOK, ExitDrain, stateFrame, clientVars, OwnerInv
<1>1. /\ rest \in Seq(Command) /\ Len(rest) <= ChannelCap
      /\ m.kind = "start" => m.id \in Requests
  BY <1>0, ReceiveType
<1>2. m.kind = "start" => m.id \in QueuedStarts(commands)
  BY <1>0, ReceiveStarts
<1>3. \/ UNCHANGED state
      \/ m.kind = "start" /\ Clear(m.id, MarkCancelled(state[m.id]), rest)
  BY DEF ExitDrain
<1> HIDE DEF m, rest
<1>4. CASE UNCHANGED state
  BY <1>0, <1>4, QuietSeen
<1>5. CASE m.kind = "start" /\ Clear(m.id, MarkCancelled(state[m.id]), rest)
  <2>1. m.id \in Requests /\ Unfinished(m.id)
    BY <1>1, <1>2, <1>5, HeldUnfinished
  <2>2. QED
    BY <1>0, <1>1, <1>5, <2>1, ClearWithdraws
<1>6. QED
  BY <1>3, <1>4, <1>5

\* mark_prefilling, the start of generation and mark_retired tell a client
\* nothing.
LEMMA PhaseSeen ==
  ASSUME SlotCore, StreamIInv, PaceInv, NEW r \in Requests,
         UNCHANGED <<handle, permit, produced>>,
         \/ /\ Waiting(r)
            /\ \/ state'[r] = [state[r] EXCEPT !.phase = "Prefilling"]
               \/ state'[r] = [state[r] EXCEPT !.phase = "Generating"]
         \/ state'[r] = [state[r] EXCEPT !.retired = TRUE]
  PROVE  SameView(r) /\ Pace(state'[r], produced'[r])
<1>0. state[r] \in RequestState /\ StreamInv(r)
  BY WorkerParts DEF SlotCore, StreamIInv, RequestInv
<1> DEFINE Alike ==
        /\ state'[r].packets = state[r].packets /\ state'[r].emitted = state[r].emitted
        /\ state'[r].producer_finished = state[r].producer_finished
        /\ state'[r].finish_reason = state[r].finish_reason
        /\ state'[r].cancel_requested = state[r].cancel_requested
        /\ state'[r].failure = state[r].failure
        /\ \/ Waiting(r) /\ state'[r].phase \in {"Prefilling", "Generating"}
           \/ state'[r].phase = state[r].phase
<1>1. Alike
  <2>1. ASSUME NEW ph \in {"Prefilling", "Generating"}, Waiting(r),
               state'[r] = [state[r] EXCEPT !.phase = ph]
        PROVE  Alike
    BY <1>0, <2>1, PhaseFields
  <2>2. CASE state'[r] = [state[r] EXCEPT !.retired = TRUE]
    BY <1>0, <2>2, PhaseFields
  <2>3. QED
    BY <2>1, <2>2
<1>2. \/ Waiting(r) /\ state'[r].phase \in {"Prefilling", "Generating"}
      \/ state'[r].phase = state[r].phase
  BY <1>1
<1>3. state'[r].phase = "Completed" <=> state[r].phase = "Completed"
  BY <1>2, NotCompleted
<1>4. /\ state[r].phase = "Cancelled" => state[r].cancel_requested
      /\ state'[r].phase = "Cancelled" => state'[r].cancel_requested
  BY <1>0, <1>1, <1>2 DEF StreamInv
<1>5. QED
  BY <1>1, <1>3, <1>4, SeenAlike

LEMMA PrefillSeen ==
  ASSUME SlotCore, StreamIInv, PaceInv, BeginPrefill
  PROVE  PaceInv' /\ Contracted
<1>0. /\ UNCHANGED <<handle, permit, produced>>
      /\ \A r \in Requests :
           state'[r] = IF r \in worker.ready
                       THEN [state[r] EXCEPT !.phase = "Prefilling"] ELSE state[r]
  BY DEF BeginPrefill, stateFrame, clientVars
<1>1. ASSUME NEW r \in Requests
      PROVE  SameView(r) /\ Pace(state'[r], produced'[r])
  <2>1. CASE r \in worker.ready
    BY <1>0, <2>1, Places, PhaseSeen
  <2>2. CASE r \notin worker.ready
    BY <1>0, <2>2, UnseenKeeps DEF Unseen
  <2>3. QED
    BY <2>1, <2>2
<1>2. QED
  BY <1>1 DEF PaceInv, Contracted

LEMMA MarkSeen ==
  ASSUME SlotCore, StreamIInv, PaceInv, NEW r \in Requests,
         PrefillOk(r) \/ MarkRetired(r)
  PROVE  PaceInv' /\ Contracted
<1>0. /\ state \in [Requests -> RequestState] /\ UNCHANGED <<handle, permit, produced>>
  BY DEF SlotCore, TypeOK, PrefillOk, MarkRetired, stateFrame, clientVars
<1>1. \A x \in Requests : x # r => Unseen(x)
  BY <1>0 DEF Unseen, PrefillOk, MarkRetired
<1>2. SameView(r) /\ Pace(state'[r], produced'[r])
  <2>1. CASE PrefillOk(r)
    <3>1. Waiting(r) /\ state'[r] = [state[r] EXCEPT !.phase = "Generating"]
      BY <1>0, <2>1, Places DEF PrefillOk
    <3>2. QED
      BY <1>0, <3>1, PhaseSeen
  <2>2. CASE MarkRetired(r)
    <3>1. state'[r] = [state[r] EXCEPT !.retired = TRUE]
      BY <1>0, <2>2 DEF MarkRetired
    <3>2. QED
      BY <1>0, <3>1, PhaseSeen
  <2>3. QED
    BY <2>1, <2>2
<1>3. QED
  BY <1>1, <1>2, OneSeen

\* drop(request) returns the slot of a request whose end is decided.
LEMMA ReleaseSeen ==
  ASSUME SlotCore, StreamIInv, PaceInv, NEW r \in Requests, Release(r)
  PROVE  PaceInv' /\ Contracted
<1> DEFINE s == state[r]
<1>0. /\ permit \in [Requests -> BOOLEAN] /\ permit' = [permit EXCEPT ![r] = FALSE]
      /\ UNCHANGED <<state, handle, produced>> /\ Releasing(r)
  BY DEF SlotCore, TypeOK, Release, Releasing, clientVars
<1>1. \A x \in Requests : x # r => Unseen(x)
  BY <1>0 DEF Unseen
<1>2. permit[r] /\ ~permit'[r] /\ handle[r] # "new"
  BY <1>0, Places
<1>3. Decided(s) /\ StreamInv(r)
  BY <1>0 DEF StreamIInv, RequestInv, LifeInv
<1>4. Closed(s) \/ Verdict(s) \in {"cancelled", "failed"}
  <2>1. CASE s.failure # "none"
    BY <2>1, VerdictBranches
  <2>2. CASE s.failure = "none" /\ s.cancel_requested
    BY <2>2, VerdictBranches
  <2>3. CASE s.failure = "none" /\ ~s.cancel_requested
    <3>1. ~Withdrawn(s) /\ s.producer_finished
      BY <1>3, <2>3 DEF Withdrawn, Decided, StreamInv
    <3>2. QED
      BY <1>3, <3>1 DEF StreamInv, Closed
  <2>4. QED
    BY <2>1, <2>2, <2>3
<1>5. Status(r) = Verdict(s) /\ Status(r)' = Status(r)
  BY <1>0, <1>2 DEF Status
<1>6. Returns(r)
  BY <1>0, <1>2, <1>4, <1>5 DEF Returns
<1>7. Pace(state'[r], produced'[r])
  BY <1>0 DEF PaceInv
<1>8. QED
  BY <1>1, <1>6, <1>7, OneSeen

\* A failed step.
LEMMA StepErrSeen ==
  ASSUME SlotCore, StreamIInv, PaceInv, NEW r \in Requests, StepErr(r)
  PROVE  PaceInv' /\ Contracted
<1>0. /\ TypeOK /\ Len(state[r].packets) \in Nat
      /\ UNCHANGED <<handle, permit, produced>>
      /\ worker.pc = "step" /\ r \in worker.batch
      /\ Recycle(r, MarkFailed(state[r], "backend"), Len(state[r].packets))
  BY WorkerParts DEF SlotCore, StepErr, stateFrame, clientVars
<1>1. /\ state'[r] = MarkFailed(state[r], "backend")
      /\ \A x \in Requests : x # r => state'[x] = state[x]
  BY <1>0, RecycleEffect
<1>2. r \in worker.active /\ ~Stepped(r)
  BY <1>0 DEF StreamIInv, ShapeInv, Stepped, At, Walking
<1>3. /\ state[r].phase # "Completed" /\ permit[r] /\ handle[r] # "new"
      /\ \A x \in Requests : x # r => Unseen(x)
  BY <1>0, <1>1, <1>2, NotCompleted, Places DEF Unseen
<1>4. QED
  BY <1>0, <1>1, <1>3, WithdrawSeen

\* A packet of the backend is queued, or of no use to a cancelled request.
LEMMA StepPacketSeen ==
  ASSUME SlotCore, StreamIInv, PaceInv, NEW r \in Requests, StepPacket(r)
  PROVE  PaceInv' /\ Contracted
<1> DEFINE s == state[r]
<1>0. /\ TypeOK /\ s \in RequestState /\ Len(s.packets) \in Nat
      /\ free[r] \in Nat /\ held[r] \in Nat /\ produced[r] \in Nat /\ s.emitted \in Nat
      /\ RequestInv(r) /\ state \in [Requests -> RequestState]
      /\ produced \in [Requests -> Nat] /\ s.packets \in PacketSeq
      /\ PacketFrames \in Nat /\ MaxFrames \in Nat /\ RingSlots \in Nat
  BY WorkerParts, ConstantsAssumption DEF SlotCore, StreamIInv, TypeOK
<1>1. worker.pc = "step" /\ r \in worker.batch /\ r \in worker.active
  BY DEF StepPacket, StreamIInv, ShapeInv
<1>2. Took(r) /\ Taken(r) = 1 /\ ~Stepped(r)
  BY <1>1 DEF Took, Taken, Stepped, At, Walking
<1>3. permit[r] /\ ~s.retired /\ handle[r] # "new"
  BY <1>0, <1>1, Places DEF RequestInv, LifeInv
<1>4. s.failure = "none" /\ BuffersOf(r) = RingSlots
  BY <1>0, <1>2, <1>3 DEF RequestInv, BufferInv, Alive
<1>5. Len(s.packets) < RingSlots
  BY <1>0, <1>2, <1>4 DEF BuffersOf
<1>6. PICK b \in BackendPacket :
        /\ ValidPacket(b) /\ WithinLimit(r, b)
        /\ produced' = [produced EXCEPT ![r] = @ + b.frames]
        /\ LET p == [first |-> produced[r], frames |-> b.frames,
                     final |-> b.final, reason |-> b.reason]
           IN  IF AcceptsPacket(s)
               THEN /\ state' = [state EXCEPT ![r] = PushPacket(s, p)]
                    /\ UNCHANGED <<free, commands>>
               ELSE IF s.cancel_requested THEN Recycle(r, s, 0)
               ELSE Recycle(r, MarkFailed(s, "overflow"), Len(s.packets))
  BY DEF StepPacket
<1> DEFINE p == [first |-> produced[r], frames |-> b.frames,
                 final |-> b.final, reason |-> b.reason]
<1>7. b.frames \in Nat /\ b.frames \in 1 .. PacketFrames /\ b.final \in BOOLEAN
  BY <1>0, <1>6 DEF BackendPacket, ValidPacket
<1>8. /\ p \in Packet /\ p.first = produced[r] /\ p.frames = b.frames
      /\ p.final = b.final
  BY <1>0, <1>7 DEF BackendPacket, Packet
<1>9. /\ produced'[r] = produced[r] + b.frames
      /\ \A x \in Requests : x # r => produced'[x] = produced[x]
  BY <1>0, <1>6
<1>10. UNCHANGED <<handle, permit>>
  BY DEF StepPacket, clientVars
<1>11. produced'[r] - produced[r] \in 1 .. MaxFrames - produced[r]
  <2>1. produced[r] + b.frames <= MaxFrames
    BY <1>0, <1>6, <1>7 DEF WithinLimit
  <2>2. QED
    BY <1>0, <1>7, <1>9, <2>1
<1>12. /\ s.phase # "Completed" /\ ~Closed(s)
       /\ ~Withdrawn(s) => ~s.producer_finished /\ s.finish_reason = "None"
  BY <1>0, <1>1, <1>2, NotCompleted DEF RequestInv, StreamInv, Closed
<1> HIDE DEF p
<1>13. CASE AcceptsPacket(s)
  <2>1. /\ state'[r] = PushPacket(s, p)
        /\ \A x \in Requests : x # r => state'[x] = state[x]
    BY <1>0, <1>6, <1>13 DEF p
  <2>2. \A x \in Requests : x # r => Unseen(x)
    BY <1>9, <1>10, <2>1 DEF Unseen
  <2>3. /\ state'[r].packets = Append(s.packets, p)
        /\ state'[r].phase = IF p.final THEN "Draining" ELSE s.phase
        /\ state'[r].producer_finished = (p.final \/ s.producer_finished)
        /\ state'[r].cancel_requested = s.cancel_requested
        /\ state'[r].failure = s.failure /\ state'[r].emitted = s.emitted
    BY <1>0, <1>8, <2>1, PushFields
  <2>4. ~s.cancel_requested /\ ~Withdrawn(s)
    BY <1>0, <1>13 DEF AcceptsPacket, Withdrawn, RequestInv, StreamInv
  <2>5. Verdict(s) = "live"
    BY <1>4, <1>12, <2>4, VerdictBranches
  <2>6. Verdict(state'[r]) = "live"
    <3>1. state'[r].phase # "Completed"
      BY <1>12, <2>3
    <3>2. QED
      BY <1>4, <2>3, <2>4, <3>1, VerdictBranches
  <2>7. Status(r) = "live" /\ Status(r)' = "live"
    BY <1>3, <1>10, <2>5, <2>6 DEF Status
  <2>8. Generates(r)
    BY <1>3, <1>10, <1>11, <1>12, <2>3, <2>7 DEF Generates
  <2>9. Pace(state'[r], produced'[r])
    <3>1. Pace(s, produced[r])
      BY DEF PaceInv
    <3>2. s.emitted <= produced[r] + b.frames
      BY <1>0, <1>7, <2>4, <3>1 DEF Pace
    <3> DEFINE z == Append(s.packets, p)
    <3>3. /\ Len(z) = Len(s.packets) + 1 /\ z[Len(z)] = p
          /\ \A i \in 1 .. Len(s.packets) : z[i] = s.packets[i] /\ s.packets[i] \in Packet
          /\ \A i \in 1 .. Len(z) : i \in 1 .. Len(s.packets) \/ i = Len(z)
      BY <1>0 DEF PacketSeq
    <3> HIDE DEF z
    <3>4. z # <<>>
      BY <1>0, <3>3
    <3>5. ASSUME NEW i \in 1 .. Len(z)
          PROVE  z[i].first + z[i].frames <= produced[r] + b.frames
      <4>1. CASE i = Len(z)
        BY <1>0, <1>7, <1>8, <3>3, <4>1
      <4>2. CASE i \in 1 .. Len(s.packets)
        <5>1. /\ z[i] = s.packets[i] /\ z[i].first \in Nat /\ z[i].frames \in Nat
          BY <3>3, <4>2 DEF Packet
        <5>2. z[i].first + z[i].frames <= produced[r]
          BY <2>4, <3>1, <4>2, <5>1 DEF Pace
        <5> DEFINE k == z[i].first + z[i].frames
        <5>3. k \in Nat /\ k <= produced[r]
          BY <5>1, <5>2, SMTT(60)
        <5> HIDE DEF k
        <5>4. k <= produced[r] + b.frames
          BY <1>0, <1>7, <5>3
        <5>5. QED
          BY <5>4 DEF k
      <4>3. QED
        BY <3>3, <4>1, <4>2
    <3>6. state'[r].producer_finished => z[Len(z)].final
      BY <1>12, <2>3, <2>4, <3>3
    <3>7. QED
      BY <1>9, <2>3, <3>2, <3>4, <3>5, <3>6 DEF Pace, z
  <2>10. QED
    BY <2>2, <2>8, <2>9, OneSeen
<1>14. CASE ~AcceptsPacket(s)
  <2>1. s.cancel_requested
    BY <1>4, <1>5, <1>14 DEF AcceptsPacket
  <2>2. Recycle(r, s, 0)
    BY <1>6, <1>14, <2>1
  <2>3. /\ state'[r] = s /\ \A x \in Requests : x # r => state'[x] = state[x]
    BY <1>0, <2>2, RecycleEffect
  <2>4. \A x \in Requests : x # r => Unseen(x)
    BY <1>9, <1>10, <2>3 DEF Unseen
  <2>5. Verdict(s) = "cancelled"
    BY <1>4, <2>1, VerdictBranches
  <2>6. Status(r) = "cancelled" /\ Status(r)' = "cancelled"
    BY <1>3, <1>10, <2>3, <2>5 DEF Status
  <2>7. Generates(r)
    BY <1>3, <1>10, <1>11, <1>12, <2>3, <2>6 DEF Generates
  <2>8. Pace(state'[r], produced'[r])
    BY <2>1, <2>3 DEF Pace, Withdrawn
  <2>9. QED
    BY <2>4, <2>7, <2>8, OneSeen
<1>15. QED
  BY <1>13, <1>14

-----------------------------------------------------------------------------
(* Clients.                                                                *)

\* poll hands out the next packet; the stream has ended exactly when it was the
\* last.
LEMMA PollSeen ==
  ASSUME SlotCore, StreamIInv, PaceInv, NEW r \in Requests, PollPacket(r)
  PROVE  PaceInv' /\ Contracted
<1> DEFINE s == state[r]
           q == s.packets
           n == produced[r]
           e == s.emitted + Head(q).frames
<1>0. /\ s \in RequestState /\ Len(q) \in Nat /\ n \in Nat /\ s.emitted \in Nat
      /\ StreamInv(r) /\ state \in [Requests -> RequestState] /\ q \in PacketSeq
      /\ Pace(s, n) /\ PacketFrames \in Nat
  BY WorkerParts, ConstantsAssumption
  DEF SlotCore, StreamIInv, TypeOK, RequestInv, PaceInv
<1>1. /\ handle[r] \in {"open", "cancelling"} /\ PollOutcome(s) = "Packet"
      /\ state' = [state EXCEPT ![r] = PopPacket(@)]
      /\ UNCHANGED <<permit, handle, produced>>
  BY DEF PollPacket, CanPoll
<1>2. ~Withdrawn(s) /\ q # <<>>
  BY <1>1, PollBranches
<1>3. /\ state'[r] = PopPacket(s) /\ \A x \in Requests : x # r => Unseen(x)
  BY <1>0, <1>1 DEF Unseen
<1>4. /\ state'[r].packets = Tail(q)
      /\ state'[r].emitted = e
      /\ state'[r].phase = IF Head(q).final /\ Tail(q) = <<>>
                           THEN "Completed" ELSE s.phase
      /\ state'[r].producer_finished = s.producer_finished
      /\ state'[r].finish_reason = s.finish_reason
      /\ state'[r].cancel_requested = s.cancel_requested
      /\ state'[r].failure = s.failure
  BY <1>0, <1>2, <1>3, PopFields
<1>5. /\ Chain(q, s.emitted, n, s.producer_finished)
      /\ s.producer_finished <=> Closed(s)
  BY <1>0, <1>2 DEF StreamInv, Closed
<1>6. s.phase # "Completed" /\ s.failure = "none" /\ ~s.cancel_requested
  BY <1>0, <1>2 DEF StreamInv, Withdrawn
<1>7. /\ Chain(Tail(q), e, n, s.producer_finished)
      /\ Head(q).final => Tail(q) = <<>> /\ s.producer_finished
      /\ Head(q).frames \in 1 .. PacketFrames /\ Head(q).first = s.emitted
  BY <1>0, <1>2, <1>5, ChainShrinks
<1>8. /\ Len(q) >= 1 /\ Head(q) = q[1] /\ Len(Tail(q)) = Len(q) - 1
      /\ \A i \in 1 .. Len(Tail(q)) : Tail(q)[i] = q[i + 1] /\ i + 1 \in 1 .. Len(q)
      /\ Tail(q) \in PacketSeq
  BY <1>0, <1>2 DEF PacketSeq
<1>9. \A i \in 1 .. Len(q) : q[i].first + q[i].frames <= n
  BY <1>0, <1>2 DEF Pace
<1>10. e \in Nat /\ e <= n /\ e - s.emitted \in 1 .. n - s.emitted
  <2>1. Head(q).frames \in Nat /\ Head(q).frames >= 1
    BY <1>0, <1>7
  <2>2. s.emitted + Head(q).frames <= n
    BY <1>7, <1>8, <1>9
  <2>3. QED
    BY <1>0, <2>1, <2>2
<1>11. s.producer_finished => q[Len(q)].final
  BY <1>0, <1>2 DEF Pace
<1>12. Tail(q) = <<>> => e = n
  <2>1. CASE Tail(q) = <<>>
    <3>1. Chain(<<>>, e, n, s.producer_finished)
      BY <1>7, <2>1
    <3>2. QED
      BY <3>1, ChainEmpty
  <2>2. QED
    BY <2>1
<1>13. Tail(q) # <<>> => e # n
  <2>1. CASE Tail(q) # <<>>
    <3>1. Head(Tail(q)).first = e /\ Head(Tail(q)).frames \in 1 .. PacketFrames
      <4> DEFINE z == Tail(q)
                 f == e
      <4>1. z \in PacketSeq /\ z # <<>> /\ f \in Nat /\ Chain(z, f, n, s.producer_finished)
        BY <1>7, <1>8, <1>10, <2>1
      <4> HIDE DEF z, f, n, s
      <4>2. Head(z).first = f /\ Head(z).frames \in 1 .. PacketFrames
        BY <4>1, ChainShrinks
      <4>3. QED
        BY <4>2 DEF z, f
    <3>2. 1 \in 1 .. Len(Tail(q)) /\ Head(Tail(q)) = Tail(q)[1]
      BY <1>8, <2>1 DEF PacketSeq
    <3>3. Head(Tail(q)).first + Head(Tail(q)).frames <= n
      BY <1>8, <1>9, <3>2
    <3>4. QED
      BY <1>0, <1>10, <3>1, <3>3, SMTT(60)
  <2>2. QED
    BY <2>1
<1> HIDE DEF e, n, q, s
<1>14. (Head(q).final /\ Tail(q) = <<>>) <=> (Closed(s) /\ e = n)
  <2>1. CASE Tail(q) = <<>>
    <3>1. Len(q) = 1
      <4> DEFINE z == Tail(q)
                 k == Len(q)
      <4>1. z = <<>> /\ Len(z) = k - 1 /\ k \in Nat
        BY <1>0, <1>8, <2>1
      <4> HIDE DEF z, k
      <4>2. k = 1
        BY <4>1
      <4>3. QED
        BY <4>2 DEF k
    <3>2. s.producer_finished => Head(q).final
      BY <1>8, <1>11, <3>1
    <3>3. QED
      BY <1>5, <1>7, <1>12, <2>1, <3>2
  <2>2. CASE Tail(q) # <<>>
    BY <1>13, <2>2
  <2>3. QED
    BY <2>1, <2>2
<1>15. Verdict(s) = "live"
  BY <1>6, VerdictBranches
<1>16. Verdict(state'[r]) = IF Closed(s) /\ e = n THEN "ended" ELSE "live"
  <2>1. Verdict(state'[r]) = IF state'[r].phase = "Completed" THEN "ended" ELSE "live"
    BY <1>4, <1>6, VerdictBranches
  <2>2. state'[r].phase = "Completed" <=> (Head(q).final /\ Tail(q) = <<>>)
    BY <1>4, <1>6
  <2>3. QED
    BY <1>14, <2>1, <2>2
<1>17. Delivers(r)
  <2>1. Status(r) = "live"
    BY <1>1, <1>15 DEF Status, s
  <2>2. Status(r)' = IF Closed(s) /\ e = n THEN "ended" ELSE "live"
    BY <1>1, <1>16 DEF Status
  <2>3. Closed(state'[r]) <=> Closed(s)
    BY <1>4 DEF Closed
  <2>4. QED
    BY <1>1, <1>4, <1>10, <2>1, <2>2, <2>3 DEF Delivers, s, n
<1>18. Pace(state'[r], produced'[r])
  <2>1. \A i \in 1 .. Len(Tail(q)) : Tail(q)[i].first + Tail(q)[i].frames <= n
    BY <1>8, <1>9
  <2>2. s.producer_finished /\ Tail(q) = <<>> => state'[r].phase = "Completed"
    BY <1>4, <1>5, <1>12, <1>14
  <2>3. s.producer_finished /\ Tail(q) # <<>> => Tail(q)[Len(Tail(q))].final
    <3>1. CASE Tail(q) # <<>>
      <4>1. Len(Tail(q)) \in 1 .. Len(Tail(q)) /\ Len(Tail(q)) + 1 = Len(q)
        BY <1>0, <1>8, <3>1 DEF PacketSeq
      <4>2. QED
        BY <1>8, <1>11, <4>1
    <3>2. QED
      BY <3>1
  <2>4. produced'[r] = n
    BY <1>1 DEF n
  <2>5. QED
    BY <1>4, <1>10, <2>1, <2>2, <2>3, <2>4 DEF Pace
<1>19. QED
  BY <1>3, <1>17, <1>18, OneSeen

\* A poll that reports the end of the stream finds it recorded already.
LEMMA PollEndSeen ==
  ASSUME SlotCore, StreamIInv, PaceInv, NEW r \in Requests, PollEnd(r)
  PROVE  PaceInv' /\ Contracted
<1> DEFINE s == state[r]
<1>0. /\ s \in RequestState /\ state \in [Requests -> RequestState]
      /\ Pace(s, produced[r]) /\ StreamInv(r)
  BY WorkerParts DEF SlotCore, StreamIInv, TypeOK, RequestInv, PaceInv
<1>1. /\ PollOutcome(s) = "EndOfStream"
      /\ state' = [state EXCEPT ![r].phase = "Completed"]
      /\ UNCHANGED <<permit, handle, produced>>
  BY DEF PollEnd, clientVars
<1>2. ~Withdrawn(s) /\ s.packets = <<>> /\ s.producer_finished
  BY <1>1, PollBranches
<1>3. s.phase = "Completed"
  BY <1>0, <1>2 DEF Pace
<1>4. state'[r] = [s EXCEPT !.phase = "Completed"]
  BY <1>0, <1>1
<1>5. /\ state'[r].packets = s.packets /\ state'[r].emitted = s.emitted
      /\ state'[r].phase = "Completed"
      /\ state'[r].producer_finished = s.producer_finished
      /\ state'[r].finish_reason = s.finish_reason
      /\ state'[r].cancel_requested = s.cancel_requested
      /\ state'[r].failure = s.failure
  BY <1>0, <1>4, PhaseFields
<1>6. SameView(r) /\ Pace(state'[r], produced'[r])
  BY <1>1, <1>3, <1>5, SeenAlike
<1>7. \A x \in Requests : x # r => Unseen(x)
  BY <1>0, <1>1 DEF Unseen
<1>8. QED
  BY <1>6, <1>7, OneSeen

\* Scheduler::start.
LEMMA AcquireSeen ==
  ASSUME SlotCore, StreamIInv, PaceInv, NEW r \in Requests, StartAcquire(r)
  PROVE  PaceInv' /\ Contracted
<1>0. /\ handle[r] = "new" /\ used # Capacity /\ UNCHANGED <<state, produced>>
      /\ permit' = [permit EXCEPT ![r] = TRUE] /\ handle' = [handle EXCEPT ![r] = "starting"]
      /\ permit \in [Requests -> BOOLEAN] /\ DOMAIN handle = Requests
  BY DEF StartAcquire, SlotCore, TypeOK
<1>1. state[r] = NewState
  BY <1>0 DEF StreamIInv, RequestInv, LifeInv
<1>2. Verdict(state[r]) = "live"
  BY <1>1, VerdictBranches DEF NewState
<1>3. Status(r) = "idle" /\ Status(r)' = "live"
  BY <1>0, <1>2 DEF Status
<1>4. ~permit[r] /\ permit'[r]
  BY <1>0, Places
<1>5. Admits(r)
  BY <1>0, <1>3, <1>4 DEF Admits
<1>6. \A x \in Requests : x # r => Unseen(x)
  BY <1>0 DEF Unseen
<1>7. Pace(state'[r], produced'[r])
  BY <1>0 DEF PaceInv
<1>8. QED
  BY <1>5, <1>6, <1>7, OneSeen

\* Sends, and packets dropped, change nothing a client is told.
LEMMA SendSeen ==
  ASSUME SlotCore, StreamIInv, PaceInv, NEW r \in Requests,
         StartSend(r) \/ CancelSend(r) \/ DropPacket(r)
  PROVE  PaceInv' /\ Contracted
<1>0. /\ UNCHANGED <<state, produced, permit>> /\ DOMAIN handle = Requests
      /\ \/ UNCHANGED handle
         \/ handle[r] # "new" /\ \E h \in {"open", "closed"} : handle' = [handle EXCEPT ![r] = h]
  BY DEF StartSend, CancelSend, DropPacket, SlotCore, TypeOK
<1>1. \A x \in Requests : Unseen(x)
  BY <1>0 DEF Unseen
<1>2. QED
  BY <1>1, NobodySeen

\* The locked half of cancel.
LEMMA CancelSeen ==
  ASSUME SlotCore, StreamIInv, PaceInv, NEW r \in Requests, Cancel(r) \/ DropHandle(r)
  PROVE  PaceInv' /\ Contracted
<1> DEFINE s == state[r]
<1>0. /\ TypeOK /\ DOMAIN handle = Requests
      /\ commands \in Seq(Command) /\ Len(commands) <= ChannelCap
  BY DEF SlotCore, TypeOK
<1>1. PICK then \in {"cancelling", "dropping"}, after \in {"open", "closed"} :
        CancelMark(r, then, after)
  BY DEF Cancel, DropHandle
<1>2. handle[r] = "open" /\ UNCHANGED <<permit, produced>>
  BY <1>1 DEF CancelMark
<1>3. CASE cancelSent[r] \/ IsTerminal(s.phase)
  <2>1. handle' = [handle EXCEPT ![r] = after] /\ UNCHANGED state
    BY <1>1, <1>3 DEF CancelMark
  <2>2. \A x \in Requests : Unseen(x)
    BY <1>0, <1>2, <2>1 DEF Unseen
  <2>3. QED
    BY <2>2, NobodySeen
<1>4. CASE ~(cancelSent[r] \/ IsTerminal(s.phase))
  <2>1. handle' = [handle EXCEPT ![r] = then] /\ Clear(r, RequestCancel(s), commands)
    BY <1>1, <1>4 DEF CancelMark
  <2>2. /\ state'[r] = RequestCancel(s)
        /\ \A x \in Requests : x # r => state'[x] = state[x]
    BY <1>0, <2>1, ClearEffect
  <2>3. handle'[r] # "new" /\ s.phase # "Completed"
    BY <1>0, <1>4, <2>1 DEF IsTerminal
  <2>4. \A x \in Requests : x # r => Unseen(x)
    BY <1>0, <1>2, <2>1, <2>2 DEF Unseen
  <2>5. QED
    BY <1>2, <2>2, <2>3, <2>4, WithdrawSeen
<1>5. QED
  BY <1>3, <1>4

-----------------------------------------------------------------------------
(* Every step of any thread.                                               *)

LEMMA WorkerSeen ==
  ASSUME SlotCore, StreamIInv, PaceInv, Worker
  PROVE  PaceInv' /\ Contracted
<1>1. CASE \/ Top \/ Check \/ PrefillDone \/ SweepDone \/ ScanDone \/ StepBatch
           \/ StepDone \/ ReapDone \/ ExitEmpty \/ DropReceiver
  BY <1>1, QuietSeen
  DEF Top, Check, PrefillDone, SweepDone, ScanDone, StepBatch, StepDone, ReapDone,
      ExitEmpty, DropReceiver, workerFrame, clientVars
<1>2. CASE Recv \/ Drain \/ Coalesce \/ Idle
  <2>1. \/ UNCHANGED <<state, produced, permit, handle>>
        \/ /\ worker.pc \in {"recv", "drain", "coalesce", "idle"}
           /\ \E next, stopped \in LoopPcs : HandleCommand(next, stopped)
    BY <1>2 DEF Recv, Drain, Coalesce, Idle, workerFrame, clientVars, LoopPcs
  <2>2. QED
    BY <2>1, QuietSeen, HandleSeen
<1>3. CASE BeginPrefill \/ ExitDrain
  BY <1>3, PrefillSeen, ExitDrainSeen
<1>4. ASSUME NEW r \in Requests, WorkerOn(r)
      PROVE  PaceInv' /\ Contracted
  <2>1. CASE FilterPending(r) \/ PrefillErr(r) \/ ExitPending(r)
    BY <2>1, PendingSeen
  <2>2. CASE PrefillOk(r) \/ MarkRetired(r)
    BY <2>2, MarkSeen
  <2>3. CASE Sweep(r) \/ ExitActive(r)
    BY <2>3, SweepSeen
  <2>4. CASE ScanState(r) \/ ScanFree(r)
    BY <2>4, QuietSeen DEF ScanState, ScanFree, workerFrame, clientVars
  <2>5. CASE TakePcm(r)
    <3>1. free[r] > 0
      BY <2>5 DEF TakePcm, StreamIInv, RequestInv, BufferInv, Scanned
    <3>2. QED
      BY <2>5, <3>1, QuietSeen DEF TakePcm, stateFrame, clientVars
  <2>6. CASE StepErr(r)
    BY <2>6, StepErrSeen
  <2>7. CASE StepPacket(r)
    BY <2>7, StepPacketSeen
  <2>8. CASE Reap(r)
    BY <2>8, QuietSeen DEF Reap, closeFrame, clientVars
  <2>9. CASE Release(r)
    BY <2>9, ReleaseSeen
  <2>10. QED
    BY <1>4, <2>1, <2>2, <2>3, <2>4, <2>5, <2>6, <2>7, <2>8, <2>9 DEF WorkerOn
<1>5. QED
  BY <1>1, <1>2, <1>3, <1>4 DEF Worker

LEMMA NextPace ==
  SlotInv /\ StreamIInv /\ PaceInv /\ [Next]_vars => PaceInv' /\ Contracted
<1> SUFFICES ASSUME SlotInv, StreamIInv, PaceInv, [Next]_vars
             PROVE  PaceInv' /\ Contracted
  OBVIOUS
<1>0. SlotCore
  BY DEF SlotInv, SlotCore
<1>1. CASE Worker
  BY <1>0, <1>1, WorkerSeen
<1>2. CASE Owner \/ Finished \/ UNCHANGED vars
  BY <1>2, QuietSeen DEF Owner, StoreShutdown, SendShutdown, JoinWorker, ownerFrame,
                         Finished, vars, clientVars
<1>3. ASSUME NEW r \in Requests, Client(r)
      PROVE  PaceInv' /\ Contracted
  BY <1>0, <1>3, AcquireSeen, SendSeen, PollSeen, PollEndSeen, CancelSeen DEF Client
<1>4. QED
  BY <1>1, <1>2, <1>3 DEF Next

LEMMA InitPace == Init => PaceInv /\ Contract!Init
<1> SUFFICES ASSUME Init PROVE PaceInv /\ Contract!Init
  OBVIOUS
<1>1. \A r \in Requests : state[r] = NewState /\ produced[r] = 0 /\ handle[r] = "new"
  BY DEF Init
<1>2. PaceInv
  <2>1. Len(<<>>) = 0 /\ 1 .. 0 = {}
    OBVIOUS
  <2>2. /\ NewState.emitted = 0 /\ NewState.packets = <<>>
        /\ ~NewState.producer_finished
    BY DEF NewState
  <2>3. QED
    BY <1>1, <2>1, <2>2 DEF PaceInv, Pace
<1>3. [r \in Requests |-> Status(r)] = [r \in Requests |-> "idle"]
  BY <1>1 DEF Status
<1>4. /\ [r \in Requests |-> state[r].emitted] = [r \in Requests |-> 0]
      /\ [r \in Requests |-> Closed(state[r])] = [r \in Requests |-> FALSE]
  <2>1. NewState.emitted = 0 /\ NewState.finish_reason = "None"
    BY DEF NewState
  <2>2. QED
    BY <1>1, <2>1 DEF Closed
<1>5. produced = [r \in Requests |-> 0] /\ Holders = {}
  BY DEF Init, Holders
<1>6. QED
  BY <1>2, <1>3, <1>4, <1>5 DEF Contract!Init

\* The steps of the contract; that every slot is returned is checked by TLC.
ContractSteps == Contract!Init /\ [][Contract!Next]_(Contract!vars)

\* Refinement: whatever the worker, the clients and the owner of the scheduler
\* do looks to the client of a request like admission, delivery in order,
\* cancellation, failure or the return of the slot.
THEOREM StepsAreContracted == Spec => ContractSteps
<1>1. Init => Contract!Init /\ PaceInv
  BY InitPace
<1>2. SlotInv /\ StreamIInv /\ PaceInv /\ [Next]_vars => PaceInv'
  BY NextPace
<1>3. SlotInv /\ SlotInv' /\ StreamIInv /\ PaceInv /\ [Next]_vars =>
        [Contract!Next]_(Contract!vars)
  <2> SUFFICES ASSUME SlotInv, SlotInv', StreamIInv, PaceInv, [Next]_vars
               PROVE  [Contract!Next]_(Contract!vars)
    OBVIOUS
  <2>1. Contracted
    BY NextPace
  <2>2. TypeOK'
    BY DEF SlotInv
  <2>3. QED
    BY <2>1, <2>2, MappedStep
<1>4. QED
  BY <1>1, <1>2, <1>3, StreamInductive, PTL DEF Spec, ContractSteps
=============================================================================
