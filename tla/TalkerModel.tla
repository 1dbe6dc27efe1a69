---------------------------- MODULE TalkerModel ----------------------------
(***************************************************************************)
(* The shared talker model (native_talker.rs): the pool of native session  *)
(* handles, and the batch pump, a thread that gathers the frame requests   *)
(* of concurrent sessions into one native call (batch_begin_frames of      *)
(* talker.cu) on the batch stream.                                         *)
(*                                                                         *)
(* Every request runs in a thread of its own, as start_batch and           *)
(* step_batch of the backend have it.  A request, when dropped, may be     *)
(* followed by another in the same thread.  A capacity class is a number,  *)
(* and a row of the batch tables is the handle and frame it was filled in  *)
(* for.                                                                    *)
(***************************************************************************)
EXTENDS Naturals, Sequences, FiniteSets

CONSTANTS
  Requests,   \* threads that serve requests
  Need,       \* Need[r]: capacity of the session that r requires
  Handles,    \* native session handles
  MaxPooled,  \* MAX_POOLED_SESSIONS
  MaxBatch,   \* MAX_BATCH_SESSIONS
  MaxFrames,  \* codec frames of a request
  MaxFaults   \* bound: native calls that fail

ASSUME ModelAssumption ==
  /\ IsFiniteSet(Requests) /\ Need \in [Requests -> Nat \ {0}]
  /\ IsFiniteSet(Handles) /\ "none" \notin Handles
  /\ Cardinality(Handles) >= Cardinality(Requests) + MaxPooled
  /\ MaxPooled \in Nat /\ MaxBatch \in Nat \ {0} /\ MaxFrames \in Nat \ {0}
  /\ MaxFaults \in Nat

VARIABLES
  pool,        \* session_pool
  capacity,    \* capacity[h]: max_sequence_length of a live handle, else 0
  used,        \* handles that hold the state of a request
  poisoned,    \* handles with poisoned_
  lease,       \* handles with frame_in_flight_
  thread,      \* thread[r]: NativeTalkerSession and its position in the code
  registered,  \* requests with a live BatchRegistration
  channel,     \* frame requests sent to the pump
  pump,        \* the pump: pc, batch
  engine,      \* the backend still holds the model
  pinned,      \* host tables of the batch workspace
  device,      \* their copy on the device
  stream,      \* operations enqueued in the batch stream
  ran,         \* ran[r]: the row the kernels of r's last frame have read
  faults       \* calls that have failed

poolVars == <<pool, capacity, used>>
pumpVars == <<channel, pump>>
batchVars == <<pinned, device, stream, ran>>
vars == <<poolVars, poisoned, lease, thread, registered, pumpVars, engine, batchVars, faults>>

None == "none"
Rows == [handle : Handles \cup {None}, frame : 0 .. MaxFrames]
NoRow == [handle |-> None, frame |-> 0]

Threads ==
  [pc : {"idle", "reset", "create", "prefill", "run", "parked", "leased", "failed",
         "recycle", "destroy"},
   handle : Handles \cup {None}, frames : 0 .. MaxFrames, recyclable : BOOLEAN]

Idle == [pc |-> "idle", handle |-> None, frames |-> 0, recyclable |-> FALSE]

Pumps == [pc : {"recv", "gather", "sync", "closed"}, batch : Seq(Requests)]

Init ==
  /\ pool = {} /\ used = {} /\ poisoned = {} /\ lease = {}
  /\ capacity = [h \in Handles |-> 0]
  /\ thread = [r \in Requests |-> Idle]
  /\ registered = {} /\ channel = <<>> /\ engine = TRUE /\ faults = 0
  /\ pump = [pc |-> "recv", batch |-> <<>>]
  /\ pinned = [i \in 1 .. MaxBatch |-> NoRow] /\ device = pinned
  /\ stream = <<>> /\ ran = [r \in Requests |-> NoRow]

Smallest(S) == CHOOSE n \in S : \A m \in S : n <= m
Larger(m, n) == IF m > n THEN m ELSE n
At(r, pc) == thread[r].pc = pc
Goto(r, pc) == thread' = [thread EXCEPT ![r].pc = pc]
Handle(r) == thread[r].handle
Fault == faults < MaxFaults /\ faults' = faults + 1
NoFault == UNCHANGED faults

-----------------------------------------------------------------------------
(* Sessions: start_prompt and the Drop of NativeTalkerSession.             *)

startFrame == <<registered, pumpVars, engine, batchVars>>

Adequate_Any(need) == pool
Adequate(need) == {h \in pool : capacity[h] >= need}

SwapRemove(h) == pool' = pool \ {h}

\* acquire_session, under the pool lock: the smallest adequate session.
Take(r) ==
  LET fits == Adequate(Need[r]) IN
  /\ engine /\ At(r, "idle")
  /\ IF fits = {}
     THEN Goto(r, "create") /\ UNCHANGED pool
     ELSE \E h \in fits :
            /\ capacity[h] = Smallest({capacity[g] : g \in fits})
            /\ SwapRemove(h)
            /\ thread' = [thread EXCEPT ![r].handle = h, ![r].pc = "reset"]
  /\ UNCHANGED <<startFrame, capacity, used, poisoned, lease, faults>>

Destroy(h) ==
  /\ capacity' = [capacity EXCEPT ![h] = 0]
  /\ used' = used \ {h} /\ poisoned' = poisoned \ {h} /\ lease' = lease \ {h}

\* Without the lock: a session that fails to reset is destroyed.
Reset(r) ==
  /\ At(r, "reset")
  /\ \/ /\ Handle(r) \notin lease /\ NoFault
        /\ used' = used \ {Handle(r)}
        /\ Goto(r, "prefill") /\ UNCHANGED <<capacity, poisoned, lease>>
     \/ /\ IF Handle(r) \in lease THEN NoFault ELSE Fault
        /\ Destroy(Handle(r))
        /\ thread' = [thread EXCEPT ![r] = Idle]
  /\ UNCHANGED <<startFrame, pool>>

Create(r) ==
  /\ At(r, "create")
  /\ \/ /\ NoFault
        /\ LET h == CHOOSE g \in Handles : capacity[g] = 0 IN
             /\ capacity' = [capacity EXCEPT ![h] = Need[r]]
             /\ thread' = [thread EXCEPT ![r].handle = h, ![r].pc = "prefill"]
     \/ Fault /\ thread' = [thread EXCEPT ![r] = Idle] /\ UNCHANGED capacity
  /\ UNCHANGED <<startFrame, pool, used, poisoned, lease>>

Register(r) == registered' = registered \cup {r}

\* A session is recyclable once its prefill has succeeded.  The rest of
\* start_session registers it with the pump.
Prefill(r) ==
  /\ At(r, "prefill")
  /\ used' = used \cup {Handle(r)}
  /\ \/ /\ Handle(r) \notin poisoned \cup lease /\ NoFault
        /\ thread' = [thread EXCEPT ![r].pc = "run", ![r].recyclable = TRUE]
        /\ Register(r)
     \/ /\ IF Handle(r) \in poisoned \cup lease THEN NoFault ELSE Fault
        /\ Goto(r, "failed") /\ UNCHANGED registered
  /\ UNCHANGED <<pumpVars, engine, batchVars, pool, capacity, poisoned, lease>>

Drop_WhileParked(r) ==
  /\ thread[r].pc \in {"run", "failed", "parked"}
  /\ Goto(r, IF thread[r].recyclable THEN "recycle" ELSE "destroy")
  /\ UNCHANGED <<startFrame, poolVars, poisoned, lease, faults>>

\* Drop, after a failed step or at any other time between steps: first the
\* session, then its registration.
Drop(r) ==
  /\ thread[r].pc \in {"run", "failed"}
  /\ Goto(r, IF thread[r].recyclable THEN "recycle" ELSE "destroy")
  /\ UNCHANGED <<startFrame, poolVars, poisoned, lease, faults>>

Dropped(r) ==
  /\ thread' = [thread EXCEPT ![r] = Idle]
  /\ registered' = registered \ {r}

\* recycle_session, under the pool lock; destroy_session without it, after the
\* session's stream has been synchronized.
HasRoom == Cardinality(pool) < MaxPooled

Recycle(r) ==
  /\ At(r, "recycle")
  /\ IF HasRoom
     THEN pool' = pool \cup {Handle(r)} /\ Dropped(r)
     ELSE Goto(r, "destroy") /\ UNCHANGED <<pool, registered>>
  /\ UNCHANGED <<pumpVars, engine, batchVars, capacity, used, poisoned, lease, faults>>

\* No kernel of r's frame is left in the batch stream.
Settled(r) ==
  \A i \in 1 .. Len(stream) : \A j \in 1 .. Len(stream[i].rows) : stream[i].rows[j] # r

DestroySession(r) ==
  /\ At(r, "destroy") /\ Settled(r)
  /\ Destroy(Handle(r)) /\ Dropped(r)
  /\ UNCHANGED <<pool, pumpVars, engine, batchVars, faults>>

-----------------------------------------------------------------------------
(* Frames.                                                                 *)

frameFrame == <<poolVars, registered, engine>>

Row(r) == [handle |-> Handle(r), frame |-> thread[r].frames + 1]

\* The first frame runs on the session's own stream, without the pump.
BeginFirst(r) ==
  /\ At(r, "run") /\ thread[r].frames = 0
  /\ \/ /\ NoFault
        /\ lease' = lease \cup {Handle(r)} /\ ran' = [ran EXCEPT ![r] = Row(r)]
        /\ Goto(r, "leased") /\ UNCHANGED poisoned
     \/ /\ Fault
        /\ poisoned' = poisoned \cup {Handle(r)}
        /\ thread' = [thread EXCEPT ![r].pc = "failed", ![r].recyclable = FALSE]
        /\ UNCHANGED <<lease, ran>>
  /\ UNCHANGED <<frameFrame, pumpVars, pinned, device, stream>>

Send(r) == channel' = Append(channel, r)

\* Later frames: the thread parks until the pump answers.
Submit(r) ==
  /\ At(r, "run") /\ thread[r].frames \in 1 .. MaxFrames - 1
  /\ Send(r)
  /\ Goto(r, "parked")
  /\ UNCHANGED <<frameFrame, pump, batchVars, poisoned, lease, faults>>

\* The frame is finished once its kernels have run; or it is dropped, which
\* gives the session up and may fail to end the lease.
Finish(r) ==
  /\ At(r, "leased")
  /\ \/ /\ Settled(r) /\ NoFault
        /\ lease' = lease \ {Handle(r)}
        /\ thread' = [thread EXCEPT ![r].pc = "run", ![r].frames = @ + 1]
     \/ /\ Fault
        /\ lease' \in {lease, IF Settled(r) THEN lease \ {Handle(r)} ELSE lease}
        /\ thread' = [thread EXCEPT ![r].pc = "failed", ![r].recyclable = FALSE]
  /\ ran' = [ran EXCEPT ![r] = NoRow]
  /\ UNCHANGED <<frameFrame, pumpVars, pinned, device, stream, poisoned>>

-----------------------------------------------------------------------------
(* The pump.                                                               *)

pumpFrame == <<poolVars, registered, engine>>

PumpRecv ==
  /\ pump.pc = "recv" /\ channel # <<>>
  /\ pump' = [pc |-> "gather", batch |-> <<Head(channel)>>]
  /\ channel' = Tail(channel)
  /\ UNCHANGED <<pumpFrame, thread, poisoned, lease, batchVars, faults>>

Clamped(n) == IF n > MaxBatch THEN MaxBatch ELSE Larger(1, n)

PumpGather ==
  /\ pump.pc = "gather" /\ channel # <<>>
  /\ Len(pump.batch) < Clamped(Cardinality(registered))
  /\ pump' = [pump EXCEPT !.batch = Append(@, Head(channel))]
  /\ channel' = Tail(channel)
  /\ UNCHANGED <<pumpFrame, thread, poisoned, lease, batchVars, faults>>

Members == {pump.batch[i] : i \in 1 .. Len(pump.batch)}
MemberHandles == {Handle(r) : r \in Members}

\* run_batch answers every request of a failed batch with the error.
FailMembers(S) ==
  thread' = [r \in Requests |->
               IF r \in S THEN [thread[r] EXCEPT !.pc = "failed", !.recyclable = FALSE]
               ELSE thread[r]]

BatchOps == <<[op |-> "upload", rows |-> pump.batch], [op |-> "run", rows |-> pump.batch]>>

FillTables ==
  pinned' = [i \in 1 .. MaxBatch |->
               IF i <= Len(pump.batch) THEN Row(pump.batch[i]) ELSE pinned[i]]

Gathered_All == Len(pump.batch) >= Clamped(Cardinality(registered))

\* The batch is complete, or the gather window is over.
Gathered == pump.batch # <<>>

\* Every row is valid or
\* the call fails before it takes a lease.  The pinned tables are filled at
\* once; the uploads and kernels run when the stream gets to them.
PumpFire ==
  /\ pump.pc = "gather" /\ Gathered
  /\ \/ /\ MemberHandles \cap (poisoned \cup lease) = {} /\ NoFault
        /\ lease' = lease \cup MemberHandles
        /\ FillTables /\ stream' = stream \o BatchOps
        /\ thread' = [r \in Requests |->
                        IF r \in Members THEN [thread[r] EXCEPT !.pc = "leased"] ELSE thread[r]]
        /\ pump' = [pc |-> "recv", batch |-> <<>>]
        /\ UNCHANGED poisoned
     \/ /\ IF MemberHandles \cap (poisoned \cup lease) = {} THEN Fault ELSE NoFault
        /\ FailMembers(Members)
        /\ pump' = [pc |-> "recv", batch |-> <<>>]
        /\ UNCHANGED <<lease, pinned, stream, poisoned>>
     \/ /\ MemberHandles \cap (poisoned \cup lease) = {} /\ Fault
        /\ poisoned' = poisoned \cup MemberHandles
        /\ FillTables /\ stream' \in {stream, stream \o BatchOps}
        /\ pump' = [pump EXCEPT !.pc = "sync"]
        /\ UNCHANGED <<lease, thread>>
  /\ UNCHANGED <<pumpFrame, channel, device, ran>>

\* A call that fails after that waits for the batch stream.
PumpSync ==
  /\ pump.pc = "sync" /\ stream = <<>>
  /\ FailMembers(Members)
  /\ pump' = [pc |-> "recv", batch |-> <<>>]
  /\ UNCHANGED <<pumpFrame, channel, poisoned, lease, batchVars, faults>>

\* The sender is dropped with the model: recv fails once the channel is empty.
PumpExit ==
  /\ pump.pc = "recv" /\ channel = <<>>
  /\ ~engine /\ \A r \in Requests : At(r, "idle")
  /\ pump' = [pump EXCEPT !.pc = "closed"]
  /\ UNCHANGED <<poolVars, registered, engine, channel, thread, poisoned, lease, batchVars, faults>>

\* The batch stream: an upload copies the tables as they are by then.
Execute ==
  LET op == Head(stream) IN
  /\ stream # <<>>
  /\ stream' = Tail(stream)
  /\ IF op.op = "upload"
     THEN device' = pinned /\ UNCHANGED ran
     ELSE /\ ran' = [r \in Requests |->
               LET at == {i \in 1 .. Len(op.rows) : op.rows[i] = r}
               IN  IF at = {} THEN ran[r] ELSE device[CHOOSE i \in at : TRUE]]
          /\ UNCHANGED device
  /\ UNCHANGED <<poolVars, poisoned, lease, thread, registered, pumpVars, engine, pinned, faults>>

-----------------------------------------------------------------------------
(* The end of the model.                                                   *)

DropEngine ==
  /\ engine /\ engine' = FALSE
  /\ UNCHANGED <<poolVars, poisoned, lease, thread, registered, pumpVars, batchVars, faults>>

\* Drop of NativeTalkerModel, once the pump thread has been joined.
DrainPool ==
  /\ pump.pc = "closed" /\ pool # {}
  /\ pool' = {}
  /\ capacity' = [h \in Handles |-> IF h \in pool THEN 0 ELSE capacity[h]]
  /\ used' = used \ pool
  /\ UNCHANGED <<poisoned, lease, thread, registered, pumpVars, engine, batchVars, faults>>

Released ==
  /\ pump.pc = "closed" /\ pool = {} /\ ~engine /\ \A r \in Requests : At(r, "idle")
  /\ UNCHANGED vars

Session(r) ==
  \/ Take(r) \/ Reset(r) \/ Create(r) \/ Prefill(r) \/ Drop(r) \/ Recycle(r)
  \/ DestroySession(r) \/ BeginFirst(r) \/ Submit(r) \/ Finish(r)

Pump == PumpRecv \/ PumpGather \/ PumpFire \/ PumpSync \/ PumpExit

Next == (\E r \in Requests : Session(r)) \/ Pump \/ Execute \/ DropEngine \/ DrainPool
        \/ Released

\* The pump thread, the batch stream and the model's destructor run; so does a
\* thread inside a call, but nobody has to start or finish a request.
Fairness ==
  /\ WF_vars(Pump) /\ WF_vars(Execute) /\ WF_vars(DrainPool)
  /\ \A r \in Requests : WF_vars(Reset(r) \/ Create(r) \/ Prefill(r) \/ Recycle(r)
                                 \/ DestroySession(r) \/ Finish(r))

Spec == Init /\ [][Next]_vars /\ Fairness

-----------------------------------------------------------------------------
(* Properties.                                                             *)

\* A pump batch holds requests; every other variable is in its range.
TypeOK ==
  /\ pool \subseteq Handles /\ used \subseteq Handles
  /\ poisoned \subseteq Handles /\ lease \subseteq Handles
  /\ capacity \in [Handles -> Nat] /\ thread \in [Requests -> Threads]
  /\ registered \subseteq Requests /\ channel \in Seq(Requests)
  /\ pump \in Pumps
  /\ engine \in BOOLEAN /\ faults \in 0 .. MaxFaults
  /\ pinned \in [1 .. MaxBatch -> Rows] /\ device \in [1 .. MaxBatch -> Rows]
  /\ ran \in [Requests -> Rows]

Held == {Handle(r) : r \in Requests} \ {None}

\* A native session handle has one owner: one request or the pool
\* (swap_remove under the lock, the Drop of a session).
OneOwner ==
  /\ pool \cap Held = {}
  /\ \A r, q \in Requests : r # q /\ Handle(r) # None => Handle(r) # Handle(q)

\* No native session is lost: what is alive is pooled or owned, and the pool
\* and the requests bound the GPU memory in use (recycle_session).
NothingLeaked ==
  /\ {h \in Handles : capacity[h] > 0} = pool \cup Held
  /\ Cardinality(pool) <= MaxPooled

\* Whatever happened to the request before it, in whatever batch, a request
\* starts on a session that is large enough, holds no other request's state,
\* is not poisoned and has no frame lease.
StartsFresh ==
  \A r \in Requests : At(r, "prefill") =>
    /\ capacity[Handle(r)] >= Need[r]
    /\ Handle(r) \notin used \cup poisoned \cup lease

\* The safety argument of QueuedFrameRequest (a thread is parked while the
\* pump has its handle), and a batch that fits the native call: run_batch
\* would leave the requests beyond the limit unanswered.
PumpOwnsParked ==
  LET queued == pump.batch \o channel IN
  /\ {queued[i] : i \in 1 .. Len(queued)} = {r \in Requests : At(r, "parked")}
  /\ \A i, j \in 1 .. Len(queued) : i # j => queued[i] # queued[j]
  /\ Len(pump.batch) <= MaxBatch

\* "KV caches, sampling state, semantic histories ... remain session-local":
\* the kernels of a request's frame have run on its own session and frame.
RowsStayLocal ==
  \A r \in Requests : At(r, "leased") /\ Settled(r) => ran[r] = Row(r)

\* Every frame request that reaches the pump is answered, whether its batch
\* succeeds or fails and whoever else is in it.
EveryRequestAnswered == \A r \in Requests : At(r, "parked") ~> ~At(r, "parked")

\* After its last user the model stops its pump and destroys every session.
ModelReleased ==
  (~engine /\ \A r \in Requests : At(r, "idle")) ~>
    (pump.pc = "closed" /\ \A h \in Handles : capacity[h] = 0)

\* Every native session and every batch row has its owner, in every state.
SessionsAccounted == TypeOK /\ OneOwner /\ NothingLeaked /\ PumpOwnsParked

\* The pump keeps nobody waiting, and ends with the model.
PumpServesAndEnds == EveryRequestAnswered /\ ModelReleased
=============================================================================
