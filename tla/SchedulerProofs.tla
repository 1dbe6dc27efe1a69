-------------------------- MODULE SchedulerProofs --------------------------
(***************************************************************************)
(* Proofs about the scheduler for every number of requests, capacity, ring *)
(* size and channel bound.                                                 *)
(***************************************************************************)
EXTENDS Scheduler, FiniteSetTheorems, TLAPS

-----------------------------------------------------------------------------
(* The operators the actions are built from keep their types.              *)

\* Every marking of a request's state yields a request state.
LEMMA MarkTypes ==
  ASSUME NEW s \in RequestState, NEW e \in Failures
  PROVE  /\ MarkCancelled(s) \in RequestState
         /\ MarkFailed(s, e) \in RequestState
         /\ RequestCancel(s) \in RequestState
         /\ Len(s.packets) \in Nat
<1>1. <<>> \in Seq(Packet) /\ {"Cancelled", "Failed"} \subseteq Phases
  BY DEF Phases
<1>2. MarkCancelled(s) \in RequestState
  BY <1>1 DEF MarkCancelled, RequestState
<1>3. MarkFailed(s, e) \in RequestState
  BY <1>1 DEF MarkFailed, RequestState
<1>4. RequestCancel(s) \in RequestState
  BY <1>1 DEF RequestCancel, RequestState
<1>5. Len(s.packets) \in Nat
  BY DEF RequestState
<1>6. QED
  BY <1>2, <1>3, <1>4, <1>5

\* Every move of a request's phase alone, and its retirement, too.
LEMMA PhaseTypes ==
  ASSUME NEW s \in RequestState, NEW ph \in Phases
  PROVE  /\ [s EXCEPT !.phase = ph] \in RequestState
         /\ [s EXCEPT !.retired = TRUE] \in RequestState
  BY DEF RequestState

\* Queueing a packet and handing one out, too.
LEMMA PacketTypes ==
  ASSUME NEW s \in RequestState, NEW p \in Packet
  PROVE  /\ PushPacket(s, p) \in RequestState
         /\ s.packets # <<>> => PopPacket(s) \in RequestState
<1>1. {"Draining", "Completed"} \subseteq Phases
  BY DEF Phases
<1>2. p.reason \in {"None", "Stop"} /\ Append(s.packets, p) \in Seq(Packet)
  BY DEF Packet, RequestState
<1>3. PushPacket(s, p) \in RequestState
  BY <1>1, <1>2 DEF PushPacket, RequestState
<1>4. ASSUME s.packets # <<>>
      PROVE  PopPacket(s) \in RequestState
  <2>1. Head(s.packets) \in Packet /\ Tail(s.packets) \in Seq(Packet)
    BY <1>4 DEF RequestState
  <2>2. Head(s.packets).frames \in Nat
    BY <2>1 DEF Packet
  <2>3. DEFINE popped == [s EXCEPT !.packets = Tail(@),
                                  !.emitted = @ + Head(s.packets).frames]
  <2>4. popped \in RequestState
    <3>1. s.emitted + Head(s.packets).frames \in Nat
      BY <2>2 DEF RequestState
    <3>2. QED
      BY <2>1, <3>1 DEF RequestState
  <2>5. [popped EXCEPT !.phase = "Completed"] \in RequestState
    BY <1>1, <2>4, PhaseTypes
  <2>6. QED
    BY <2>4, <2>5 DEF PopPacket
<1>5. QED
  BY <1>3, <1>4

\* Lossy wakes keep the channel a bounded sequence of commands.
LEMMA WokenType ==
  ASSUME NEW q \in Seq(Command), Len(q) <= ChannelCap, NEW n \in Nat
  PROVE  Woken(q, n) \in Seq(Command) /\ Len(Woken(q, n)) <= ChannelCap
<1> DEFINE room == IF ReceiverGone THEN 0 ELSE ChannelCap - Len(q)
           k == IF n < room THEN n ELSE room
           wakes == [i \in 1 .. k |-> Wake]
<1>1. k \in Nat /\ Len(q) + k <= ChannelCap
  BY ConstantsAssumption
<1>2. wakes \in Seq(Command) /\ Len(wakes) = k
  BY <1>1 DEF Command
<1>3. Woken(q, n) = q \o wakes
  BY DEF Woken
<1>4. QED
  BY <1>1, <1>2, <1>3

\* A send into a channel with room keeps it bounded.
LEMMA SendType ==
  ASSUME NEW q \in Seq(Command), Len(q) < ChannelCap, NEW c \in Command
  PROVE  Append(q, c) \in Seq(Command) /\ Len(Append(q, c)) <= ChannelCap
  BY ConstantsAssumption

\* What is received is a command, and what stays behind a bounded channel.
LEMMA ReceiveType ==
  ASSUME NEW q \in Seq(Command), Len(q) <= ChannelCap, q # <<>>
  PROVE  /\ Head(q) \in Command
         /\ Head(q).kind \in {"start", "cancel"} => Head(q).id \in Requests
         /\ Tail(q) \in Seq(Command)
         /\ Len(Tail(q)) <= ChannelCap
<1>1. Head(q) \in Command /\ Tail(q) \in Seq(Command) /\ Len(Tail(q)) <= ChannelCap
  BY ConstantsAssumption
<1>2. ASSUME NEW m \in Command, m.kind \in {"start", "cancel"}
      PROVE  m.id \in Requests
  BY <1>2 DEF Command, IdCommand, Wake, Shutdown
<1>3. QED
  BY <1>1, <1>2
\* Moving the worker's program counter, alone or to retire a request.
LEMMA WorkerMoves ==
  ASSUME NEW w \in WorkerLocals, NEW r \in Requests, NEW pc \in WorkerPcs
  PROVE  /\ Retire(w, r, pc) => worker' \in WorkerLocals
         /\ worker \in WorkerLocals /\ GoTo(pc) => worker' \in WorkerLocals
<1>1. Retire(w, r, pc) => worker' \in WorkerLocals
  <2>1. "release" \in WorkerPcs /\ {r} \in SUBSET Requests
    BY DEF WorkerPcs
  <2>2. QED
    BY <2>1, ZenonT(60) DEF Retire, WorkerLocals
<1>2. worker \in WorkerLocals /\ GoTo(pc) => worker' \in WorkerLocals
  BY DEF GoTo, WorkerLocals
<1>3. QED
  BY <1>1, <1>2

\* Clearing a request's queue keeps the shared variables' types.
LEMMA ClearType ==
  ASSUME TypeOK, NEW r \in Requests, NEW s \in RequestState,
         NEW q \in Seq(Command), Len(q) <= ChannelCap, Clear(r, s, q)
  PROVE  /\ state' \in [Requests -> RequestState]
         /\ free' \in [Requests -> Nat]
         /\ commands' \in Seq(Command)
         /\ Len(commands') <= ChannelCap
<1>1. Len(state[r].packets) \in Nat
  BY DEF TypeOK, RequestState
<1>2. state' \in [Requests -> RequestState] /\ free' \in [Requests -> Nat]
  BY <1>1, SMTT(60) DEF TypeOK, Clear
<1>3. commands' \in Seq(Command) /\ Len(commands') <= ChannelCap
  BY <1>1, WokenType DEF Clear
<1>4. QED
  BY <1>2, <1>3

-----------------------------------------------------------------------------
(* Type correctness, one lemma per thread.                                 *)

\* A client's step keeps the types.
LEMMA ClientType ==
  ASSUME TypeOK, NEW r \in Requests, Client(r)
  PROVE  TypeOK'
<1> USE DEF TypeOK
<1>0. state[r] \in RequestState /\ "none" \in Failures
  BY DEF Failures
<1>1. CASE StartAcquire(r)
  BY <1>1 DEF StartAcquire
<1>2. CASE StartSend(r)
  <2>1. [kind |-> "start", id |-> r] \in Command
    BY DEF Command, IdCommand
  <2>2. commands' \in Seq(Command) /\ Len(commands') <= ChannelCap
    BY <1>2, <2>1, SendType DEF StartSend, HasRoom
  <2>3. QED
    BY <1>2, <2>2 DEF StartSend
<1>3. CASE PollPacket(r)
  <2>1. state[r].packets # <<>>
    BY <1>3, <1>0 DEF PollPacket, PollOutcome, Withdrawn
  <2>2. PopPacket(state[r]) \in RequestState
    <3>1. PICK p \in Packet : TRUE
      BY <2>1, <1>0 DEF RequestState
    <3>2. QED
      BY <2>1, <1>0, <3>1, PacketTypes
  <2>3. commands' \in Seq(Command) /\ Len(commands') <= ChannelCap
    BY <1>3, WokenType DEF PollPacket
  <2>4. QED
    BY <1>3, <2>2, <2>3 DEF PollPacket
<1>4. CASE PollEnd(r)
  <2>1. [state[r] EXCEPT !.phase = "Completed"] \in RequestState
    BY <1>0, PhaseTypes DEF Phases
  <2>2. QED
    BY <1>4, <2>1 DEF PollEnd, clientVars
<1>5. CASE DropPacket(r)
  <2>1. commands' \in Seq(Command) /\ Len(commands') <= ChannelCap
    BY <1>5, WokenType DEF DropPacket
  <2>2. free' \in [Requests -> Nat] /\ held' \in [Requests -> Nat]
    <3>1. held[r] - 1 \in Nat /\ free[r] + 1 \in Nat
      BY <1>5 DEF DropPacket
    <3>2. QED
      BY <1>5, <3>1 DEF DropPacket
  <2>3. QED
    BY <1>5, <2>1, <2>2 DEF DropPacket
<1>6. ASSUME NEW then \in {"cancelling", "dropping"}, NEW after \in {"open", "closed"},
             CancelMark(r, then, after)
      PROVE  TypeOK'
  <2>1. CASE cancelSent[r] \/ IsTerminal(state[r].phase)
    BY <1>6, <2>1 DEF CancelMark
  <2>2. CASE ~(cancelSent[r] \/ IsTerminal(state[r].phase))
    <3>1. RequestCancel(state[r]) \in RequestState
      BY <1>0, MarkTypes
    <3>2. /\ state' \in [Requests -> RequestState]
          /\ free' \in [Requests -> Nat]
          /\ commands' \in Seq(Command) /\ Len(commands') <= ChannelCap
      BY <1>6, <2>2, <3>1, ClearType DEF CancelMark
    <3>3. QED
      BY <1>6, <2>2, <3>2 DEF CancelMark
  <2>3. QED
    BY <2>1, <2>2
<1>7. CASE Cancel(r)
  BY <1>6, <1>7 DEF Cancel
<1>8. CASE DropHandle(r)
  BY <1>6, <1>8 DEF DropHandle
<1>9. CASE CancelSend(r)
  <2>1. [kind |-> "cancel", id |-> r] \in Command
    BY DEF Command, IdCommand
  <2>2. commands' \in Seq(Command) /\ Len(commands') <= ChannelCap
    <3>1. CASE ReceiverGone
      BY <1>9, <3>1 DEF CancelSend
    <3>2. CASE ~ReceiverGone
      BY <1>9, <2>1, <3>2, SendType DEF CancelSend, HasRoom
    <3>3. QED
      BY <3>1, <3>2
  <2>3. QED
    BY <1>9, <2>2 DEF CancelSend
<1>10. QED
  BY <1>1, <1>2, <1>3, <1>4, <1>5, <1>7, <1>8, <1>9 DEF Client

\* Dropping the scheduler keeps the types.
LEMMA OwnerType == TypeOK /\ Owner => TypeOK'
<1> SUFFICES ASSUME TypeOK, Owner PROVE TypeOK'
  OBVIOUS
<1> USE DEF TypeOK, ownerFrame, clientVars
<1>1. CASE StoreShutdown
  BY <1>1 DEF StoreShutdown
<1>2. CASE SendShutdown
  <2>1. Shutdown \in Command
    BY DEF Command
  <2>2. CASE HasRoom /\ ~ReceiverGone
    <3>1. commands' = Append(commands, Shutdown)
      BY <1>2, <2>2 DEF SendShutdown
    <3>2. commands' \in Seq(Command) /\ Len(commands') <= ChannelCap
      BY <2>1, <2>2, <3>1, SendType DEF HasRoom
    <3>3. QED
      BY <1>2, <3>2 DEF SendShutdown
  <2>3. CASE ~(HasRoom /\ ~ReceiverGone)
    BY <1>2, <2>3 DEF SendShutdown
  <2>4. QED
    BY <2>2, <2>3
<1>3. CASE JoinWorker
  BY <1>3 DEF JoinWorker
<1>4. QED
  BY <1>1, <1>2, <1>3 DEF Owner
\* Handling one command keeps the types.
LEMMA HandleCommandType ==
  ASSUME TypeOK, NEW next \in WorkerPcs, NEW stopped \in WorkerPcs,
         HandleCommand(next, stopped)
  PROVE  TypeOK'
<1> DEFINE m == Head(commands)
           rest == Tail(commands)
<1>1. /\ m \in Command /\ rest \in Seq(Command) /\ Len(rest) <= ChannelCap
      /\ m.kind \in {"start", "cancel"} => m.id \in Requests
  BY ReceiveType DEF TypeOK, HandleCommand
<1>2. worker \in WorkerLocals
  BY DEF TypeOK
<1> HIDE DEF m, rest
<1>3. UNCHANGED <<used, permit, clientVars, shutdown, owner, session, produced>>
  BY DEF HandleCommand
<1>4. ASSUME /\ state' \in [Requests -> RequestState]
             /\ free' \in [Requests -> Nat]
             /\ commands' \in Seq(Command) /\ Len(commands') <= ChannelCap
             /\ worker' \in WorkerLocals
      PROVE  TypeOK'
  BY <1>3, <1>4 DEF TypeOK, clientVars
<1>5. CASE /\ m.kind = "start"
           /\ worker' = [worker EXCEPT !.pc = next, !.pending = @ \cup {m.id}]
           /\ commands' = rest
           /\ UNCHANGED <<state, free>>
  <2>1. m.id \in Requests
    BY <1>1, <1>5
  <2>2. worker' \in WorkerLocals
    BY <1>2, <1>5, <2>1 DEF WorkerLocals
  <2>3. QED
    BY <1>1, <1>4, <1>5, <2>2 DEF TypeOK
<1>6. CASE /\ m.kind = "cancel" /\ m.id \in worker.pending
           /\ Clear(m.id, MarkCancelled(state[m.id]), rest)
           /\ Retire(WithoutPending(m.id), m.id, next)
  <2>1. m.id \in Requests /\ state[m.id] \in RequestState
    BY <1>1, <1>6 DEF TypeOK
  <2>2. MarkCancelled(state[m.id]) \in RequestState
    BY <2>1, MarkTypes DEF Failures
  <2>3. WithoutPending(m.id) \in WorkerLocals
    BY <1>2 DEF WithoutPending, WorkerLocals
  <2>4. worker' \in WorkerLocals
    BY <1>6, <2>1, <2>3, WorkerMoves
  <2>5. QED
    BY <1>1, <1>4, <1>6, <2>1, <2>2, <2>4, ClearType
<1>7. CASE /\ m.kind = "cancel" /\ m.id \in worker.active \ worker.pending
           /\ Clear(m.id, MarkCancelled(state[m.id]), rest)
           /\ GoTo(next)
  <2>1. m.id \in Requests /\ state[m.id] \in RequestState
    BY <1>1, <1>7 DEF TypeOK
  <2>2. MarkCancelled(state[m.id]) \in RequestState
    BY <2>1, MarkTypes DEF Failures
  <2>3. worker' \in WorkerLocals
    BY <1>2, <1>7, <2>1, WorkerMoves
  <2>4. QED
    BY <1>1, <1>4, <1>7, <2>1, <2>2, <2>3, ClearType
<1>8. CASE GoTo(next) /\ commands' = rest /\ UNCHANGED <<state, free>>
  <2>1. worker' \in WorkerLocals
    BY <1>2, <1>8 DEF GoTo, WorkerLocals
  <2>2. QED
    BY <1>1, <1>4, <1>8, <2>1 DEF TypeOK
<1>9. CASE /\ worker' = [worker EXCEPT !.pc = stopped, !.stop = TRUE]
           /\ commands' = rest
           /\ UNCHANGED <<state, free>>
  <2>1. worker' \in WorkerLocals
    BY <1>2, <1>9 DEF WorkerLocals
  <2>2. QED
    BY <1>1, <1>4, <1>9, <2>1 DEF TypeOK
<1>10. QED
  BY <1>5, <1>6, <1>7, <1>8, <1>9 DEF HandleCommand, m, rest

\* A step that only moves the worker's locals keeps the types.
LEMMA LocalStepType ==
  ASSUME TypeOK, worker' \in WorkerLocals, UNCHANGED workerFrame
  PROVE  TypeOK'
  BY DEF TypeOK, workerFrame, clientVars

\* A worker step that only receives, or only moves its locals.
LEMMA LoopType ==
  ASSUME TypeOK,
         \/ Top \/ Recv \/ Drain \/ Coalesce \/ Check \/ Idle
         \/ PrefillDone \/ SweepDone \/ ScanDone \/ StepBatch \/ StepDone
         \/ ReapDone \/ ExitEmpty
  PROVE  TypeOK'
<1>0. /\ worker \in WorkerLocals
      /\ {"top", "recv", "drain", "coalesce", "check", "filter", "sweep", "scan",
          "idle", "take", "step", "reap", "exit", "closing"} \subseteq WorkerPcs
  BY DEF TypeOK, WorkerPcs
<1>1. ASSUME NEW pc \in WorkerPcs, GoTo(pc), UNCHANGED workerFrame
      PROVE  TypeOK'
  <2>1. worker' \in WorkerLocals
    BY <1>0, <1>1 DEF GoTo, WorkerLocals
  <2>2. QED
    BY <1>1, <2>1, LocalStepType
<1>2. CASE Top
  BY <1>0, <1>1, <1>2 DEF Top
<1>3. CASE Recv
  BY <1>0, <1>3, HandleCommandType DEF Recv
<1>4. CASE Drain
  BY <1>0, <1>1, <1>4, HandleCommandType DEF Drain
<1>5. CASE Coalesce
  BY <1>0, <1>1, <1>5, HandleCommandType DEF Coalesce
<1>6. CASE Check
  BY <1>0, <1>1, <1>6 DEF Check
<1>7. CASE Idle
  BY <1>0, <1>1, <1>7, HandleCommandType DEF Idle
<1>8. CASE PrefillDone \/ SweepDone \/ ScanDone \/ StepDone
  <2>1. worker.active \in SUBSET Requests /\ worker.batch \in SUBSET Requests
        /\ {} \in SUBSET Requests
    BY <1>0 DEF WorkerLocals
  <2>2. worker' \in WorkerLocals
    <3>1. CASE PrefillDone
      BY <1>0, <2>1, <3>1 DEF PrefillDone, WorkerLocals
    <3>2. CASE SweepDone
      BY <1>0, <2>1, <3>2 DEF SweepDone, WorkerLocals
    <3>3. CASE ScanDone
      BY <1>0, <2>1, <3>3 DEF ScanDone, WorkerLocals
    <3>4. CASE StepDone
      BY <1>0, <2>1, <3>4 DEF StepDone, WorkerLocals
    <3>5. QED
      BY <1>8, <3>1, <3>2, <3>3, <3>4
  <2>3. QED
    BY <1>8, <2>2, LocalStepType DEF PrefillDone, SweepDone, ScanDone, StepDone
<1>9. CASE StepBatch \/ ReapDone \/ ExitEmpty
  BY <1>0, <1>1, <1>9 DEF StepBatch, ReapDone, ExitEmpty
<1>10. QED
  BY <1>2, <1>3, <1>4, <1>5, <1>6, <1>7, <1>8, <1>9
\* A worker step that clears a request's queue, as every removal does.
LEMMA ClearStepType ==
  ASSUME TypeOK, NEW r \in Requests, NEW s \in RequestState,
         Clear(r, s, commands), worker' \in WorkerLocals,
         session' \in [Requests -> {"none", "open", "cancelled", "dropped"}],
         UNCHANGED closeFrame
  PROVE  TypeOK'
<1>1. /\ state' \in [Requests -> RequestState]
      /\ free' \in [Requests -> Nat]
      /\ commands' \in Seq(Command) /\ Len(commands') <= ChannelCap
  BY ClearType DEF TypeOK
<1>2. QED
  BY <1>1 DEF TypeOK, closeFrame, clientVars

\* What the worker does to one request keeps the types: prefill.
LEMMA PrefillType ==
  ASSUME TypeOK, NEW r \in Requests,
         FilterPending(r) \/ PrefillOk(r) \/ PrefillErr(r)
  PROVE  TypeOK'
<1>0. /\ worker \in WorkerLocals /\ state[r] \in RequestState
      /\ {"filter", "prefill", "top"} \subseteq WorkerPcs
      /\ "backend" \in Failures /\ "Generating" \in Phases
  BY DEF TypeOK, WorkerPcs, Failures, Phases
<1>1. /\ MarkCancelled(state[r]) \in RequestState
      /\ MarkFailed(state[r], "backend") \in RequestState
      /\ [state[r] EXCEPT !.phase = "Generating"] \in RequestState
  BY <1>0, MarkTypes, PhaseTypes
<1>2. /\ WithoutPending(r) \in WorkerLocals
      /\ [WithoutPending(r) EXCEPT !.ready = @ \cup {r}] \in WorkerLocals
      /\ [worker EXCEPT !.ready = @ \ {r}] \in WorkerLocals
      /\ [worker EXCEPT !.ready = @ \ {r}, !.active = @ \cup {r}] \in WorkerLocals
  BY <1>0 DEF WithoutPending, WorkerLocals
<1>3. CASE FilterPending(r)
  <2>1. CASE state[r].cancel_requested
    <3>1. worker' \in WorkerLocals
      BY <1>0, <1>2, <1>3, <2>1, WorkerMoves DEF FilterPending
    <3>2. QED
      BY <1>1, <1>3, <2>1, <3>1, ClearStepType
      DEF FilterPending, stateFrame, closeFrame, TypeOK
  <2>2. CASE ~state[r].cancel_requested
    BY <1>2, <1>3, <2>2, LocalStepType DEF FilterPending, stateFrame, workerFrame
  <2>3. QED
    BY <2>1, <2>2
<1>4. CASE PrefillOk(r)
  BY <1>1, <1>2, <1>4 DEF PrefillOk, TypeOK, clientVars
<1>5. CASE PrefillErr(r)
  <2>1. worker' \in WorkerLocals
    BY <1>0, <1>2, <1>5, WorkerMoves DEF PrefillErr
  <2>2. QED
    BY <1>1, <1>5, <2>1, ClearStepType
    DEF PrefillErr, stateFrame, closeFrame, TypeOK
<1>6. QED
  BY <1>3, <1>4, <1>5

\* The sweep of cancelled requests, the scan, and the clean-up.
LEMMA SweepType ==
  ASSUME TypeOK, NEW r \in Requests,
         Sweep(r) \/ ScanState(r) \/ ScanFree(r) \/ ExitActive(r) \/ ExitPending(r)
  PROVE  TypeOK'
<1>0. /\ worker \in WorkerLocals /\ state[r] \in RequestState
      /\ {"sweep", "scan", "scanFree", "exit"} \subseteq WorkerPcs
  BY DEF TypeOK, WorkerPcs
<1>1. MarkCancelled(state[r]) \in RequestState
  BY <1>0, MarkTypes DEF Failures
<1>2. ASSUME NEW w \in WorkerLocals, NEW ret \in WorkerPcs,
             CancelActive(w, r, ret), UNCHANGED closeFrame
      PROVE  TypeOK'
  <2>1. [w EXCEPT !.active = @ \ {r}] \in WorkerLocals
    BY DEF WorkerLocals
  <2>2. worker' \in WorkerLocals
    BY <1>2, <2>1, WorkerMoves DEF CancelActive
  <2>3. QED
    BY <1>1, <1>2, <2>2, ClearStepType DEF CancelActive, TypeOK
<1>3. [worker EXCEPT !.todo = @ \ {r}] \in WorkerLocals
  BY <1>0 DEF WorkerLocals
<1>4. CASE Sweep(r)
  <2>1. CASE state[r].cancel_requested
    BY <1>0, <1>2, <1>3, <1>4, <2>1 DEF Sweep
  <2>2. CASE ~state[r].cancel_requested
    BY <1>3, <1>4, <2>2, LocalStepType DEF Sweep, closeFrame, workerFrame
  <2>3. QED
    BY <2>1, <2>2
<1>5. CASE ScanState(r)
  <2>1. [worker EXCEPT !.pc = "scanFree", !.cur = {r}] \in WorkerLocals
    BY <1>0 DEF WorkerLocals
  <2>2. QED
    BY <1>3, <1>5, <2>1, LocalStepType DEF ScanState
<1>6. CASE ScanFree(r)
  <2>1. worker' \in WorkerLocals
    BY <1>0, <1>6 DEF ScanFree, WorkerLocals
  <2>2. QED
    BY <1>6, <2>1, LocalStepType DEF ScanFree
<1>7. CASE ExitActive(r)
  BY <1>0, <1>2, <1>7 DEF ExitActive
<1>8. CASE ExitPending(r)
  <2>1. WithoutPending(r) \in WorkerLocals
    BY <1>0 DEF WithoutPending, WorkerLocals
  <2>2. worker' \in WorkerLocals
    BY <1>0, <1>8, <2>1, WorkerMoves DEF ExitPending
  <2>3. QED
    BY <1>1, <1>8, <2>2, ClearStepType DEF ExitPending, stateFrame, closeFrame, TypeOK
<1>9. QED
  BY <1>4, <1>5, <1>6, <1>7, <1>8
\* A buffer given back together with the packets that leave a queue.
LEMMA RecycleType ==
  ASSUME TypeOK, NEW r \in Requests, NEW s \in RequestState, NEW n \in Nat,
         Recycle(r, s, n)
  PROVE  /\ state' \in [Requests -> RequestState]
         /\ free' \in [Requests -> Nat]
         /\ commands' \in Seq(Command) /\ Len(commands') <= ChannelCap
<1>1. state' \in [Requests -> RequestState] /\ free' \in [Requests -> Nat]
  BY DEF TypeOK, Recycle
<1>2. commands' \in Seq(Command) /\ Len(commands') <= ChannelCap
  <2>1. 1 + n \in Nat
    OBVIOUS
  <2>2. commands' = Woken(commands, 1 + n)
    BY DEF Recycle
  <2>3. QED
    BY <2>1, <2>2, WokenType DEF TypeOK
<1>3. QED
  BY <1>1, <1>2

\* What the worker does to one request keeps the types: the backend step.
LEMMA StepType ==
  ASSUME TypeOK, NEW r \in Requests, TakePcm(r) \/ StepErr(r) \/ StepPacket(r)
  PROVE  TypeOK'
<1>0. /\ worker \in WorkerLocals /\ state[r] \in RequestState
      /\ {"backend", "pool", "overflow"} \subseteq Failures
      /\ produced[r] \in Nat
      /\ 0 \in Nat
  BY DEF TypeOK, Failures
<1>1. /\ \A e \in Failures : MarkFailed(state[r], e) \in RequestState
      /\ Len(state[r].packets) \in Nat
  BY <1>0, MarkTypes
<1>2. /\ [worker EXCEPT !.todo = @ \ {r}] \in WorkerLocals
      /\ [worker EXCEPT !.todo = @ \ {r}, !.batch = @ \cup {r}] \in WorkerLocals
      /\ [worker EXCEPT !.batch = @ \ {r}] \in WorkerLocals
  BY <1>0 DEF WorkerLocals
<1>3. CASE TakePcm(r)
  <2>1. CASE free[r] > 0
    <3>0. free \in [Requests -> Nat] /\ free[r] - 1 \in Nat
      BY <2>1 DEF TypeOK
    <3>1. free' \in [Requests -> Nat]
      <4>1. free' = [free EXCEPT ![r] = free[r] - 1]
        BY <1>3, <2>1 DEF TakePcm
      <4>2. QED
        BY <3>0, <4>1
    <3>2. worker' \in WorkerLocals
      BY <1>2, <1>3, <2>1 DEF TakePcm
    <3>3. QED
      BY <1>3, <2>1, <3>1, <3>2 DEF TakePcm, stateFrame, clientVars, TypeOK
  <2>2. CASE ~(free[r] > 0)
    <3>1. worker' \in WorkerLocals
      BY <1>2, <1>3, <2>2 DEF TakePcm
    <3>2. Clear(r, MarkFailed(state[r], "pool"), commands)
      BY <1>3, <2>2 DEF TakePcm
    <3>3. QED
      BY <1>0, <1>1, <1>3, <3>1, <3>2, ClearStepType
      DEF TakePcm, stateFrame, closeFrame, TypeOK
  <2>3. QED
    BY <2>1, <2>2
<1>4. CASE StepErr(r)
  <2>1. Recycle(r, MarkFailed(state[r], "backend"), Len(state[r].packets))
    BY <1>4 DEF StepErr
  <2>2. /\ state' \in [Requests -> RequestState]
        /\ free' \in [Requests -> Nat]
        /\ commands' \in Seq(Command) /\ Len(commands') <= ChannelCap
    BY <1>0, <1>1, <2>1, RecycleType
  <2>3. worker' \in WorkerLocals
    BY <1>2, <1>4 DEF StepErr
  <2>4. QED
    BY <1>4, <2>2, <2>3 DEF StepErr, stateFrame, clientVars, TypeOK
<1>5. CASE StepPacket(r)
  <2>0. PICK b \in BackendPacket :
          /\ produced' = [produced EXCEPT ![r] = @ + b.frames]
          /\ LET s == state[r]
                 p == [first |-> produced[r], frames |-> b.frames,
                       final |-> b.final, reason |-> b.reason]
             IN  IF AcceptsPacket(s)
                 THEN /\ state' = [state EXCEPT ![r] = PushPacket(s, p)]
                      /\ UNCHANGED <<free, commands>>
                 ELSE IF s.cancel_requested THEN Recycle(r, s, 0)
                 ELSE Recycle(r, MarkFailed(s, "overflow"), Len(s.packets))
    BY <1>5 DEF StepPacket
  <2> DEFINE s == state[r]
             p == [first |-> produced[r], frames |-> b.frames,
                   final |-> b.final, reason |-> b.reason]
  <2>1. b.frames \in Nat /\ b.final \in BOOLEAN /\ b.reason \in {"None", "Stop"}
    BY ConstantsAssumption DEF BackendPacket
  <2>2. p \in Packet
    BY <1>0, <2>1 DEF Packet
  <2>3. produced' \in [Requests -> Nat]
    BY <1>0, <2>0, <2>1 DEF TypeOK
  <2>4. /\ state' \in [Requests -> RequestState]
        /\ free' \in [Requests -> Nat]
        /\ commands' \in Seq(Command) /\ Len(commands') <= ChannelCap
    <3>1. CASE AcceptsPacket(s)
      <4>1. state' = [state EXCEPT ![r] = PushPacket(s, p)] /\ UNCHANGED <<free, commands>>
        BY <2>0, <3>1
      <4>2. PushPacket(s, p) \in RequestState
        BY <1>0, <2>2, PacketTypes
      <4>3. QED
        BY <4>1, <4>2 DEF TypeOK
    <3>2. CASE ~AcceptsPacket(s) /\ s.cancel_requested
      <4>1. Recycle(r, s, 0)
        BY <2>0, <3>2
      <4>2. QED
        BY <1>0, <4>1, RecycleType
    <3>3. CASE ~AcceptsPacket(s) /\ ~s.cancel_requested
      <4>1. Recycle(r, MarkFailed(s, "overflow"), Len(s.packets))
        BY <2>0, <3>3
      <4>2. QED
        BY <1>0, <1>1, <4>1, RecycleType
    <3>4. QED
      BY <3>1, <3>2, <3>3
  <2>5. worker' \in WorkerLocals
    BY <1>2, <1>5 DEF StepPacket
  <2>6. QED
    BY <1>5, <2>3, <2>4, <2>5 DEF StepPacket, clientVars, TypeOK
<1>6. QED
  BY <1>3, <1>4, <1>5

\* Reaping, dropping and retiring a request keep the types.
LEMMA RetireType ==
  ASSUME TypeOK, NEW r \in Requests, Reap(r) \/ Release(r) \/ MarkRetired(r)
  PROVE  TypeOK'
<1>0. /\ worker \in WorkerLocals /\ state[r] \in RequestState
      /\ {"reap", "retire", worker.ret} \subseteq WorkerPcs
  BY DEF TypeOK, WorkerPcs, WorkerLocals
<1>1. CASE Reap(r)
  <2>1. /\ [worker EXCEPT !.todo = @ \ {r}] \in WorkerLocals
        /\ [[worker EXCEPT !.todo = @ \ {r}] EXCEPT !.active = @ \ {r}] \in WorkerLocals
    BY <1>0 DEF WorkerLocals
  <2>2. worker' \in WorkerLocals
    BY <1>0, <1>1, <2>1, WorkerMoves DEF Reap
  <2>3. session' \in [Requests -> {"none", "open", "cancelled", "dropped"}]
    BY <1>1 DEF Reap, TypeOK
  <2>4. QED
    BY <1>1, <2>2, <2>3 DEF Reap, closeFrame, clientVars, TypeOK
<1>2. CASE Release(r)
  <2>1. used' \in Nat
    BY <1>2 DEF Release, ReleasedSlots, TypeOK
  <2>2. worker' \in WorkerLocals
    BY <1>0, <1>2, WorkerMoves DEF Release
  <2>3. session' \in [Requests -> {"none", "open", "cancelled", "dropped"}]
    BY <1>2 DEF Release, TypeOK
  <2>4. QED
    BY <1>2, <2>1, <2>2, <2>3 DEF Release, clientVars, TypeOK
<1>3. CASE MarkRetired(r)
  <2>1. [state[r] EXCEPT !.retired = TRUE] \in RequestState
    BY <1>0, PhaseTypes DEF RequestState
  <2>2. worker' \in WorkerLocals
    BY <1>0, <1>3 DEF MarkRetired, WorkerLocals
  <2>3. QED
    BY <1>3, <2>1, <2>2 DEF MarkRetired, stateFrame, clientVars, TypeOK
<1>4. QED
  BY <1>1, <1>2, <1>3

\* The worker's remaining steps keep the types.
LEMMA WorkerRestType ==
  ASSUME TypeOK, BeginPrefill \/ ExitDrain \/ DropReceiver
  PROVE  TypeOK'
<1>0. /\ worker \in WorkerLocals /\ state \in [Requests -> RequestState]
      /\ {"prefill", "exit", "done"} \subseteq WorkerPcs
      /\ "Prefilling" \in Phases
  BY DEF TypeOK, WorkerPcs, Phases
<1>1. CASE BeginPrefill
  <2>1. \A r \in Requests : [state[r] EXCEPT !.phase = "Prefilling"] \in RequestState
    BY <1>0, PhaseTypes
  <2>2. state' \in [Requests -> RequestState]
    BY <1>0, <1>1, <2>1 DEF BeginPrefill
  <2>3. worker' \in WorkerLocals
    BY <1>0, <1>1 DEF BeginPrefill, GoTo, WorkerLocals
  <2>4. QED
    BY <1>1, <2>2, <2>3 DEF BeginPrefill, stateFrame, clientVars, TypeOK
<1>2. CASE ExitDrain
  <2> DEFINE m == Head(commands)
  <2>1. /\ Tail(commands) \in Seq(Command) /\ Len(Tail(commands)) <= ChannelCap
        /\ m.kind \in {"start", "cancel"} => m.id \in Requests
    BY <1>2, ReceiveType DEF TypeOK, ExitDrain
  <2> HIDE DEF m
  <2>2. CASE m.kind = "start"
    <3>1. /\ Clear(m.id, MarkCancelled(state[m.id]), Tail(commands))
          /\ Retire(worker, m.id, "exit")
      BY <1>2, <2>2 DEF ExitDrain, m
    <3>2. m.id \in Requests /\ state[m.id] \in RequestState
      BY <1>0, <2>1, <2>2
    <3>3. MarkCancelled(state[m.id]) \in RequestState
      BY <3>2, MarkTypes DEF Failures
    <3>4. /\ state' \in [Requests -> RequestState]
          /\ free' \in [Requests -> Nat]
          /\ commands' \in Seq(Command) /\ Len(commands') <= ChannelCap
      BY <2>1, <3>1, <3>2, <3>3, ClearType
    <3>5. worker' \in WorkerLocals
      BY <1>0, <3>1, <3>2, WorkerMoves
    <3>6. QED
      BY <1>2, <3>4, <3>5 DEF ExitDrain, stateFrame, clientVars, TypeOK
  <2>3. CASE m.kind # "start"
    <3>1. commands' = Tail(commands) /\ UNCHANGED <<state, free, worker>>
      BY <1>2, <2>3 DEF ExitDrain, m
    <3>2. QED
      BY <1>2, <2>1, <3>1 DEF ExitDrain, stateFrame, clientVars, TypeOK
  <2>4. QED
    BY <2>2, <2>3
<1>3. CASE DropReceiver
  <2>1. worker' \in WorkerLocals
    BY <1>0, <1>3 DEF DropReceiver, GoTo, WorkerLocals
  <2>2. commands' \in Seq(Command) /\ Len(commands') <= ChannelCap
    BY <1>3, ConstantsAssumption DEF DropReceiver
  <2>3. QED
    BY <1>3, <2>1, <2>2 DEF DropReceiver, clientVars, TypeOK
<1>4. QED
  BY <1>1, <1>2, <1>3

-----------------------------------------------------------------------------
\* The scheduler starts well-typed.
LEMMA InitType == Init => TypeOK
<1> SUFFICES ASSUME Init PROVE TypeOK
  OBVIOUS
<1>1. NewState \in RequestState
  BY DEF NewState, RequestState, Phases, Failures
<1>2. worker \in WorkerLocals
  BY DEF Init, WorkerLocals, WorkerPcs
<1>3. commands \in Seq(Command) /\ Len(commands) <= ChannelCap
  BY ConstantsAssumption DEF Init
<1>4. QED
  BY <1>1, <1>2, <1>3, ConstantsAssumption DEF Init, TypeOK

\* Every step of any thread keeps the types.
LEMMA NextType == TypeOK /\ [Next]_vars => TypeOK'
<1> SUFFICES ASSUME TypeOK, [Next]_vars PROVE TypeOK'
  OBVIOUS
<1>1. CASE Worker
  <2>1. ASSUME NEW r \in Requests, WorkerOn(r)
        PROVE  TypeOK'
    BY <2>1, PrefillType, SweepType, StepType, RetireType DEF WorkerOn
  <2>2. QED
    BY <1>1, <2>1, LoopType, WorkerRestType DEF Worker
<1>2. CASE Owner
  BY <1>2, OwnerType
<1>3. CASE \E r \in Requests : Client(r)
  BY <1>3, ClientType
<1>4. CASE Finished \/ UNCHANGED vars
  BY <1>4 DEF Finished, vars, clientVars, TypeOK
<1>5. QED
  BY <1>1, <1>2, <1>3, <1>4 DEF Next

\* Type correctness of the scheduler (the fields of scheduler.rs and the
\* bound of its sync_channel), for any number of requests and any bounds.
THEOREM TypeCorrect == Spec => []TypeOK
<1>1. Init => TypeOK
  BY InitType
<1>2. TypeOK /\ [Next]_vars => TypeOK'
  BY NextType
<1>3. QED
  BY <1>1, <1>2, PTL DEF Spec
-----------------------------------------------------------------------------
(* The inductive invariant of slot accounting, in layers.                  *)

\* Once the worker may exit, the scheduler is being dropped and no thread is
\* inside start; what is left in the channel when the receiver goes is not a
\* request.
Leaving(w) ==
  \/ w.stop
  \/ w.pc \in {"exit", "closing", "done"}
  \/ w.pc \in {"release", "retire"} /\ w.ret = "exit"

ShutdownQueued(q) == \E i \in DOMAIN q : q[i].kind = "shutdown"

QuitInv ==
  /\ worker.ret \notin {"closing", "done"}
  /\ shutdown => owner # "live"
  /\ Leaving(worker) => owner # "live"
  /\ ShutdownQueued(commands) => owner # "live"
  /\ owner # "live" => Starting = {}
  /\ worker.pc = "closing" => QueuedStarts(commands) = {}

\* remove_cancelled and remove_finished walk requests that are still active.
Walking(w, p) == w.pc = p \/ (w.pc \in {"release", "retire"} /\ w.ret = p)
WalkInv == (Walking(worker, "sweep") \/ Walking(worker, "reap")) =>
             worker.todo \subseteq worker.active

\* The sets a permit can be in.
Owned(P, S, Q, N, R, A, D) ==
  /\ P = S \cup Q \cup N \cup R \cup A \cup D
  /\ S \cap Q = {} /\ S \cap N = {} /\ S \cap R = {} /\ S \cap A = {} /\ S \cap D = {}
  /\ Q \cap N = {} /\ Q \cap R = {} /\ Q \cap A = {} /\ Q \cap D = {}
  /\ N \cap R = {} /\ N \cap A = {} /\ N \cap D = {}
  /\ R \cap A = {} /\ R \cap D = {}
  /\ A \cap D = {}

Ownership ==
  Owned(Holders, Starting, QueuedStarts(commands), worker.pending, worker.ready,
        worker.active, Dropping)

\* A request is started once: one Start for it, and no permit before.
UniqueStarts(q) ==
  \A i, j \in DOMAIN q :
    q[i].kind = "start" /\ q[j].kind = "start" /\ q[i].id = q[j].id => i = j

OwnerInv ==
  /\ Ownership
  /\ UniqueStarts(commands)
  /\ \A r \in Requests : handle[r] = "new" => ~permit[r]
  /\ \A r, x \in Dropping : r = x

SlotInv == TypeOK /\ QuitInv /\ WalkInv /\ OwnerInv /\ SlotAccounting
-----------------------------------------------------------------------------
(* Requests in the channel.                                                *)

\* Lossy wakes neither add nor reorder any other command.
LEMMA WokenCommands ==
  ASSUME NEW q \in Seq(Command), Len(q) <= ChannelCap, NEW n \in Nat
  PROVE  \A i \in DOMAIN Woken(q, n) :
           \/ i \in DOMAIN q /\ Woken(q, n)[i] = q[i]
           \/ i \notin DOMAIN q /\ Woken(q, n)[i] = Wake
<1> DEFINE room == IF ReceiverGone THEN 0 ELSE ChannelCap - Len(q)
           k == IF n < room THEN n ELSE room
           wakes == [i \in 1 .. k |-> Wake]
<1>1. k \in Nat
  BY ConstantsAssumption
<1>2. wakes \in Seq(Command) /\ Len(wakes) = k /\ DOMAIN wakes = 1 .. k
  BY <1>1 DEF Command
<1>3. Woken(q, n) = q \o wakes
  BY DEF Woken
<1>4. \A i \in 1 .. k : wakes[i] = Wake
  OBVIOUS
<1> HIDE DEF wakes, k
<1>5. /\ DOMAIN (q \o wakes) = 1 .. (Len(q) + k)
      /\ DOMAIN q = 1 .. Len(q) /\ Len(q) \in Nat
      /\ \A i \in 1 .. (Len(q) + k) :
           (q \o wakes)[i] = IF i <= Len(q) THEN q[i] ELSE wakes[i - Len(q)]
  BY <1>1, <1>2
<1>6. ASSUME NEW i \in 1 .. (Len(q) + k), i \notin 1 .. Len(q)
      PROVE  i - Len(q) \in 1 .. k
  BY <1>1, <1>5, <1>6
<1>7. QED
  BY <1>1, <1>3, <1>4, <1>5, <1>6

\* So the queued starts stay the same.
LEMMA WokenStarts ==
  ASSUME NEW q \in Seq(Command), Len(q) <= ChannelCap, NEW n \in Nat
  PROVE  /\ QueuedStarts(Woken(q, n)) = QueuedStarts(q)
         /\ UniqueStarts(q) => UniqueStarts(Woken(q, n))
         /\ ShutdownQueued(Woken(q, n))
              => ShutdownQueued(q)
<1> DEFINE z == Woken(q, n)
<1>1. \A i \in DOMAIN z : \/ i \in DOMAIN q /\ z[i] = q[i]
                          \/ i \notin DOMAIN q /\ z[i] = Wake
  BY WokenCommands
<1>2. \A i \in DOMAIN q : i \in DOMAIN z
  <2>1. z \in Seq(Command) /\ Len(q) <= Len(z)
    <3> DEFINE room == IF ReceiverGone THEN 0 ELSE ChannelCap - Len(q)
               k == IF n < room THEN n ELSE room
               wakes == [i \in 1 .. k |-> Wake]
    <3>1. k \in Nat
      BY ConstantsAssumption
    <3>2. wakes \in Seq(Command) /\ Len(wakes) = k
      BY <3>1 DEF Command
    <3>3. z = q \o wakes
      BY DEF Woken
    <3>4. QED
      BY <3>1, <3>2, <3>3
  <2>2. QED
    BY <2>1
<1>3. Wake.kind = "wake"
  BY DEF Wake
<1> HIDE DEF z
<1>4. QueuedStarts(z) = QueuedStarts(q)
  BY <1>1, <1>2, <1>3 DEF QueuedStarts
<1>5. UniqueStarts(q) => UniqueStarts(z)
  BY <1>1, <1>3 DEF UniqueStarts
<1>6. ShutdownQueued(z)
        => ShutdownQueued(q)
  BY <1>1, <1>3 DEF ShutdownQueued
<1>7. QED
  BY <1>4, <1>5, <1>6 DEF z

\* A send adds its own command and nothing else.
LEMMA SendStarts ==
  ASSUME NEW q \in Seq(Command), NEW c \in Command
  PROVE  LET z == Append(q, c)
         IN  /\ QueuedStarts(z) =
                  IF c.kind = "start" THEN QueuedStarts(q) \cup {c.id}
                  ELSE QueuedStarts(q)
             /\ UniqueStarts(q) /\ (c.kind = "start" => c.id \notin QueuedStarts(q))
                  => UniqueStarts(z)
             /\ ShutdownQueued(z)
                  => ShutdownQueued(q) \/ c.kind = "shutdown"
<1> DEFINE z == Append(q, c)
<1>1. /\ DOMAIN z = 1 .. (Len(q) + 1) /\ DOMAIN q = 1 .. Len(q) /\ Len(q) \in Nat
      /\ \A i \in 1 .. Len(q) : z[i] = q[i]
      /\ z[Len(q) + 1] = c
  OBVIOUS
<1>2. c.kind = "start" => c.id \in Requests
  BY DEF Command, IdCommand, Wake, Shutdown
<1> HIDE DEF z
<1>3. \A i \in DOMAIN z : i \in DOMAIN q \/ i = Len(q) + 1
  BY <1>1
<1>4. QueuedStarts(z) = IF c.kind = "start" THEN QueuedStarts(q) \cup {c.id}
                        ELSE QueuedStarts(q)
  BY <1>1, <1>2, <1>3 DEF QueuedStarts
<1>5. ASSUME UniqueStarts(q), c.kind = "start" => c.id \notin QueuedStarts(q)
      PROVE  UniqueStarts(z)
  <2>1. \A i \in DOMAIN q : q[i].kind = "start" /\ c.kind = "start" => q[i].id # c.id
    BY <1>2, <1>5 DEF QueuedStarts
  <2>2. QED
    BY <1>1, <1>3, <1>5, <2>1 DEF UniqueStarts
<1>6. ShutdownQueued(z)
        => ShutdownQueued(q) \/ c.kind = "shutdown"
  BY <1>1, <1>3 DEF ShutdownQueued
<1>7. QED
  BY <1>4, <1>5, <1>6 DEF z

\* Receiving a command removes it and nothing else.
LEMMA ReceiveStarts ==
  ASSUME NEW q \in Seq(Command), q # <<>>, UniqueStarts(q)
  PROVE  LET m == Head(q)
             z == Tail(q)
         IN  /\ m.kind = "start" => m.id \in QueuedStarts(q)
             /\ QueuedStarts(z) =
                  IF m.kind = "start" THEN QueuedStarts(q) \ {m.id} ELSE QueuedStarts(q)
             /\ UniqueStarts(z)
             /\ ShutdownQueued(z)
                  => ShutdownQueued(q)
             /\ m.kind = "shutdown" => ShutdownQueued(q)
<1> DEFINE m == Head(q)
           z == Tail(q)
<1>1. /\ DOMAIN z = 1 .. (Len(q) - 1) /\ DOMAIN q = 1 .. Len(q)
      /\ Len(q) \in Nat /\ Len(q) >= 1
      /\ \A i \in 1 .. (Len(q) - 1) : z[i] = q[i + 1]
      /\ m = q[1] /\ m \in Command
  OBVIOUS
<1>2. m.kind = "start" => m.id \in Requests
  BY <1>1 DEF Command, IdCommand, Wake, Shutdown
<1> HIDE DEF z, m
<1>3. /\ 1 \in DOMAIN q
      /\ \A i \in DOMAIN z : i + 1 \in DOMAIN q /\ z[i] = q[i + 1] /\ i + 1 # 1
      /\ \A i \in DOMAIN q : i = 1 \/ (i - 1 \in DOMAIN z /\ z[i - 1] = q[i])
  BY <1>1
<1>4. m.kind = "start" => m.id \in QueuedStarts(q)
  BY <1>1, <1>2, <1>3 DEF QueuedStarts
<1>5. QueuedStarts(z) =
        IF m.kind = "start" THEN QueuedStarts(q) \ {m.id} ELSE QueuedStarts(q)
  <2>1. ASSUME NEW r \in QueuedStarts(z)
        PROVE  r \in QueuedStarts(q) /\ (m.kind = "start" => r # m.id)
    <3>1. PICK i \in DOMAIN z : z[i].kind = "start" /\ z[i].id = r
      BY DEF QueuedStarts
    <3>2. i + 1 \in DOMAIN q /\ q[i + 1].kind = "start" /\ q[i + 1].id = r /\ i + 1 # 1
      BY <1>3, <3>1
    <3>3. QED
      BY <1>1, <1>3, <2>1, <3>2 DEF QueuedStarts, UniqueStarts
  <2>2. ASSUME NEW r \in QueuedStarts(q), ~(m.kind = "start" /\ r = m.id)
        PROVE  r \in QueuedStarts(z)
    <3>1. PICK i \in DOMAIN q : q[i].kind = "start" /\ q[i].id = r
      BY DEF QueuedStarts
    <3>2. i # 1
      BY <1>1, <2>2, <3>1
    <3>3. QED
      BY <1>3, <2>2, <3>1, <3>2 DEF QueuedStarts
  <2>3. QED
    BY <2>1, <2>2
<1>6. UniqueStarts(z)
  <2>1. ASSUME NEW i \in DOMAIN z, NEW j \in DOMAIN z,
               z[i].kind = "start" /\ z[j].kind = "start" /\ z[i].id = z[j].id
        PROVE  i = j
    <3>1. i + 1 = j + 1
      BY <1>3, <2>1 DEF UniqueStarts
    <3>2. i \in Nat /\ j \in Nat
      BY <1>1
    <3>3. QED
      BY <3>1, <3>2
  <2>2. QED
    BY <2>1 DEF UniqueStarts
<1>7. ShutdownQueued(z)
        => ShutdownQueued(q)
  BY <1>3 DEF ShutdownQueued
<1>8. m.kind = "shutdown" => ShutdownQueued(q)
  BY <1>1, <1>3 DEF ShutdownQueued
<1>9. QED
  BY <1>4, <1>5, <1>6, <1>7, <1>8 DEF z, m
-----------------------------------------------------------------------------
(* What the worker's steps do to the places a permit can be in.            *)

LoopPcs == {"drain", "coalesce", "check", "top"}

\* No other field changes when the worker moves on or retires a request.
LEMMA RetireFields ==
  ASSUME NEW w \in WorkerLocals, NEW r, NEW ret, Retire(w, r, ret)
  PROVE  /\ worker'.pc = "release" /\ worker'.cur = {r} /\ worker'.ret = ret
         /\ worker'.stop = w.stop /\ worker'.todo = w.todo
         /\ worker'.pending = w.pending /\ worker'.ready = w.ready
         /\ worker'.active = w.active
  BY DEF Retire, WorkerLocals

\* Moving the program counter of worker_loop_inner touches no collection.
LEMMA GoToFields ==
  ASSUME worker \in WorkerLocals, NEW pc, GoTo(pc)
  PROVE  /\ worker'.pc = pc /\ worker'.cur = worker.cur /\ worker'.ret = worker.ret
         /\ worker'.stop = worker.stop /\ worker'.todo = worker.todo
         /\ worker'.pending = worker.pending /\ worker'.ready = worker.ready
         /\ worker'.active = worker.active
  BY DEF GoTo, WorkerLocals

\* A step that at most wakes the worker leaves the queued requests alone.
SameStarts ==
  /\ QueuedStarts(commands') = QueuedStarts(commands)
  /\ UniqueStarts(commands')
  /\ ShutdownQueued(commands') => ShutdownQueued(commands)

\* Clearing a packet queue (mark_cancelled, mark_failed, RequestHandle::cancel)
\* wakes the worker but queues no Start command.
LEMMA ClearStarts ==
  ASSUME TypeOK, UniqueStarts(commands), NEW r \in Requests, NEW s,
         Clear(r, s, commands)
  PROVE  SameStarts
<1>1. Len(state[r].packets) \in Nat
  BY DEF TypeOK, RequestState
<1>2. QED
  BY <1>1, WokenStarts DEF Clear, SameStarts, TypeOK

\* recycle_pcm after a backend step wakes the worker but queues no Start command.
LEMMA RecycleStarts ==
  ASSUME TypeOK, UniqueStarts(commands), NEW r \in Requests, NEW s, NEW n \in Nat,
         Recycle(r, s, n)
  PROVE  SameStarts
<1>1. 1 + n \in Nat
  OBVIOUS
<1>2. QED
  BY <1>1, WokenStarts DEF Recycle, SameStarts, TypeOK

\* What receiving one command does: a Start moves its request to pending, a
\* Cancel of a pending request takes it out for retirement.
LEMMA HandleEffect ==
  ASSUME TypeOK, UniqueStarts(commands), NEW next, NEW stopped,
         HandleCommand(next, stopped)
  PROVE  /\ UNCHANGED <<permit, used, handle, shutdown, owner, session>>
         /\ UniqueStarts(commands')
         /\ ShutdownQueued(commands') => ShutdownQueued(commands)
         /\ worker'.ready = worker.ready /\ worker'.active = worker.active
         /\ \/ \E r \in QueuedStarts(commands) :
                 /\ QueuedStarts(commands') = QueuedStarts(commands) \ {r}
                 /\ worker'.pending = worker.pending \cup {r}
                 /\ worker'.pc = next /\ worker'.ret = worker.ret
                 /\ worker'.stop = worker.stop
            \/ \E r \in worker.pending :
                 /\ QueuedStarts(commands') = QueuedStarts(commands)
                 /\ worker'.pending = worker.pending \ {r}
                 /\ worker'.pc = "release" /\ worker'.ret = next
                 /\ worker'.stop = worker.stop /\ worker'.cur = {r}
            \/ /\ QueuedStarts(commands') = QueuedStarts(commands)
               /\ worker'.pending = worker.pending /\ worker'.ret = worker.ret
               /\ \/ worker'.pc = next /\ worker'.stop = worker.stop
                  \/ worker'.pc = stopped /\ ShutdownQueued(commands)
<1> DEFINE m == Head(commands)
           rest == Tail(commands)
           Q == QueuedStarts(commands)
           T == QueuedStarts(rest)
<1>0. worker \in WorkerLocals
  BY DEF TypeOK
<1>1. UNCHANGED <<permit, used, handle, shutdown, owner, session>>
  BY DEF HandleCommand, clientVars
<1>2. /\ rest \in Seq(Command) /\ Len(rest) <= ChannelCap
      /\ m.kind \in {"start", "cancel"} => m.id \in Requests
  BY ReceiveType DEF TypeOK, HandleCommand
<1>3. /\ m.kind = "start" => m.id \in Q
      /\ T = IF m.kind = "start" THEN Q \ {m.id} ELSE Q
      /\ UniqueStarts(rest)
      /\ ShutdownQueued(rest) => ShutdownQueued(commands)
      /\ m.kind = "shutdown" => ShutdownQueued(commands)
  BY ReceiveStarts DEF TypeOK, HandleCommand
<1> HIDE DEF m, rest
<1>4. ASSUME NEW r \in Requests, NEW s, Clear(r, s, rest)
      PROVE  /\ QueuedStarts(commands') = T /\ UniqueStarts(commands')
             /\ ShutdownQueued(commands') => ShutdownQueued(rest)
  <2>1. Len(state[r].packets) \in Nat
    BY DEF TypeOK, RequestState
  <2>2. QED
    BY <1>2, <1>3, <1>4, <2>1, WokenStarts DEF Clear
<1> HIDE DEF T, Q
<1>5. CASE /\ m.kind = "start"
           /\ worker' = [worker EXCEPT !.pc = next, !.pending = @ \cup {m.id}]
           /\ commands' = rest
           /\ UNCHANGED <<state, free>>
  <2>1. /\ worker'.ready = worker.ready /\ worker'.active = worker.active
        /\ worker'.pending = worker.pending \cup {m.id}
        /\ worker'.pc = next /\ worker'.ret = worker.ret
        /\ worker'.stop = worker.stop
    BY <1>0, <1>5 DEF WorkerLocals
  <2>2. m.id \in Q /\ T = Q \ {m.id}
    BY <1>3, <1>5
  <2>3. QED
    BY <1>1, <1>3, <1>5, <2>1, <2>2 DEF T, Q
<1>6. CASE /\ m.kind = "cancel" /\ m.id \in worker.pending
           /\ Clear(m.id, MarkCancelled(state[m.id]), rest)
           /\ Retire(WithoutPending(m.id), m.id, next)
  <2>1. WithoutPending(m.id) \in WorkerLocals
    BY <1>0 DEF WithoutPending, WorkerLocals
  <2>2. /\ WithoutPending(m.id).stop = worker.stop
        /\ WithoutPending(m.id).ready = worker.ready
        /\ WithoutPending(m.id).active = worker.active
        /\ WithoutPending(m.id).pending = worker.pending \ {m.id}
    BY <1>0 DEF WithoutPending, WorkerLocals
  <2>3. /\ worker'.pc = "release" /\ worker'.cur = {m.id} /\ worker'.ret = next
        /\ worker'.stop = WithoutPending(m.id).stop
        /\ worker'.pending = WithoutPending(m.id).pending
        /\ worker'.ready = WithoutPending(m.id).ready
        /\ worker'.active = WithoutPending(m.id).active
    BY <1>6, <2>1, RetireFields
  <2>4. T = Q /\ m.id \in Requests
    BY <1>2, <1>3, <1>6
  <2>5. /\ QueuedStarts(commands') = T /\ UniqueStarts(commands')
        /\ ShutdownQueued(commands') => ShutdownQueued(rest)
    BY <1>4, <1>6, <2>4
  <2>6. QED
    BY <1>1, <1>3, <1>6, <2>2, <2>3, <2>4, <2>5 DEF T, Q
<1>7. ASSUME GoTo(next), m.kind # "start",
             \/ commands' = rest
             \/ /\ m.kind = "cancel"
                /\ Clear(m.id, MarkCancelled(state[m.id]), rest)
      PROVE  /\ UniqueStarts(commands')
             /\ ShutdownQueued(commands') => ShutdownQueued(commands)
             /\ worker'.ready = worker.ready /\ worker'.active = worker.active
             /\ QueuedStarts(commands') = Q
             /\ worker'.pending = worker.pending /\ worker'.ret = worker.ret
             /\ worker'.pc = next /\ worker'.stop = worker.stop
  <2>1. /\ QueuedStarts(commands') = T /\ UniqueStarts(commands')
        /\ ShutdownQueued(commands') => ShutdownQueued(rest)
    BY <1>2, <1>3, <1>4, <1>7 DEF T
  <2>2. QED
    BY <1>0, <1>3, <1>7, <2>1, GoToFields
<1>8. CASE /\ m.kind = "shutdown"
           /\ worker' = [worker EXCEPT !.pc = stopped, !.stop = TRUE]
           /\ commands' = rest
           /\ UNCHANGED <<state, free>>
  <2>1. /\ worker'.ready = worker.ready /\ worker'.active = worker.active
        /\ worker'.pending = worker.pending
        /\ worker'.pc = stopped /\ worker'.ret = worker.ret
    BY <1>0, <1>8 DEF WorkerLocals
  <2>2. T = Q
    BY <1>3, <1>8
  <2>3. QED
    BY <1>1, <1>3, <1>8, <2>1, <2>2 DEF T, Q
<1>9. CASE \/ /\ m.kind = "cancel" /\ m.id \in worker.active \ worker.pending
              /\ Clear(m.id, MarkCancelled(state[m.id]), rest)
              /\ GoTo(next)
           \/ /\ \/ m.kind = "wake"
                 \/ m.kind = "cancel" /\ m.id \notin worker.active \cup worker.pending
              /\ GoTo(next)
              /\ commands' = rest
              /\ UNCHANGED <<state, free>>
  BY <1>1, <1>7, <1>9 DEF Q
<1>10. QED
  BY <1>5, <1>6, <1>8, <1>9 DEF HandleCommand, m, rest
\* A worker step that moves no permit.
KeepStep ==
  /\ UNCHANGED <<permit, used, handle, shutdown, owner>>
  /\ SameStarts
  /\ worker'.pending = worker.pending /\ worker'.ready = worker.ready
  /\ worker'.active = worker.active
  /\ Dropping = {} /\ Dropping' = {}
  /\ worker'.ret = worker.ret
  /\ Leaving(worker') => Leaving(worker) \/ shutdown
  /\ worker'.pc = "closing" => QueuedStarts(commands) = {}
  /\ WalkInv'

\* A worker step that takes r out of the collection that owned it.
RetireStep(r) ==
  /\ UNCHANGED <<permit, used, handle, shutdown, owner>>
  /\ Dropping = {}
  /\ worker'.pc = "release" /\ worker'.cur = {r} /\ worker'.stop = worker.stop
  /\ worker'.ret \in {"filter", "prefill", "sweep", "reap", "exit"}
  /\ worker'.ret = "exit" => Leaving(worker)
  /\ \/ /\ SameStarts
        /\ \/ /\ r \in worker.pending /\ worker'.pending = worker.pending \ {r}
              /\ worker'.ready = worker.ready /\ worker'.active = worker.active
           \/ /\ r \in worker.ready /\ worker'.ready = worker.ready \ {r}
              /\ worker'.pending = worker.pending /\ worker'.active = worker.active
           \/ /\ r \in worker.active /\ worker'.active = worker.active \ {r}
              /\ worker'.pending = worker.pending /\ worker'.ready = worker.ready
     \/ /\ r \in QueuedStarts(commands)
        /\ QueuedStarts(commands') = QueuedStarts(commands) \ {r}
        /\ UniqueStarts(commands')
        /\ ShutdownQueued(commands') => ShutdownQueued(commands)
        /\ worker'.pending = worker.pending /\ worker'.ready = worker.ready
        /\ worker'.active = worker.active
  /\ WalkInv'

\* A pending request that is not cancelled becomes ready.
MakeReady(r) == FilterPending(r) /\ ~state[r].cancel_requested

LEMMA WorkerTyped ==
  ASSUME TypeOK PROVE worker \in WorkerLocals
  BY DEF TypeOK

\* The worker's local steps move no permit.
LEMMA LoopKeeps ==
  ASSUME TypeOK, UniqueStarts(commands), WalkInv,
         \/ Top \/ Check \/ PrefillDone \/ SweepDone \/ ScanDone \/ StepBatch
         \/ StepDone \/ ReapDone \/ ExitEmpty \/ BeginPrefill
         \/ \E r \in Requests : ScanState(r) \/ ScanFree(r)
         \/ /\ worker.pc \in {"drain", "coalesce", "idle"}
            /\ \E pc \in LoopPcs : GoTo(pc) /\ UNCHANGED workerFrame
  PROVE  KeepStep
<1>0. worker \in WorkerLocals
  BY WorkerTyped
<1>1. /\ UNCHANGED <<permit, used, handle, shutdown, owner, commands>>
  BY Zenon DEF Top, Check, PrefillDone, SweepDone, ScanDone, StepBatch, StepDone, ReapDone,
         ExitEmpty, BeginPrefill, ScanState, ScanFree, workerFrame, clientVars, stateFrame
<1>2. SameStarts
  BY <1>1 DEF SameStarts
<1>3. ASSUME worker.pc # "release", worker'.pc # "release",
             worker'.pending = worker.pending, worker'.ready = worker.ready,
             worker'.active = worker.active, worker'.ret = worker.ret,
             Leaving(worker') => Leaving(worker) \/ shutdown,
             worker'.pc = "closing" => commands = <<>>,
             WalkInv'
      PROVE  KeepStep
  <2>1. worker'.pc = "closing" => QueuedStarts(commands) = {}
    BY <1>3 DEF QueuedStarts
  <2>2. Dropping = {} /\ Dropping' = {}
    BY <1>3 DEF Dropping
  <2>3. QED
    BY <1>1, <1>2, <1>3, <2>1, <2>2 DEF KeepStep
<1>4. CASE Top \/ Check
  BY <1>0, <1>3, <1>4 DEF Top, Check, GoTo, WorkerLocals, Leaving, WalkInv, Walking
<1>5. CASE PrefillDone
  BY <1>0, <1>3, <1>5 DEF PrefillDone, WorkerLocals, Leaving, WalkInv, Walking
<1>6. CASE SweepDone \/ StepBatch \/ ReapDone
  <2>1. CASE SweepDone
    BY <1>0, <1>3, <2>1 DEF SweepDone, WorkerLocals, Leaving, WalkInv, Walking
  <2>2. CASE StepBatch \/ ReapDone
    BY <1>0, <1>3, <2>2 DEF StepBatch, ReapDone, GoTo, WorkerLocals, Leaving, WalkInv, Walking
  <2>3. QED
    BY <1>6, <2>1, <2>2
<1>7. CASE ScanDone
  BY <1>0, <1>3, <1>7 DEF ScanDone, WorkerLocals, Leaving, WalkInv, Walking
<1>8. CASE StepDone
  BY <1>0, <1>3, <1>8 DEF StepDone, WorkerLocals, Leaving, WalkInv, Walking
<1>9. CASE ExitEmpty \/ BeginPrefill
  BY <1>0, <1>3, <1>9 DEF ExitEmpty, BeginPrefill, GoTo, WorkerLocals, Leaving,
                          WalkInv, Walking
<1>10. ASSUME NEW r \in Requests, ScanState(r) \/ ScanFree(r)
       PROVE  KeepStep
  <2>1. CASE ScanState(r)
    <3>1. /\ worker.pc = "scan" /\ worker'.pc \in {"scan", "scanFree"}
          /\ worker'.pending = worker.pending /\ worker'.ready = worker.ready
          /\ worker'.active = worker.active /\ worker'.ret = worker.ret
          /\ worker'.stop = worker.stop /\ worker'.todo \subseteq worker.todo
      BY <1>0, <2>1 DEF ScanState, WorkerLocals
    <3>2. QED
      BY <1>3, <3>1 DEF Leaving, WalkInv, Walking
  <2>2. CASE ScanFree(r)
    <3>1. /\ worker.pc = "scanFree" /\ worker'.pc = "scan"
          /\ worker'.pending = worker.pending /\ worker'.ready = worker.ready
          /\ worker'.active = worker.active /\ worker'.ret = worker.ret
          /\ worker'.stop = worker.stop /\ worker'.todo \subseteq worker.todo
      BY <1>0, <2>2 DEF ScanFree, WorkerLocals
    <3>2. QED
      BY <1>3, <3>1 DEF Leaving, WalkInv, Walking
  <2>3. QED
    BY <1>10, <2>1, <2>2
<1>11. CASE /\ worker.pc \in {"drain", "coalesce", "idle"}
            /\ \E pc \in LoopPcs : GoTo(pc) /\ UNCHANGED workerFrame
  BY <1>0, <1>3, <1>11 DEF GoTo, LoopPcs, WorkerLocals, Leaving, WalkInv, Walking
<1>12. QED
  BY <1>4, <1>5, <1>6, <1>7, <1>8, <1>9, <1>10, <1>11

\* Taking a buffer, the backend step of a request and its retirement mark
\* move no permit either.
LEMMA StepKeeps ==
  ASSUME TypeOK, UniqueStarts(commands), QuitInv, WalkInv, NEW r \in Requests,
         TakePcm(r) \/ StepErr(r) \/ StepPacket(r) \/ MarkRetired(r)
  PROVE  KeepStep
<1>0. worker \in WorkerLocals /\ Len(state[r].packets) \in Nat /\ 0 \in Nat
  BY DEF TypeOK, RequestState
<1>1. UNCHANGED <<permit, used, handle, shutdown, owner>>
  BY DEF TakePcm, StepErr, StepPacket, MarkRetired, stateFrame, clientVars
<1>2. SameStarts
  <2>1. UNCHANGED commands => SameStarts
    BY DEF SameStarts
  <2>2. CASE TakePcm(r)
    BY <2>1, <2>2, ClearStarts DEF TakePcm
  <2>3. CASE StepErr(r)
    BY <1>0, <2>3, RecycleStarts DEF StepErr
  <2>4. CASE StepPacket(r)
    <3>1. \/ UNCHANGED commands
          \/ Recycle(r, state[r], 0)
          \/ Recycle(r, MarkFailed(state[r], "overflow"), Len(state[r].packets))
      BY <2>4 DEF StepPacket
    <3>2. QED
      BY <1>0, <2>1, <3>1, RecycleStarts
  <2>5. CASE MarkRetired(r)
    BY <2>1, <2>5 DEF MarkRetired
  <2>6. QED
    BY <2>2, <2>3, <2>4, <2>5
<1>3. CASE MarkRetired(r)
  <2>1. /\ worker.pc = "retire" /\ worker'.cur = {} /\ worker'.pc = worker.ret
        /\ worker'.pending = worker.pending /\ worker'.ready = worker.ready
        /\ worker'.active = worker.active /\ worker'.todo = worker.todo
        /\ worker'.ret = worker.ret /\ worker'.stop = worker.stop
    BY <1>0, <1>3 DEF MarkRetired, WorkerLocals
  <2>2. Dropping = {} /\ Dropping' = {}
    BY <2>1 DEF Dropping
  <2>3. worker'.pc # "closing" /\ (Leaving(worker') => Leaving(worker))
    BY <2>1 DEF QuitInv, Leaving
  <2>4. WalkInv'
    BY <2>1 DEF WalkInv, Walking
  <2>5. QED
    BY <1>1, <1>2, <2>1, <2>2, <2>3, <2>4 DEF KeepStep
<1>4. CASE TakePcm(r) \/ StepErr(r) \/ StepPacket(r)
  <2>1. /\ worker.pc \in {"take", "step"} /\ worker'.pc = worker.pc
        /\ worker'.pending = worker.pending /\ worker'.ready = worker.ready
        /\ worker'.active = worker.active
        /\ worker'.ret = worker.ret /\ worker'.stop = worker.stop
    <3>1. CASE TakePcm(r)
      BY <1>0, <3>1 DEF TakePcm, WorkerLocals
    <3>2. CASE StepErr(r)
      BY <1>0, <3>2 DEF StepErr, WorkerLocals
    <3>3. CASE StepPacket(r)
      BY <1>0, <3>3 DEF StepPacket, WorkerLocals
    <3>4. QED
      BY <1>4, <3>1, <3>2, <3>3
  <2>2. Dropping = {} /\ Dropping' = {}
    BY <2>1 DEF Dropping
  <2>3. WalkInv' /\ worker'.pc # "closing" /\ (Leaving(worker') => Leaving(worker))
    BY <2>1 DEF WalkInv, Walking, Leaving
  <2>4. QED
    BY <1>1, <1>2, <2>1, <2>2, <2>3 DEF KeepStep
<1>5. QED
  BY <1>3, <1>4

\* The steps that may take a request out for retirement; those that leave it
\* where it is, or move it on to the next collection, are KeepStep or named.
LEMMA RetireEffect ==
  ASSUME TypeOK, UniqueStarts(commands), WalkInv, NEW r \in Requests,
         \/ FilterPending(r) \/ PrefillErr(r) \/ Sweep(r) \/ Reap(r)
         \/ ExitActive(r) \/ ExitPending(r)
  PROVE  \/ RetireStep(r)
         \/ KeepStep
         \/ MakeReady(r)
<1>0. worker \in WorkerLocals
  BY DEF TypeOK
<1>1. UNCHANGED <<permit, used, handle, shutdown, owner>>
  BY DEF FilterPending, PrefillErr, Sweep, Reap, ExitActive, ExitPending,
         stateFrame, closeFrame, clientVars
<1>2. ASSUME NEW w \in WorkerLocals, NEW ret \in {"filter", "prefill", "sweep", "reap", "exit"},
             Retire(w, r, ret), SameStarts, worker.pc = ret,
             w.stop = worker.stop, w.todo \subseteq w.active \/ ret \notin {"sweep", "reap"},
             \/ /\ r \in worker.pending /\ w.pending = worker.pending \ {r}
                /\ w.ready = worker.ready /\ w.active = worker.active
             \/ /\ r \in worker.ready /\ w.ready = worker.ready \ {r}
                /\ w.pending = worker.pending /\ w.active = worker.active
             \/ /\ r \in worker.active /\ w.active = worker.active \ {r}
                /\ w.pending = worker.pending /\ w.ready = worker.ready
      PROVE  RetireStep(r)
  <2>1. /\ worker'.pc = "release" /\ worker'.cur = {r} /\ worker'.ret = ret
        /\ worker'.stop = w.stop /\ worker'.todo = w.todo
        /\ worker'.pending = w.pending /\ worker'.ready = w.ready
        /\ worker'.active = w.active
    BY <1>2, RetireFields
  <2>2. WalkInv'
    BY <1>2, <2>1 DEF WalkInv, Walking
  <2>3. Dropping = {}
    BY <1>2 DEF Dropping
  <2>4. ret = "exit" => Leaving(worker)
    BY <1>2 DEF Leaving
  <2>5. QED
    BY <1>1, <1>2, <2>1, <2>2, <2>3, <2>4 DEF RetireStep
<1>3. CASE FilterPending(r) /\ state[r].cancel_requested
  <2>1. /\ WithoutPending(r) \in WorkerLocals
        /\ WithoutPending(r).stop = worker.stop
        /\ WithoutPending(r).ready = worker.ready
        /\ WithoutPending(r).active = worker.active
        /\ WithoutPending(r).pending = worker.pending \ {r}
    BY <1>0 DEF WithoutPending, WorkerLocals
  <2>2. /\ Clear(r, MarkCancelled(state[r]), commands)
        /\ Retire(WithoutPending(r), r, "filter")
        /\ worker.pc = "filter" /\ r \in worker.pending
    BY <1>3 DEF FilterPending
  <2>3. QED
    BY <1>2, <2>1, <2>2, ClearStarts
<1>4. CASE PrefillErr(r)
  <2> DEFINE w == [worker EXCEPT !.ready = @ \ {r}]
  <2>1. /\ w \in WorkerLocals
        /\ w.stop = worker.stop /\ w.ready = worker.ready \ {r}
        /\ w.active = worker.active /\ w.pending = worker.pending
    BY <1>0 DEF WorkerLocals
  <2>2. /\ Clear(r, MarkFailed(state[r], "backend"), commands)
        /\ Retire(w, r, "prefill")
        /\ worker.pc = "prefill" /\ r \in worker.ready
    BY <1>4 DEF PrefillErr
  <2> HIDE DEF w
  <2>3. QED
    BY <1>2, <2>1, <2>2, ClearStarts
<1>5. ASSUME NEW pc \in {"sweep", "reap"}, worker.pc = pc, r \in worker.todo,
             worker' = [worker EXCEPT !.todo = @ \ {r}], UNCHANGED commands
      PROVE  KeepStep
  <2>1. SameStarts
    BY <1>5 DEF SameStarts
  <2>2. /\ worker'.pc = worker.pc /\ worker'.todo = worker.todo \ {r}
        /\ worker'.pending = worker.pending /\ worker'.ready = worker.ready
        /\ worker'.active = worker.active
        /\ worker'.ret = worker.ret /\ worker'.stop = worker.stop
    BY <1>0, <1>5 DEF WorkerLocals
  <2>3. WalkInv' /\ worker'.pc # "closing" /\ (Leaving(worker') => Leaving(worker))
    BY <1>5, <2>2 DEF WalkInv, Walking, Leaving
  <2>4. Dropping = {} /\ Dropping' = {}
    BY <1>5, <2>2 DEF Dropping
  <2>5. QED
    BY <1>1, <2>1, <2>2, <2>3, <2>4 DEF KeepStep
<1>6. ASSUME NEW pc \in {"sweep", "reap"}, worker.pc = pc, r \in worker.todo, SameStarts,
             Retire([[worker EXCEPT !.todo = @ \ {r}] EXCEPT !.active = @ \ {r}], r, pc)
      PROVE  RetireStep(r)
  <2> DEFINE w == [[worker EXCEPT !.todo = @ \ {r}] EXCEPT !.active = @ \ {r}]
  <2>1. /\ w \in WorkerLocals
        /\ w.stop = worker.stop /\ w.ready = worker.ready
        /\ w.active = worker.active \ {r} /\ w.pending = worker.pending
        /\ w.todo = worker.todo \ {r}
    BY <1>0 DEF WorkerLocals
  <2>2. worker.todo \subseteq worker.active
    BY <1>6 DEF WalkInv, Walking
  <2>3. Retire(w, r, pc)
    BY <1>6
  <2> HIDE DEF w
  <2>4. QED
    BY <1>2, <1>6, <2>1, <2>2, <2>3
<1>7. CASE Sweep(r)
  <2>1. CASE state[r].cancel_requested
    <3>1. CancelActive([worker EXCEPT !.todo = @ \ {r}], r, "sweep")
      BY <1>7, <2>1 DEF Sweep
    <3>2. QED
      BY <1>6, <1>7, <3>1, ClearStarts DEF Sweep, CancelActive
  <2>2. CASE ~state[r].cancel_requested
    BY <1>5, <1>7, <2>2 DEF Sweep
  <2>3. QED
    BY <2>1, <2>2
<1>8. CASE Reap(r)
  <2>1. SameStarts
    BY <1>8 DEF Reap, SameStarts
  <2>2. QED
    BY <1>5, <1>6, <1>8, <2>1 DEF Reap
<1>9. CASE ExitActive(r)
  <2> DEFINE w == [worker EXCEPT !.active = @ \ {r}]
  <2>1. /\ w \in WorkerLocals
        /\ w.stop = worker.stop /\ w.ready = worker.ready
        /\ w.active = worker.active \ {r} /\ w.pending = worker.pending
    BY <1>0 DEF WorkerLocals
  <2>2. /\ Clear(r, MarkCancelled(state[r]), commands) /\ Retire(w, r, "exit")
        /\ worker.pc = "exit" /\ r \in worker.active
    BY <1>9 DEF ExitActive, CancelActive
  <2> HIDE DEF w
  <2>3. QED
    BY <1>2, <2>1, <2>2, ClearStarts
<1>10. CASE ExitPending(r)
  <2>1. /\ WithoutPending(r) \in WorkerLocals
        /\ WithoutPending(r).stop = worker.stop
        /\ WithoutPending(r).ready = worker.ready
        /\ WithoutPending(r).active = worker.active
        /\ WithoutPending(r).pending = worker.pending \ {r}
    BY <1>0 DEF WithoutPending, WorkerLocals
  <2>2. /\ Clear(r, MarkCancelled(state[r]), commands)
        /\ Retire(WithoutPending(r), r, "exit")
        /\ worker.pc = "exit" /\ r \in worker.pending
    BY <1>10 DEF ExitPending
  <2>3. QED
    BY <1>2, <2>1, <2>2, ClearStarts
<1>11. CASE FilterPending(r) /\ ~state[r].cancel_requested
  BY <1>11 DEF MakeReady
<1>12. QED
  BY <1>3, <1>4, <1>7, <1>8, <1>9, <1>10, <1>11
-----------------------------------------------------------------------------
(* Every worker step preserves the invariants of ownership.                *)

SlotCore == TypeOK /\ QuitInv /\ WalkInv /\ OwnerInv

\* A step that leaves every permit where it is.
LEMMA KeepInv ==
  ASSUME SlotCore, KeepStep
  PROVE  QuitInv' /\ WalkInv' /\ OwnerInv' /\ Holders' = Holders /\ used' = used
<1> USE DEF SlotCore
<1>1. Starting' = Starting /\ Holders' = Holders
  BY DEF KeepStep, Starting, Holders
<1>2. QuitInv'
  BY <1>1 DEF KeepStep, SameStarts, QuitInv
<1>3. OwnerInv'
  <2>1. Ownership'
    BY <1>1 DEF KeepStep, SameStarts, OwnerInv, Ownership
  <2>2. QED
    BY <2>1 DEF KeepStep, SameStarts, OwnerInv
<1>4. QED
  BY <1>1, <1>2, <1>3 DEF KeepStep

\* A request taken out for retirement carries its permit with it.
LEMMA RetireInv ==
  ASSUME SlotCore, NEW r \in Requests, RetireStep(r)
  PROVE  QuitInv' /\ WalkInv' /\ OwnerInv' /\ Holders' = Holders /\ used' = used
<1> USE DEF SlotCore
<1>1. Starting' = Starting /\ Holders' = Holders
  BY DEF RetireStep, Starting, Holders
<1>2. Dropping' = {r}
  BY DEF RetireStep, Dropping
<1>3. /\ QueuedStarts(commands') \subseteq QueuedStarts(commands)
      /\ UniqueStarts(commands')
      /\ ShutdownQueued(commands') => ShutdownQueued(commands)
  BY DEF RetireStep, SameStarts
<1>4. QuitInv'
  BY <1>1, <1>3 DEF RetireStep, QuitInv, Leaving
<1>5. Ownership'
  BY <1>1, <1>2 DEF RetireStep, SameStarts, OwnerInv, Ownership, Owned
<1>6. OwnerInv'
  BY <1>2, <1>3, <1>5 DEF RetireStep, OwnerInv
<1>7. QED
  BY <1>1, <1>4, <1>6 DEF RetireStep

\* Receiving a command carries a permit from the channel to pending, or from
\* pending to retirement.
LEMMA HandleInv ==
  ASSUME SlotCore, NEW next \in LoopPcs, NEW stopped \in LoopPcs,
         worker.pc \in {"recv", "drain", "coalesce", "idle"},
         HandleCommand(next, stopped)
  PROVE  QuitInv' /\ WalkInv' /\ OwnerInv' /\ Holders' = Holders /\ used' = used
<1> USE DEF SlotCore
<1> DEFINE Q == QueuedStarts(commands)
<1>1. /\ UNCHANGED <<permit, used, handle, shutdown, owner>>
      /\ UniqueStarts(commands')
      /\ ShutdownQueued(commands') => ShutdownQueued(commands)
      /\ worker'.ready = worker.ready /\ worker'.active = worker.active
      /\ \/ \E r \in Q :
              /\ QueuedStarts(commands') = Q \ {r}
              /\ worker'.pending = worker.pending \cup {r}
              /\ worker'.pc = next /\ worker'.ret = worker.ret
              /\ worker'.stop = worker.stop
         \/ \E r \in worker.pending :
              /\ QueuedStarts(commands') = Q
              /\ worker'.pending = worker.pending \ {r}
              /\ worker'.pc = "release" /\ worker'.ret = next
              /\ worker'.stop = worker.stop /\ worker'.cur = {r}
         \/ /\ QueuedStarts(commands') = Q
            /\ worker'.pending = worker.pending /\ worker'.ret = worker.ret
            /\ \/ worker'.pc = next /\ worker'.stop = worker.stop
               \/ worker'.pc = stopped /\ ShutdownQueued(commands)
  BY HandleEffect DEF OwnerInv
<1>2. Starting' = Starting /\ Holders' = Holders /\ Dropping = {}
  BY <1>1 DEF Starting, Holders, Dropping
<1>3. WalkInv'
  BY <1>1 DEF WalkInv, Walking, LoopPcs
<1>4. QuitInv'
  <2>1. Leaving(worker') => owner # "live"
    BY <1>1 DEF QuitInv, Leaving, LoopPcs
  <2>2. worker'.ret \notin {"closing", "done"} /\ worker'.pc # "closing"
    BY <1>1 DEF QuitInv, LoopPcs
  <2>3. QED
    BY <1>1, <1>2, <2>1, <2>2 DEF QuitInv
<1>5. OwnerInv'
  <2>1. CASE \E r \in Q :
               /\ QueuedStarts(commands') = Q \ {r}
               /\ worker'.pending = worker.pending \cup {r}
               /\ worker'.pc = next
    <3>1. Dropping' = {}
      BY <2>1 DEF Dropping, LoopPcs
    <3>2. Ownership'
      BY <1>1, <1>2, <2>1, <3>1 DEF OwnerInv, Ownership, Owned
    <3>3. QED
      BY <1>1, <3>1, <3>2 DEF OwnerInv
  <2>2. CASE \E r \in worker.pending :
               /\ QueuedStarts(commands') = Q
               /\ worker'.pending = worker.pending \ {r}
               /\ worker'.pc = "release" /\ worker'.cur = {r}
    <3>1. PICK r \in worker.pending :
            /\ QueuedStarts(commands') = Q
            /\ worker'.pending = worker.pending \ {r}
            /\ worker'.pc = "release" /\ worker'.cur = {r}
      BY <2>2
    <3>2. Dropping' = {r}
      BY <3>1 DEF Dropping
    <3>3. Ownership'
      BY <1>1, <1>2, <3>1, <3>2 DEF OwnerInv, Ownership, Owned
    <3>4. QED
      BY <1>1, <3>2, <3>3 DEF OwnerInv
  <2>3. CASE /\ QueuedStarts(commands') = Q
             /\ worker'.pending = worker.pending /\ worker'.pc \in {next, stopped}
    <3>1. Dropping' = {}
      BY <2>3 DEF Dropping, LoopPcs
    <3>2. Ownership'
      BY <1>1, <1>2, <2>3, <3>1 DEF OwnerInv, Ownership
    <3>3. QED
      BY <1>1, <3>1, <3>2 DEF OwnerInv
  <2>4. QED
    BY <1>1, <2>1, <2>2, <2>3
<1>6. QED
  BY <1>1, <1>2, <1>3, <1>4, <1>5

\* Prefill moves a request on from pending to ready and to active.
LEMMA MoveInv ==
  ASSUME SlotCore, NEW r \in Requests,
         PrefillOk(r) \/ MakeReady(r)
  PROVE  QuitInv' /\ WalkInv' /\ OwnerInv' /\ Holders' = Holders /\ used' = used
<1> USE DEF SlotCore
<1>1. /\ UNCHANGED <<permit, used, handle, shutdown, owner, commands>>
      /\ worker.pc \in {"filter", "prefill"} /\ worker'.pc = worker.pc
      /\ worker'.ret = worker.ret /\ worker'.stop = worker.stop
      /\ \/ /\ r \in worker.pending /\ worker'.pending = worker.pending \ {r}
            /\ worker'.ready = worker.ready \cup {r} /\ worker'.active = worker.active
         \/ /\ r \in worker.ready /\ worker'.ready = worker.ready \ {r}
            /\ worker'.active = worker.active \cup {r} /\ worker'.pending = worker.pending
  <2>1. worker \in WorkerLocals
    BY DEF TypeOK
  <2>2. CASE PrefillOk(r)
    BY <2>1, <2>2 DEF PrefillOk, clientVars, WorkerLocals
  <2>3. CASE MakeReady(r)
    BY <2>1, <2>3 DEF MakeReady, FilterPending, WithoutPending, stateFrame, clientVars, WorkerLocals
  <2>4. QED
    BY <2>2, <2>3
<1>2. /\ Starting' = Starting /\ Holders' = Holders
      /\ Dropping = {} /\ Dropping' = {}
  BY <1>1 DEF Starting, Holders, Dropping
<1>3. Ownership'
  BY <1>1, <1>2 DEF OwnerInv, Ownership, Owned
<1>4. OwnerInv'
  BY <1>1, <1>2, <1>3 DEF OwnerInv
<1>5. QuitInv' /\ WalkInv'
  BY <1>1, <1>2 DEF QuitInv, WalkInv, Leaving, Walking
<1>6. QED
  BY <1>1, <1>2, <1>4, <1>5

\* Releasing a request ends exactly its own permit.
LEMMA ReleaseInv ==
  ASSUME SlotCore, NEW r \in Requests, Release(r)
  PROVE  /\ QuitInv' /\ WalkInv' /\ OwnerInv'
         /\ r \in Holders /\ Holders' = Holders \ {r}
         /\ used' = IF used > 0 THEN used - 1 ELSE 0
<1> USE DEF SlotCore
<1>0. worker \in WorkerLocals /\ permit \in [Requests -> BOOLEAN]
  BY DEF TypeOK
<1>1. /\ worker.pc = "release" /\ r \in worker.cur /\ GoTo("retire")
      /\ permit' = [permit EXCEPT ![r] = FALSE]
      /\ UNCHANGED <<handle, shutdown, owner, commands>>
      /\ used' = IF used > 0 THEN used - 1 ELSE 0
  BY DEF Release, ReleasedSlots, clientVars
<1>2. /\ worker'.pc = "retire" /\ worker'.ret = worker.ret
      /\ worker'.stop = worker.stop /\ worker'.todo = worker.todo
      /\ worker'.pending = worker.pending /\ worker'.ready = worker.ready
      /\ worker'.active = worker.active
  BY <1>0, <1>1, GoToFields
<1>3. Dropping = {r} /\ Dropping' = {}
  <2>1. r \in Dropping /\ \A x, y \in Dropping : x = y
    BY <1>1 DEF Dropping, OwnerInv
  <2>2. Dropping = {r}
    BY <2>1
  <2>3. QED
    BY <1>2, <2>2 DEF Dropping
<1>4. r \in Holders /\ Holders' = Holders \ {r} /\ Starting' = Starting
  BY <1>0, <1>1, <1>3 DEF OwnerInv, Ownership, Owned, Holders, Starting
<1>5. Ownership'
  BY <1>1, <1>2, <1>3, <1>4 DEF OwnerInv, Ownership, Owned
<1>6. OwnerInv'
  BY <1>0, <1>1, <1>3, <1>5 DEF OwnerInv
<1>7. QuitInv' /\ WalkInv'
  BY <1>1, <1>2, <1>4 DEF QuitInv, WalkInv, Leaving, Walking
<1>8. QED
  BY <1>1, <1>4, <1>6, <1>7
\* The clean-up retires every start that is still queued, and the receiver
\* goes only when none is left.
LEMMA ExitInv ==
  ASSUME SlotCore, ExitDrain \/ DropReceiver
  PROVE  QuitInv' /\ WalkInv' /\ OwnerInv' /\ Holders' = Holders /\ used' = used
<1> USE DEF SlotCore
<1>0. worker \in WorkerLocals
  BY DEF TypeOK
<1>1. CASE ExitDrain
  <2> DEFINE m == Head(commands)
             rest == Tail(commands)
             Q == QueuedStarts(commands)
  <2>0. /\ UNCHANGED <<permit, used, handle, shutdown, owner>>
        /\ worker.pc = "exit" /\ commands # <<>>
    BY <1>1 DEF ExitDrain, stateFrame, clientVars
  <2>1. /\ rest \in Seq(Command) /\ Len(rest) <= ChannelCap
        /\ m.kind \in {"start", "cancel"} => m.id \in Requests
    BY <2>0, ReceiveType DEF TypeOK
  <2>2. /\ m.kind = "start" => m.id \in Q
        /\ QueuedStarts(rest) = IF m.kind = "start" THEN Q \ {m.id} ELSE Q
        /\ UniqueStarts(rest)
        /\ ShutdownQueued(rest) => ShutdownQueued(commands)
    BY <2>0, ReceiveStarts DEF TypeOK, OwnerInv
  <2>3. Dropping = {}
    BY <2>0 DEF Dropping
  <2>4. CASE m.kind = "start"
    <3>1. /\ Clear(m.id, MarkCancelled(state[m.id]), rest)
          /\ Retire(worker, m.id, "exit")
      BY <1>1, <2>4 DEF ExitDrain
    <3>2. Len(state[m.id].packets) \in Nat
      BY <2>1, <2>4 DEF TypeOK, RequestState
    <3>3. commands' = Woken(rest, Len(state[m.id].packets))
      BY <3>1 DEF Clear
    <3>4. /\ QueuedStarts(commands') = QueuedStarts(rest)
          /\ UniqueStarts(commands')
          /\ ShutdownQueued(commands') => ShutdownQueued(rest)
      BY <2>1, <2>2, <3>2, <3>3, WokenStarts
    <3>5. /\ worker'.pc = "release" /\ worker'.cur = {m.id} /\ worker'.ret = "exit"
          /\ worker'.stop = worker.stop
          /\ worker'.pending = worker.pending /\ worker'.ready = worker.ready
          /\ worker'.active = worker.active
      BY <1>0, <3>1, RetireFields
    <3>6. WalkInv' /\ Leaving(worker)
      BY <2>0, <3>5 DEF WalkInv, Walking, Leaving
    <3>7. RetireStep(m.id)
      BY <2>0, <2>2, <2>3, <2>4, <3>4, <3>5, <3>6 DEF RetireStep
    <3>8. QED
      BY <2>1, <2>4, <3>7, RetireInv
  <2>5. CASE m.kind # "start"
    <3>1. commands' = rest /\ UNCHANGED worker
      BY <1>1, <2>5 DEF ExitDrain
    <3>2. SameStarts
      BY <2>2, <2>5, <3>1 DEF SameStarts
    <3>3. Dropping' = {} /\ WalkInv'
      BY <2>3, <3>1 DEF Dropping, WalkInv
    <3>4. KeepStep
      BY <2>0, <2>3, <3>1, <3>2, <3>3 DEF KeepStep
    <3>5. QED
      BY <3>4, KeepInv
  <2>6. QED
    BY <2>4, <2>5
<1>2. CASE DropReceiver
  <2>1. /\ UNCHANGED <<permit, used, handle, shutdown, owner>>
        /\ worker.pc = "closing" /\ commands' = <<>> /\ GoTo("done")
    BY <1>2 DEF DropReceiver, clientVars
  <2>2. /\ worker'.pc = "done" /\ worker'.ret = worker.ret
        /\ worker'.pending = worker.pending /\ worker'.ready = worker.ready
        /\ worker'.active = worker.active
    BY <1>0, <2>1, GoToFields
  <2>3. SameStarts
    <3>1. QueuedStarts(commands) = {} /\ QueuedStarts(commands') = {}
      BY <2>1 DEF QuitInv, QueuedStarts
    <3>2. UniqueStarts(commands') /\ ~ShutdownQueued(commands')
      BY <2>1 DEF UniqueStarts, ShutdownQueued
    <3>3. QED
      BY <3>1, <3>2 DEF SameStarts
  <2>4. /\ Dropping = {} /\ Dropping' = {} /\ WalkInv' /\ Leaving(worker)
    BY <2>1, <2>2 DEF Dropping, WalkInv, Walking, Leaving
  <2>5. KeepStep
    BY <2>1, <2>2, <2>3, <2>4 DEF KeepStep
  <2>6. QED
    BY <2>5, KeepInv
<1>3. QED
  BY <1>1, <1>2

\* Dropping the scheduler: it is only dropped when no thread is inside start.
LEMMA OwnerSlots ==
  ASSUME SlotCore, Owner
  PROVE  QuitInv' /\ WalkInv' /\ OwnerInv' /\ Holders' = Holders /\ used' = used
<1> USE DEF SlotCore
<1>1. UNCHANGED <<permit, used, handle, worker>>
  BY DEF Owner, StoreShutdown, SendShutdown, JoinWorker, ownerFrame, clientVars
<1>2. Starting' = Starting /\ Holders' = Holders /\ Dropping' = Dropping
  BY <1>1 DEF Starting, Holders, Dropping
<1>3. WalkInv'
  BY <1>1 DEF WalkInv
<1>4. CASE StoreShutdown \/ JoinWorker
  <2>1. UNCHANGED commands /\ owner' # "live"
    BY <1>4 DEF StoreShutdown, JoinWorker
  <2>2. owner' # "live" => Starting = {}
    BY <1>4 DEF StoreShutdown, JoinWorker, Starting, QuitInv
  <2>3. QuitInv'
    BY <1>1, <1>2, <2>1, <2>2 DEF QuitInv
  <2>4. OwnerInv'
    BY <1>1, <1>2, <2>1 DEF OwnerInv, Ownership
  <2>5. QED
    BY <1>1, <1>2, <1>3, <2>3, <2>4
<1>5. CASE SendShutdown
  <2>1. owner = "stored" /\ owner' = "joining" /\ UNCHANGED shutdown
    BY <1>5 DEF SendShutdown
  <2>2. Shutdown \in Command /\ Shutdown.kind = "shutdown"
    BY DEF Command, Shutdown
  <2>3. commands' = commands \/ commands' = Append(commands, Shutdown)
    BY <1>5 DEF SendShutdown
  <2>4. QueuedStarts(commands') = QueuedStarts(commands) /\ UniqueStarts(commands')
    <3>1. commands \in Seq(Command)
      BY DEF TypeOK
    <3>2. UniqueStarts(commands)
      BY DEF OwnerInv
    <3>3. QED
      BY <2>2, <2>3, <3>1, <3>2, SendStarts
  <2>5. QuitInv'
    BY <1>1, <1>2, <2>1, <2>4 DEF QuitInv
  <2>6. OwnerInv'
    BY <1>1, <1>2, <2>4 DEF OwnerInv, Ownership
  <2>7. QED
    BY <1>1, <1>2, <1>3, <2>5, <2>6
<1>6. QED
  BY <1>4, <1>5 DEF Owner

\* Only start takes a slot, and only for a request that never had one; it
\* hands the permit to the channel.
LEMMA ClientSlots ==
  ASSUME SlotCore, NEW r \in Requests, Client(r)
  PROVE  /\ QuitInv' /\ WalkInv' /\ OwnerInv'
         /\ \/ Holders' = Holders /\ used' = used
            \/ /\ r \notin Holders /\ Holders' = Holders \cup {r}
               /\ used # Capacity /\ used' = used + 1
<1> USE DEF SlotCore
<1>0. /\ permit \in [Requests -> BOOLEAN]
      /\ DOMAIN handle = Requests /\ Len(state[r].packets) \in Nat /\ 1 \in Nat
      /\ commands \in Seq(Command) /\ Len(commands) <= ChannelCap
  BY DEF TypeOK, RequestState
<1>1. UNCHANGED <<shutdown, owner, worker>>
  BY DEF Client, StartAcquire, StartSend, PollPacket, PollEnd, DropPacket, Cancel,
         DropHandle, CancelMark, CancelSend, clientVars
<1>2. Dropping' = Dropping /\ WalkInv'
  BY <1>1 DEF Dropping, WalkInv
<1>3. CASE StartAcquire(r)
  <2>1. /\ owner = "live" /\ handle[r] = "new" /\ UNCHANGED commands
        /\ permit' = [permit EXCEPT ![r] = TRUE]
        /\ handle' = [handle EXCEPT ![r] = "starting"]
        /\ used # Capacity /\ used' = used + 1
    BY <1>3 DEF StartAcquire
  <2>2. r \notin Holders /\ Holders' = Holders \cup {r}
    BY <1>0, <2>1 DEF OwnerInv, Holders
  <2>3. Starting' = Starting \cup {r}
    BY <1>0, <2>1 DEF Starting
  <2>4. Ownership'
    BY <1>1, <1>2, <2>1, <2>2, <2>3 DEF OwnerInv, Ownership, Owned
  <2>5. OwnerInv'
    BY <1>0, <1>2, <2>1, <2>4 DEF OwnerInv
  <2>6. QuitInv'
    BY <1>1, <2>1 DEF QuitInv
  <2>7. QED
    BY <1>2, <2>1, <2>2, <2>5, <2>6
<1>4. CASE StartSend(r)
  <2> DEFINE c == [kind |-> "start", id |-> r]
  <2>1. /\ handle[r] = "starting" /\ UNCHANGED <<permit, used>>
        /\ commands' = Append(commands, c)
        /\ handle' = [handle EXCEPT ![r] = "open"]
    BY <1>4 DEF StartSend
  <2>2. c \in Command /\ c.kind = "start" /\ c.id = r
    BY DEF Command, IdCommand
  <2> HIDE DEF c
  <2>3. r \in Starting /\ Starting' = Starting \ {r} /\ Holders' = Holders
    BY <1>0, <2>1 DEF Starting, Holders
  <2>4. r \notin QueuedStarts(commands)
    BY <2>3 DEF OwnerInv, Ownership, Owned
  <2>5. /\ QueuedStarts(commands') = QueuedStarts(commands) \cup {r}
        /\ UniqueStarts(commands')
        /\ ShutdownQueued(commands') => ShutdownQueued(commands)
    BY <1>0, <2>1, <2>2, <2>4, SendStarts DEF OwnerInv
  <2>6. Ownership'
    BY <1>1, <1>2, <2>3, <2>5 DEF OwnerInv, Ownership, Owned
  <2>7. OwnerInv'
    BY <1>0, <1>2, <2>1, <2>5, <2>6 DEF OwnerInv
  <2>8. owner = "live"
    BY <2>3 DEF QuitInv
  <2>9. worker.pc # "closing"
    BY <2>8 DEF QuitInv, Leaving
  <2>10. QuitInv'
    BY <1>1, <2>3, <2>5, <2>8, <2>9 DEF QuitInv
  <2>11. QED
    BY <1>2, <2>1, <2>3, <2>7, <2>10
<1>5. ASSUME QueuedStarts(commands') = QueuedStarts(commands), UniqueStarts(commands'),
             ShutdownQueued(commands') => ShutdownQueued(commands),
             UNCHANGED <<permit, used>>,
             \/ UNCHANGED handle
             \/ /\ handle[r] \in {"open", "cancelling", "dropping"}
                /\ \E h \in {"open", "cancelling", "dropping", "closed"} :
                     handle' = [handle EXCEPT ![r] = h]
      PROVE  QuitInv' /\ WalkInv' /\ OwnerInv' /\ Holders' = Holders /\ used' = used
  <2>1. Starting' = Starting /\ Holders' = Holders
    BY <1>0, <1>5 DEF Starting, Holders
  <2>2. Ownership'
    BY <1>1, <1>2, <1>5, <2>1 DEF OwnerInv, Ownership
  <2>3. OwnerInv'
    BY <1>0, <1>2, <1>5, <2>2 DEF OwnerInv
  <2>4. QuitInv'
    BY <1>1, <1>5, <2>1 DEF QuitInv
  <2>5. QED
    BY <1>2, <1>5, <2>1, <2>3, <2>4
<1>6. UniqueStarts(commands)
  BY DEF OwnerInv
<1>7. CASE PollPacket(r) \/ PollEnd(r) \/ DropPacket(r)
  <2>1. /\ commands' = commands \/ commands' = Woken(commands, 1)
        /\ UNCHANGED <<permit, used, handle>>
    BY <1>7 DEF PollPacket, PollEnd, DropPacket, clientVars
  <2>2. QED
    BY <1>0, <1>5, <1>6, <2>1, WokenStarts
<1>8. CASE Cancel(r) \/ DropHandle(r)
  <2>1. PICK then \in {"cancelling", "dropping"}, after \in {"open", "closed"} :
          CancelMark(r, then, after)
    BY <1>8 DEF Cancel, DropHandle
  <2>2. /\ handle[r] = "open" /\ UNCHANGED <<permit, used>>
        /\ \/ handle' = [handle EXCEPT ![r] = then]
           \/ handle' = [handle EXCEPT ![r] = after]
        /\ commands' = commands \/ commands' = Woken(commands, Len(state[r].packets))
    BY <2>1 DEF CancelMark, Clear
  <2>3. QED
    BY <1>0, <1>5, <1>6, <2>2, WokenStarts
<1>9. CASE CancelSend(r)
  <2> DEFINE c == [kind |-> "cancel", id |-> r]
  <2>1. /\ handle[r] \in {"cancelling", "dropping"} /\ UNCHANGED <<permit, used>>
        /\ commands' = commands \/ commands' = Append(commands, c)
        /\ handle' = [handle EXCEPT ![r] =
                        IF handle[r] = "cancelling" THEN "open" ELSE "closed"]
    BY <1>9 DEF CancelSend
  <2>2. c \in Command /\ c.kind = "cancel"
    BY DEF Command, IdCommand
  <2> HIDE DEF c
  <2>3. /\ QueuedStarts(commands') = QueuedStarts(commands) /\ UniqueStarts(commands')
        /\ ShutdownQueued(commands') => ShutdownQueued(commands)
    BY <1>0, <1>6, <2>1, <2>2, SendStarts
  <2>4. QED
    BY <1>5, <2>1, <2>3
<1>10. QED
  BY <1>3, <1>4, <1>7, <1>8, <1>9 DEF Client
-----------------------------------------------------------------------------
(* The inductive invariant and its consequences.                           *)

\* A scheduler without requests owns nothing and holds no slot.
LEMMA InitSlots == Init => SlotInv
<1> SUFFICES ASSUME Init PROVE SlotInv
  OBVIOUS
<1>1. TypeOK
  BY InitType
<1>2. /\ Holders = {} /\ Starting = {} /\ QueuedStarts(commands) = {}
      /\ Dropping = {} /\ ~ShutdownQueued(commands) /\ UniqueStarts(commands)
      /\ DOMAIN permit = Requests
  BY DEF Init, Holders, Starting, QueuedStarts, Dropping, ShutdownQueued, UniqueStarts
<1>3. worker = [pc |-> "top", ret |-> "top", stop |-> FALSE,
                pending |-> {}, ready |-> {}, active |-> {},
                todo |-> {}, batch |-> {}, cur |-> {}]
  BY DEF Init
<1>4. QuitInv /\ WalkInv
  BY <1>2, <1>3 DEF Init, QuitInv, WalkInv, Leaving, Walking
<1>5. OwnerInv
  BY <1>2, <1>3 DEF Init, OwnerInv, Ownership, Owned
<1>6. SlotAccounting
  BY <1>2, FS_EmptySet, ConstantsAssumption DEF Init, SlotAccounting
<1>7. QED
  BY <1>1, <1>4, <1>5, <1>6 DEF SlotInv

\* The steps of the worker that concern one request.
LEMMA WorkerOnSlots ==
  ASSUME SlotCore, NEW r \in Requests, WorkerOn(r)
  PROVE  /\ QuitInv' /\ WalkInv' /\ OwnerInv'
         /\ \/ Holders' = Holders /\ used' = used
            \/ /\ r \in Holders /\ Holders' = Holders \ {r}
               /\ used' = IF used > 0 THEN used - 1 ELSE 0
<1>0. TypeOK /\ UniqueStarts(commands) /\ QuitInv /\ WalkInv
  BY DEF SlotCore, OwnerInv
<1>1. CASE FilterPending(r) \/ PrefillErr(r) \/ Sweep(r) \/ Reap(r)
           \/ ExitActive(r) \/ ExitPending(r)
  BY <1>0, <1>1, RetireEffect, RetireInv, KeepInv, MoveInv
<1>2. CASE PrefillOk(r)
  BY <1>2, MoveInv
<1>3. CASE ScanState(r) \/ ScanFree(r)
  BY <1>0, <1>3, LoopKeeps, KeepInv
<1>4. CASE TakePcm(r) \/ StepErr(r) \/ StepPacket(r) \/ MarkRetired(r)
  BY <1>0, <1>4, StepKeeps, KeepInv
<1>5. CASE Release(r)
  BY <1>5, ReleaseInv
<1>6. QED
  BY <1>1, <1>2, <1>3, <1>4, <1>5 DEF WorkerOn

\* Every other step of the worker leaves the permits alone.
LEMMA WorkerSlots ==
  ASSUME SlotCore,
         \/ Top \/ Recv \/ Drain \/ Coalesce \/ Check \/ Idle
         \/ BeginPrefill \/ PrefillDone \/ SweepDone \/ ScanDone \/ StepBatch
         \/ StepDone \/ ReapDone \/ ExitDrain \/ ExitEmpty \/ DropReceiver
  PROVE  QuitInv' /\ WalkInv' /\ OwnerInv' /\ Holders' = Holders /\ used' = used
<1>0. TypeOK /\ UniqueStarts(commands) /\ WalkInv
  BY DEF SlotCore, OwnerInv
<1>1. CASE Top \/ Check \/ BeginPrefill \/ PrefillDone \/ SweepDone \/ ScanDone
           \/ StepBatch \/ StepDone \/ ReapDone \/ ExitEmpty
  BY <1>0, <1>1, LoopKeeps, KeepInv
<1>2. ASSUME worker.pc \in {"drain", "coalesce", "idle"},
             NEW pc \in LoopPcs, GoTo(pc), UNCHANGED workerFrame
      PROVE  KeepStep
  BY <1>0, <1>2, LoopKeeps
<1>3. CASE Recv
  BY <1>3, HandleInv DEF Recv, LoopPcs
<1>4. CASE Drain
  BY <1>2, <1>4, HandleInv, KeepInv DEF Drain, LoopPcs
<1>5. CASE Coalesce
  BY <1>2, <1>5, HandleInv, KeepInv DEF Coalesce, LoopPcs
<1>6. CASE Idle
  BY <1>2, <1>6, HandleInv, KeepInv DEF Idle, LoopPcs
<1>7. CASE ExitDrain \/ DropReceiver
  BY <1>7, ExitInv
<1>8. QED
  BY <1>1, <1>3, <1>4, <1>5, <1>6, <1>7

\* Every step of any thread preserves the invariant.
LEMMA NextSlots == SlotInv /\ [Next]_vars => SlotInv'
<1> SUFFICES ASSUME SlotInv, [Next]_vars PROVE SlotInv'
  OBVIOUS
<1>0. SlotCore /\ TypeOK' /\ used \in Nat
  BY NextType DEF SlotInv, SlotCore, TypeOK
<1>1. /\ QuitInv' /\ WalkInv' /\ OwnerInv'
      /\ \/ Holders' = Holders /\ used' = used
         \/ \E r \in Requests : /\ r \notin Holders /\ Holders' = Holders \cup {r}
                                /\ used # Capacity /\ used' = used + 1
         \/ \E r \in Requests : /\ r \in Holders /\ Holders' = Holders \ {r}
                                /\ used' = IF used > 0 THEN used - 1 ELSE 0
  <2>1. CASE Worker
    BY <1>0, <2>1, WorkerOnSlots, WorkerSlots DEF Worker
  <2>2. CASE Owner
    BY <1>0, <2>2, OwnerSlots
  <2>3. CASE \E r \in Requests : Client(r)
    BY <1>0, <2>3, ClientSlots
  <2>4. CASE Finished \/ UNCHANGED vars
    <3>1. UNCHANGED vars
      BY <2>4 DEF Finished
    <3>2. /\ Starting' = Starting /\ Holders' = Holders /\ Dropping' = Dropping
      BY <3>1 DEF vars, clientVars, Starting, Holders, Dropping
    <3>3. QuitInv' /\ WalkInv' /\ OwnerInv'
      BY <1>0, <3>1, <3>2 DEF vars, clientVars, SlotCore, QuitInv, WalkInv, OwnerInv,
                              Ownership
    <3>4. QED
      BY <3>1, <3>2, <3>3 DEF vars
  <2>5. QED
    BY <2>1, <2>2, <2>3, <2>4 DEF Next
<1>2. IsFiniteSet(Holders) /\ used = Cardinality(Holders) /\ used <= Capacity
  <2>1. Holders \subseteq Requests
    BY DEF Holders
  <2>2. QED
    BY <2>1, FS_Subset, ConstantsAssumption DEF SlotInv, SlotAccounting
<1>3. SlotAccounting'
  <2>1. CASE Holders' = Holders /\ used' = used
    BY <1>2, <2>1 DEF SlotAccounting
  <2>2. CASE \E r \in Requests : /\ r \notin Holders /\ Holders' = Holders \cup {r}
                                 /\ used # Capacity /\ used' = used + 1
    <3>1. PICK r \in Requests : r \notin Holders /\ Holders' = Holders \cup {r}
      BY <2>2
    <3>2. Cardinality(Holders') = Cardinality(Holders) + 1
      BY <1>2, <3>1, FS_AddElement
    <3>3. used + 1 <= Capacity
      BY <1>0, <1>2, <2>2, ConstantsAssumption
    <3>4. QED
      BY <1>2, <2>2, <3>2, <3>3 DEF SlotAccounting
  <2>3. CASE \E r \in Requests : /\ r \in Holders /\ Holders' = Holders \ {r}
                                 /\ used' = IF used > 0 THEN used - 1 ELSE 0
    <3>1. PICK r \in Requests : r \in Holders /\ Holders' = Holders \ {r}
      BY <2>3
    <3>2. Cardinality(Holders') = Cardinality(Holders) - 1
      BY <1>2, <3>1, FS_RemoveElement
    <3>3. used > 0
      <4>1. Holders # {}
        BY <3>1
      <4>2. QED
        BY <1>0, <1>2, <4>1, FS_EmptySet
    <3>4. QED
      BY <1>0, <1>2, <2>3, <3>2, <3>3, ConstantsAssumption DEF SlotAccounting
  <2>4. QED
    BY <1>1, <2>1, <2>2, <2>3
<1>4. QED
  BY <1>0, <1>1, <1>3 DEF SlotInv

\* SlotPool (scheduler.rs) counts exactly the live permits and admits no more
\* than max_concurrent_requests, on every path a request can take.
THEOREM SlotsAccounted == Spec => []SlotAccounting
<1>1. Init => SlotInv
  BY InitSlots
<1>2. SlotInv /\ [Next]_vars => SlotInv'
  BY NextSlots
<1>3. SlotInv => SlotAccounting
  BY DEF SlotInv
<1>4. QED
  BY <1>1, <1>2, <1>3, PTL DEF Spec

\* The set-by-set form of ownership is the one the runs check.
LEMMA OwnershipIsSingle == Ownership => SingleOwner
<1> SUFFICES ASSUME Ownership PROVE SingleOwner
  OBVIOUS
<1> DEFINE P == OwnerPlaces
<1>1. /\ P[1] = Starting /\ P[2] = QueuedStarts(commands) /\ P[3] = worker.pending
      /\ P[4] = worker.ready /\ P[5] = worker.active /\ P[6] = Dropping
  BY DEF OwnerPlaces
<1> HIDE DEF P
<1>2. UNION {P[i] : i \in 1 .. 6} = P[1] \cup P[2] \cup P[3] \cup P[4] \cup P[5] \cup P[6]
  <2>1. 1 .. 6 = {1, 2, 3, 4, 5, 6}
    OBVIOUS
  <2>2. QED
    BY <2>1
<1>3. Holders = UNION {P[i] : i \in 1 .. 6}
  BY <1>1, <1>2 DEF Ownership, Owned
<1>4. ASSUME NEW i \in 1 .. 6, NEW j \in 1 .. 6, i # j
      PROVE  P[i] \cap P[j] = {}
  <2>1. /\ i \in {1, 2, 3, 4, 5, 6} /\ j \in {1, 2, 3, 4, 5, 6}
    OBVIOUS
  <2>2. QED
    BY <1>1, <1>4, <2>1 DEF Ownership, Owned
<1>5. QED
  BY <1>3, <1>4 DEF SingleOwner, P

\* A SlotPermit (scheduler.rs) is owned in exactly one place as it moves from
\* start through the channel and the worker's collections to its drop.
THEOREM PermitsSinglyOwned == Spec => []SingleOwner
<1>1. Init => SlotInv
  BY InitSlots
<1>2. SlotInv /\ [Next]_vars => SlotInv'
  BY NextSlots
<1>3. SlotInv => SingleOwner
  BY OwnershipIsSingle DEF SlotInv, OwnerInv
<1>4. QED
  BY <1>1, <1>2, <1>3, PTL DEF Spec
=============================================================================
