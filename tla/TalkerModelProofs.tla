------------------------- MODULE TalkerModelProofs -------------------------
(***************************************************************************)
(* Proofs about the pool of native sessions and the batch pump, for every  *)
(* number of requests, handles, pooled sessions, rows, frames and faults:  *)
(* no session is lost or owned twice, a request starts on a clean one, and *)
(* the pump holds exactly the requests whose threads are parked.           *)
(***************************************************************************)
EXTENDS TalkerModel, TLAPS, FiniteSetTheorems, SequenceTheorems

-----------------------------------------------------------------------------
(* The inductive invariant.                                                *)

\* What the batch stream executes: one call of at most MaxBatch rows.
Batches == {s \in Seq(Requests) : Len(s) <= MaxBatch}
Ops == [op : {"upload", "run"}, rows : Batches]

TypeInv == TypeOK /\ stream \in Seq(Ops)

\* What a thread's position in the code says about it and its session.
ThreadInv(r) ==
  LET t == thread[r] IN
  /\ t.handle = None <=> t.pc \in {"idle", "create"}
  /\ t.pc \in {"idle", "reset", "create", "prefill"} => ~t.recyclable /\ t.frames = 0
  /\ t.pc \in {"run", "parked", "leased", "recycle"} => t.recyclable
  /\ t.pc \in {"parked", "leased"} => t.frames < MaxFrames
  /\ t.pc \in {"reset", "prefill"} =>
       capacity[t.handle] >= Need[r] /\ t.handle \notin poisoned \cup lease
  /\ t.pc = "prefill" => t.handle \notin used

\* A session that may be recycled is clean, except that a frame may hold its
\* lease, and that a failed batch has poisoned it before its thread is told.
CleanInv(r) ==
  thread[r].recyclable =>
    /\ Handle(r) \in lease => At(r, "leased")
    /\ Handle(r) \in poisoned => pump.pc = "sync" /\ r \in Members

\* Only live handles carry state, and what is pooled can be used at once.
PoolInv ==
  /\ OneOwner /\ NothingLeaked
  /\ used \cup poisoned \cup lease \subseteq {h \in Handles : capacity[h] > 0}
  /\ pool \cap (poisoned \cup lease) = {}

\* The pump's batch and the channel hold the parked requests, each once.
QueueInv ==
  LET batch == pump.batch IN
  /\ \A i \in 1 .. Len(batch) : At(batch[i], "parked")
  /\ \A i \in 1 .. Len(channel) : At(channel[i], "parked")
  /\ \A r \in Requests : At(r, "parked") =>
       (\E i \in 1 .. Len(batch) : batch[i] = r) \/ (\E i \in 1 .. Len(channel) : channel[i] = r)
  /\ \A i, j \in 1 .. Len(batch) : i # j => batch[i] # batch[j]
  /\ \A i, j \in 1 .. Len(channel) : i # j => channel[i] # channel[j]
  /\ \A i \in 1 .. Len(batch), j \in 1 .. Len(channel) : batch[i] # channel[j]
  /\ Len(batch) <= MaxBatch
  /\ pump.pc \in {"recv", "closed"} => batch = <<>>

IInv ==
  /\ TypeInv /\ PoolInv /\ QueueInv
  /\ \A r \in Requests : ThreadInv(r) /\ CleanInv(r)

\* The queue as the properties see it.
LEMMA QueuedIsParked == TypeInv /\ QueueInv => PumpOwnsParked
<1> SUFFICES ASSUME TypeInv, QueueInv PROVE PumpOwnsParked
  OBVIOUS
<1> DEFINE batch == pump.batch
           queued == batch \o channel
<1>1. batch \in Seq(Requests) /\ channel \in Seq(Requests)
  BY DEF TypeInv, TypeOK, Pumps
<1>2. /\ queued \in Seq(Requests) /\ Len(queued) = Len(batch) + Len(channel)
      /\ \A i \in 1 .. Len(batch) + Len(channel) : queued[i] =
           IF i <= Len(batch) THEN batch[i] ELSE channel[i - Len(batch)]
  BY <1>1, ConcatProperties
<1>3. Len(batch) \in Nat /\ Len(channel) \in Nat
  BY <1>1
<1> HIDE DEF queued
<1>4. ASSUME NEW i \in 1 .. Len(queued) PROVE queued[i] \in {r \in Requests : At(r, "parked")}
  <2>1. i <= Len(batch) => i \in 1 .. Len(batch)
    BY <1>3
  <2>2. ~(i <= Len(batch)) => i - Len(batch) \in 1 .. Len(channel)
    BY <1>2, <1>3
  <2>3. queued[i] \in Requests
    BY <1>2
  <2>4. QED
    BY <1>2, <1>3, <2>1, <2>2, <2>3 DEF QueueInv
<1>5. ASSUME NEW r \in Requests, At(r, "parked")
      PROVE  \E i \in 1 .. Len(queued) : queued[i] = r
  <2>1. CASE \E i \in 1 .. Len(batch) : batch[i] = r
    <3>1. PICK i \in 1 .. Len(batch) : batch[i] = r
      BY <2>1
    <3>2. i \in 1 .. Len(queued) /\ queued[i] = r
      BY <1>2, <1>3, <3>1
    <3>3. QED
      BY <3>2
  <2>2. CASE \E i \in 1 .. Len(channel) : channel[i] = r
    <3>1. PICK i \in 1 .. Len(channel) : channel[i] = r
      BY <2>2
    <3>2. i + Len(batch) \in 1 .. Len(queued) /\ ~(i + Len(batch) <= Len(batch))
      BY <1>2, <1>3
    <3>3. i + Len(batch) - Len(batch) = i
      BY <1>3
    <3>4. queued[i + Len(batch)] = channel[i]
      BY <1>2, <3>2, <3>3, SMTT(60)
    <3>5. QED
      BY <3>1, <3>2, <3>4
  <2>3. QED
    BY <1>5, <2>1, <2>2 DEF QueueInv
<1>6. ASSUME NEW i \in 1 .. Len(queued), NEW j \in 1 .. Len(queued), i # j
      PROVE  queued[i] # queued[j]
  <2>1. \A k \in 1 .. Len(queued) :
          IF k <= Len(batch) THEN k \in 1 .. Len(batch) /\ queued[k] = batch[k]
          ELSE k - Len(batch) \in 1 .. Len(channel) /\ queued[k] = channel[k - Len(batch)]
    BY <1>2, <1>3
  <2>2. i - Len(batch) # j - Len(batch)
    BY <1>3, <1>6
  <2>3. CASE i <= Len(batch) /\ j <= Len(batch)
    <3>1. \A k, l \in 1 .. Len(batch) : k # l => batch[k] # batch[l]
      BY DEF QueueInv
    <3>2. i \in 1 .. Len(batch) /\ queued[i] = batch[i]
      BY <2>1, <2>3
    <3>3. j \in 1 .. Len(batch) /\ queued[j] = batch[j]
      BY <2>1, <2>3
    <3>4. QED
      BY <1>6, <3>1, <3>2, <3>3
  <2>4. CASE ~(i <= Len(batch)) /\ ~(j <= Len(batch))
    <3>1. \A k, l \in 1 .. Len(channel) : k # l => channel[k] # channel[l]
      BY DEF QueueInv
    <3>2. i - Len(batch) \in 1 .. Len(channel) /\ queued[i] = channel[i - Len(batch)]
      BY <2>1, <2>4
    <3>3. j - Len(batch) \in 1 .. Len(channel) /\ queued[j] = channel[j - Len(batch)]
      BY <2>1, <2>4
    <3>4. QED
      BY <2>2, <3>1, <3>2, <3>3
  <2>5. \A k \in 1 .. Len(batch), l \in 1 .. Len(channel) : batch[k] # channel[l]
    BY DEF QueueInv
  <2>6. CASE i <= Len(batch) /\ ~(j <= Len(batch))
    <3>1. i \in 1 .. Len(batch) /\ queued[i] = batch[i]
      BY <2>1, <2>6
    <3>2. j - Len(batch) \in 1 .. Len(channel) /\ queued[j] = channel[j - Len(batch)]
      BY <2>1, <2>6
    <3>3. QED
      BY <2>5, <3>1, <3>2
  <2>7. CASE ~(i <= Len(batch)) /\ j <= Len(batch)
    <3>1. j \in 1 .. Len(batch) /\ queued[j] = batch[j]
      BY <2>1, <2>7
    <3>2. i - Len(batch) \in 1 .. Len(channel) /\ queued[i] = channel[i - Len(batch)]
      BY <2>1, <2>7
    <3>3. QED
      BY <2>5, <3>1, <3>2
  <2>8. QED
    BY <2>3, <2>4, <2>6, <2>7
<1>7. {queued[i] : i \in 1 .. Len(queued)} = {r \in Requests : At(r, "parked")}
  BY <1>4, <1>5
<1>8. Len(batch) <= MaxBatch
  BY DEF QueueInv
<1>9. QED
  BY <1>6, <1>7, <1>8 DEF PumpOwnsParked, queued

\* A step that neither parks nor unparks a thread, and is none of the pump's.
LEMMA QueueKeeps ==
  ASSUME TypeInv, QueueInv, UNCHANGED pumpVars,
         \A r \in Requests : At(r, "parked")' <=> At(r, "parked")
  PROVE  QueueInv'
<1>1. pump.batch \in Seq(Requests) /\ channel \in Seq(Requests)
  BY DEF TypeInv, TypeOK, Pumps
<1>2. \A i \in 1 .. Len(pump.batch) : pump.batch[i] \in Requests
  BY <1>1
<1>3. \A i \in 1 .. Len(channel) : channel[i] \in Requests
  BY <1>1
<1>4. QED
  BY <1>2, <1>3 DEF QueueInv, pumpVars

LEMMA MembersAreParked ==
  ASSUME TypeInv, QueueInv
  PROVE  Members \subseteq {r \in Requests : At(r, "parked")}
<1>1. pump.batch \in Seq(Requests)
  BY DEF TypeInv, TypeOK, Pumps
<1>2. QED
  BY <1>1 DEF Members, QueueInv

\* A thread that a step leaves alone, and on whose session it puts nothing.
LEMMA OtherThread ==
  ASSUME NEW q \in Requests, ThreadInv(q), CleanInv(q), UNCHANGED <<thread[q], pump>>,
         Handle(q) # None =>
           /\ capacity'[Handle(q)] = capacity[Handle(q)]
           /\ Handle(q) \in used' => Handle(q) \in used
           /\ Handle(q) \in poisoned' => Handle(q) \in poisoned
           /\ Handle(q) \in lease' => Handle(q) \in lease
  PROVE  ThreadInv(q)' /\ CleanInv(q)'
<1>1. thread'[q] = thread[q] /\ pump' = pump
  OBVIOUS
<1>2. ThreadInv(q)'
  BY <1>1 DEF ThreadInv, Handle
<1>3. CleanInv(q)'
  <2>1. Members' = Members
    BY <1>1 DEF Members
  <2>2. thread[q].recyclable => Handle(q) # None
    BY DEF ThreadInv, Handle
  <2>3. QED
    BY <1>1, <2>1, <2>2 DEF CleanInv, Handle, At
<1>4. QED
  BY <1>2, <1>3

\* A step that leaves the handles of all threads as they are.
LEMMA SameHandles ==
  ASSUME TypeInv, PoolInv, \A q \in Requests : thread'[q].handle = thread[q].handle
  PROVE  Held' = Held /\ (pool' = pool => OneOwner')
  BY DEF PoolInv, OneOwner, Held, Handle

\* A step of one thread: the others keep their positions.
LEMMA OneThread ==
  ASSUME TypeInv, NEW r \in Requests, NEW t \in Threads, thread' = [thread EXCEPT ![r] = t]
  PROVE  /\ thread' \in [Requests -> Threads] /\ thread'[r] = t
         /\ \A q \in Requests : q # r => thread'[q] = thread[q]
<1>1. thread \in [Requests -> Threads]
  BY DEF TypeInv, TypeOK
<1>2. QED
  BY <1>1

\* A step that only moves one thread on.
LEMMA Moves ==
  ASSUME TypeInv, NEW r \in Requests,
         NEW pc \in {"idle", "reset", "create", "prefill", "run", "parked", "leased", "failed",
                     "recycle", "destroy"},
         thread' = [thread EXCEPT ![r].pc = pc]
  PROVE  /\ thread' \in [Requests -> Threads]
         /\ thread'[r].pc = pc
         /\ \A q \in Requests : q # r => thread'[q] = thread[q]
         /\ \A q \in Requests : thread'[q].handle = thread[q].handle
<1> DEFINE t == [thread[r] EXCEPT !.pc = pc]
<1>1. thread[r] \in Threads
  BY DEF TypeInv, TypeOK
<1>2. t \in Threads /\ t.pc = pc /\ t.handle = thread[r].handle
  BY <1>1 DEF Threads
<1>3. thread' = [thread EXCEPT ![r] = t]
  OBVIOUS
<1> HIDE DEF t
<1>4. QED
  BY <1>2, <1>3, OneThread

LEMMA NoHandle == None \notin Handles
  BY ModelAssumption DEF None

\* A thread that had no session is given h.
LEMMA HandleTaken ==
  ASSUME NEW r \in Requests, NEW h \in Handles, thread[r].handle = None, thread'[r].handle = h,
         \A q \in Requests : q # r => thread'[q] = thread[q]
  PROVE  Held' = Held \cup {h}
<1>1. h # None
  BY NoHandle
<1> DEFINE had(q) == thread[q].handle
           has(q) == thread'[q].handle
<1>2. had(r) = None /\ has(r) = h /\ \A q \in Requests : q # r => has(q) = had(q)
  OBVIOUS
<1>3. Held = {had(q) : q \in Requests} \ {None} /\ Held' = {has(q) : q \in Requests} \ {None}
  BY DEF Held, Handle
<1> HIDE DEF had, has
<1>4. QED
  BY <1>1, <1>2, <1>3

\* A step of a thread that was not parked, and is not afterwards.
LEMMA QueueOfOthers ==
  ASSUME TypeInv, QueueInv, NEW r \in Requests, thread[r].pc # "parked", thread'[r].pc # "parked",
         \A q \in Requests : q # r => thread'[q] = thread[q], UNCHANGED pumpVars
  PROVE  QueueInv'
<1>1. \A q \in Requests : At(q, "parked")' <=> At(q, "parked")
  BY DEF At
<1>2. QED
  BY <1>1, QueueKeeps

-----------------------------------------------------------------------------
(* Sessions.                                                               *)

\* acquire_session finds a session that fits, or leaves the pool alone.
LEMMA TakeInv ==
  ASSUME IInv, NEW r \in Requests, Take(r)
  PROVE  IInv'
<1> USE DEF At, Handle
<1>0. TypeInv /\ PoolInv /\ ThreadInv(r) /\ At(r, "idle")
  BY DEF IInv, Take
<1>1. CASE Adequate(Need[r]) = {}
  <2>1. /\ thread' = [thread EXCEPT ![r].pc = "create"]
        /\ UNCHANGED <<startFrame, pool, capacity, used, poisoned, lease, faults>>
    BY <1>1 DEF Take, Goto
  <2>2. TypeInv'
    <3>1. thread' \in [Requests -> Threads]
      BY <1>0, <2>1, Moves
    <3>2. QED
      BY <1>0, <2>1, <3>1 DEF TypeInv, TypeOK, startFrame, pumpVars, batchVars
  <2>3. PoolInv'
    BY <1>0, <2>1 DEF PoolInv, OneOwner, NothingLeaked, Held, TypeInv, TypeOK, Threads
  <2>4. QueueInv'
    BY <1>0, <2>1, QueueKeeps DEF IInv, TypeInv, TypeOK, Threads, startFrame
  <2>5. ASSUME NEW q \in Requests PROVE ThreadInv(q)' /\ CleanInv(q)'
    BY <1>0, <2>1 DEF IInv, ThreadInv, CleanInv, Members, TypeInv, TypeOK, Threads,
       startFrame, pumpVars
  <2>6. QED
    BY <2>2, <2>3, <2>4, <2>5 DEF IInv
<1>2. CASE Adequate(Need[r]) # {}
  <2>1. PICK h \in Adequate(Need[r]) :
          /\ pool' = pool \ {h}
          /\ thread' = [thread EXCEPT ![r].handle = h, ![r].pc = "reset"]
    BY <1>2 DEF Take, SwapRemove
  <2>2. UNCHANGED <<startFrame, capacity, used, poisoned, lease, faults>>
    BY DEF Take
  <2>3. h \in pool /\ h \in Handles /\ capacity[h] >= Need[r] /\ h \notin poisoned \cup lease
    BY <1>0 DEF Adequate, PoolInv, TypeInv, TypeOK
  <2> DEFINE t == [thread[r] EXCEPT !.handle = h, !.pc = "reset"]
  <2>a. thread[r] \in Threads /\ thread' = [thread EXCEPT ![r] = t]
    BY <1>0, <2>1 DEF TypeInv, TypeOK
  <2>b. t \in Threads /\ t.handle = h /\ t.pc = "reset"
    BY <2>3, <2>a DEF Threads
  <2> HIDE DEF t
  <2>c. /\ thread' \in [Requests -> Threads] /\ thread'[r] = t
        /\ \A q \in Requests : q # r => thread'[q] = thread[q]
    BY <1>0, <2>a, <2>b, OneThread
  <2>4. TypeInv'
    BY <1>0, <2>1, <2>2, <2>c DEF TypeInv, TypeOK, startFrame, pumpVars, batchVars
  <2>5. PoolInv'
    <3>1. Held' = Held \cup {h}
      <4>1. thread[r].handle = None
        BY <1>0 DEF ThreadInv
      <4>2. QED
        BY <2>3, <2>b, <2>c, <4>1, HandleTaken
    <3>2. OneOwner'
      BY <1>0, <2>1, <2>3, <3>1 DEF PoolInv, OneOwner, Held, TypeInv, TypeOK, Threads
    <3>3. NothingLeaked'
      <4>1. IsFiniteSet(pool)
        BY <1>0, ModelAssumption, FS_Subset DEF TypeInv, TypeOK
      <4>2. Cardinality(pool') <= Cardinality(pool)
        BY <2>1, <4>1, FS_Subset
      <4>3. Cardinality(pool) \in Nat /\ Cardinality(pool') \in Nat
        BY <2>1, <4>1, FS_Subset, FS_CardinalityType
      <4>4. QED
        BY <1>0, <2>1, <2>2, <2>3, <3>1, <4>2, <4>3, ModelAssumption DEF PoolInv, NothingLeaked
    <3>4. QED
      BY <1>0, <2>1, <2>2, <3>2, <3>3 DEF PoolInv
  <2>6. QueueInv'
    BY <1>0, <2>2, <2>b, <2>c, QueueOfOthers DEF IInv, startFrame
  <2>7. ASSUME NEW q \in Requests PROVE ThreadInv(q)' /\ CleanInv(q)'
    BY <1>0, <2>1, <2>2, <2>3, ModelAssumption, SMTT(60) DEF IInv, ThreadInv, CleanInv, Members, None,
       TypeInv, TypeOK, Threads, startFrame, pumpVars
  <2>8. QED
    BY <2>4, <2>5, <2>6, <2>7 DEF IInv
<1>3. QED
  BY <1>1, <1>2

\* A thread that gives its session up is the only one to have had it.
LEMMA GivenUp ==
  ASSUME TypeInv, PoolInv, NEW r \in Requests, thread' = [thread EXCEPT ![r] = Idle]
  PROVE  Held' = Held \ {Handle(r)}
  BY DEF TypeInv, TypeOK, Threads, PoolInv, OneOwner, Held, Handle, Idle

\* destroy_session, wherever it is called: the handle of r is gone.
LEMMA DestroyInv ==
  ASSUME IInv, NEW r \in Requests, Handle(r) # None, ~At(r, "parked"), Destroy(Handle(r)),
         thread' = [thread EXCEPT ![r] = Idle], registered' \in SUBSET Requests,
         faults' \in 0 .. MaxFaults, UNCHANGED <<pool, pumpVars, engine, batchVars>>
  PROVE  IInv'
<1> USE DEF At, Handle
<1>0. TypeInv /\ PoolInv
  BY DEF IInv
<1>1. TypeInv'
  <2>1. Idle \in Threads
    BY ModelAssumption DEF Idle, Threads
  <2>2. QED
    BY <1>0, <2>1 DEF TypeInv, TypeOK, Destroy, pumpVars, batchVars
<1>2. PoolInv'
  <2>1. Held' = Held \ {Handle(r)} /\ Handle(r) \in Held
    BY <1>0, GivenUp DEF Held
  <2>2. Handle(r) \notin pool /\ Handle(r) \in Handles
    BY <1>0, <2>1 DEF PoolInv, OneOwner, Held, TypeInv, TypeOK, Threads
  <2>3. OneOwner'
    BY <1>0, <2>1 DEF PoolInv, OneOwner, Idle, TypeInv, TypeOK, Threads
  <2>4. \A h \in Handles : capacity'[h] = IF h = Handle(r) THEN 0 ELSE capacity[h]
    BY <1>0 DEF Destroy, TypeInv, TypeOK
  <2>5. NothingLeaked'
    BY <1>0, <2>1, <2>2, <2>4 DEF PoolInv, NothingLeaked
  <2>6. QED
    BY <1>0, <2>1, <2>2, <2>3, <2>4, <2>5 DEF PoolInv, Destroy
<1>3. QueueInv'
  BY <1>0, QueueKeeps DEF IInv, TypeInv, TypeOK, Threads, Idle
<1>4. ASSUME NEW q \in Requests PROVE ThreadInv(q)' /\ CleanInv(q)'
  <2>1. CASE q = r
    BY <1>0, <2>1 DEF ThreadInv, CleanInv, Idle, TypeInv, TypeOK
  <2>2. CASE q # r
    <3>1. UNCHANGED <<thread[q], pump>>
      BY <1>0, <2>2 DEF TypeInv, TypeOK, pumpVars
    <3>2. Handle(q) # Handle(r)
      BY <1>0, <2>2 DEF PoolInv, OneOwner
    <3>3. Handle(q) # None => Handle(q) \in Handles
      BY <1>0 DEF TypeInv, TypeOK, Threads
    <3>4. Handle(q) # None => capacity'[Handle(q)] = capacity[Handle(q)]
      BY <1>0, <3>2, <3>3 DEF Destroy, TypeInv, TypeOK
    <3>5. ThreadInv(q) /\ CleanInv(q)
      BY DEF IInv
    <3>6. ThreadInv(q)'
      BY <3>1, <3>2, <3>4, <3>5 DEF ThreadInv, Destroy
    <3>7. CleanInv(q)'
      BY <3>1, <3>5 DEF CleanInv, Members, Destroy
    <3>8. QED
      BY <3>6, <3>7
  <2>3. QED
    BY <2>1, <2>2
<1>5. QED
  BY <1>1, <1>2, <1>3, <1>4 DEF IInv

LEMMA ResetInv ==
  ASSUME IInv, NEW r \in Requests, Reset(r)
  PROVE  IInv'
<1> USE DEF At, Handle
<1>0. TypeInv /\ PoolInv /\ ThreadInv(r) /\ At(r, "reset")
  BY DEF IInv, Reset
<1>1. Handle(r) # None
  BY <1>0 DEF ThreadInv
<1>2. CASE Handle(r) \notin lease /\ Goto(r, "prefill")
  <2>1. /\ thread' = [thread EXCEPT ![r].pc = "prefill"] /\ used' \subseteq used
        /\ used' = used \ {Handle(r)} \/ used' = used
        /\ UNCHANGED <<startFrame, pool, lease>>
    BY <1>2 DEF Reset, Goto, Destroy, Idle
  <2>2. /\ used' = used \ {Handle(r)}
        /\ UNCHANGED <<capacity, poisoned, faults>>
    <3>1. CASE thread' = [thread EXCEPT ![r] = Idle]
      BY <1>0, <2>1, <3>1 DEF Idle, TypeInv, TypeOK, Threads
    <3>2. QED
      BY <3>1 DEF Reset, NoFault
  <2>3. TypeInv'
    <3>1. thread' \in [Requests -> Threads]
      BY <1>0, <2>1, Moves
    <3>2. QED
      BY <1>0, <2>1, <2>2, <3>1 DEF TypeInv, TypeOK, startFrame, pumpVars, batchVars
  <2>4. PoolInv'
    BY <1>0, <2>1, <2>2 DEF PoolInv, OneOwner, NothingLeaked, Held, TypeInv, TypeOK, Threads
  <2>5. QueueInv'
    BY <1>0, <2>1, QueueKeeps DEF IInv, TypeInv, TypeOK, Threads, startFrame
  <2>6. ASSUME NEW q \in Requests PROVE ThreadInv(q)' /\ CleanInv(q)'
    BY <1>0, <2>1, <2>2 DEF IInv, ThreadInv, CleanInv, Members, TypeInv, TypeOK, Threads,
       startFrame, pumpVars
  <2>7. QED
    BY <2>3, <2>4, <2>5, <2>6 DEF IInv
<1>3. CASE Destroy(Handle(r)) /\ thread' = [thread EXCEPT ![r] = Idle]
  <2>1. faults' \in 0 .. MaxFaults
    BY <1>0, ModelAssumption DEF Reset, Fault, NoFault, TypeInv, TypeOK
  <2>2. QED
    BY <1>0, <1>1, <1>3, <2>1, DestroyInv DEF Reset, startFrame, TypeInv, TypeOK
<1>4. QED
  BY <1>2, <1>3 DEF Reset

\* The handles suffice for a full pool and a session of every thread.
LEMMA HandleIsFree ==
  ASSUME TypeInv, PoolInv, NEW r \in Requests, Handle(r) = None
  PROVE  \E h \in Handles : capacity[h] = 0
<1> DEFINE owners == {q \in Requests : Handle(q) # None}
           owned == [q \in owners |-> Handle(q)]
<1>1. IsFiniteSet(owners) /\ Cardinality(owners) < Cardinality(Requests)
  <2>1. r \in Requests /\ r \notin owners /\ owners \subseteq Requests
    OBVIOUS
  <2>2. /\ IsFiniteSet(owners) /\ Cardinality(owners) <= Cardinality(Requests)
        /\ Cardinality(Requests) = Cardinality(owners) => Requests = owners
    BY <2>1, ModelAssumption, FS_Subset
  <2>3. Cardinality(Requests) \in Nat /\ Cardinality(owners) \in Nat
    BY <2>2, ModelAssumption, FS_CardinalityType
  <2>4. QED
    BY <2>1, <2>2, <2>3
<1>2. IsFiniteSet(Held) /\ Cardinality(Held) <= Cardinality(owners)
  <2>1. owned \in Surjection(owners, Held)
    BY DEF Surjection, Held
  <2>2. QED
    BY <1>1, <2>1, FS_Surjection
<1>3. IsFiniteSet(pool) /\ Cardinality(pool) <= MaxPooled
  BY ModelAssumption, FS_Subset DEF TypeInv, TypeOK, PoolInv, NothingLeaked
<1>4. /\ IsFiniteSet(pool \cup Held)
      /\ Cardinality(pool \cup Held) <= Cardinality(pool) + Cardinality(Held)
  <2>1. /\ IsFiniteSet(pool \cup Held)
        /\ Cardinality(pool \cup Held) =
             Cardinality(pool) + Cardinality(Held) - Cardinality(pool \cap Held)
    BY <1>2, <1>3, FS_Union
  <2>2. IsFiniteSet(pool \cap Held)
    BY <1>3, FS_Intersection
  <2>3. /\ Cardinality(pool) \in Nat /\ Cardinality(Held) \in Nat
        /\ Cardinality(pool \cap Held) \in Nat
    BY <1>2, <1>3, <2>2, FS_CardinalityType
  <2>4. QED
    BY <2>1, <2>3
<1>5. pool \cup Held # Handles
  <2>1. /\ Cardinality(pool) \in Nat /\ Cardinality(Held) \in Nat
        /\ Cardinality(owners) \in Nat /\ Cardinality(Requests) \in Nat
        /\ Cardinality(pool \cup Held) \in Nat /\ Cardinality(Handles) \in Nat
    BY <1>1, <1>2, <1>3, <1>4, ModelAssumption, FS_CardinalityType
  <2>2. Cardinality(pool \cup Held) < Cardinality(Handles)
    BY <1>1, <1>2, <1>3, <1>4, <2>1, ModelAssumption
  <2>3. Cardinality(pool \cup Held) # Cardinality(Handles)
    BY <2>1, <2>2
  <2>4. QED
    BY <2>3, Zenon
<1>6. QED
  <2>1. {h \in Handles : capacity[h] > 0} # Handles
    BY <1>5 DEF PoolInv, NothingLeaked
  <2>2. PICK h \in Handles : ~(capacity[h] > 0)
    BY <2>1
  <2>3. capacity[h] \in Nat
    BY DEF TypeInv, TypeOK
  <2>4. QED
    BY <2>2, <2>3

LEMMA CreateInv ==
  ASSUME IInv, NEW r \in Requests, Create(r)
  PROVE  IInv'
<1> USE DEF At, Handle
<1>0. TypeInv /\ PoolInv /\ ThreadInv(r) /\ At(r, "create")
  BY DEF IInv, Create
<1>1. UNCHANGED <<startFrame, pool, used, poisoned, lease>>
  BY DEF Create
<1> DEFINE free == CHOOSE g \in Handles : capacity[g] = 0
           Created == /\ capacity' = [capacity EXCEPT ![free] = Need[r]]
                      /\ thread' = [thread EXCEPT ![r].handle = free, ![r].pc = "prefill"]
<1>2. \/ NoFault /\ Created
      \/ Fault /\ thread' = [thread EXCEPT ![r] = Idle] /\ UNCHANGED capacity
  BY DEF Create
<1> HIDE DEF free
<1>3. CASE Fault /\ thread' = [thread EXCEPT ![r] = Idle] /\ UNCHANGED capacity
  <2>1. TypeInv'
    <3>1. Idle \in Threads
      BY ModelAssumption DEF Idle, Threads
    <3>2. thread' \in [Requests -> Threads]
      BY <1>0, <1>3, <3>1, OneThread
    <3>3. faults' \in 0 .. MaxFaults
      BY <1>0, <1>3, ModelAssumption DEF Fault, TypeInv, TypeOK
    <3>4. QED
      BY <1>0, <1>1, <1>3, <3>2, <3>3 DEF TypeInv, TypeOK, startFrame, pumpVars, batchVars
  <2>2. Held' = Held
    BY <1>0, <1>3, GivenUp DEF Held, ThreadInv
  <2>3. PoolInv'
    BY <1>0, <1>1, <1>3, <2>2 DEF PoolInv, OneOwner, NothingLeaked, TypeInv, TypeOK, Threads, Idle
  <2>4. ASSUME NEW q \in Requests PROVE ThreadInv(q)' /\ CleanInv(q)'
    <3>1. ThreadInv(q) /\ CleanInv(q) /\ pump' = pump
      BY <1>1 DEF IInv, startFrame, pumpVars
    <3>2. CASE q = r
      <4>1. thread'[q] = Idle
        BY <1>0, <1>3, <3>2 DEF TypeInv, TypeOK
      <4>2. QED
        BY <4>1 DEF ThreadInv, CleanInv, Idle
    <3>3. CASE q # r
      <4>1. thread'[q] = thread[q]
        BY <1>0, <1>3, <3>3 DEF TypeInv, TypeOK
      <4>2. QED
        BY <1>1, <1>3, <3>1, <4>1, OtherThread
    <3>4. QED
      BY <3>2, <3>3
  <2>5. QueueInv'
    BY <1>0, <1>1, <1>3, QueueKeeps DEF IInv, TypeInv, TypeOK, Threads, Idle, startFrame
  <2>6. QED
    BY <2>1, <2>3, <2>4, <2>5 DEF IInv
<1>4. CASE NoFault /\ Created
  <2>1. PICK h \in Handles : /\ capacity[h] = 0 /\ capacity' = [capacity EXCEPT ![h] = Need[r]]
                             /\ thread' = [thread EXCEPT ![r].handle = h, ![r].pc = "prefill"]
    <3>1. \E h \in Handles : capacity[h] = 0
      BY <1>0, HandleIsFree DEF ThreadInv
    <3>2. free \in Handles /\ capacity[free] = 0
      BY <3>1 DEF free
    <3>3. QED
      BY <1>4, <3>2
  <2>2. Need[r] \in Nat /\ Need[r] > 0
    BY ModelAssumption
  <2>3. h \notin used \cup poisoned \cup lease \cup pool \cup Held
    BY <1>0, <2>1 DEF PoolInv, NothingLeaked
  <2>4. \A g \in Handles : capacity'[g] = IF g = h THEN Need[r] ELSE capacity[g]
    BY <1>0, <2>1 DEF TypeInv, TypeOK
  <2> DEFINE t == [thread[r] EXCEPT !.handle = h, !.pc = "prefill"]
  <2>a. thread[r] \in Threads /\ thread' = [thread EXCEPT ![r] = t]
    BY <1>0, <2>1 DEF TypeInv, TypeOK
  <2>b. t \in Threads /\ t.handle = h /\ t.pc = "prefill"
    BY <2>a DEF Threads
  <2> HIDE DEF t
  <2>c. /\ thread' \in [Requests -> Threads] /\ thread'[r] = t
        /\ \A q \in Requests : q # r => thread'[q] = thread[q]
    BY <1>0, <2>a, <2>b, OneThread
  <2>5. TypeInv'
    <3>1. capacity' \in [Handles -> Nat]
      BY <1>0, <2>1, <2>2 DEF TypeInv, TypeOK
    <3>2. QED
      BY <1>0, <1>1, <1>4, <2>c, <3>1 DEF TypeInv, TypeOK, NoFault, startFrame, pumpVars,
         batchVars
  <2>6. Held' = Held \cup {h}
    <3>1. thread[r].handle = None
      BY <1>0 DEF ThreadInv
    <3>2. QED
      BY <2>b, <2>c, <3>1, HandleTaken
  <2>7. PoolInv'
    <3>1. OneOwner'
      BY <1>0, <1>1, <2>1, <2>3, <2>6 DEF PoolInv, OneOwner, Held, TypeInv, TypeOK, Threads
    <3>2. NothingLeaked'
      BY <1>0, <1>1, <2>1, <2>2, <2>4, <2>6 DEF PoolInv, NothingLeaked
    <3>3. (used \cup poisoned \cup lease)' \subseteq {g \in Handles : capacity'[g] > 0}
      BY <1>0, <1>1, <2>2, <2>4 DEF PoolInv
    <3>4. QED
      BY <1>0, <1>1, <3>1, <3>2, <3>3 DEF PoolInv
  <2>8. ASSUME NEW q \in Requests PROVE ThreadInv(q)' /\ CleanInv(q)'
    <3>1. CASE q = r
      BY <1>0, <1>1, <2>1, <2>2, <2>3, <2>4, <3>1, ModelAssumption DEF ThreadInv, CleanInv, None,
         TypeInv, TypeOK, Threads
    <3>2. CASE q # r
      <4>1. Handle(q) # None => Handle(q) \in Held /\ Handle(q) \in Handles
        BY <1>0 DEF Held, TypeInv, TypeOK, Threads
      <4>2. thread'[q] = thread[q]
        BY <1>0, <2>1, <3>2 DEF TypeInv, TypeOK
      <4>3. Handle(q) # None => capacity'[Handle(q)] = capacity[Handle(q)]
        BY <2>3, <2>4, <4>1
      <4>4. ThreadInv(q) /\ CleanInv(q)
        BY DEF IInv
      <4>5. ThreadInv(q)'
        BY <1>1, <4>2, <4>3, <4>4 DEF ThreadInv
      <4>6. CleanInv(q)'
        BY <1>1, <4>2, <4>4 DEF CleanInv, Members, startFrame, pumpVars
      <4>7. QED
        BY <4>5, <4>6
    <3>3. QED
      BY <3>1, <3>2
  <2>9. QueueInv'
    BY <1>0, <1>1, <2>b, <2>c, QueueOfOthers DEF IInv, startFrame
  <2>10. QED
    BY <2>5, <2>7, <2>8, <2>9 DEF IInv
<1>5. QED
  BY <1>2, <1>3, <1>4

\* The session becomes recyclable with a prefill that has succeeded.
LEMMA PrefillInv ==
  ASSUME IInv, NEW r \in Requests, Prefill(r)
  PROVE  IInv'
<1> USE DEF At, Handle
<1>0. TypeInv /\ PoolInv /\ ThreadInv(r) /\ At(r, "prefill") /\ Handle(r) \in Handles
  BY DEF IInv, Prefill, ThreadInv, TypeInv, TypeOK, Threads
<1>1. /\ used' = used \cup {Handle(r)}
      /\ UNCHANGED <<pumpVars, engine, batchVars, pool, capacity, poisoned, lease>>
  BY DEF Prefill
<1>2. \/ /\ thread' = [thread EXCEPT ![r].pc = "run", ![r].recyclable = TRUE]
         /\ Handle(r) \notin poisoned \cup lease /\ registered' = registered \cup {r}
      \/ thread' = [thread EXCEPT ![r].pc = "failed"] /\ UNCHANGED registered
  BY DEF Prefill, Goto, Register
<1>3. faults' \in 0 .. MaxFaults
  BY <1>0, ModelAssumption DEF Prefill, Fault, NoFault, TypeInv, TypeOK
<1>4. TypeInv'
  <2>1. thread' \in [Requests -> Threads]
    <3>1. thread \in [Requests -> Threads]
      BY <1>0 DEF TypeInv, TypeOK
    <3>2. QED
      BY <1>2, <3>1 DEF Threads
  <2>2. QED
    BY <1>0, <1>1, <1>2, <1>3, <2>1 DEF TypeInv, TypeOK, pumpVars, batchVars
<1>5. PoolInv'
  <2>1. \A q \in Requests : thread'[q].handle = thread[q].handle
    <3>1. thread \in [Requests -> Threads]
      BY <1>0 DEF TypeInv, TypeOK
    <3>2. QED
      BY <1>2, <3>1 DEF Threads
  <2>2. Handle(r) \in Held
    BY <1>0 DEF Held, ThreadInv
  <2>3. Held' = Held /\ OneOwner'
    BY <1>0, <1>1, <2>1 DEF PoolInv, OneOwner, Held
  <2>4. QED
    BY <1>0, <1>1, <2>2, <2>3 DEF PoolInv, NothingLeaked
<1>6. QueueInv'
  <2>1. thread \in [Requests -> Threads]
    BY <1>0 DEF TypeInv, TypeOK
  <2>2. thread[r].pc # "parked" /\ thread'[r].pc # "parked"
    BY <1>0, <1>2, <2>1 DEF Threads
  <2>3. \A q \in Requests : q # r => thread'[q] = thread[q]
    BY <1>2, <2>1
  <2>4. QED
    BY <1>0, <1>1, <2>2, <2>3, QueueOfOthers DEF IInv
<1>7. ASSUME NEW q \in Requests PROVE ThreadInv(q)' /\ CleanInv(q)'
  <2>1. q # r => Handle(q) # Handle(r)
    BY <1>0 DEF PoolInv, OneOwner, ThreadInv
  <2>2. CASE q # r
    <3>1. ThreadInv(q) /\ CleanInv(q) /\ thread'[q] = thread[q] /\ pump' = pump
      BY <1>0, <1>1, <1>2, <2>2 DEF IInv, TypeInv, TypeOK, pumpVars
    <3>2. QED
      BY <1>1, <2>1, <2>2, <3>1, OtherThread
  <2>3. CASE q = r
    <3>1. thread \in [Requests -> Threads]
      BY <1>0 DEF TypeInv, TypeOK
    <3>2. QED
      BY <1>0, <1>1, <1>2, <2>3, <3>1 DEF ThreadInv, CleanInv, Threads
  <2>4. QED
    BY <2>2, <2>3
<1>8. QED
  BY <1>4, <1>5, <1>6, <1>7 DEF IInv

\* A session is given up only after its last frame has ended.
LEMMA DropInv ==
  ASSUME IInv, NEW r \in Requests, Drop(r)
  PROVE  IInv'
<1> USE DEF At, Handle
<1>0. TypeInv /\ PoolInv /\ ThreadInv(r) /\ thread[r].pc \in {"run", "failed"}
  BY DEF IInv, Drop
<1>1. /\ thread' = [thread EXCEPT ![r].pc = IF thread[r].recyclable THEN "recycle" ELSE "destroy"]
      /\ UNCHANGED <<startFrame, poolVars, poisoned, lease, faults>>
  BY DEF Drop, Goto
<1> DEFINE pc == IF thread[r].recyclable THEN "recycle" ELSE "destroy"
<1>a. pc \in {"recycle", "destroy"} /\ thread' = [thread EXCEPT ![r].pc = pc]
  BY <1>1
<1> HIDE DEF pc
<1>b. /\ thread' \in [Requests -> Threads] /\ thread'[r].pc = pc
      /\ \A q \in Requests : q # r => thread'[q] = thread[q]
      /\ \A q \in Requests : thread'[q].handle = thread[q].handle
  BY <1>0, <1>a, Moves
<1>2. TypeInv'
  BY <1>0, <1>1, <1>b DEF TypeInv, TypeOK, startFrame, pumpVars, batchVars, poolVars
<1>3. PoolInv'
  <2>1. Held' = Held /\ OneOwner'
    BY <1>0, <1>1, <1>b DEF PoolInv, OneOwner, Held, poolVars
  <2>2. QED
    BY <1>0, <1>1, <2>1 DEF PoolInv, NothingLeaked, poolVars
<1>4. QueueInv'
  BY <1>0, <1>1, <1>a, <1>b, QueueOfOthers DEF IInv, startFrame
<1>5. ASSUME NEW q \in Requests PROVE ThreadInv(q)' /\ CleanInv(q)'
  <2>1. ThreadInv(q) /\ CleanInv(q) /\ thread \in [Requests -> Threads]
    BY <1>0 DEF IInv, TypeInv, TypeOK
  <2>2. UNCHANGED <<pump, capacity, used, poisoned, lease>>
    BY <1>1 DEF startFrame, pumpVars, poolVars
  <2>3. CASE q # r
    BY <1>1, <2>1, <2>2, <2>3, OtherThread
  <2>4. CASE q = r
    BY <1>0, <1>1, <2>1, <2>2, <2>4 DEF ThreadInv, CleanInv, Members, Threads
  <2>5. QED
    BY <2>3, <2>4
<1>6. QED
  BY <1>2, <1>3, <1>4, <1>5 DEF IInv

\* recycle_session: what goes back to the pool has no lease and is not
\* poisoned, and the pool stays within its limit.
LEMMA RecycleInv ==
  ASSUME IInv, NEW r \in Requests, Recycle(r)
  PROVE  IInv'
<1> USE DEF At, Handle
<1>0. /\ TypeInv /\ PoolInv /\ QueueInv /\ ThreadInv(r) /\ CleanInv(r) /\ At(r, "recycle")
      /\ Handle(r) \in Handles /\ Handle(r) # None
  BY DEF IInv, Recycle, ThreadInv, TypeInv, TypeOK, Threads
<1>1. UNCHANGED <<pumpVars, engine, batchVars, capacity, used, poisoned, lease, faults>>
  BY DEF Recycle
<1>2. CASE HasRoom
  <2>1. /\ pool' = pool \cup {Handle(r)} /\ thread' = [thread EXCEPT ![r] = Idle]
        /\ registered' = registered \ {r}
    BY <1>2 DEF Recycle, Dropped
  <2>2. Handle(r) \notin poisoned \cup lease
    BY <1>0, MembersAreParked DEF ThreadInv, CleanInv
  <2>3. TypeInv'
    <3>1. Idle \in Threads
      BY ModelAssumption DEF Idle, Threads
    <3>2. thread' \in [Requests -> Threads]
      BY <1>0, <2>1, <3>1, OneThread
    <3>3. QED
      BY <1>0, <1>1, <2>1, <3>2 DEF TypeInv, TypeOK, pumpVars, batchVars
  <2>4. PoolInv'
    <3>1. Held' = Held \ {Handle(r)} /\ Handle(r) \in Held
      BY <1>0, <2>1, GivenUp DEF Held
    <3>2. OneOwner'
      BY <1>0, <2>1, <3>1 DEF PoolInv, OneOwner, Idle, TypeInv, TypeOK, Threads
    <3>3. Cardinality(pool') <= MaxPooled
      <4>1. IsFiniteSet(pool)
        BY <1>0, ModelAssumption, FS_Subset DEF TypeInv, TypeOK
      <4>2. Cardinality(pool) \in Nat
        BY <4>1, FS_CardinalityType
      <4>3. Cardinality(pool') <= Cardinality(pool) + 1
        <5>1. Cardinality(pool') =
                IF Handle(r) \in pool THEN Cardinality(pool) ELSE Cardinality(pool) + 1
          BY <2>1, <4>1, FS_AddElement
        <5>2. QED
          BY <4>2, <5>1
      <4>4. Cardinality(pool') \in Nat
        BY <2>1, <4>1, FS_AddElement, FS_CardinalityType
      <4>5. QED
        BY <1>2, <4>2, <4>3, <4>4, ModelAssumption DEF HasRoom
    <3>4. NothingLeaked'
      BY <1>0, <1>1, <2>1, <3>1, <3>3 DEF PoolInv, NothingLeaked
    <3>5. QED
      BY <1>0, <1>1, <2>1, <2>2, <3>2, <3>4 DEF PoolInv
  <2>5. QueueInv'
    BY <1>0, <1>1, <2>1, QueueKeeps DEF IInv, TypeInv, TypeOK, Threads, Idle
  <2>6. ASSUME NEW q \in Requests PROVE ThreadInv(q)' /\ CleanInv(q)'
    BY <1>0, <1>1, <2>1 DEF IInv, ThreadInv, CleanInv, Members, TypeInv, TypeOK, Threads, Idle,
       pumpVars
  <2>7. QED
    BY <2>3, <2>4, <2>5, <2>6 DEF IInv
<1>3. CASE ~HasRoom
  <2>1. thread' = [thread EXCEPT ![r].pc = "destroy"] /\ UNCHANGED <<pool, registered>>
    BY <1>3 DEF Recycle, Goto
  <2>2. TypeInv'
    <3>1. thread' \in [Requests -> Threads]
      BY <1>0, <2>1, Moves
    <3>2. QED
      BY <1>0, <1>1, <2>1, <3>1 DEF TypeInv, TypeOK, pumpVars, batchVars
  <2>3. PoolInv'
    <3>1. \A q \in Requests : thread'[q].handle = thread[q].handle
      BY <1>0, <2>1 DEF TypeInv, TypeOK, Threads
    <3>2. Held' = Held /\ OneOwner'
      BY <1>0, <2>1, <3>1 DEF PoolInv, OneOwner, Held
    <3>3. QED
      BY <1>0, <1>1, <2>1, <3>2 DEF PoolInv, NothingLeaked
  <2>4. QueueInv'
    BY <1>0, <1>1, <2>1, QueueKeeps DEF IInv, TypeInv, TypeOK, Threads
  <2>5. ASSUME NEW q \in Requests PROVE ThreadInv(q)' /\ CleanInv(q)'
    BY <1>0, <1>1, <2>1 DEF IInv, ThreadInv, CleanInv, Members, TypeInv, TypeOK, Threads, pumpVars
  <2>6. QED
    BY <2>2, <2>3, <2>4, <2>5 DEF IInv
<1>4. QED
  BY <1>2, <1>3

LEMMA DestroySessionInv ==
  ASSUME IInv, NEW r \in Requests, DestroySession(r)
  PROVE  IInv'
<1>1. TypeInv /\ ThreadInv(r) /\ At(r, "destroy")
  BY DEF IInv, DestroySession
<1>2. Handle(r) # None /\ ~At(r, "parked")
  BY <1>1 DEF ThreadInv, At, Handle
<1>3. /\ Destroy(Handle(r)) /\ thread' = [thread EXCEPT ![r] = Idle]
      /\ registered' \in SUBSET Requests /\ faults' \in 0 .. MaxFaults
      /\ UNCHANGED <<pool, pumpVars, engine, batchVars>>
  BY <1>1 DEF DestroySession, Dropped, TypeInv, TypeOK
<1>4. QED
  BY <1>2, <1>3, DestroyInv

-----------------------------------------------------------------------------
(* Frames.                                                                 *)

\* A row of the batch tables for a frame that is still to come.
LEMMA RowTyped ==
  ASSUME TypeInv, NEW r \in Requests, Handle(r) # None, thread[r].frames < MaxFrames
  PROVE  Row(r) \in Rows
<1>1. Handle(r) \in Handles /\ thread[r].frames \in Nat /\ thread[r].frames + 1 \in 0 .. MaxFrames
  BY ModelAssumption DEF TypeInv, TypeOK, Threads, Handle
<1>2. QED
  BY <1>1 DEF Row, Rows

\* The first frame: a lease, or a poisoned session that will not be recycled.
LEMMA BeginFirstInv ==
  ASSUME IInv, NEW r \in Requests, BeginFirst(r)
  PROVE  IInv'
<1> USE DEF At, Handle
<1>0. /\ TypeInv /\ PoolInv /\ ThreadInv(r) /\ CleanInv(r) /\ At(r, "run")
      /\ thread \in [Requests -> Threads] /\ thread[r].frames = 0
      /\ Handle(r) \in Handles /\ Handle(r) # None
  BY DEF IInv, BeginFirst, ThreadInv, TypeInv, TypeOK, Threads
<1>1. UNCHANGED <<poolVars, registered, engine, pumpVars, pinned, device, stream>>
  BY DEF BeginFirst, frameFrame
<1>2. \/ /\ lease' = lease \cup {Handle(r)} /\ UNCHANGED poisoned
         /\ thread' = [thread EXCEPT ![r].pc = "leased"]
      \/ /\ poisoned' = poisoned \cup {Handle(r)} /\ UNCHANGED lease
         /\ thread' = [thread EXCEPT ![r].pc = "failed", ![r].recyclable = FALSE]
  BY DEF BeginFirst, Goto
<1>3. thread' \in [Requests -> Threads] /\ \A q \in Requests : thread'[q].handle = thread[q].handle
  <2>1. thread \in [Requests -> Threads]
    BY <1>0
  <2>2. QED
    BY <1>2, <2>1 DEF Threads
<1>4. TypeInv'
  <2>1. ran' \in [Requests -> Rows]
    <3>1. Row(r) \in Rows
      BY <1>0, RowTyped, ModelAssumption
    <3>2. QED
      BY <1>0, <3>1 DEF BeginFirst, TypeInv, TypeOK
  <2>2. faults' \in 0 .. MaxFaults
    BY <1>0, ModelAssumption DEF BeginFirst, Fault, NoFault, TypeInv, TypeOK
  <2>3. QED
    BY <1>0, <1>1, <1>2, <1>3, <2>1, <2>2 DEF TypeInv, TypeOK, poolVars, pumpVars
<1>5. PoolInv'
  <2>1. Handle(r) \in Held
    BY <1>0 DEF Held
  <2>2. Held' = Held /\ OneOwner' /\ pool' = pool /\ capacity' = capacity /\ used' = used
    BY <1>0, <1>1, <1>3, SameHandles DEF poolVars
  <2>3. Handle(r) \notin pool /\ capacity[Handle(r)] > 0
    BY <1>0, <2>1 DEF PoolInv, OneOwner, NothingLeaked
  <2>4. QED
    BY <1>0, <1>2, <2>2, <2>3 DEF PoolInv, NothingLeaked
<1>6. QueueInv'
  <2>1. \A q \in Requests : At(q, "parked")' <=> At(q, "parked")
    <3>1. thread \in [Requests -> Threads]
      BY <1>0
    <3>2. QED
      BY <1>0, <1>2, <3>1 DEF Threads
  <2>2. QED
    BY <1>0, <1>1, <2>1, QueueKeeps DEF IInv
<1>7. ASSUME NEW q \in Requests PROVE ThreadInv(q)' /\ CleanInv(q)'
  <2>1. ThreadInv(q) /\ CleanInv(q) /\ UNCHANGED <<pump, capacity, used>>
    BY <1>1 DEF IInv, pumpVars, poolVars
  <2>2. CASE q # r
    <3>1. thread'[q] = thread[q]
      BY <1>0, <1>2, <2>2
    <3>2. Handle(q) # Handle(r)
      BY <1>0, <2>2 DEF PoolInv, OneOwner
    <3>3. QED
      BY <1>2, <2>1, <3>1, <3>2, OtherThread
  <2>3. CASE q = r
    <3>1. thread \in [Requests -> Threads] /\ MaxFrames > 0
      BY <1>0, ModelAssumption
    <3>2. QED
      BY <1>0, <1>2, <2>1, <2>3, <3>1, MembersAreParked DEF IInv, ThreadInv, CleanInv, Threads
  <2>4. QED
    BY <2>2, <2>3
<1>8. QED
  BY <1>4, <1>5, <1>6, <1>7 DEF IInv

\* A thread parks behind its own frame request, the last in the channel.
LEMMA SubmitInv ==
  ASSUME IInv, NEW r \in Requests, Submit(r)
  PROVE  IInv'
<1> USE DEF At, Handle
<1>0. /\ TypeInv /\ PoolInv /\ QueueInv /\ ThreadInv(r) /\ CleanInv(r) /\ At(r, "run")
      /\ thread \in [Requests -> Threads]
      /\ channel \in Seq(Requests) /\ pump.batch \in Seq(Requests)
  BY DEF IInv, Submit, TypeInv, TypeOK, Pumps
<1>1. /\ thread' = [thread EXCEPT ![r].pc = "parked"] /\ channel' = Append(channel, r)
      /\ thread[r].frames \in 1 .. MaxFrames - 1
      /\ UNCHANGED <<poolVars, registered, engine, pump, batchVars, poisoned, lease, faults>>
  BY DEF Submit, Send, Goto, frameFrame
<1>2. /\ thread' \in [Requests -> Threads]
      /\ \A q \in Requests : thread'[q].handle = thread[q].handle
      /\ \A q \in Requests : At(q, "parked")' <=> q = r \/ At(q, "parked")
  <2>1. thread \in [Requests -> Threads]
    BY <1>0
  <2>2. QED
    BY <1>1, <2>1 DEF Threads
<1>3. TypeInv'
  BY <1>0, <1>1, <1>2 DEF TypeInv, TypeOK, poolVars, batchVars
<1>4. PoolInv'
  BY <1>0, <1>1, <1>2, SameHandles DEF PoolInv, NothingLeaked, poolVars
<1>5. QueueInv'
  <2>1. /\ Len(channel') = Len(channel) + 1 /\ channel'[Len(channel) + 1] = r
        /\ \A i \in 1 .. Len(channel) : channel'[i] = channel[i]
        /\ Len(channel) \in Nat
    BY <1>0, <1>1, AppendProperties
  <2>2. /\ \A i \in 1 .. Len(channel) : channel[i] # r /\ channel[i] \in Requests
        /\ \A i \in 1 .. Len(pump.batch) : pump.batch[i] # r /\ pump.batch[i] \in Requests
    BY <1>0 DEF QueueInv
  <2>3. pump' = pump
    BY <1>1
  <2>4. \A i \in 1 .. Len(channel') : IF i = Len(channel) + 1 THEN channel'[i] = r
                                      ELSE i \in 1 .. Len(channel) /\ channel'[i] = channel[i]
    BY <2>1
  <2>5. /\ \A i \in 1 .. Len(pump.batch) : At(pump.batch[i], "parked")'
        /\ \A i \in 1 .. Len(channel') : At(channel[i], "parked")'
    <3>1. \A i \in 1 .. Len(channel) : At(channel[i], "parked")
      BY <1>0 DEF QueueInv
    <3>2. \A i \in 1 .. Len(pump.batch) : At(pump.batch[i], "parked")
      BY <1>0 DEF QueueInv
    <3>3. \A i \in 1 .. Len(pump.batch) : At(pump.batch[i], "parked")'
      BY <1>2, <2>2, <2>3, <3>2
    <3>4. ASSUME NEW i \in 1 .. Len(channel') PROVE At(channel[i], "parked")'
      BY <1>2, <2>2, <2>4, <3>1
    <3>5. QED
      BY <3>3, <3>4
  <2>6. ASSUME NEW q \in Requests, At(q, "parked")'
        PROVE  \/ \E i \in 1 .. Len(pump.batch) : pump.batch[i] = q
               \/ \E i \in 1 .. Len(channel') : channel'[i] = q
    <3>1. CASE q = r
      BY <2>1, <3>1
    <3>2. CASE q # r
      <4>1. \/ \E i \in 1 .. Len(pump.batch) : pump.batch[i] = q
            \/ \E i \in 1 .. Len(channel) : channel[i] = q
        BY <1>0, <1>2, <2>6, <3>2 DEF QueueInv
      <4>2. \A i \in 1 .. Len(channel) : i \in 1 .. Len(channel') /\ channel'[i] = channel[i]
        BY <2>1
      <4>3. QED
        BY <4>1, <4>2
    <3>3. QED
      BY <3>1, <3>2
  <2>7. ASSUME NEW i \in 1 .. Len(channel'), NEW j \in 1 .. Len(channel'), i # j
        PROVE  channel'[i] # channel'[j]
    <3>1. \A k, l \in 1 .. Len(channel) : k # l => channel[k] # channel[l]
      BY <1>0 DEF QueueInv
    <3>2. QED
      BY <2>2, <2>4, <2>7, <3>1
  <2>8. \A i \in 1 .. Len(pump.batch), j \in 1 .. Len(channel') : pump.batch[i] # channel'[j]
    <3>1. \A i \in 1 .. Len(pump.batch), j \in 1 .. Len(channel) : pump.batch[i] # channel[j]
      BY <1>0 DEF QueueInv
    <3>2. QED
      BY <2>2, <2>4, <3>1
  <2>9. /\ \A i, j \in 1 .. Len(pump.batch) : i # j => pump.batch[i] # pump.batch[j]
        /\ Len(pump.batch) <= MaxBatch
        /\ pump.pc \in {"recv", "closed"} => pump.batch = <<>>
    BY <1>0 DEF QueueInv
  <2>10. QED
    BY <2>3, <2>5, <2>6, <2>7, <2>8, <2>9, SMTT(60) DEF QueueInv
<1>6. ASSUME NEW q \in Requests PROVE ThreadInv(q)' /\ CleanInv(q)'
  <2>1. ThreadInv(q) /\ CleanInv(q) /\ UNCHANGED <<pump, capacity, used, poisoned, lease>>
    BY <1>1 DEF IInv, poolVars
  <2>2. CASE q # r
    BY <1>0, <1>1, <2>1, <2>2, OtherThread
  <2>3. CASE q = r
    <3>1. thread \in [Requests -> Threads] /\ thread[r].pc = "run"
      BY <1>0
    <3>2. /\ thread'[r].pc = "parked" /\ thread'[r].handle = thread[r].handle
          /\ thread'[r].frames = thread[r].frames /\ thread'[r].frames < MaxFrames
          /\ thread'[r].recyclable = thread[r].recyclable
      BY <1>1, <3>1, ModelAssumption DEF Threads
    <3>3. ~(pump.pc = "sync" /\ r \in Members)
      BY <1>0, MembersAreParked
    <3>4. QED
      BY <1>0, <2>1, <2>3, <3>2, <3>3 DEF ThreadInv, CleanInv
  <2>4. QED
    BY <2>2, <2>3
<1>7. QED
  BY <1>3, <1>4, <1>5, <1>6 DEF IInv

\* A lease ends with its frame, or its session is given up.
LEMMA FinishInv ==
  ASSUME IInv, NEW r \in Requests, Finish(r)
  PROVE  IInv'
<1> USE DEF At, Handle
<1>0. /\ TypeInv /\ PoolInv /\ QueueInv /\ ThreadInv(r) /\ CleanInv(r) /\ At(r, "leased")
      /\ thread \in [Requests -> Threads] /\ thread[r].frames < MaxFrames
      /\ Handle(r) \in Handles /\ Handle(r) # None
  BY DEF IInv, Finish, ThreadInv, TypeInv, TypeOK, Threads
<1>1. UNCHANGED <<poolVars, registered, engine, pumpVars, pinned, device, stream, poisoned>>
  BY DEF Finish, frameFrame
<1>2. \/ /\ lease' = lease \ {Handle(r)}
         /\ thread' = [thread EXCEPT ![r].pc = "run", ![r].frames = @ + 1]
      \/ /\ lease' \subseteq lease
         /\ thread' = [thread EXCEPT ![r].pc = "failed", ![r].recyclable = FALSE]
  BY DEF Finish
<1>3. /\ thread' \in [Requests -> Threads]
      /\ \A q \in Requests : thread'[q].handle = thread[q].handle
      /\ \A q \in Requests : At(q, "parked")' <=> At(q, "parked")
      /\ \A q \in Requests : q # r => thread'[q] = thread[q]
  <2>1. thread \in [Requests -> Threads] /\ At(r, "leased") /\ thread[r].frames < MaxFrames
    BY <1>0
  <2>2. thread[r].frames \in Nat /\ MaxFrames \in Nat
    BY <2>1, ModelAssumption DEF Threads
  <2>3. CASE thread' = [thread EXCEPT ![r].pc = "run", ![r].frames = @ + 1]
    <3> DEFINE t == [thread[r] EXCEPT !.pc = "run", !.frames = @ + 1]
    <3>1. thread[r] \in Threads /\ thread' = [thread EXCEPT ![r] = t]
      BY <2>1, <2>3
    <3>2. t \in Threads /\ t.pc = "run" /\ t.handle = thread[r].handle
      <4>1. thread[r].frames + 1 \in 0 .. MaxFrames
        BY <2>1, <2>2
      <4> DEFINE n == thread[r].frames + 1
      <4>2. n \in 0 .. MaxFrames /\ t = [thread[r] EXCEPT !.pc = "run", !.frames = n]
        BY <4>1
      <4> HIDE DEF n
      <4>3. QED
        BY <3>1, <4>2 DEF Threads
    <3> HIDE DEF t
    <3>3. /\ thread' \in [Requests -> Threads] /\ thread'[r] = t
          /\ \A q \in Requests : q # r => thread'[q] = thread[q]
      BY <1>0, <3>1, <3>2, OneThread
    <3>4. QED
      BY <2>1, <3>2, <3>3
  <2>4. CASE thread' = [thread EXCEPT ![r].pc = "failed", ![r].recyclable = FALSE]
    <3> DEFINE t == [thread[r] EXCEPT !.pc = "failed", !.recyclable = FALSE]
    <3>1. thread[r] \in Threads /\ thread' = [thread EXCEPT ![r] = t]
      BY <2>1, <2>4
    <3>2. t \in Threads /\ t.pc = "failed" /\ t.handle = thread[r].handle
      BY <3>1 DEF Threads
    <3> HIDE DEF t
    <3>3. /\ thread' \in [Requests -> Threads] /\ thread'[r] = t
          /\ \A q \in Requests : q # r => thread'[q] = thread[q]
      BY <1>0, <3>1, <3>2, OneThread
    <3>4. QED
      BY <2>1, <3>2, <3>3
  <2>5. QED
    BY <1>2, <2>3, <2>4
<1>4. TypeInv'
  <2>1. ran' \in [Requests -> Rows]
    BY <1>0, ModelAssumption DEF Finish, TypeInv, TypeOK, NoRow, Rows
  <2>2. faults' \in 0 .. MaxFaults
    BY <1>0, ModelAssumption DEF Finish, Fault, NoFault, TypeInv, TypeOK
  <2>3. lease' \subseteq Handles
    BY <1>0, <1>2 DEF TypeInv, TypeOK
  <2>4. QED
    BY <1>0, <1>1, <1>3, <2>1, <2>2, <2>3 DEF TypeInv, TypeOK, poolVars, pumpVars
<1>5. PoolInv'
  <2>1. Held' = Held /\ OneOwner' /\ pool' = pool /\ capacity' = capacity /\ used' = used
    BY <1>0, <1>1, <1>3, SameHandles DEF poolVars
  <2>2. lease' \subseteq lease /\ poisoned' = poisoned
    BY <1>1, <1>2
  <2>3. QED
    BY <1>0, <2>1, <2>2 DEF PoolInv, NothingLeaked
<1>6. QueueInv'
  BY <1>0, <1>1, <1>3, QueueKeeps
<1>7. ASSUME NEW q \in Requests PROVE ThreadInv(q)' /\ CleanInv(q)'
  <2>1. ThreadInv(q) /\ CleanInv(q) /\ UNCHANGED <<pump, capacity, used, poisoned>>
    BY <1>1 DEF IInv, pumpVars, poolVars
  <2>2. CASE q # r
    BY <1>2, <1>3, <2>1, <2>2, OtherThread
  <2>3. CASE q = r
    <3>1. thread \in [Requests -> Threads] /\ Handle(r) # None
      BY <1>0
    <3>2. CASE /\ lease' = lease \ {Handle(r)}
               /\ thread' = [thread EXCEPT ![r].pc = "run", ![r].frames = @ + 1]
      <4>1. /\ thread'[r].pc = "run" /\ thread'[r].handle = thread[r].handle
            /\ thread'[r].recyclable = thread[r].recyclable
        BY <3>1, <3>2 DEF Threads
      <4>2. ~(pump.pc = "sync" /\ r \in Members)
        BY <1>0, MembersAreParked
      <4>3. QED
        BY <1>0, <2>1, <2>3, <3>2, <4>1, <4>2 DEF ThreadInv, CleanInv
    <3>3. CASE thread' = [thread EXCEPT ![r].pc = "failed", ![r].recyclable = FALSE]
      <4>1. /\ thread'[r].pc = "failed" /\ thread'[r].handle = thread[r].handle
            /\ ~thread'[r].recyclable
        BY <3>1, <3>3 DEF Threads
      <4>2. QED
        BY <1>0, <2>3, <4>1 DEF ThreadInv, CleanInv
    <3>4. QED
      BY <1>2, <3>2, <3>3
  <2>4. QED
    BY <2>2, <2>3
<1>8. QED
  BY <1>4, <1>5, <1>6, <1>7 DEF IInv

-----------------------------------------------------------------------------
(* The pump.                                                               *)

\* A step of the pump that only moves requests into its batch.
LEMMA PumpMoves ==
  ASSUME IInv, TypeInv', QueueInv', pump.pc # "sync", pump'.pc # "sync",
         UNCHANGED <<poolVars, registered, engine, thread, poisoned, lease, batchVars, faults>>
  PROVE  IInv'
<1>1. UNCHANGED <<pool, capacity, used, thread, poisoned, lease>>
  BY DEF poolVars
<1>2. PoolInv'
  BY <1>1 DEF IInv, PoolInv, OneOwner, NothingLeaked, Held, Handle
<1>3. ASSUME NEW q \in Requests PROVE ThreadInv(q)' /\ CleanInv(q)'
  <2>1. ThreadInv(q) /\ CleanInv(q)
    BY DEF IInv
  <2>2. ThreadInv(q)'
    BY <1>1, <2>1 DEF ThreadInv
  <2>3. CleanInv(q)'
    BY <1>1, <2>1 DEF CleanInv, Handle, At
  <2>4. QED
    BY <2>2, <2>3
<1>4. QED
  BY <1>2, <1>3 DEF IInv

\* recv: the channel's head becomes a batch of one.
LEMMA PumpRecvInv ==
  ASSUME IInv, PumpRecv
  PROVE  IInv'
<1>0. /\ TypeInv /\ QueueInv /\ pump.pc = "recv" /\ channel # <<>>
      /\ channel \in Seq(Requests) /\ pump.batch = <<>>
      /\ MaxBatch \in Nat \ {0}
  BY ModelAssumption DEF IInv, PumpRecv, TypeInv, TypeOK, Pumps, QueueInv
<1>1. /\ pump' = [pc |-> "gather", batch |-> <<Head(channel)>>] /\ channel' = Tail(channel)
      /\ UNCHANGED <<poolVars, registered, engine, thread, poisoned, lease, batchVars, faults>>
  BY DEF PumpRecv, pumpFrame
<1>2. /\ Head(channel) = channel[1] /\ Head(channel) \in Requests
      /\ channel' \in Seq(Requests) /\ Len(channel') = Len(channel) - 1
      /\ \A i \in 1 .. Len(channel') : channel'[i] = channel[i + 1]
      /\ Len(channel) \in Nat /\ Len(channel) > 0
  BY <1>0, <1>1, HeadTailProperties, EmptySeq
<1>3. TypeInv'
  BY <1>0, <1>1, <1>2 DEF TypeInv, TypeOK, Pumps, poolVars, batchVars
<1>4. QueueInv'
  <2> DEFINE batch == pump'.batch
  <2>1. pump'.pc = "gather" /\ batch = <<channel[1]>> /\ Len(batch) = 1 /\ thread' = thread
    BY <1>1, <1>2
  <2>2. \A i \in 1 .. Len(channel') : i + 1 \in 1 .. Len(channel) /\ channel'[i] = channel[i + 1]
    BY <1>2
  <2>3. \A i \in 1 .. Len(channel) : At(channel[i], "parked")
    BY <1>0 DEF QueueInv
  <2>4. /\ \A i \in 1 .. Len(batch) : At(pump.batch[i], "parked")'
        /\ \A i \in 1 .. Len(channel') : At(channel[i], "parked")'
    <3>1. 1 \in 1 .. Len(channel)
      BY <1>2
    <3>2. QED
      BY <2>1, <2>2, <2>3, <3>1 DEF At
  <2>5. ASSUME NEW r \in Requests, At(r, "parked")'
        PROVE  \/ \E i \in 1 .. Len(batch) : batch[i] = r
               \/ \E i \in 1 .. Len(channel') : channel'[i] = r
    <3>1. PICK i \in 1 .. Len(channel) : channel[i] = r
      <4>1. At(r, "parked")
        BY <2>1, <2>5 DEF At
      <4>2. \/ \E i \in 1 .. Len(pump.batch) : pump.batch[i] = r
            \/ \E i \in 1 .. Len(channel) : channel[i] = r
        BY <1>0, <4>1 DEF QueueInv
      <4>3. ~ \E i \in 1 .. Len(pump.batch) : pump.batch[i] = r
        BY <1>0
      <4>4. QED
        BY <4>2, <4>3
    <3>2. CASE i = 1
      BY <2>1, <3>1, <3>2
    <3>3. CASE i # 1
      <4>1. i - 1 \in 1 .. Len(channel') /\ channel'[i - 1] = channel[i]
        BY <1>2, <3>3
      <4>2. QED
        BY <3>1, <4>1
    <3>4. QED
      BY <3>2, <3>3
  <2>6. \A i, j \in 1 .. Len(channel) : i # j => channel[i] # channel[j]
    BY <1>0 DEF QueueInv
  <2>7. /\ \A i, j \in 1 .. Len(batch) : i # j => batch[i] # batch[j]
        /\ \A i, j \in 1 .. Len(channel') : i # j => channel'[i] # channel'[j]
        /\ \A i \in 1 .. Len(batch), j \in 1 .. Len(channel') : batch[i] # channel'[j]
    <3>1. \A i, j \in 1 .. Len(batch) : i = j
      BY <2>1
    <3>2. ASSUME NEW i \in 1 .. Len(channel'), NEW j \in 1 .. Len(channel'), i # j
          PROVE  channel'[i] # channel'[j]
      <4>1. i + 1 # j + 1
        BY <3>2
      <4>2. QED
        BY <2>2, <2>6, <4>1
    <3>3. ASSUME NEW i \in 1 .. Len(batch), NEW j \in 1 .. Len(channel')
          PROVE  batch[i] # channel'[j]
      <4>1. batch[i] = channel[1] /\ 1 \in 1 .. Len(channel) /\ j + 1 # 1
        BY <1>2, <2>1
      <4>2. QED
        BY <2>2, <2>6, <4>1
    <3>4. QED
      BY <3>1, <3>2, <3>3
  <2>8. Len(batch) <= MaxBatch
    BY <1>0, <2>1
  <2>9. QED
    BY <2>1, <2>4, <2>5, <2>7, <2>8 DEF QueueInv
<1>5. QED
  BY <1>0, <1>1, <1>3, <1>4, PumpMoves

\* try_recv until the batch has as many rows as sessions are registered, and
\* never more than the native call takes.
LEMMA PumpGatherInv ==
  ASSUME IInv, PumpGather
  PROVE  IInv'
<1> DEFINE n == Len(pump.batch)
           r1 == Head(channel)
<1>0. /\ TypeInv /\ QueueInv /\ pump.pc = "gather" /\ channel # <<>>
      /\ channel \in Seq(Requests) /\ pump.batch \in Seq(Requests)
  BY DEF IInv, PumpGather, TypeInv, TypeOK, Pumps
<1>1. /\ pump' = [pump EXCEPT !.batch = Append(@, r1)] /\ channel' = Tail(channel)
      /\ UNCHANGED <<poolVars, registered, engine, thread, poisoned, lease, batchVars, faults>>
  BY DEF PumpGather, pumpFrame
<1>2. /\ r1 = channel[1] /\ r1 \in Requests
      /\ channel' \in Seq(Requests) /\ Len(channel') = Len(channel) - 1
      /\ \A i \in 1 .. Len(channel') : channel'[i] = channel[i + 1]
      /\ Len(channel) \in Nat /\ Len(channel) > 0
  BY <1>0, <1>1, HeadTailProperties, EmptySeq
<1>3. n + 1 <= MaxBatch /\ n \in Nat
  <2>1. IsFiniteSet(registered)
    BY <1>0, ModelAssumption, FS_Subset DEF TypeInv, TypeOK
  <2>2. Cardinality(registered) \in Nat
    BY <2>1, FS_CardinalityType
  <2>3. Clamped(Cardinality(registered)) <= MaxBatch /\ Clamped(Cardinality(registered)) \in Nat
    BY <2>2, ModelAssumption DEF Clamped, Larger
  <2>4. n \in Nat
    BY <1>0
  <2>5. n < Clamped(Cardinality(registered))
    BY DEF PumpGather
  <2>6. QED
    BY <2>3, <2>4, <2>5, ModelAssumption
<1>4. /\ pump'.batch \in Seq(Requests) /\ Len(pump'.batch) = n + 1
      /\ \A i \in 1 .. n : pump'.batch[i] = pump.batch[i]
      /\ pump'.batch[n + 1] = r1 /\ pump'.pc = "gather"
  <2>1. pump'.batch = Append(pump.batch, r1) /\ pump'.pc = pump.pc
    <3>1. pump.pc = "gather" /\ pump = [pc |-> pump.pc, batch |-> pump.batch]
      BY <1>0 DEF TypeInv, TypeOK, Pumps
    <3>2. QED
      BY <1>1, <3>1
  <2>2. QED
    BY <1>0, <1>2, <2>1, AppendProperties
<1>5. TypeInv'
  BY <1>0, <1>1, <1>2, <1>4 DEF TypeInv, TypeOK, Pumps, poolVars, batchVars
<1>6. QueueInv'
  <2>1. \A i \in 1 .. Len(pump'.batch) :
          IF i = n + 1 THEN pump'.batch[i] = r1
          ELSE i \in 1 .. n /\ pump'.batch[i] = pump.batch[i]
    BY <1>3, <1>4
  <2>2. \A i \in 1 .. Len(channel') : i + 1 \in 1 .. Len(channel) /\ channel'[i] = channel[i + 1]
    BY <1>2
  <2>3. /\ \A i \in 1 .. Len(channel) : At(channel[i], "parked")
        /\ \A i \in 1 .. n : At(pump.batch[i], "parked")
    BY <1>0 DEF QueueInv
  <2>4. thread' = thread
    BY <1>1
  <2>5. \A i \in 1 .. Len(pump'.batch) : At(pump.batch[i], "parked")'
    BY <1>2, <2>1, <2>3, <2>4 DEF At
  <2>6. \A i \in 1 .. Len(channel') : At(channel[i], "parked")'
    BY <2>2, <2>3, <2>4 DEF At
  <2>7. ASSUME NEW r \in Requests, At(r, "parked")'
        PROVE  \/ \E i \in 1 .. Len(pump'.batch) : pump'.batch[i] = r
               \/ \E i \in 1 .. Len(channel') : channel'[i] = r
    <3>1. At(r, "parked")
      BY <2>4, <2>7 DEF At
    <3>2. CASE \E i \in 1 .. n : pump.batch[i] = r
      <4>1. PICK i \in 1 .. n : pump.batch[i] = r
        BY <3>2
      <4>2. i \in 1 .. Len(pump'.batch) /\ pump'.batch[i] = r
        BY <1>3, <1>4, <4>1
      <4>3. QED
        BY <4>2
    <3>3. CASE \E i \in 1 .. Len(channel) : channel[i] = r
      <4>1. PICK i \in 1 .. Len(channel) : channel[i] = r
        BY <3>3
      <4>2. CASE i = 1
        <5>1. n + 1 \in 1 .. Len(pump'.batch) /\ pump'.batch[n + 1] = r
          BY <1>2, <1>3, <1>4, <4>1, <4>2
        <5>2. QED
          BY <5>1
      <4>3. CASE i # 1
        <5>1. i - 1 \in 1 .. Len(channel') /\ channel'[i - 1] = channel[i]
          BY <1>2, <4>3
        <5>2. QED
          BY <4>1, <5>1
      <4>4. QED
        BY <4>2, <4>3
    <3>4. QED
      BY <1>0, <3>1, <3>2, <3>3 DEF QueueInv
  <2>8. /\ \A i, j \in 1 .. n : i # j => pump.batch[i] # pump.batch[j]
        /\ \A i, j \in 1 .. Len(channel) : i # j => channel[i] # channel[j]
        /\ \A i \in 1 .. n, j \in 1 .. Len(channel) : pump.batch[i] # channel[j]
    BY <1>0 DEF QueueInv
  <2>9. \A i, j \in 1 .. Len(pump'.batch) : i # j => pump'.batch[i] # pump'.batch[j]
    <3>1. 1 \in 1 .. Len(channel)
      BY <1>2
    <3>2. \A i \in 1 .. n : pump.batch[i] # r1
      BY <1>2, <2>8, <3>1
    <3>3. QED
      BY <2>1, <2>8, <3>2
  <2>10. \A i, j \in 1 .. Len(channel') : i # j => channel'[i] # channel'[j]
    BY <2>2, <2>8
  <2>11. \A i \in 1 .. Len(pump'.batch), j \in 1 .. Len(channel') : pump'.batch[i] # channel'[j]
    <3>1. 1 \in 1 .. Len(channel)
      BY <1>2
    <3>2. \A j \in 1 .. Len(channel') : channel'[j] # r1
      BY <1>2, <2>2, <2>8, <3>1
    <3>3. QED
      BY <2>1, <2>2, <2>8, <3>2
  <2>12. QED
    BY <1>3, <1>4, <2>5, <2>6, <2>7, <2>9, <2>10, <2>11 DEF QueueInv
<1>7. QED
  BY <1>0, <1>1, <1>4, <1>5, <1>6, PumpMoves

\* A native call has answered the whole batch, and nobody else is parked or
\* released by it.
LEMMA BatchAnswered ==
  ASSUME TypeInv, QueueInv, pump'.batch = <<>>, channel' = channel,
         \A r \in Requests : At(r, "parked")' <=> At(r, "parked") /\ r \notin Members
  PROVE  QueueInv'
<1>1. channel \in Seq(Requests) /\ pump.batch \in Seq(Requests)
  BY DEF TypeInv, TypeOK, Pumps
<1>2. /\ \A i \in 1 .. Len(channel) : At(channel[i], "parked") /\ channel[i] \in Requests
      /\ \A i \in 1 .. Len(pump.batch), j \in 1 .. Len(channel) : pump.batch[i] # channel[j]
      /\ \A i, j \in 1 .. Len(channel) : i # j => channel[i] # channel[j]
  BY <1>1 DEF QueueInv
<1>3. \A i \in 1 .. Len(channel) : channel[i] \notin Members
  BY <1>2 DEF Members
<1>4. \A i \in 1 .. Len(channel') : At(channel[i], "parked")'
  BY <1>2, <1>3
<1>5. ASSUME NEW r \in Requests, At(r, "parked")'
      PROVE  \E i \in 1 .. Len(channel') : channel'[i] = r
  BY <1>5 DEF QueueInv, Members
<1>6. Len(pump'.batch) = 0 /\ 0 <= MaxBatch
  BY ModelAssumption
<1>7. QED
  BY <1>2, <1>4, <1>5, <1>6 DEF QueueInv

\* What the members of a batch own, and nobody else does.
LEMMA MemberSessions ==
  ASSUME TypeInv, PoolInv, QueueInv, \A r \in Requests : ThreadInv(r)
  PROVE  /\ MemberHandles \subseteq Held \cap Handles /\ MemberHandles \cap pool = {}
         /\ MemberHandles \subseteq {h \in Handles : capacity[h] > 0}
         /\ \A q \in Requests \ Members : Handle(q) # None => Handle(q) \notin MemberHandles
<1>1. Members \subseteq {r \in Requests : At(r, "parked")}
  BY MembersAreParked
<1>2. \A r \in Members : Handle(r) # None /\ Handle(r) \in Handles
  BY <1>1 DEF ThreadInv, At, Handle, TypeInv, TypeOK, Threads
<1>3. MemberHandles \subseteq Held \cap Handles
  BY <1>1, <1>2 DEF MemberHandles, Held
<1>4. MemberHandles \cap pool = {} /\ MemberHandles \subseteq {h \in Handles : capacity[h] > 0}
  BY <1>3 DEF PoolInv, OneOwner, NothingLeaked
<1>5. \A q \in Requests \ Members : Handle(q) # None => Handle(q) \notin MemberHandles
  BY <1>1, <1>2 DEF PoolInv, OneOwner, MemberHandles
<1>6. QED
  BY <1>3, <1>4, <1>5

\* Every member of a failed batch fails, and its session will not be reused.
LEMMA FailMembersEffect ==
  ASSUME TypeInv, QueueInv, FailMembers(Members)
  PROVE  /\ thread' \in [Requests -> Threads]
         /\ \A q \in Requests : thread'[q].handle = thread[q].handle
         /\ \A q \in Requests \ Members : thread'[q] = thread[q]
         /\ \A q \in Members : thread'[q].pc = "failed" /\ ~thread'[q].recyclable
         /\ \A q \in Requests : At(q, "parked")' <=> At(q, "parked") /\ q \notin Members
<1>1. thread \in [Requests -> Threads] /\ Members \subseteq Requests
  BY MembersAreParked DEF TypeInv, TypeOK
<1>2. \A q \in Requests : thread'[q] =
        IF q \in Members THEN [thread[q] EXCEPT !.pc = "failed", !.recyclable = FALSE]
        ELSE thread[q]
  BY DEF FailMembers
<1>3. /\ \A q \in Requests : thread'[q] \in Threads
      /\ \A q \in Requests : thread'[q].handle = thread[q].handle
      /\ \A q \in Requests \ Members : thread'[q] = thread[q]
      /\ \A q \in Members : thread'[q].pc = "failed" /\ ~thread'[q].recyclable
  <2>1. ASSUME NEW q \in Requests
        PROVE  LET t == [thread[q] EXCEPT !.pc = "failed", !.recyclable = FALSE]
               IN  t \in Threads /\ t.handle = thread[q].handle /\ t.pc = "failed" /\ ~t.recyclable
    <3>1. thread[q] \in Threads
      BY <1>1
    <3>2. QED
      BY <3>1 DEF Threads
  <2>2. QED
    BY <1>1, <1>2, <2>1
<1>4. thread' \in [Requests -> Threads]
  BY <1>3 DEF FailMembers
<1>5. \A q \in Requests : At(q, "parked")' <=> At(q, "parked") /\ q \notin Members
  BY <1>3 DEF At
<1>6. QED
  BY <1>3, <1>4, <1>5

\* The batch fails: at once, or after the batch stream has been synchronized.
LEMMA BatchFails ==
  ASSUME IInv, FailMembers(Members), pump' = [pc |-> "recv", batch |-> <<>>],
         faults' \in 0 .. MaxFaults,
         UNCHANGED <<poolVars, registered, engine, channel, poisoned, lease, batchVars>>
  PROVE  IInv'
<1>0. /\ TypeInv /\ PoolInv /\ QueueInv /\ \A r \in Requests : ThreadInv(r) /\ CleanInv(r)
      /\ Members \subseteq {r \in Requests : At(r, "parked")}
  BY MembersAreParked DEF IInv
<1>1. /\ thread' \in [Requests -> Threads]
      /\ \A q \in Requests : thread'[q].handle = thread[q].handle
      /\ \A q \in Requests \ Members : thread'[q] = thread[q]
      /\ \A q \in Members : thread'[q].pc = "failed" /\ ~thread'[q].recyclable
      /\ \A q \in Requests : At(q, "parked")' <=> At(q, "parked") /\ q \notin Members
  BY <1>0, FailMembersEffect
<1>2. TypeInv'
  BY <1>0, <1>1 DEF TypeInv, TypeOK, Pumps, poolVars, batchVars
<1>3. PoolInv'
  BY <1>0, <1>1, SameHandles DEF PoolInv, NothingLeaked, poolVars
<1>4. QueueInv'
  BY <1>0, <1>1, BatchAnswered
<1>5. ASSUME NEW q \in Requests PROVE ThreadInv(q)' /\ CleanInv(q)'
  <2>1. ThreadInv(q) /\ CleanInv(q) /\ UNCHANGED <<capacity, used, poisoned, lease>>
    BY <1>0 DEF poolVars
  <2>2. CASE q \in Members
    BY <1>0, <1>1, <2>1, <2>2 DEF ThreadInv, CleanInv, At, Handle
  <2>3. CASE q \notin Members
    <3>1. thread'[q] = thread[q]
      BY <1>1, <2>3
    <3>2. ThreadInv(q)'
      BY <2>1, <3>1 DEF ThreadInv
    <3>3. CleanInv(q)'
      BY <2>1, <2>3, <3>1 DEF CleanInv, Handle, At
    <3>4. QED
      BY <3>2, <3>3
  <2>4. QED
    BY <2>2, <2>3
<1>6. QED
  BY <1>2, <1>3, <1>4, <1>5 DEF IInv

\* The tables and the stream hold what the batch has put there.
LEMMA FillTyped ==
  ASSUME TypeInv, QueueInv, \A r \in Requests : ThreadInv(r), FillTables
  PROVE  pinned' \in [1 .. MaxBatch -> Rows] /\ BatchOps \in Seq(Ops)
<1>1. /\ pump.batch \in Seq(Requests) /\ Len(pump.batch) <= MaxBatch
      /\ pinned \in [1 .. MaxBatch -> Rows] /\ Len(pump.batch) \in Nat
  BY DEF TypeInv, TypeOK, Pumps, QueueInv
<1>2. ASSUME NEW i \in 1 .. Len(pump.batch) PROVE Row(pump.batch[i]) \in Rows
  <2>1. pump.batch[i] \in Requests /\ At(pump.batch[i], "parked")
    BY <1>1 DEF QueueInv
  <2>2. Handle(pump.batch[i]) # None /\ thread[pump.batch[i]].frames < MaxFrames
    BY <2>1 DEF ThreadInv, At, Handle
  <2>3. QED
    BY <2>1, <2>2, RowTyped
<1>3. ASSUME NEW i \in 1 .. MaxBatch
      PROVE  (IF i <= Len(pump.batch) THEN Row(pump.batch[i]) ELSE pinned[i]) \in Rows
  <2>1. i <= Len(pump.batch) => i \in 1 .. Len(pump.batch)
    BY <1>1
  <2>2. QED
    BY <1>1, <1>2, <2>1
<1>4. pinned' \in [1 .. MaxBatch -> Rows]
  BY <1>3 DEF FillTables
<1>5. BatchOps \in Seq(Ops)
  BY <1>1 DEF BatchOps, Ops, Batches
<1>6. QED
  BY <1>4, <1>5

LEMMA PumpFireInv ==
  ASSUME IInv, PumpFire
  PROVE  IInv'
<1>0. /\ TypeInv /\ PoolInv /\ QueueInv /\ \A r \in Requests : ThreadInv(r) /\ CleanInv(r)
      /\ pump.pc = "gather" /\ thread \in [Requests -> Threads]
      /\ Members \subseteq {r \in Requests : At(r, "parked")}
  BY MembersAreParked DEF IInv, PumpFire, TypeInv, TypeOK
<1>1. /\ MemberHandles \subseteq Held \cap Handles /\ MemberHandles \cap pool = {}
      /\ MemberHandles \subseteq {h \in Handles : capacity[h] > 0}
      /\ \A q \in Requests \ Members : Handle(q) # None => Handle(q) \notin MemberHandles
  BY <1>0, MemberSessions
<1>2. UNCHANGED <<pool, capacity, used, registered, engine, channel, device, ran>>
  BY DEF PumpFire, pumpFrame, poolVars
<1>3. faults' \in 0 .. MaxFaults
  BY <1>0, ModelAssumption DEF PumpFire, Fault, NoFault, TypeInv, TypeOK
<1>4. CASE /\ MemberHandles \cap (poisoned \cup lease) = {}
           /\ lease' = lease \cup MemberHandles
           /\ FillTables /\ stream' = stream \o BatchOps
           /\ thread' = [r \in Requests |->
                           IF r \in Members THEN [thread[r] EXCEPT !.pc = "leased"]
                           ELSE thread[r]]
           /\ pump' = [pc |-> "recv", batch |-> <<>>]
           /\ UNCHANGED poisoned
  <2>1. /\ \A q \in Requests : thread'[q] \in Threads
        /\ \A q \in Requests : thread'[q].handle = thread[q].handle
        /\ \A q \in Requests \ Members : thread'[q] = thread[q]
        /\ \A q \in Members : /\ thread'[q].pc = "leased"
                              /\ thread'[q].frames = thread[q].frames
                              /\ thread'[q].recyclable = thread[q].recyclable
    <3>1. ASSUME NEW q \in Requests
          PROVE  LET t == [thread[q] EXCEPT !.pc = "leased"]
                 IN  /\ t \in Threads /\ t.handle = thread[q].handle /\ t.pc = "leased"
                     /\ t.frames = thread[q].frames /\ t.recyclable = thread[q].recyclable
      <4>1. thread[q] \in Threads
        BY <1>0
      <4>2. QED
        BY <4>1 DEF Threads
    <3>2. Members \subseteq Requests /\ \A q \in Requests : thread[q] \in Threads
      BY <1>0
    <3>3. \A q \in Requests : thread'[q] =
            IF q \in Members THEN [thread[q] EXCEPT !.pc = "leased"] ELSE thread[q]
      BY <1>4
    <3>4. QED
      BY <3>1, <3>2, <3>3
  <2>2. thread' \in [Requests -> Threads]
    BY <1>4, <2>1
  <2>3. \A q \in Requests : At(q, "parked")' <=> At(q, "parked") /\ q \notin Members
    BY <2>1 DEF At
  <2>4. TypeInv'
    <3>1. pinned' \in [1 .. MaxBatch -> Rows] /\ BatchOps \in Seq(Ops)
      BY <1>0, <1>4, FillTyped
    <3>2. stream' \in Seq(Ops)
      BY <1>0, <1>4, <3>1, ConcatProperties DEF TypeInv
    <3>3. lease' \subseteq Handles /\ pump' \in Pumps
      BY <1>0, <1>1, <1>4 DEF TypeInv, TypeOK, Pumps
    <3>4. QED
      BY <1>0, <1>2, <1>3, <1>4, <2>2, <3>1, <3>2, <3>3 DEF TypeInv, TypeOK
  <2>5. PoolInv'
    <3>1. Held' = Held /\ OneOwner'
      BY <1>0, <1>2, <2>1, SameHandles
    <3>2. QED
      BY <1>0, <1>1, <1>2, <1>4, <3>1 DEF PoolInv, NothingLeaked
  <2>6. QueueInv'
    BY <1>0, <1>2, <1>4, <2>3, BatchAnswered
  <2>7. ASSUME NEW q \in Requests PROVE ThreadInv(q)' /\ CleanInv(q)'
    <3>1. ThreadInv(q) /\ CleanInv(q)
      BY <1>0
    <3>2. CASE q \in Members
      <4>1. thread[q].pc = "parked" /\ Handle(q) \notin poisoned
        BY <1>0, <1>4, <3>2 DEF At, MemberHandles
      <4>2. /\ thread'[q].pc = "leased" /\ thread'[q].handle = thread[q].handle
            /\ thread'[q].frames = thread[q].frames
            /\ thread'[q].recyclable = thread[q].recyclable
            /\ poisoned' = poisoned
        BY <1>4, <2>1, <3>2
      <4>3. QED
        BY <3>1, <4>1, <4>2 DEF ThreadInv, CleanInv, At, Handle
    <3>3. CASE q \notin Members
      <4>1. thread'[q] = thread[q] /\ (Handle(q) # None => Handle(q) \notin MemberHandles)
        BY <1>1, <2>1, <3>3
      <4>2. thread[q].pc \in {"reset", "prefill"} \/ thread[q].recyclable => Handle(q) # None
        BY <3>1 DEF ThreadInv, Handle
      <4>3. /\ lease' = lease \cup MemberHandles /\ poisoned' = poisoned
            /\ capacity' = capacity /\ used' = used /\ pump.pc # "sync"
        BY <1>0, <1>2, <1>4
      <4>4. ThreadInv(q)'
        BY <3>1, <4>1, <4>2, <4>3 DEF ThreadInv, Handle
      <4>5. CleanInv(q)'
        BY <3>1, <4>1, <4>2, <4>3 DEF CleanInv, Handle, At
      <4>6. QED
        BY <4>4, <4>5
    <3>4. QED
      BY <3>2, <3>3
  <2>8. QED
    BY <2>4, <2>5, <2>6, <2>7 DEF IInv
<1>5. CASE /\ FailMembers(Members)
           /\ pump' = [pc |-> "recv", batch |-> <<>>]
           /\ UNCHANGED <<lease, pinned, stream, poisoned>>
  BY <1>2, <1>3, <1>5, BatchFails DEF poolVars, batchVars
<1>6. CASE /\ poisoned' = poisoned \cup MemberHandles
           /\ FillTables /\ stream' \in {stream, stream \o BatchOps}
           /\ pump' = [pump EXCEPT !.pc = "sync"]
           /\ UNCHANGED <<lease, thread>>
  <2>1. pump'.pc = "sync" /\ pump'.batch = pump.batch /\ pump' \in Pumps
    BY <1>0, <1>6 DEF TypeInv, TypeOK, Pumps
  <2>2. TypeInv'
    <3>1. pinned' \in [1 .. MaxBatch -> Rows] /\ BatchOps \in Seq(Ops)
      BY <1>0, <1>6, FillTyped
    <3>2. stream' \in Seq(Ops)
      BY <1>0, <1>6, <3>1, ConcatProperties DEF TypeInv
    <3>3. poisoned' \subseteq Handles
      BY <1>0, <1>1, <1>6 DEF TypeInv, TypeOK
    <3>4. QED
      BY <1>0, <1>2, <1>3, <1>6, <2>1, <3>1, <3>2, <3>3 DEF TypeInv, TypeOK
  <2>3. PoolInv'
    <3>1. Held' = Held /\ OneOwner'
      BY <1>0, <1>2, <1>6, SameHandles
    <3>2. QED
      BY <1>0, <1>1, <1>2, <1>6, <3>1 DEF PoolInv, NothingLeaked
  <2>4. QueueInv'
    <3>1. thread' = thread /\ channel' = channel
      BY <1>2, <1>6
    <3>2. QED
      BY <1>0, <2>1, <3>1 DEF QueueInv, At
  <2>5. ASSUME NEW q \in Requests PROVE ThreadInv(q)' /\ CleanInv(q)'
    <3>1. ThreadInv(q) /\ CleanInv(q) /\ Members' = Members
      BY <1>0, <2>1 DEF Members
    <3>2. q \in Members => thread[q].pc = "parked"
      BY <1>0 DEF At
    <3>3. q \notin Members /\ Handle(q) # None => Handle(q) \notin MemberHandles
      BY <1>1
    <3>4. thread[q].pc \in {"reset", "prefill"} \/ thread[q].recyclable => Handle(q) # None
      BY <3>1 DEF ThreadInv, Handle
    <3>5. ThreadInv(q)'
      BY <1>2, <1>6, <3>1, <3>2, <3>3, <3>4 DEF ThreadInv, Handle
    <3>6. CleanInv(q)'
      BY <1>0, <1>6, <2>1, <3>1, <3>3, <3>4 DEF CleanInv, Handle, At
    <3>7. QED
      BY <3>5, <3>6
  <2>6. QED
    BY <2>2, <2>3, <2>4, <2>5 DEF IInv
<1>7. QED
  BY <1>4, <1>5, <1>6 DEF PumpFire

LEMMA PumpSyncInv ==
  ASSUME IInv, PumpSync
  PROVE  IInv'
<1>1. /\ FailMembers(Members) /\ pump' = [pc |-> "recv", batch |-> <<>>]
      /\ UNCHANGED <<poolVars, registered, engine, channel, poisoned, lease, batchVars>>
  BY DEF PumpSync, pumpFrame
<1>2. faults' \in 0 .. MaxFaults
  BY DEF PumpSync, IInv, TypeInv, TypeOK
<1>3. QED
  BY <1>1, <1>2, BatchFails

LEMMA PumpExitInv ==
  ASSUME IInv, PumpExit
  PROVE  IInv'
<1>1. /\ TypeInv /\ QueueInv /\ pump.pc = "recv" /\ pump' = [pump EXCEPT !.pc = "closed"]
      /\ UNCHANGED <<poolVars, registered, engine, channel, thread, poisoned, lease, batchVars,
                     faults>>
  BY DEF IInv, PumpExit
<1>2. pump'.pc = "closed" /\ pump'.batch = pump.batch /\ pump' \in Pumps
  BY <1>1 DEF TypeInv, TypeOK, Pumps
<1>3. TypeInv'
  BY <1>1, <1>2 DEF TypeInv, TypeOK, poolVars, batchVars
<1>4. QueueInv'
  <2>1. thread' = thread /\ channel' = channel
    BY <1>1
  <2>2. QED
    BY <1>1, <1>2, <2>1 DEF QueueInv, At
<1>5. QED
  BY <1>1, <1>2, <1>3, <1>4, PumpMoves

-----------------------------------------------------------------------------
(* The batch stream and the end of the model.                              *)

\* The GPU only reads what the host has put in the tables.
LEMMA ExecuteInv ==
  ASSUME IInv, Execute
  PROVE  IInv'
<1> DEFINE op == Head(stream)
           at(r) == {i \in 1 .. Len(op.rows) : op.rows[i] = r}
<1>0. /\ TypeInv /\ stream \in Seq(Ops) /\ stream # <<>>
      /\ device \in [1 .. MaxBatch -> Rows] /\ pinned \in [1 .. MaxBatch -> Rows]
      /\ ran \in [Requests -> Rows]
  BY DEF IInv, Execute, TypeInv, TypeOK
<1>1. /\ stream' = Tail(stream)
      /\ \/ device' = pinned /\ UNCHANGED ran
         \/ /\ ran' = [r \in Requests |->
                         IF at(r) = {} THEN ran[r] ELSE device[CHOOSE i \in at(r) : TRUE]]
            /\ UNCHANGED device
      /\ UNCHANGED <<poolVars, poisoned, lease, thread, registered, pumpVars, engine, pinned,
                     faults>>
  BY DEF Execute
<1>2. op \in Ops /\ stream' \in Seq(Ops)
  BY <1>0, <1>1, HeadTailProperties
<1>3. op.rows \in Seq(Requests) /\ Len(op.rows) <= MaxBatch /\ Len(op.rows) \in Nat
  BY <1>2 DEF Ops, Batches
<1>4. ASSUME NEW r \in Requests, at(r) # {}
      PROVE  device[CHOOSE i \in at(r) : TRUE] \in Rows
  <2>1. (CHOOSE i \in at(r) : TRUE) \in at(r)
    BY <1>4
  <2>2. (CHOOSE i \in at(r) : TRUE) \in 1 .. MaxBatch
    BY <1>3, <2>1, ModelAssumption
  <2>3. QED
    BY <1>0, <2>2
<1> HIDE DEF at
<1>5. ran' \in [Requests -> Rows] /\ device' \in [1 .. MaxBatch -> Rows]
  BY <1>0, <1>1, <1>4
<1>6. TypeInv'
  BY <1>0, <1>1, <1>2, <1>5 DEF TypeInv, TypeOK, poolVars, pumpVars
<1>7. UNCHANGED <<pool, capacity, used, poisoned, lease, thread, pump, channel>>
  BY <1>1 DEF poolVars, pumpVars
<1>8. PoolInv' /\ QueueInv'
  BY <1>7 DEF IInv, PoolInv, OneOwner, NothingLeaked, Held, Handle, QueueInv, At
<1>9. \A q \in Requests : ThreadInv(q)' /\ CleanInv(q)'
  BY <1>7 DEF IInv, ThreadInv, CleanInv, Members, Handle, At
<1>10. QED
  BY <1>6, <1>8, <1>9 DEF IInv

LEMMA DropEngineInv ==
  ASSUME IInv, DropEngine
  PROVE  IInv'
<1>1. /\ engine' = FALSE
      /\ UNCHANGED <<pool, capacity, used, poisoned, lease, thread, registered, pump, channel,
                     pinned, device, stream, ran, faults>>
  BY DEF DropEngine, poolVars, pumpVars, batchVars
<1>2. TypeInv'
  BY <1>1 DEF IInv, TypeInv, TypeOK
<1>3. PoolInv' /\ QueueInv'
  BY <1>1 DEF IInv, PoolInv, OneOwner, NothingLeaked, Held, Handle, QueueInv, At
<1>4. \A q \in Requests : ThreadInv(q)' /\ CleanInv(q)'
  BY <1>1 DEF IInv, ThreadInv, CleanInv, Members, Handle, At
<1>5. QED
  BY <1>2, <1>3, <1>4 DEF IInv

\* The pooled sessions are destroyed, and no thread has one of them.
LEMMA DrainPoolInv ==
  ASSUME IInv, DrainPool
  PROVE  IInv'
<1>0. TypeInv /\ PoolInv /\ QueueInv
  BY DEF IInv
<1>1. /\ pool' = {} /\ used' = used \ pool
      /\ capacity' = [h \in Handles |-> IF h \in pool THEN 0 ELSE capacity[h]]
      /\ UNCHANGED <<poisoned, lease, thread, registered, pump, channel, engine,
                     pinned, device, stream, ran, faults>>
  BY DEF DrainPool, pumpVars, batchVars
<1>2. TypeInv'
  <2>1. capacity' \in [Handles -> Nat]
    BY <1>0, <1>1 DEF TypeInv, TypeOK
  <2>2. QED
    BY <1>0, <1>1, <2>1 DEF TypeInv, TypeOK
<1>3. PoolInv'
  <2>1. Held' = Held /\ OneOwner' /\ pool \cap Held = {}
    BY <1>0, <1>1 DEF PoolInv, OneOwner, Held, Handle
  <2>2. Cardinality(pool') <= MaxPooled
    BY <1>1, FS_EmptySet, ModelAssumption
  <2>3. \A h \in Handles : capacity'[h] = IF h \in pool THEN 0 ELSE capacity[h]
    BY <1>1
  <2>4. NothingLeaked'
    BY <1>0, <1>1, <2>1, <2>2, <2>3 DEF PoolInv, NothingLeaked
  <2>5. QED
    BY <1>0, <1>1, <2>1, <2>3, <2>4 DEF PoolInv
<1>4. QueueInv'
  <2>1. UNCHANGED <<pump, channel, thread>>
    BY <1>1
  <2>2. QED
    BY <1>0, <2>1 DEF QueueInv, At
<1>5. ASSUME NEW q \in Requests PROVE ThreadInv(q)' /\ CleanInv(q)'
  <2>1. ThreadInv(q) /\ CleanInv(q) /\ UNCHANGED <<thread[q], pump>>
    BY <1>1 DEF IInv
  <2>2. Handle(q) # None => Handle(q) \in Handles /\ Handle(q) \notin pool
    BY <1>0 DEF PoolInv, OneOwner, Held, TypeInv, TypeOK, Threads, Handle
  <2>3. QED
    BY <1>1, <2>1, <2>2, OtherThread
<1>6. QED
  BY <1>2, <1>3, <1>4, <1>5 DEF IInv

-----------------------------------------------------------------------------
(* The theorems.                                                           *)

LEMMA InitInv == Init => IInv
<1> SUFFICES ASSUME Init PROVE IInv
  OBVIOUS
<1>1. TypeInv
  <2>1. NoRow \in Rows /\ Idle \in Threads /\ <<>> \in Seq(Requests) /\ <<>> \in Seq(Ops)
    BY ModelAssumption DEF NoRow, Rows, Idle, Threads
  <2>2. pump \in Pumps
    BY <2>1 DEF Init, Pumps
  <2>3. QED
    BY <2>1, <2>2, ModelAssumption DEF Init, TypeInv, TypeOK
<1>2. PoolInv
  <2>1. Held = {} /\ Cardinality(pool) <= MaxPooled
    BY FS_EmptySet, ModelAssumption DEF Init, Held, Handle, Idle
  <2>2. QED
    BY <2>1, ModelAssumption DEF Init, PoolInv, OneOwner, NothingLeaked, Handle, Idle
<1>3. QueueInv
  <2>1. Len(pump.batch) = 0 /\ Len(channel) = 0
    BY DEF Init
  <2>2. QED
    BY <2>1, ModelAssumption DEF Init, QueueInv, At, Idle
<1>4. \A r \in Requests : ThreadInv(r) /\ CleanInv(r)
  BY DEF Init, ThreadInv, CleanInv, Idle
<1>5. QED
  BY <1>1, <1>2, <1>3, <1>4 DEF IInv

LEMMA NextInv == IInv /\ [Next]_vars => IInv'
<1> SUFFICES ASSUME IInv, [Next]_vars PROVE IInv'
  OBVIOUS
<1>1. ASSUME NEW r \in Requests, Session(r) PROVE IInv'
  BY <1>1, TakeInv, ResetInv, CreateInv, PrefillInv, DropInv, RecycleInv, DestroySessionInv,
     BeginFirstInv, SubmitInv, FinishInv DEF Session
<1>2. CASE Pump
  BY <1>2, PumpRecvInv, PumpGatherInv, PumpFireInv, PumpSyncInv, PumpExitInv DEF Pump
<1>3. CASE UNCHANGED vars
  <2>1. UNCHANGED <<pool, capacity, used, poisoned, lease, thread, registered, pump, channel,
                    engine, pinned, device, stream, ran, faults>>
    BY <1>3 DEF vars, poolVars, pumpVars, batchVars
  <2>2. TypeInv'
    BY <2>1 DEF IInv, TypeInv, TypeOK
  <2>3. PoolInv' /\ QueueInv'
    BY <2>1 DEF IInv, PoolInv, OneOwner, NothingLeaked, Held, Handle, QueueInv, At
  <2>4. \A q \in Requests : ThreadInv(q)' /\ CleanInv(q)'
    BY <2>1 DEF IInv, ThreadInv, CleanInv, Members, Handle, At
  <2>5. QED
    BY <2>2, <2>3, <2>4 DEF IInv
<1>4. QED
  BY <1>1, <1>2, <1>3, ExecuteInv, DropEngineInv, DrainPoolInv DEF Next, Released

LEMMA Invariant == Spec => []IInv
  BY InitInv, NextInv, PTL DEF Spec

\* Every native session is in the pool or held by one request, none is lost,
\* the pool keeps its limit, and the pump's batch and channel hold exactly the
\* requests that are parked (acquire_session, recycle_session, run_batch).
THEOREM SessionsAreAccounted == Spec => []SessionsAccounted
<1>1. IInv => SessionsAccounted
  BY QueuedIsParked DEF IInv, TypeInv, PoolInv, SessionsAccounted
<1>2. QED
  BY <1>1, Invariant, PTL

\* Whatever became of the request before it, a request starts on a session
\* that is large enough, reset, unpoisoned and without a lease.
THEOREM RequestsStartFresh == Spec => []StartsFresh
<1>1. IInv => StartsFresh
  BY DEF IInv, ThreadInv, StartsFresh, At, Handle
<1>2. QED
  BY <1>1, Invariant, PTL
=============================================================================
