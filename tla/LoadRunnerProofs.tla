-------------------------- MODULE LoadRunnerProofs --------------------------
(***************************************************************************)
(* Proofs about the load client, for every number of warm-ups and measured *)
(* requests and every width of a batch: a run that finishes has one record *)
(* for each request, tasks start together, no batch is too wide, and what  *)
(* is measured is the measured work alone.                                 *)
(***************************************************************************)
EXTENDS LoadRunner, Integers, TLAPS, FiniteSetTheorems, FunctionTheorems, SequenceTheorems

-----------------------------------------------------------------------------
(* The inductive invariant.                                                *)

Busy == Waiting \cup {"connected"}
Settled == Codes \cup {"unconnected"}
States == {"none", "connected", "unconnected"} \cup Waiting \cup Codes

\* The batch begins at first, has the configured width or what is left of
\* the phase, and is connected in order.
BatchInv ==
  /\ first \in 1..(Size(phase) + 1)
  /\ batch = Chunk(first, Size(phase))
  /\ next \in first..(batch + 1)

\* Requests before the batch are over, those behind next have not begun, and
\* none is collected before it is over.  No task of the batch runs before every
\* connection attempt is over, nor before all of them are spawned at once.
TaskInv ==
  \A i \in Indices :
    /\ i < first => i \in Collected
    /\ i >= next <=> task[i] = "none"
    /\ i >= first /\ next <= batch => task[i] \in {"none", "connected", "unconnected"}
    /\ task[i] = "unconnected" => i \in Collected
    /\ i \in Collected => task[i] \in Settled
    /\ task[i] = "connected" =>
         \A j \in Indices : j >= first => task[j] \in {"none", "connected", "unconnected"}

\* Each request has one outcome.
OutcomeInv ==
  \A k, l \in DOMAIN outcomes : outcomes[k].index = outcomes[l].index => k = l

\* The barrier counts the tasks of the batch and releases them all.
BarrierInv ==
  /\ arrived \subseteq Tasks
  /\ \A i \in Indices : task[i] \in {"writing", "reading"} => Tasks \subseteq arrived

\* The marks made in each phase.  The measured phase begins only after every
\* warm-up has passed.
MarkInv ==
  /\ Len(marks) \in 1..4
  /\ phase = "warmup" => Len(marks) \in {1, 2}
  /\ phase = "aborted" => Len(marks) = 1
  /\ phase = "measured" => Len(marks) = 3
  /\ phase \in {"finished", "unreported"} => Len(marks) = 4
  /\ phase = "warmup" /\ Len(marks) = 2 => BatchDone /\ batch = Warmups /\ WarmupPassed

IInv ==
  /\ TypeOK /\ BatchInv /\ TaskInv /\ OutcomeInv /\ BarrierInv /\ MarkInv
  /\ OneRecordEach

-----------------------------------------------------------------------------
(* Facts about batches and outcomes.                                       *)

LEMMA Sizes ==
  /\ Size(phase) \in Nat
  /\ Indices = 1..Size(phase)
  /\ phase = "warmup" => Size(phase) = Warmups
  /\ phase \in {"measured", "finished", "unreported"} => Size(phase) = Measured
BY LoadAssumption DEF LoadAssumption, Size, Indices

\* A batch is never empty while requests are left, nor wider than configured.
LEMMA ChunkBounds ==
  ASSUME NEW size \in Nat, NEW from \in 1..(size + 1)
  PROVE  /\ Chunk(from, size) \in (from - 1)..size
         /\ Chunk(from, size) - from + 1 <= Concurrency
         /\ from <= size => from <= Chunk(from, size)
BY LoadAssumption DEF LoadAssumption, Chunk

LEMMA Kinds ==
  /\ "none" \notin Settled /\ "none" \notin Busy /\ Busy \cap Settled = {}
  /\ "unconnected" \notin Codes /\ "unconnected" \notin Waiting
  /\ "connected" \notin Codes /\ "connected" \notin Waiting /\ "none" \notin Waiting
  /\ "none" \notin Codes /\ Waiting \cap Codes = {}
BY DEF Settled, Busy, Codes, Waiting

\* Outcomes are of requests of the phase.
LEMMA OutcomeIndices ==
  ASSUME NEW N \in Nat, outcomes \in Seq([index : 1..N, code : Codes])
  PROVE  /\ Len(outcomes) \in Nat /\ DOMAIN outcomes = 1..Len(outcomes)
         /\ \A k \in 1..Len(outcomes) : outcomes[k].index \in 1..N
         /\ Collected \subseteq 1..N
<1>1. Len(outcomes) \in Nat /\ DOMAIN outcomes = 1..Len(outcomes)
  BY LenProperties
<1>2. ASSUME NEW k \in 1..Len(outcomes) PROVE outcomes[k].index \in 1..N
  <2>1. outcomes[k] \in [index : 1..N, code : Codes]
    BY ElementOfSeq
  <2>2. QED
    BY <2>1
<1>3. QED
  BY <1>1, <1>2 DEF Collected

\* A new outcome, and who is collected then.
LEMMA Appended ==
  ASSUME TypeOK, OutcomeInv, NEW i \in Indices, i \notin Collected, NEW c \in Codes,
         outcomes' = Append(outcomes, [index |-> i, code |-> c]), UNCHANGED phase
  PROVE  /\ outcomes' \in Seq([index : Indices, code : Codes])
         /\ Collected' = Collected \cup {i} /\ OutcomeInv'
<1> DEFINE o == [index |-> i, code |-> c]
           n == Len(outcomes)
<1>1. outcomes \in Seq([index : Indices, code : Codes]) /\ o \in [index : Indices, code : Codes]
  BY DEF TypeOK
<1>2. /\ outcomes' \in Seq([index : Indices, code : Codes]) /\ Len(outcomes') = n + 1 /\ n \in Nat
      /\ \A k \in 1..n : outcomes'[k] = outcomes[k]
      /\ outcomes'[n + 1] = o
  BY <1>1, AppendProperties
<1>3. DOMAIN outcomes = 1..n /\ DOMAIN outcomes' = 1..(n + 1)
  BY <1>1, <1>2, LenProperties
<1>4. \A k \in 1..n : outcomes[k].index \in Collected
  BY <1>3 DEF Collected
<1> HIDE DEF n, o
<1>5. Collected' = Collected \cup {i}
  <2>1. ASSUME NEW x \in Collected' PROVE x \in Collected \cup {i}
    <3>1. PICK k \in 1..(n + 1) : x = outcomes'[k].index
      BY <1>3, <2>1 DEF Collected
    <3>2. CASE k = n + 1
      BY <1>2, <3>1, <3>2 DEF o
    <3>3. CASE k # n + 1
      <4>1. k \in 1..n
        BY <1>2, <3>3
      <4>2. QED
        BY <1>2, <1>4, <3>1, <4>1
    <3>4. QED
      BY <3>2, <3>3
  <2>2. ASSUME NEW x \in Collected PROVE x \in Collected'
    <3>1. PICK k \in 1..n : x = outcomes[k].index
      BY <1>3, <2>2 DEF Collected
    <3>2. k \in 1..(n + 1) /\ x = outcomes'[k].index
      BY <1>2, <3>1
    <3>3. QED
      BY <1>3, <3>2 DEF Collected
  <2>3. i \in Collected'
    <3>1. n + 1 \in 1..(n + 1) /\ outcomes'[n + 1].index = i
      BY <1>2 DEF o
    <3>2. QED
      BY <1>3, <3>1 DEF Collected
  <2>4. QED
    BY <2>1, <2>2, <2>3
<1>6. ASSUME NEW k \in 1..(n + 1), NEW l \in 1..(n + 1), outcomes'[k].index = outcomes'[l].index
      PROVE  k = l
  <2>1. CASE k \in 1..n /\ l \in 1..n
    BY <1>2, <1>3, <1>6, <2>1 DEF OutcomeInv
  <2>2. CASE k = n + 1 /\ l \in 1..n
    BY <1>2, <1>4, <1>6, <2>2 DEF o
  <2>3. CASE l = n + 1 /\ k \in 1..n
    BY <1>2, <1>4, <1>6, <2>3 DEF o
  <2>4. QED
    BY <1>2, <1>6, <2>1, <2>2, <2>3
<1>7. OutcomeInv'
  BY <1>3, <1>6 DEF OutcomeInv
<1>8. QED
  BY <1>2, <1>5, <1>7

\* When a batch is done, every request up to its last one has its outcome.
LEMMA BatchIsDone ==
  ASSUME TypeOK, BatchInv, TaskInv, BatchDone
  PROVE  /\ next = batch + 1
         /\ \A i \in Indices : i <= batch => i \in Collected
<1>1. first \in Nat /\ batch \in Nat /\ next = batch + 1
  BY Sizes DEF TypeOK, BatchInv, BatchDone
<1>2. ASSUME NEW i \in Indices, i <= batch PROVE i \in Collected
  <2>1. i < next /\ i \in Nat
    BY <1>1, <1>2, Sizes
  <2>2. task[i] # "none"
    BY <1>1, <2>1 DEF TaskInv
  <2>3. CASE i < first
    BY <2>3 DEF TaskInv
  <2>4. CASE i >= first /\ task[i] = "unconnected"
    BY <2>4 DEF TaskInv
  <2>5. CASE i >= first /\ task[i] # "unconnected"
    <3>1. i \in first..batch
      BY <1>1, <1>2, <2>1, <2>5
    <3>2. QED
      BY <2>2, <2>5, <3>1 DEF Tasks, BatchDone
  <2>6. QED
    BY <1>1, <2>1, <2>3, <2>4, <2>5
<1>3. QED
  BY <1>1, <1>2

\* When the last batch is done, every request of the phase has its outcome.
LEMMA PhaseIsDone ==
  ASSUME TypeOK, BatchInv, TaskInv, OutcomeInv, BatchDone, batch = Size(phase)
  PROVE  /\ Collected = Indices
         /\ \A i \in Indices : task[i] \notin Busy
         /\ Len(outcomes) = Size(phase)
<1>1. /\ Len(outcomes) \in Nat /\ DOMAIN outcomes = 1..Len(outcomes)
      /\ \A k \in 1..Len(outcomes) : outcomes[k].index \in Indices
      /\ Collected \subseteq Indices
  BY Sizes, OutcomeIndices DEF TypeOK
<1>2. Collected \subseteq Indices
  BY <1>1
<1>3. ASSUME NEW i \in Indices PROVE i \in Collected
  BY BatchIsDone, Sizes
<1>4. Collected = Indices
  BY <1>2, <1>3
<1>5. \A i \in Indices : task[i] \notin Busy
  BY <1>3, Kinds DEF TaskInv
<1>6. Len(outcomes) = Size(phase)
  <2> DEFINE f == [k \in 1..Len(outcomes) |-> outcomes[k].index]
  <2>1. f \in [1..Len(outcomes) -> Indices]
    BY <1>1
  <2>2. f \in Surjection(1..Len(outcomes), Indices)
    BY <1>1, <1>4, <2>1 DEF Surjection, Collected
  <2>3. f \in Injection(1..Len(outcomes), Indices)
    BY <1>1, <2>1 DEF Injection, IsInjective, OutcomeInv
  <2>4. IsFiniteSet(1..Len(outcomes)) /\ Cardinality(1..Len(outcomes)) = Len(outcomes)
    BY <1>1, FS_Interval, SMTT(60)
  <2>5. Cardinality(Indices) = Cardinality(1..Len(outcomes))
    BY <2>2, <2>3, <2>4, FS_Surjection
  <2>6. Cardinality(Indices) = Size(phase)
    BY Sizes, FS_Interval
  <2>7. QED
    BY <2>4, <2>5, <2>6
<1>7. QED
  BY <1>4, <1>5, <1>6

\* The sort puts outcome i in place i, when there is one for each request.
LEMMA ReportIsSorted ==
  ASSUME NEW N \in Nat, outcomes \in Seq([index : 1..N, code : Codes]), Len(outcomes) = N,
         OutcomeInv, Collected = 1..N
  PROVE  /\ Len(Report(outcomes)) = N
         /\ \A i \in 1..N : Report(outcomes)[i].index = i
<1>1. DOMAIN outcomes = 1..N /\ \A k \in 1..N : outcomes[k].index \in 1..N
  BY OutcomeIndices
<1>2. ASSUME NEW k \in 1..N
      PROVE  Cardinality(Before(outcomes, k)) = outcomes[k].index - 1
  <2> DEFINE m == outcomes[k].index
             B == Before(outcomes, k)
             f == [l \in B |-> outcomes[l].index]
  <2>1. m \in 1..N
    BY <1>1
  <2>2. B = {l \in 1..N : outcomes[l].index < m}
    <3>1. ASSUME NEW l \in 1..N, outcomes[l].index = m PROVE ~(l < k)
      BY <1>1, <3>1, SMTT(60) DEF OutcomeInv
    <3>2. QED
      BY <1>1, <3>1 DEF Before
  <2> HIDE DEF m, B
  <2>3. f \in [B -> 1..(m - 1)]
    BY <1>1, <2>1, <2>2
  <2>4. f \in Surjection(B, 1..(m - 1))
    <3>1. ASSUME NEW j \in 1..(m - 1) PROVE \E l \in B : f[l] = j
      <4>1. j \in Collected /\ j < m
        BY <2>1
      <4>2. PICK l \in 1..N : outcomes[l].index = j
        BY <1>1, <4>1 DEF Collected
      <4>3. QED
        BY <2>2, <4>1, <4>2
    <3>2. QED
      BY <2>3, <3>1 DEF Surjection
  <2>5. f \in Injection(B, 1..(m - 1))
    BY <1>1, <2>2, <2>3, ZenonT(60) DEF Injection, IsInjective, OutcomeInv
  <2>6. IsFiniteSet(B)
    <3>1. IsFiniteSet(1..N) /\ B \subseteq 1..N
      BY <2>2, FS_Interval
    <3>2. QED
      BY <3>1, FS_Subset
  <2>7. Cardinality(1..(m - 1)) = Cardinality(B)
    BY <2>4, <2>5, <2>6, FS_Surjection
  <2>8. Cardinality(1..(m - 1)) = m - 1
    <3>1. m - 1 \in Nat
      BY <2>1
    <3>2. QED
      BY <3>1, FS_Interval
  <2>9. QED
    BY <2>7, <2>8 DEF m, B
<1>3. ASSUME NEW i \in 1..N PROVE Report(outcomes)[i].index = i
  <2>1. i \in Collected
    OBVIOUS
  <2>2. PICK k \in 1..N : outcomes[k].index = i
    BY <1>1, <2>1 DEF Collected
  <2>3. Cardinality(Before(outcomes, k)) = i - 1
    BY <1>2, <2>2
  <2> DEFINE c == CHOOSE x \in 1..N : Cardinality(Before(outcomes, x)) = i - 1
  <2>4. c \in 1..N /\ Cardinality(Before(outcomes, c)) = i - 1
    BY <2>3
  <2>5. Report(outcomes)[i] = outcomes[c]
    BY <1>1 DEF Report
  <2> HIDE DEF c
  <2>6. outcomes[c].index - 1 = i - 1 /\ outcomes[c].index \in 1..N
    BY <1>1, <1>2, <2>4
  <2>7. QED
    BY <2>5, <2>6
<1>4. Len(Report(outcomes)) = N
  <2>1. DOMAIN Report(outcomes) = 1..N
    BY <1>1 DEF Report
  <2>2. QED
    BY <2>1
<1>5. QED
  BY <1>3, <1>4

-----------------------------------------------------------------------------
(* Every action keeps the invariant.                                       *)

\* The next request of a batch connects, or is an outcome at once.
LEMMA ConnectKeeps ==
  ASSUME IInv, NEW code \in {"ok", "connect_error", "connect_timeout"}, Connect(code)
  PROVE  IInv'
<1>1. /\ TypeOK /\ BatchInv /\ TaskInv /\ OutcomeInv /\ BarrierInv /\ MarkInv
      /\ next \in first..batch /\ next \in Nat /\ first \in Nat /\ batch \in Nat /\ phase \in {"warmup", "measured"}
      /\ batch <= Size(phase) /\ Indices' = Indices /\ UNCHANGED Size(phase)
  BY Sizes, SMTT(60) DEF IInv, Connect, Running, TypeOK, BatchInv, Indices, Size
<1>2. next \in Indices /\ task[next] = "none"
  BY <1>1, Sizes DEF TaskInv, BatchInv
<1>3. next \notin Collected
  BY <1>1, <1>2, Kinds DEF TaskInv
<1> DEFINE to == IF code = "ok" THEN "connected" ELSE "unconnected"
<1>4. /\ task' \in [Indices -> States]
      /\ \A j \in Indices : task'[j] = IF j = next THEN to ELSE task[j]
      /\ next' = next + 1 /\ UNCHANGED <<phase, marks, first, batch, arrived, report>>
  BY <1>1, <1>2 DEF Connect, TypeOK, States
<1>5. /\ outcomes' \in Seq([index : Indices, code : Codes]) /\ OutcomeInv'
      /\ Collected' = Collected \cup (IF code = "ok" THEN {} ELSE {next})
  <2>1. CASE code = "ok"
    BY <1>1, <2>1 DEF Connect, Attempted, TypeOK, OutcomeInv, Collected
  <2>2. CASE code # "ok"
    <3>1. code \in Codes /\ outcomes' = Append(outcomes, [index |-> next, code |-> code])
      BY <2>2 DEF Connect, Attempted, Codes
    <3>2. QED
      BY <1>1, <1>2, <1>3, <1>4, <2>2, <3>1, Appended
  <2>3. QED
    BY <2>1, <2>2
<1> HIDE DEF to
<1>6. TypeOK'
  BY <1>1, <1>2, <1>4, <1>5, Sizes DEF TypeOK, States
<1>7. BatchInv'
  BY <1>1, <1>4 DEF BatchInv
<1>8. ASSUME NEW i \in Indices
      PROVE  /\ i >= first => task[i] \in {"none", "connected", "unconnected"}
             /\ task'[i] \notin Waiting
  <2>1. i >= first => task[i] \in {"none", "connected", "unconnected"}
    BY <1>1 DEF TaskInv
  <2>2. task[i] \notin Waiting
    BY <1>1, <2>1, Kinds, Sizes DEF TaskInv, Busy
  <2>3. QED
    BY <1>4, <2>1, <2>2, Kinds DEF to
<1>9. TaskInv'
  <2>1. ASSUME NEW i \in Indices
        PROVE  /\ i < first => i \in Collected'
               /\ i >= next' <=> task'[i] = "none"
               /\ i >= first => task'[i] \in {"none", "connected", "unconnected"}
               /\ task'[i] = "unconnected" => i \in Collected'
               /\ i \in Collected' => task'[i] \in Settled
    <3>1. CASE i = next
      BY <1>1, <1>3, <1>4, <1>5, <3>1 DEF to, Settled, TaskInv
    <3>2. CASE i # next
      <4>1. task'[i] = task[i] /\ i \in Nat /\ (i >= next + 1 <=> i >= next)
        BY <1>1, <1>4, <3>2, Sizes
      <4>2. i \in Collected' <=> i \in Collected
        BY <1>5, <3>2
      <4>3. QED
        BY <1>1, <1>4, <1>8, <4>1, <4>2 DEF TaskInv
    <3>3. QED
      BY <3>1, <3>2
  <2>2. QED
    BY <1>1, <1>4, <2>1 DEF TaskInv
<1>10. BarrierInv'
  <2>1. Tasks \subseteq Tasks'
    <3>1. first..batch \subseteq Indices
      BY <1>1, Sizes DEF BatchInv
    <3>2. \A j \in Tasks : j \in first..batch /\ j # next /\ task'[j] = task[j]
      BY <1>2, <1>4, <3>1 DEF Tasks
    <3>3. QED
      BY <1>4, <3>2 DEF Tasks
  <2>2. QED
    BY <1>1, <1>4, <1>8, <2>1 DEF BarrierInv, Waiting
<1>11. MarkInv'
  BY <1>1, <1>4 DEF MarkInv, BatchDone
<1>12. OneRecordEach'
  BY <1>1, <1>4 DEF OneRecordEach
<1>13. QED
  BY <1>5, <1>6, <1>7, <1>9, <1>10, <1>11, <1>12 DEF IInv

\* All connections of the batch become tasks at once.
LEMMA SpawnKeeps ==
  ASSUME IInv, Spawn
  PROVE  IInv'
<1>1. /\ TypeOK /\ BatchInv /\ TaskInv /\ OutcomeInv /\ BarrierInv /\ MarkInv
      /\ next > batch /\ next \in Nat /\ first \in Nat /\ batch \in Nat /\ phase \in {"warmup", "measured"}
      /\ UNCHANGED <<phase, marks, next, first, batch, outcomes, report>> /\ arrived' = {}
      /\ Indices' = Indices /\ UNCHANGED Size(phase)
  BY Sizes DEF IInv, Spawn, Running, TypeOK, BatchInv, Indices, Size
<1>2. PICK s \in Indices : task[s] = "connected"
  BY DEF Spawn
<1>3. /\ task' \in [Indices -> States]
      /\ \A j \in Indices : task'[j] = IF task[j] = "connected" THEN "spawned" ELSE task[j]
  BY <1>1 DEF Spawn, TypeOK, States, Waiting
<1>4. Collected' = Collected
  BY <1>1 DEF Collected
<1>5. ASSUME NEW i \in Indices PROVE task[i] \notin Waiting
  <2>1. CASE i >= first
    BY <1>1, <1>2, <2>1, Kinds DEF TaskInv, Waiting
  <2>2. CASE i < first
    BY <1>1, <2>2, Kinds DEF TaskInv, Busy
  <2>3. QED
    BY <1>1, <2>1, <2>2, Sizes
<1>6. TypeOK' /\ BatchInv' /\ OutcomeInv' /\ OneRecordEach'
  BY <1>1, <1>3 DEF TypeOK, BatchInv, OutcomeInv, OneRecordEach, States
<1>7. TaskInv'
  <2>1. ASSUME NEW i \in Indices
        PROVE  /\ i < first => i \in Collected
               /\ i >= next <=> task'[i] = "none"
               /\ task'[i] = "unconnected" => i \in Collected
               /\ i \in Collected => task'[i] \in Settled
               /\ task'[i] # "connected"
    BY <1>1, <1>3, Kinds DEF TaskInv, Settled
  <2>2. \A i \in Indices : ~(i >= first /\ next <= batch)
    BY <1>1
  <2>3. QED
    BY <1>1, <1>4, <2>1, <2>2 DEF TaskInv
<1>8. BarrierInv'
  BY <1>1, <1>3, <1>5 DEF BarrierInv, Waiting
<1>9. MarkInv'
  <2>1. ~BatchDone
    BY <1>2 DEF BatchDone
  <2>2. QED
    BY <1>1, <2>1 DEF MarkInv
<1>10. QED
  BY <1>6, <1>7, <1>8, <1>9 DEF IInv

\* A step of one running task, which may release others from the barrier.
LEMMA TaskMoves ==
  ASSUME IInv, NEW t \in Indices, task[t] \in Waiting,
         UNCHANGED <<phase, marks, next, first, batch, outcomes, report>>,
         arrived' \subseteq Indices, task' \in [Indices -> States],
         \A j \in Indices : \/ task'[j] = task[j]
                            \/ task[j] \in Waiting /\ task'[j] \in Waiting \cup Codes
  PROVE  /\ TypeOK' /\ BatchInv' /\ TaskInv' /\ OutcomeInv' /\ MarkInv' /\ OneRecordEach'
         /\ Tasks' = Tasks /\ t \in Tasks
<1>1. /\ TypeOK /\ BatchInv /\ TaskInv /\ OutcomeInv /\ BarrierInv /\ MarkInv /\ OneRecordEach
      /\ next \in Nat /\ first \in Nat /\ batch \in Nat
      /\ Indices' = Indices /\ UNCHANGED Size(phase) /\ UNCHANGED Collected
  BY Sizes DEF IInv, TypeOK, BatchInv, Indices, Size, Collected
<1>2. t \notin Collected /\ t \in Nat
  BY <1>1, Kinds, Sizes DEF TaskInv, Busy
<1>3. t >= first /\ t < next
  BY <1>1, <1>2, Kinds, Sizes DEF TaskInv
<1>4. next > batch
  BY <1>1, <1>3, Kinds DEF TaskInv, Waiting
<1>5. TypeOK' /\ BatchInv' /\ OutcomeInv' /\ OneRecordEach'
  BY <1>1 DEF TypeOK, BatchInv, OutcomeInv, OneRecordEach, States
<1>6. TaskInv'
  <2>1. \A i \in Indices : task[i] # "connected"
    BY <1>1, <1>3, Kinds DEF TaskInv, Waiting
  <2>2. ASSUME NEW i \in Indices
        PROVE  /\ i < first => i \in Collected
               /\ i >= next <=> task'[i] = "none"
               /\ task'[i] = "unconnected" => i \in Collected
               /\ i \in Collected => task'[i] \in Settled
               /\ task'[i] # "connected"
    <3>1. CASE task'[i] = task[i]
      BY <1>1, <2>1, <3>1 DEF TaskInv
    <3>2. CASE task[i] \in Waiting /\ task'[i] \in Waiting \cup Codes
      BY <1>1, <3>2, Kinds DEF TaskInv, Busy, Settled
    <3>3. QED
      BY <3>1, <3>2
  <2>3. \A i \in Indices : ~(i >= first /\ next <= batch)
    BY <1>1, <1>4
  <2>4. QED
    BY <1>1, <2>2, <2>3 DEF TaskInv
<1>7. Tasks' = Tasks
  <2>1. \A j \in Indices : task'[j] \in {"none", "unconnected"} <=> task[j] \in {"none", "unconnected"}
    BY Kinds
  <2>2. first..batch \subseteq Indices
    BY <1>1, Sizes, SMTT(60) DEF BatchInv, TypeOK
  <2>3. QED
    BY <2>1, <2>2 DEF Tasks
<1>8. t \in Tasks
  BY <1>1, <1>2, <1>3, Kinds DEF BatchInv, Tasks
<1>9. MarkInv'
  <2>1. ~BatchDone
    BY <1>2, <1>8 DEF BatchDone
  <2>2. QED
    BY <1>1, <2>1 DEF MarkInv
<1>10. QED
  BY <1>5, <1>6, <1>7, <1>8, <1>9

\* A task reaches the barrier; the last one releases them all.
LEMMA ArriveKeeps ==
  ASSUME IInv, NEW i \in Indices, Arrive(i)
  PROVE  IInv'
<1>1. /\ TypeOK /\ BatchInv /\ BarrierInv /\ task[i] \in Waiting
      /\ arrived' = arrived \cup {i} /\ arrived' \subseteq Indices
      /\ UNCHANGED <<phase, marks, next, first, batch, outcomes, report>>
  BY DEF IInv, Arrive, Waiting, TypeOK
<1>2. /\ task' \in [Indices -> States]
      /\ \A j \in Indices : \/ task'[j] = task[j]
                            \/ task[j] \in Waiting /\ task'[j] \in Waiting \cup Codes
  <2>1. task \in [Indices -> States] /\ task[i] = "spawned"
    BY <1>1 DEF Arrive, TypeOK, States
  <2>2. CASE Cardinality(arrived') = BarrierSize
    <3>1. task' = [j \in Indices |-> IF j = i \/ task[j] = "barrier" THEN "writing" ELSE task[j]]
      BY <2>2 DEF Arrive
    <3>2. \A j \in Indices : \/ task'[j] = task[j]
                             \/ task[j] \in Waiting /\ task'[j] \in Waiting
      BY <2>1, <3>1 DEF Waiting
    <3>3. \A j \in Indices : task'[j] \in States
      BY <2>1, <3>2 DEF States
    <3>4. task' = [j \in Indices |-> task'[j]]
      BY <2>1, <3>1
    <3>5. task' \in [Indices -> States]
      BY <3>3, <3>4
    <3>6. QED
      BY <3>2, <3>5
  <2>3. CASE Cardinality(arrived') # BarrierSize
    <3>1. task' = [task EXCEPT ![i] = "barrier"]
      BY <2>3 DEF Arrive
    <3>2. \A j \in Indices : \/ task'[j] = task[j]
                             \/ task[j] \in Waiting /\ task'[j] \in Waiting
      BY <2>1, <3>1 DEF Waiting
    <3>3. \A j \in Indices : task'[j] \in States
      BY <2>1, <3>2 DEF States
    <3>4. task' = [j \in Indices |-> task'[j]]
      BY <2>1, <3>1
    <3>5. task' \in [Indices -> States]
      BY <3>3, <3>4
    <3>6. QED
      BY <3>2, <3>5
  <2>4. QED
    BY <2>2, <2>3
<1>3. /\ TypeOK' /\ BatchInv' /\ TaskInv' /\ OutcomeInv' /\ MarkInv' /\ OneRecordEach'
      /\ Tasks' = Tasks /\ i \in Tasks
  BY <1>1, <1>2, TaskMoves
<1>4. arrived' \subseteq Tasks
  BY <1>1, <1>3 DEF BarrierInv
<1>5. CASE Cardinality(arrived') = BarrierSize
  <2>1. IsFiniteSet(first..batch) /\ Tasks \subseteq first..batch
    BY <1>1, FS_Interval DEF BatchInv, TypeOK, Tasks
  <2>2. IsFiniteSet(Tasks)
    BY <2>1, FS_Subset
  <2>3. arrived' = Tasks
    BY <1>4, <1>5, <2>2, FS_Subset DEF BarrierSize
  <2>4. QED
    BY <1>3, <2>3 DEF BarrierInv, IInv
<1>6. CASE Cardinality(arrived') # BarrierSize
  <2>1. \A j \in Indices : task'[j] \in {"writing", "reading"} => task[j] \in {"writing", "reading"}
    BY <1>1, <1>6 DEF Arrive, TypeOK
  <2>2. BarrierInv'
    BY <1>1, <1>3, <1>4, <2>1 DEF BarrierInv, Indices
  <2>3. QED
    BY <1>3, <2>2 DEF IInv
<1>7. QED
  BY <1>5, <1>6

\* A task writes its request, gets its answer or runs into its limit.
LEMMA AnswerKeeps ==
  ASSUME IInv, NEW i \in Indices, NEW to \in {"reading"} \cup Codes,
         task[i] \in {"barrier", "writing", "reading"},
         to = "reading" => task[i] = "writing",
         task' = [task EXCEPT ![i] = to],
         UNCHANGED <<phase, marks, next, first, batch, arrived, outcomes, report>>
  PROVE  IInv'
<1>1. TypeOK /\ BarrierInv /\ task[i] \in Waiting /\ arrived' \subseteq Indices
  BY DEF IInv, Waiting, TypeOK
<1>2. /\ task' \in [Indices -> States]
      /\ \A j \in Indices : task'[j] = IF j = i THEN to ELSE task[j]
  BY <1>1 DEF TypeOK, States, Waiting
<1>3. \A j \in Indices : \/ task'[j] = task[j]
                         \/ task[j] \in Waiting /\ task'[j] \in Waiting \cup Codes
  BY <1>1, <1>2 DEF Waiting
<1>4. /\ TypeOK' /\ BatchInv' /\ TaskInv' /\ OutcomeInv' /\ MarkInv' /\ OneRecordEach'
      /\ Tasks' = Tasks
  BY <1>1, <1>2, <1>3, TaskMoves
<1>5. \A j \in Indices : task'[j] \in {"writing", "reading"} => \E l \in Indices : task[l] \in {"writing", "reading"}
  BY <1>2 DEF Codes
<1>6. BarrierInv'
  BY <1>1, <1>4, <1>5 DEF BarrierInv, Indices
<1>7. QED
  BY <1>4, <1>6 DEF IInv

\* The client collects the outcome of a finished task.
LEMMA JoinKeeps ==
  ASSUME IInv, NEW i \in Indices, Join(i)
  PROVE  IInv'
<1>1. /\ TypeOK /\ BatchInv /\ TaskInv /\ OutcomeInv /\ BarrierInv /\ MarkInv
      /\ phase \in {"warmup", "measured"} /\ i \in Tasks /\ i \notin Collected /\ task[i] \in Codes
      /\ outcomes' = Append(outcomes, [index |-> i, code |-> task[i]])
      /\ UNCHANGED <<phase, marks, next, first, batch, task, arrived, report>>
      /\ Indices' = Indices /\ UNCHANGED Size(phase)
  BY DEF IInv, Join, Joinable, Running, Indices, Size
<1>2. /\ outcomes' \in Seq([index : Indices, code : Codes])
      /\ Collected' = Collected \cup {i} /\ OutcomeInv'
  BY <1>1, Appended
<1>3. TypeOK' /\ BatchInv' /\ OneRecordEach'
  BY <1>1, <1>2 DEF TypeOK, BatchInv, OneRecordEach
<1>4. TaskInv'
  BY <1>1, <1>2 DEF TaskInv, Settled
<1>5. BarrierInv'
  BY <1>1 DEF BarrierInv, Tasks
<1>6. MarkInv'
  <2>1. ~BatchDone
    BY <1>1 DEF BatchDone
  <2>2. QED
    BY <1>1, <2>1 DEF MarkInv
<1>7. QED
  BY <1>2, <1>3, <1>4, <1>5, <1>6 DEF IInv

\* The next batch begins when every request of this one has its outcome.
LEMMA NextBatchKeeps ==
  ASSUME IInv, NextBatch
  PROVE  IInv'
<1>1. /\ TypeOK /\ BatchInv /\ TaskInv /\ OutcomeInv /\ BarrierInv /\ MarkInv
      /\ phase \in {"warmup", "measured"} /\ BatchDone /\ batch < Size(phase)
      /\ first' = next /\ batch' = Chunk(next, Size(phase)) /\ arrived' = {}
      /\ UNCHANGED <<phase, marks, next, task, outcomes, report>>
      /\ Indices' = Indices /\ UNCHANGED Size(phase) /\ UNCHANGED Collected
  BY DEF IInv, NextBatch, Running, Indices, Size, Collected
<1>2. /\ next = batch + 1 /\ next \in 1..Size(phase) /\ batch \in Nat /\ Size(phase) \in Nat
      /\ \A i \in Indices : i < next => i \in Collected
  BY <1>1, BatchIsDone, Sizes DEF TypeOK
<1>3. Chunk(next, Size(phase)) \in next..Size(phase)
  BY <1>2, ChunkBounds
<1>4. TypeOK' /\ OneRecordEach'
  BY <1>1, <1>2, <1>3 DEF TypeOK, OneRecordEach
<1>5. BatchInv'
  BY <1>1, <1>2, <1>3 DEF BatchInv
<1>6. OutcomeInv'
  BY <1>1 DEF OutcomeInv
<1>7. ASSUME NEW i \in Indices
      PROVE  /\ i >= next => task[i] = "none"
             /\ task[i] # "connected" /\ task[i] \notin Waiting
  <2>1. i >= next => task[i] = "none"
    BY <1>1 DEF TaskInv
  <2>2. i < next \/ i >= next
    BY <1>2, Sizes
  <2>3. QED
    BY <1>1, <1>2, <2>1, <2>2, Kinds DEF TaskInv, Busy
<1>8. TaskInv'
  BY <1>1, <1>2, <1>7 DEF TaskInv
<1>9. BarrierInv'
  BY <1>1, <1>7 DEF BarrierInv, Waiting
<1>10. MarkInv'
  BY <1>1, Sizes DEF MarkInv
<1>11. QED
  BY <1>4, <1>5, <1>6, <1>8, <1>9, <1>10 DEF IInv

\* A failed warm-up ends the run.
LEMMA WarmupFailedKeeps ==
  ASSUME IInv, WarmupFailed
  PROVE  IInv'
<1>1. /\ TypeOK /\ BatchInv /\ TaskInv /\ OutcomeInv /\ BarrierInv /\ MarkInv
      /\ phase = "warmup" /\ phase' = "aborted" /\ ~WarmupPassed
      /\ UNCHANGED <<marks, next, first, batch, task, arrived, outcomes, report>>
      /\ Indices' = Indices /\ Size(phase') = Size(phase) /\ UNCHANGED Collected
  BY DEF IInv, WarmupFailed, Indices, Size, Collected
<1>2. TypeOK' /\ BatchInv' /\ TaskInv' /\ OutcomeInv'
  BY <1>1 DEF TypeOK, BatchInv, TaskInv, OutcomeInv
<1>3. BarrierInv' /\ MarkInv' /\ OneRecordEach'
  BY <1>1 DEF BarrierInv, Tasks, MarkInv, OneRecordEach
<1>4. QED
  BY <1>2, <1>3 DEF IInv

\* The marks are a prefix of the events, and stay one.
LEMMA Marked ==
  ASSUME NEW n \in 1..3, marks = SubSeq(Events, 1, n), NEW event, Mark(event)
  PROVE  marks' = SubSeq(Events, 1, n + 1) /\ Len(marks') = n + 1
<1>1. Len(marks) = n /\ marks' = Append(marks, Events[n + 1])
  BY DEF Mark, Events
<1>2. CASE n = 1
  BY <1>1, <1>2 DEF Events
<1>3. CASE n = 2
  BY <1>1, <1>3 DEF Events
<1>4. CASE n = 3
  BY <1>1, <1>4 DEF Events
<1>5. QED
  BY <1>2, <1>3, <1>4

\* The warm-up ends.
LEMMA MarkWarmupEndKeeps ==
  ASSUME IInv, MarkWarmupEnd
  PROVE  IInv'
<1>1. /\ TypeOK /\ BatchInv /\ TaskInv /\ OutcomeInv /\ BarrierInv /\ MarkInv
      /\ phase = "warmup" /\ Len(marks) = 1 /\ Mark("WarmupEnd")
      /\ BatchDone /\ batch = Warmups /\ WarmupPassed
      /\ UNCHANGED <<phase, next, first, batch, task, arrived, outcomes, report>>
      /\ Indices' = Indices /\ UNCHANGED Size(phase) /\ UNCHANGED Collected
  BY DEF IInv, MarkWarmupEnd, Indices, Size, Collected
<1>2. marks' = SubSeq(Events, 1, 2) /\ Len(marks') = 2
  <2>1. 1 \in 1..3 /\ marks = SubSeq(Events, 1, 1)
    BY <1>1 DEF TypeOK
  <2>2. QED
    BY <1>1, <2>1, Marked
<1>3. TypeOK' /\ BatchInv' /\ TaskInv' /\ OutcomeInv'
  BY <1>1, <1>2 DEF TypeOK, BatchInv, TaskInv, OutcomeInv
<1>4. BarrierInv' /\ OneRecordEach'
  BY <1>1 DEF BarrierInv, Tasks, OneRecordEach
<1>5. MarkInv'
  BY <1>1, <1>2 DEF MarkInv, BatchDone, Tasks, WarmupPassed, Failed
<1>6. QED
  BY <1>3, <1>4, <1>5 DEF IInv

\* A phase begins with nothing connected and nothing collected.
Fresh ==
  /\ next = 1 /\ first = 1 /\ batch = Chunk(1, Size(phase))
  /\ task = [i \in Indices |-> "none"] /\ arrived = {} /\ outcomes = <<>>

Begun ==
  /\ next \in 1..(Size(phase) + 1) /\ batch \in 0..Size(phase)
  /\ outcomes \in Seq([index : Indices, code : Codes])
  /\ BatchInv /\ TaskInv /\ OutcomeInv /\ BarrierInv

LEMMA FreshPhase == Fresh => Begun
<1> SUFFICES ASSUME Fresh PROVE Begun
  OBVIOUS
<1> USE DEF Fresh
<1>1. Size(phase) \in Nat /\ batch \in 0..Size(phase)
  BY Sizes, ChunkBounds
<1>2. outcomes \in Seq([index : Indices, code : Codes]) /\ DOMAIN outcomes = {}
  OBVIOUS
<1>3. Collected = {}
  BY <1>2 DEF Collected
<1>4. TaskInv
  BY <1>3, Kinds, Sizes DEF TaskInv
<1>5. BatchInv
  BY <1>1 DEF BatchInv
<1>6. QED
  BY <1>1, <1>2, <1>4, <1>5 DEF Begun, OutcomeInv, BarrierInv

\* The measured phase begins.
LEMMA StartMeasuredKeeps ==
  ASSUME IInv, StartMeasured
  PROVE  IInv'
<1>1. /\ TypeOK /\ phase = "warmup" /\ Len(marks) = 2 /\ Mark("MeasuredStart")
      /\ phase' = "measured" /\ next' = 1 /\ first' = 1 /\ batch' = Chunk(1, Size(phase'))
      /\ task' = [i \in Indices' |-> "none"] /\ arrived' = {} /\ outcomes' = <<>> /\ report' = report
  BY DEF IInv, StartMeasured, Start, Indices
<1>2. marks' = SubSeq(Events, 1, 3) /\ Len(marks') = 3
  <2>1. 2 \in 1..3 /\ marks = SubSeq(Events, 1, 2)
    BY <1>1 DEF TypeOK
  <2>2. QED
    BY <1>1, <2>1, Marked
<1>3. Begun'
  <2>1. Fresh'
    BY <1>1 DEF Fresh
  <2>2. QED
    BY <2>1, FreshPhase, PTL
<1>4. TypeOK'
  BY <1>1, <1>2, <1>3 DEF TypeOK, Begun
<1>5. MarkInv' /\ OneRecordEach'
  BY <1>1, <1>2 DEF MarkInv, OneRecordEach
<1>6. QED
  BY <1>3, <1>4, <1>5 DEF Begun, IInv

\* The measured phase ends: its outcomes become the report.
LEMMA FinishKeeps ==
  ASSUME IInv, Finish
  PROVE  IInv'
<1>1. /\ TypeOK /\ BatchInv /\ TaskInv /\ OutcomeInv /\ BarrierInv /\ MarkInv
      /\ phase = "measured" /\ Len(marks) = 3 /\ BatchDone /\ batch = Size(phase)
      /\ Mark("MeasuredEnd") /\ phase' \in {"finished", "unreported"}
      /\ phase' = "finished" => report' = Report(outcomes)
      /\ UNCHANGED <<next, first, batch, task, arrived, outcomes>>
      /\ Indices' = Indices /\ Size(phase') = Size(phase) /\ UNCHANGED Collected
  BY DEF IInv, Finish, MarkInv, Indices, Size, Collected
<1>2. marks' = SubSeq(Events, 1, 4) /\ Len(marks') = 4
  <2>1. 3 \in 1..3 /\ marks = SubSeq(Events, 1, 3)
    BY <1>1 DEF TypeOK
  <2>2. QED
    BY <1>1, <2>1, Marked
<1>3. OneRecordEach'
  <2>1. Collected = 1..Measured /\ Len(outcomes) = Measured /\ Measured \in Nat
    BY <1>1, PhaseIsDone, Sizes
  <2>2. outcomes \in Seq([index : 1..Measured, code : Codes])
    BY <1>1, Sizes DEF TypeOK
  <2>3. phase' = "finished" => Len(report') = Measured /\ \A i \in 1..Measured : report'[i].index = i
    BY <1>1, <2>1, <2>2, ReportIsSorted
  <2>4. QED
    BY <2>3 DEF OneRecordEach
<1>4. TypeOK' /\ BatchInv' /\ TaskInv' /\ OutcomeInv'
  BY <1>1, <1>2 DEF TypeOK, BatchInv, TaskInv, OutcomeInv
<1>5. BarrierInv' /\ MarkInv'
  BY <1>1, <1>2 DEF BarrierInv, Tasks, MarkInv
<1>6. QED
  BY <1>3, <1>4, <1>5 DEF IInv

LEMMA Begins == Init => IInv
<1> SUFFICES ASSUME Init PROVE IInv
  OBVIOUS
<1>1. Begun
  BY FreshPhase DEF Fresh, Init, Size, Indices
<1>2. marks = SubSeq(Events, 1, 1) /\ Len(marks) = 1
  BY DEF Init, Events
<1>3. TypeOK
  BY <1>1, <1>2 DEF TypeOK, Begun, Init, Indices, Size
<1>4. MarkInv /\ OneRecordEach
  BY <1>2 DEF Init, MarkInv, OneRecordEach
<1>5. QED
  BY <1>1, <1>3, <1>4 DEF IInv, Begun

LEMMA Keeps == IInv /\ [Next]_vars => IInv'
<1> SUFFICES ASSUME IInv, [Next]_vars PROVE IInv'
  OBVIOUS
<1>1. CASE UNCHANGED vars
  <2>1. UNCHANGED <<phase, marks, next, first, batch, task, arrived, outcomes, report>>
    BY <1>1 DEF vars
  <2>2. UNCHANGED <<Indices, Collected, Tasks, BatchDone, WarmupPassed>>
    BY <2>1 DEF Indices, Collected, Tasks, BatchDone, WarmupPassed, Failed
  <2>3. TypeOK' /\ BatchInv' /\ OutcomeInv' /\ OneRecordEach'
    BY <2>1, <2>2 DEF IInv, TypeOK, BatchInv, OutcomeInv, OneRecordEach
  <2>4. TaskInv'
    BY <2>1, <2>2 DEF IInv, TaskInv
  <2>5. BarrierInv' /\ MarkInv'
    BY <2>1, <2>2 DEF IInv, BarrierInv, MarkInv
  <2>6. QED
    BY <2>3, <2>4, <2>5 DEF IInv
<1>2. CASE Spawn
  BY <1>2, SpawnKeeps
<1>3. CASE NextBatch
  BY <1>3, NextBatchKeeps
<1>4. CASE WarmupFailed
  BY <1>4, WarmupFailedKeeps
<1>5. CASE MarkWarmupEnd
  BY <1>5, MarkWarmupEndKeeps
<1>6. CASE StartMeasured
  BY <1>6, StartMeasuredKeeps
<1>7. CASE Finish
  BY <1>7, FinishKeeps
<1>8. ASSUME NEW code \in {"ok", "connect_error", "connect_timeout"}, Connect(code) PROVE IInv'
  BY <1>8, ConnectKeeps
<1>9. ASSUME NEW i \in Indices, Arrive(i) PROVE IInv'
  BY <1>9, ArriveKeeps
<1>10. ASSUME NEW i \in Indices, Write(i) PROVE IInv'
  <2>1. PICK to \in {"reading", "request_error"} : task' = [task EXCEPT ![i] = to]
    BY <1>10 DEF Write
  <2>2. to \in {"reading"} \cup Codes
    BY DEF Codes
  <2>3. QED
    BY <1>10, <2>1, <2>2, AnswerKeeps DEF Write
<1>11. ASSUME NEW i \in Indices, Expire(i) PROVE IInv'
  BY <1>11, AnswerKeeps DEF Expire, Codes
<1>12. ASSUME NEW i \in Indices, Join(i) PROVE IInv'
  BY <1>12, JoinKeeps
<1>13. ASSUME NEW i \in Indices, NEW code \in Codes, Respond(i, code) PROVE IInv'
  <2>1. code # "reading" /\ code \in {"reading"} \cup Codes
    BY DEF Codes
  <2>2. QED
    BY <1>13, <2>1, AnswerKeeps DEF Respond
<1>14. QED
  BY <1>1, <1>2, <1>3, <1>4, <1>5, <1>6, <1>7, <1>8, <1>9, <1>10, <1>11, <1>12, <1>13
     DEF Next, Client, Done

-----------------------------------------------------------------------------
(* The results.                                                            *)

\* A request under way belongs to the running batch.
LEMMA BusyIsInBatch ==
  ASSUME IInv, NEW i \in Indices, task[i] \in Busy
  PROVE  i \in first..batch /\ (task[i] \in Waiting => next > batch)
<1>1. /\ BatchInv /\ TaskInv /\ first \in Nat /\ batch \in Nat /\ next \in Nat
      /\ next <= batch + 1 /\ i \in Nat
  BY Sizes DEF IInv, TypeOK, BatchInv
<1>2. i >= first /\ i < next
  BY <1>1, Kinds DEF TaskInv
<1>3. task[i] \in Waiting => next > batch
  BY <1>1, <1>2, Kinds DEF TaskInv, Waiting
<1>4. QED
  BY <1>1, <1>2, <1>3

LEMMA WidthIsBounded == IInv => WidthBounded
<1> SUFFICES ASSUME IInv PROVE WidthBounded
  OBVIOUS
<1> DEFINE B == {i \in Indices : task[i] \in Waiting \cup {"connected"}}
<1>1. B \subseteq first..batch
  BY BusyIsInBatch DEF Busy
<1>2. /\ first \in Int /\ batch \in Int /\ batch - first + 1 <= Concurrency
      /\ Concurrency \in Nat
  BY Sizes, ChunkBounds, LoadAssumption, SMTT(60) DEF IInv, TypeOK, BatchInv, LoadAssumption
<1>3. IsFiniteSet(first..batch) /\ Cardinality(first..batch) <= Concurrency
  <2>1. IsFiniteSet(first..batch)
    BY <1>2, FS_Interval
  <2>2. Cardinality(first..batch) = IF first > batch THEN 0 ELSE batch - first + 1
    BY <1>2, FS_Interval
  <2>3. QED
    BY <1>2, <2>1, <2>2
<1>4. IsFiniteSet(B) /\ Cardinality(B) <= Cardinality(first..batch)
  BY <1>1, <1>3, FS_Subset
<1> HIDE DEF B
<1>5. Cardinality(B) <= Concurrency
  BY <1>2, <1>3, <1>4, FS_CardinalityType
<1>6. QED
  BY <1>5 DEF B, WidthBounded

LEMMA StartsTogether == IInv => BarrierTogether
<1> SUFFICES ASSUME IInv, NEW i \in Indices, task[i] \in {"writing", "reading"}
             PROVE  next > batch /\ \A j \in Tasks : j \in arrived
  BY DEF BarrierTogether
<1>1. task[i] \in Waiting /\ task[i] \in Busy
  BY DEF Waiting, Busy
<1>2. next > batch
  BY <1>1, BusyIsInBatch
<1>3. QED
  BY <1>2 DEF IInv, BarrierInv

\* For every number of requests and every width of a batch: outcomes are of
\* requests of the phase, a finished run has one record for each measured
\* request and in their order, whatever mixture of refused connections,
\* time-outs, panics and failures it met, no request is written before every
\* task of its batch has reached the barrier, and no more than the configured
\* number of requests is under way (run_batch and write_reports).
THEOREM RunIsSound == Spec => []BatchesAreSound
<1>1. IInv => BatchesAreSound
  BY WidthIsBounded, StartsTogether DEF BatchesAreSound, IInv
<1>2. QED
  BY <1>1, Begins, Keeps, PTL DEF Spec

LEMMA MarksFindNothing ==
  IInv /\ [Next]_vars =>
    (marks' # marks => \A i \in Indices : task[i] \notin Waiting \cup {"connected"})
<1> SUFFICES ASSUME IInv, [Next]_vars, marks' # marks, NEW i \in Indices
             PROVE  task[i] \notin Waiting \cup {"connected"}
  OBVIOUS
<1>1. MarkWarmupEnd \/ StartMeasured \/ Finish
  BY DEF Next, Client, Done, vars, Spawn, NextBatch, WarmupFailed, Connect, Arrive, Write, Expire,
         Join, Respond
<1>2. BatchDone /\ batch = Size(phase)
  <2>1. MarkInv
    BY DEF IInv
  <2>2. QED
    BY <1>1, <2>1 DEF MarkWarmupEnd, StartMeasured, Finish, MarkInv, Size
<1>3. QED
  BY <1>2, PhaseIsDone DEF IInv, Busy

LEMMA WarmupIsClean ==
  IInv /\ [Next]_vars =>
    (phase = "warmup" /\ phase' = "measured" =>
       /\ Len(outcomes) = Warmups
       /\ \A k \in DOMAIN outcomes : outcomes[k].code = "ok")
<1> SUFFICES ASSUME IInv, [Next]_vars, phase = "warmup", phase' = "measured"
             PROVE  /\ Len(outcomes) = Warmups
                    /\ \A k \in DOMAIN outcomes : outcomes[k].code = "ok"
  OBVIOUS
<1>1. StartMeasured
  BY DEF Next, Client, Done, vars, Spawn, NextBatch, WarmupFailed, MarkWarmupEnd, Finish, Connect,
         Arrive, Write, Expire, Join, Respond
<1>2. BatchDone /\ batch = Warmups /\ Size(phase) = Warmups /\ WarmupPassed
  BY <1>1, Sizes DEF StartMeasured, IInv, MarkInv
<1>3. Len(outcomes) = Warmups
  BY <1>2, PhaseIsDone DEF IInv
<1>4. QED
  BY <1>2, <1>3 DEF WarmupPassed, Failed

\* At every mark nothing is connected, queued or in flight, and a run is
\* measured only after each of its warm-up requests has succeeded: the time
\* between the two measured marks is that of the measured requests alone
\* (PhaseEventLog::mark and run_benchmark).
THEOREM MeasuresItsOwnWork == Spec => MeasurementIsClean
BY Begins, Keeps, MarksFindNothing, WarmupIsClean, PTL
   DEF Spec, MeasurementIsClean, MarksAreQuiet, OnlyCleanMeasured
=============================================================================
