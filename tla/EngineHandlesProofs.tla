------------------------ MODULE EngineHandlesProofs ------------------------
(***************************************************************************)
(* Proofs about the C interface for every set of requests, capacity and    *)
(* packet size and every pair of libraries: the engine core is there for   *)
(* as long as a handle needs it, and nothing of it is there afterwards.    *)
(***************************************************************************)
EXTENDS EngineHandles, TLAPS

-----------------------------------------------------------------------------
(* What exists of the backend at each step of its load.                    *)

Talker == {"talkerLibrary", "talkerModel"}
Pump == IF BatchFrames(build.talker) THEN {"pump"} ELSE {}
Cuda == IF DeviceFrames(build.talker) THEN {"cuda"} ELSE {}

Opened == {"symbols", "model"}
Pumped == {"upload", "codec"}
Coded == {"weights", "shared"}
Decoded == {"decoder", "handoff"}
Agreed == {"scheduler", "loaded"}
Steps == {"unloaded", "pump"} \cup Opened \cup Pumped \cup Coded \cup Decoded \cup Agreed

\* The worker has begun to take the backend apart.
Dismantled == worker \in {"dropping", "gone"}

Built ==
  /\ loading = "unloaded" => held = {}
  /\ loading \in Opened => held = {"talkerLibrary"}
  /\ loading = "pump" => held = Talker
  /\ loading \in Pumped => held = Talker \cup Pump
  /\ loading \in Coded => held = Talker \cup Pump \cup {"codecLibrary"}
  /\ loading \in Decoded => held = Talker \cup Pump \cup {"codecLibrary", "codecModel"}
  /\ loading \in Agreed =>
       held = Talker \cup Pump \cup {"codecLibrary", "codecModel"} \cup Cuda

Resources == Talker \cup {"pump", "codecLibrary", "codecModel", "cuda"}

LoadInv ==
  /\ held \subseteq Resources /\ orphan \subseteq held \cap {"talkerModel"}
  /\ loading \in Steps \cup {"unwinding", "failed"}
  /\ loading \in Steps => orphan = {} /\ (Dismantled \/ Built)
  /\ loading \in Agreed => Handoff(build.talker, build.codec)
  /\ LibrariesLast /\ FailureIsClean

\* The references to the core are those of the handles; while there is one the
\* worker runs, and once there is none somebody waits for the worker's end.
HandleInv ==
  /\ holders \subseteq Requests \cup {Core}
  /\ Core \in holders <=> engine = "live"
  /\ \A r \in Requests : r \in holders <=> handle[r] \in {"live", "destroying"}
  /\ worker = "none" <=> engine = "none"
  /\ worker = "running" <=> holders # {}
  /\ worker # "none" => loading = "loaded"
  /\ worker \in {"stopping", "dropping"} =>
       engine = "joining" \/ \E r \in Requests : handle[r] = "joining"
  /\ Dismantled => slots = {}
  /\ worker = "gone" => held = {}

\* A request is polled through its handle, and destroyed only between polls.
PollInv == \A r \in Requests : room[r] > 0 => handle[r] = "live"

IInv == TypeOK /\ LoadInv /\ HandleInv /\ PollInv /\ DestroyedIsRetired

-----------------------------------------------------------------------------
(* The load.                                                               *)

\* Nothing has been built at first.
LEMMA InitInv == Init => IInv
<1> SUFFICES ASSUME Init PROVE IInv
  OBVIOUS
<1>1. TypeOK
  <2>1. MaxFrames \in Nat /\ MaxPacket \in Nat
    BY HandlesAssumption
  <2>2. 0 \in 0 .. MaxFrames /\ 0 \in 0 .. MaxPacket
    BY <2>1
  <2>3. QED
    BY <2>2 DEF Init, Contract!Init, TypeOK, HandleStates, Answers
<1>2. LoadInv
  BY DEF Init, NativeInit, LoadInv, Built, Steps, Opened, Pumped, Coded, Decoded, Agreed,
         LibrariesLast, FailureIsClean
<1>3. HandleInv
  BY DEF Init, Contract!Init, HandleInv, Dismantled
<1>4. PollInv /\ DestroyedIsRetired
  BY DEF Init, PollInv, DestroyedIsRetired
<1>5. QED
  BY <1>1, <1>2, <1>3, <1>4 DEF IInv

\* At every step of the load, code is there for what needs it.
LEMMA BuiltKeepsLibraries == Built /\ loading \in Steps => LibrariesLast
  BY DEF Built, Steps, Opened, Pumped, Coded, Decoded, Agreed, LibrariesLast, Needs,
         Talker, Pump, Cuda

\* A step of the load while the worker does not exist yet.
LEMMA LoadStep ==
  ASSUME LoadInv, worker = "none", worker' = worker, Load
  PROVE  LoadInv'
<1> USE DEF Steps, Opened, Pumped, Coded, Decoded, Agreed
<1>0. ~Dismantled /\ ~Dismantled'
  BY DEF Dismantled
<1>1. CASE OpenTalker
  BY <1>0, <1>1 DEF OpenTalker, Step, LoadInv, Built, LibrariesLast, Needs, FailureIsClean,
     Resources, Talker
<1>2. CASE TalkerSymbols
  BY <1>0, <1>2 DEF TalkerSymbols, Step, LoadInv, Built, LibrariesLast, Needs, FailureIsClean,
     Resources, Talker
<1>3. CASE CreateTalker
  BY <1>0, <1>3 DEF CreateTalker, Step, LoadInv, Built, LibrariesLast, Needs, FailureIsClean,
     Resources, Talker
<1>4. CASE StartPump
  BY <1>0, <1>4 DEF StartPump, LoadInv, Built, LibrariesLast, Needs, FailureIsClean,
     Resources, Talker, Pump
<1>5. CASE UploadTalker
  BY <1>0, <1>5 DEF UploadTalker, Step, LoadInv, Built, LibrariesLast, Needs, FailureIsClean,
     Resources, Talker, Pump
<1>6. CASE OpenCodec
  BY <1>0, <1>6 DEF OpenCodec, Step, LoadInv, Built, LibrariesLast, Needs, FailureIsClean,
     Resources, Talker, Pump
<1>7. CASE OpenWeights
  BY <1>0, <1>7 DEF OpenWeights, Step, LoadInv, Built, LibrariesLast, Needs, FailureIsClean,
     Resources, Talker, Pump
<1>8. CASE CreateCodec
  BY <1>0, <1>8 DEF CreateCodec, Step, LoadInv, Built, LibrariesLast, Needs, FailureIsClean,
     Resources, Talker, Pump
<1>9. CASE UploadCodec
  BY <1>0, <1>9 DEF UploadCodec, Step, LoadInv, Built, LibrariesLast, Needs, FailureIsClean,
     Resources, Talker, Pump
<1>10. CASE AgreeOnHandoff
  BY <1>0, <1>10 DEF AgreeOnHandoff, Step, LoadInv, Built, LibrariesLast, Needs,
     FailureIsClean, Resources, Talker, Pump, Cuda
<1>11. CASE StartScheduler
  BY <1>0, <1>11 DEF StartScheduler, Step, LoadInv, Built, LibrariesLast, Needs,
     FailureIsClean, Resources, Talker, Pump, Cuda
<1>12. CASE Unwind
  <2>1. CASE held \subseteq orphan /\ loading' = "failed" /\ UNCHANGED held
    BY <1>0, <1>12, <2>1 DEF Unwind, LoadInv, LibrariesLast, FailureIsClean
  <2>2. CASE Destroy(UnwindOrder) /\ UNCHANGED loading
    <3>1. PICK i \in 1 .. 6 :
            /\ UnwindOrder[i] \in held \ orphan
            /\ \A j \in 1 .. i - 1 : UnwindOrder[j] \notin held \ orphan
            /\ held' = held \ {UnwindOrder[i]}
      BY <2>2 DEF Destroy, UnwindOrder
    <3>2. loading = "unwinding" /\ UNCHANGED <<build, loading, orphan>>
      BY <1>12, <2>2 DEF Unwind
    <3>3. LibrariesLast'
      BY <3>1, <3>2 DEF LoadInv, LibrariesLast, Needs, UnwindOrder, Resources, Talker
    <3>4. QED
      BY <1>0, <3>1, <3>2, <3>3 DEF LoadInv, FailureIsClean
  <2>3. QED
    BY <1>12, <2>1, <2>2 DEF Unwind
<1>13. QED
  BY <1>1, <1>2, <1>3, <1>4, <1>5, <1>6, <1>7, <1>8, <1>9, <1>10, <1>11, <1>12 DEF Load

\* The worker takes the backend apart in the order of its fields.
LEMMA DropStep ==
  ASSUME LoadInv, worker = "dropping", worker' = worker, loading = "loaded", DropBackend
  PROVE  LoadInv'
<1>1. PICK i \in 1 .. 6 :
        /\ DropOrder[i] \in held \ orphan
        /\ \A j \in 1 .. i - 1 : DropOrder[j] \notin held \ orphan
        /\ held' = held \ {DropOrder[i]}
  BY DEF DropBackend, Destroy, DropOrder
<1>2. UNCHANGED <<build, loading, orphan>> /\ orphan = {}
  BY DEF DropBackend, LoadInv, Steps, Agreed
<1>3. LibrariesLast'
  BY <1>1, <1>2 DEF LoadInv, LibrariesLast, Needs, DropOrder, Resources, Talker
<1>4. QED
  BY <1>1, <1>2, <1>3 DEF LoadInv, FailureIsClean, Dismantled, Steps, Agreed

-----------------------------------------------------------------------------
(* The calls and the worker.                                               *)

\* What a request may become keeps its types.
LEMMA RequestTypes ==
  ASSUME TypeOK, NEW r \in Requests,
         \/ Contract!Admit(r) \/ Contract!Generate(r) \/ Contract!Deliver(r)
         \/ Contract!Cancel(r) \/ Contract!Fail(r) \/ Contract!Return(r)
  PROVE  /\ status' \in [Requests -> {"idle", "live", "ended", "cancelled", "failed"}]
         /\ made' \in [Requests -> 0 .. MaxFrames] /\ heard' \in [Requests -> 0 .. MaxFrames]
         /\ closed' \in [Requests -> BOOLEAN] /\ slots' \subseteq Requests
<1>0. MaxFrames \in Nat
  BY HandlesAssumption
<1>1. CASE Contract!Admit(r)
  BY <1>1 DEF Contract!Admit, TypeOK
<1>2. CASE Contract!Generate(r)
  <2>1. PICK n \in 1 .. MaxFrames - made[r] : made' = [made EXCEPT ![r] = @ + n]
    BY <1>2 DEF Contract!Generate
  <2>2. made[r] \in 0 .. MaxFrames /\ made[r] + n \in 0 .. MaxFrames
    BY <1>0, <2>1 DEF TypeOK
  <2>3. made' \in [Requests -> 0 .. MaxFrames]
    BY <2>1, <2>2 DEF TypeOK
  <2>4. closed' \in [Requests -> BOOLEAN]
    BY <1>2 DEF Contract!Generate, TypeOK
  <2>5. QED
    BY <1>2, <2>3, <2>4 DEF Contract!Generate, TypeOK
<1>3. CASE Contract!Deliver(r)
  <2>1. PICK n \in 1 .. made[r] - heard[r] : heard' = [heard EXCEPT ![r] = @ + n]
    BY <1>3 DEF Contract!Deliver
  <2>2. heard[r] + n \in 0 .. MaxFrames
    BY <1>0, <2>1 DEF TypeOK
  <2>3. heard' \in [Requests -> 0 .. MaxFrames]
    BY <2>1, <2>2 DEF TypeOK
  <2>4. status' \in [Requests -> {"idle", "live", "ended", "cancelled", "failed"}]
    BY <1>3 DEF Contract!Deliver, TypeOK
  <2>5. QED
    BY <1>3, <2>3, <2>4 DEF Contract!Deliver, TypeOK
<1>4. CASE Contract!Cancel(r)
  BY <1>4 DEF Contract!Cancel, TypeOK
<1>5. CASE Contract!Fail(r)
  BY <1>5 DEF Contract!Fail, TypeOK
<1>6. CASE Contract!Return(r)
  BY <1>6 DEF Contract!Return, TypeOK
<1>7. QED
  BY <1>1, <1>2, <1>3, <1>4, <1>5, <1>6

\* The state of the load does not change when nothing native does.
LEMMA NativeFrame ==
  ASSUME LoadInv, UNCHANGED native, Dismantled => Dismantled'
  PROVE  LoadInv'
  BY DEF LoadInv, native, Built, LibrariesLast, FailureIsClean, Pump, Cuda

\* The engine handle is the first reference; the load has just succeeded.
LEMMA EngineCreateStep ==
  ASSUME IInv, UNCHANGED native, EngineCreate
  PROVE  IInv'
<1>0. LoadInv /\ HandleInv /\ PollInv /\ DestroyedIsRetired /\ TypeOK
  BY DEF IInv
<1>1. TypeOK'
  BY <1>0, HandlesAssumption DEF TypeOK, HandleStates, Answers, Core,
       EngineCreate, callFrame, requests
<1>2. LoadInv'
  BY <1>0, NativeFrame DEF HandleInv, Dismantled, EngineCreate, callFrame,
       requests
<1>3. HandleInv'
  BY <1>0, HandlesAssumption DEF HandleInv, TypeOK, Dismantled, Core, native,
       EngineCreate, callFrame, requests
<1>4. PollInv'
  BY <1>0 DEF PollInv, TypeOK, EngineCreate, callFrame, requests
<1>5. DestroyedIsRetired'
  BY <1>0 DEF DestroyedIsRetired, PollInv, TypeOK, EngineCreate,
       callFrame, requests
<1>6. QED
  BY <1>1, <1>2, <1>3, <1>4, <1>5 DEF IInv

\* The engine gives up its reference and waits if it was the last.
LEMMA EngineDestroyStep ==
  ASSUME IInv, UNCHANGED native, EngineDestroy
  PROVE  IInv'
<1>0. LoadInv /\ HandleInv /\ PollInv /\ DestroyedIsRetired /\ TypeOK
  BY DEF IInv
<1>1. TypeOK'
  BY <1>0, HandlesAssumption DEF TypeOK, HandleStates, Answers, Core,
       EngineDestroy, DropCore, AfterDrop, requests
<1>2. LoadInv'
  BY <1>0, NativeFrame DEF HandleInv, Dismantled, EngineDestroy, DropCore,
       AfterDrop, requests
<1>3. HandleInv'
  BY <1>0, HandlesAssumption DEF HandleInv, TypeOK, Dismantled, Core, native,
       EngineDestroy, DropCore, AfterDrop, requests
<1>4. PollInv'
  BY <1>0 DEF PollInv, TypeOK, EngineDestroy, DropCore, AfterDrop, requests
<1>5. DestroyedIsRetired'
  BY <1>0 DEF DestroyedIsRetired, PollInv, TypeOK, EngineDestroy,
       DropCore, AfterDrop, requests
<1>6. QED
  BY <1>1, <1>2, <1>3, <1>4, <1>5 DEF IInv

\* Everybody who waits for the worker returns with its end.
LEMMA JoinEndStep ==
  ASSUME IInv, UNCHANGED native, JoinEnd
  PROVE  IInv'
<1>0. LoadInv /\ HandleInv /\ PollInv /\ DestroyedIsRetired /\ TypeOK
  BY DEF IInv
<1>1. TypeOK'
  BY <1>0, HandlesAssumption DEF TypeOK, HandleStates, Answers, Core, JoinEnd,
       requests
<1>2. LoadInv'
  BY <1>0, NativeFrame DEF HandleInv, Dismantled, JoinEnd, requests
<1>3. HandleInv'
  BY <1>0, HandlesAssumption DEF HandleInv, TypeOK, Dismantled, Core, native,
       JoinEnd, requests
<1>4. PollInv'
  BY <1>0 DEF PollInv, TypeOK, JoinEnd, requests
<1>5. DestroyedIsRetired'
  BY <1>0 DEF DestroyedIsRetired, PollInv, TypeOK, JoinEnd, requests
<1>6. QED
  BY <1>1, <1>2, <1>3, <1>4, <1>5 DEF IInv

\* A request takes a reference of its own.
LEMMA RequestStartStep ==
  ASSUME IInv, UNCHANGED native, NEW r \in Requests, RequestStart(r)
  PROVE  IInv'
<1>0. LoadInv /\ HandleInv /\ PollInv /\ DestroyedIsRetired /\ TypeOK
  BY DEF IInv
<1>1. TypeOK'
  BY <1>0, RequestTypes, HandlesAssumption DEF TypeOK, HandleStates, Answers,
       Core, RequestStart, Return, requests
<1>2. LoadInv'
  BY <1>0, NativeFrame DEF HandleInv, Dismantled, RequestStart, Return, requests
<1>3. HandleInv'
  BY <1>0, HandlesAssumption DEF HandleInv, TypeOK, Dismantled, Core, native,
       RequestStart, Return, requests, Contract!Admit
<1>4. PollInv'
  BY <1>0 DEF PollInv, TypeOK, RequestStart, Return, requests, Contract!Admit
<1>5. DestroyedIsRetired'
  BY <1>0 DEF DestroyedIsRetired, PollInv, TypeOK, RequestStart,
       Return, requests, Contract!Admit
<1>6. QED
  BY <1>1, <1>2, <1>3, <1>4, <1>5 DEF IInv

\* A poll only begins through a live handle.
LEMMA PollBeginStep ==
  ASSUME IInv, UNCHANGED native, NEW r \in Requests, PollBegin(r)
  PROVE  IInv'
<1>0. LoadInv /\ HandleInv /\ PollInv /\ DestroyedIsRetired /\ TypeOK
  BY DEF IInv
<1>1. TypeOK'
  BY <1>0, HandlesAssumption DEF TypeOK, HandleStates, Answers, Core, PollBegin,
       Return, Suffices, Live, callFrame, requests
<1>2. LoadInv'
  BY <1>0, NativeFrame DEF HandleInv, Dismantled, PollBegin, Return, Suffices,
       Live, callFrame, requests
<1>3. HandleInv'
  BY <1>0, HandlesAssumption DEF HandleInv, TypeOK, Dismantled, Core, native,
       PollBegin, Return, Suffices, Live, callFrame, requests
<1>4. PollInv'
  BY <1>0 DEF PollInv, TypeOK, PollBegin, Return, Suffices, Live, callFrame,
       requests
<1>5. DestroyedIsRetired'
  BY <1>0 DEF DestroyedIsRetired, PollInv, TypeOK, PollBegin, Return,
       Suffices, Live, callFrame, requests
<1>6. QED
  BY <1>1, <1>2, <1>3, <1>4, <1>5 DEF IInv

\* A poll that is under way has a live handle.
LEMMA PollEndStep ==
  ASSUME IInv, UNCHANGED native, NEW r \in Requests, PollEnd(r)
  PROVE  IInv'
<1>0. LoadInv /\ HandleInv /\ PollInv /\ DestroyedIsRetired /\ TypeOK
  BY DEF IInv
<1>1. TypeOK'
  BY <1>0, RequestTypes, HandlesAssumption DEF TypeOK, HandleStates, Answers,
       Core, PollEnd, Return, callFrame, requests
<1>2. LoadInv'
  BY <1>0, NativeFrame DEF HandleInv, Dismantled, PollEnd, Return, callFrame,
       requests
<1>3. HandleInv'
  BY <1>0, HandlesAssumption DEF HandleInv, TypeOK, Dismantled, Core, native,
       PollEnd, Return, callFrame, requests, Contract!Deliver
<1>4. PollInv'
  BY <1>0 DEF PollInv, TypeOK, PollEnd, Return, callFrame, requests,
       Contract!Deliver
<1>5. DestroyedIsRetired'
  BY <1>0 DEF DestroyedIsRetired, PollInv, TypeOK, PollEnd, Return,
       callFrame, requests, Contract!Deliver
<1>6. QED
  BY <1>1, <1>2, <1>3, <1>4, <1>5 DEF IInv

\* A cancellation leaves the handles alone.
LEMMA RequestCancelStep ==
  ASSUME IInv, UNCHANGED native, NEW r \in Requests, RequestCancel(r)
  PROVE  IInv'
<1>0. LoadInv /\ HandleInv /\ PollInv /\ DestroyedIsRetired /\ TypeOK
  BY DEF IInv
<1>1. TypeOK'
  BY <1>0, RequestTypes, HandlesAssumption DEF TypeOK, HandleStates, Answers,
       Core, RequestCancel, Return, Withdraw, Live, callFrame, requests
<1>2. LoadInv'
  BY <1>0, NativeFrame DEF HandleInv, Dismantled, RequestCancel, Return,
       Withdraw, Live, callFrame, requests
<1>3. HandleInv'
  BY <1>0, HandlesAssumption DEF HandleInv, TypeOK, Dismantled, Core, native,
       RequestCancel, Return, Withdraw, Live, callFrame, requests, Contract!Cancel
<1>4. PollInv'
  BY <1>0 DEF PollInv, TypeOK, RequestCancel, Return, Withdraw, Live, callFrame,
       requests, Contract!Cancel
<1>5. DestroyedIsRetired'
  BY <1>0 DEF DestroyedIsRetired, PollInv, TypeOK, RequestCancel,
       Return, Withdraw, Live, callFrame, requests, Contract!Cancel
<1>6. QED
  BY <1>1, <1>2, <1>3, <1>4, <1>5 DEF IInv

\* A handle being destroyed keeps its reference.
LEMMA DestroyBeginStep ==
  ASSUME IInv, UNCHANGED native, NEW r \in Requests, DestroyBegin(r)
  PROVE  IInv'
<1>0. LoadInv /\ HandleInv /\ PollInv /\ DestroyedIsRetired /\ TypeOK
  BY DEF IInv
<1>1. TypeOK'
  BY <1>0, RequestTypes, HandlesAssumption DEF TypeOK, HandleStates, Answers,
       Core, DestroyBegin, Withdraw, Live, requests
<1>2. LoadInv'
  BY <1>0, NativeFrame DEF HandleInv, Dismantled, DestroyBegin, Withdraw, Live,
       requests
<1>3. HandleInv'
  BY <1>0, HandlesAssumption DEF HandleInv, TypeOK, Dismantled, Core, native,
       DestroyBegin, Withdraw, Live, requests, Contract!Cancel
<1>4. PollInv'
  BY <1>0 DEF PollInv, TypeOK, DestroyBegin, Withdraw, Live, requests,
       Contract!Cancel
<1>5. DestroyedIsRetired'
  BY <1>0 DEF DestroyedIsRetired, PollInv, TypeOK, DestroyBegin,
       Withdraw, Live, requests, Contract!Cancel
<1>6. QED
  BY <1>1, <1>2, <1>3, <1>4, <1>5 DEF IInv

\* A request gives up its reference, whatever the outcome, and waits if it was the last.
LEMMA DestroyEndStep ==
  ASSUME IInv, UNCHANGED native, NEW r \in Requests, DestroyEnd(r)
  PROVE  IInv'
<1>0. LoadInv /\ HandleInv /\ PollInv /\ DestroyedIsRetired /\ TypeOK
  BY DEF IInv
<1>1. TypeOK'
  BY <1>0, HandlesAssumption DEF TypeOK, HandleStates, Answers, Core, DestroyEnd,
       Outcome, Return, AfterDrop, DropCore, requests
<1>2. LoadInv'
  BY <1>0, NativeFrame DEF HandleInv, Dismantled, DestroyEnd, Outcome, Return,
       AfterDrop, DropCore, requests
<1>3. HandleInv'
  BY <1>0, HandlesAssumption DEF HandleInv, TypeOK, Dismantled, Core, native,
       DestroyEnd, Outcome, Return, AfterDrop, DropCore, requests
<1>4. PollInv'
  BY <1>0 DEF PollInv, TypeOK, DestroyEnd, Outcome, Return, AfterDrop, DropCore,
       requests
<1>5. DestroyedIsRetired'
  BY <1>0 DEF DestroyedIsRetired, PollInv, TypeOK, DestroyEnd,
       Outcome, Return, AfterDrop, DropCore, requests
<1>6. QED
  BY <1>1, <1>2, <1>3, <1>4, <1>5 DEF IInv

\* The worker leaves the handles alone.
LEMMA ServeStep ==
  ASSUME IInv, UNCHANGED native, Serve
  PROVE  IInv'
<1>0. LoadInv /\ HandleInv /\ PollInv /\ DestroyedIsRetired /\ TypeOK
  BY DEF IInv
<1>1. TypeOK'
  BY <1>0, RequestTypes DEF TypeOK, Serve, workerFrame
<1>2. LoadInv'
  BY <1>0, NativeFrame DEF HandleInv, Dismantled, Serve, workerFrame
<1>3. HandleInv'
  BY <1>0, HandlesAssumption DEF HandleInv, TypeOK, Dismantled, Core, native,
       Serve, workerFrame, Contract!Generate, Contract!Fail, Contract!Return
<1>4. PollInv'
  BY <1>0 DEF PollInv, TypeOK, Serve, workerFrame, Contract!Generate,
       Contract!Fail, Contract!Return
<1>5. DestroyedIsRetired'
  BY <1>0 DEF DestroyedIsRetired, PollInv, TypeOK, Serve,
       workerFrame, Contract!Generate, Contract!Fail, Contract!Return
<1>6. QED
  BY <1>1, <1>2, <1>3, <1>4, <1>5 DEF IInv

\* The worker retires what it has only when no reference is left.
LEMMA ExitStep ==
  ASSUME IInv, UNCHANGED native, Exit
  PROVE  IInv'
<1>0. LoadInv /\ HandleInv /\ PollInv /\ DestroyedIsRetired /\ TypeOK
  BY DEF IInv
<1>1. TypeOK'
  BY <1>0, HandlesAssumption DEF TypeOK, HandleStates, Answers, Core, Exit,
       workerFrame
<1>2. LoadInv'
  BY <1>0, NativeFrame DEF HandleInv, Dismantled, Exit, workerFrame
<1>3. HandleInv'
  BY <1>0, HandlesAssumption DEF HandleInv, TypeOK, Dismantled, Core, native,
       Exit, workerFrame
<1>4. PollInv'
  BY <1>0 DEF PollInv, TypeOK, Exit, workerFrame
<1>5. DestroyedIsRetired'
  BY <1>0 DEF DestroyedIsRetired, PollInv, TypeOK, Exit, workerFrame
<1>6. QED
  BY <1>1, <1>2, <1>3, <1>4, <1>5 DEF IInv

\* The thread ends after its backend.
LEMMA GoneStep ==
  ASSUME IInv, UNCHANGED native, Gone
  PROVE  IInv'
<1>0. LoadInv /\ HandleInv /\ PollInv /\ DestroyedIsRetired /\ TypeOK
  BY DEF IInv
<1>1. TypeOK'
  BY <1>0, HandlesAssumption DEF TypeOK, HandleStates, Answers, Core, Gone,
       workerFrame, requests
<1>2. LoadInv'
  BY <1>0, NativeFrame DEF HandleInv, Dismantled, Gone, workerFrame, requests
<1>3. HandleInv'
  BY <1>0, HandlesAssumption DEF HandleInv, TypeOK, Dismantled, Core, native,
       Gone, workerFrame, requests
<1>4. PollInv'
  BY <1>0 DEF PollInv, TypeOK, Gone, workerFrame, requests
<1>5. DestroyedIsRetired'
  BY <1>0 DEF DestroyedIsRetired, PollInv, TypeOK, Gone, workerFrame,
       requests
<1>6. QED
  BY <1>1, <1>2, <1>3, <1>4, <1>5 DEF IInv

\* A call that does not return changes nothing.
LEMMA HangStep ==
  ASSUME IInv, UNCHANGED native, Hang
  PROVE  IInv'
<1>0. LoadInv /\ HandleInv /\ PollInv /\ DestroyedIsRetired /\ TypeOK
  BY DEF IInv
<1>1. TypeOK'
  BY <1>0, HandlesAssumption DEF TypeOK, HandleStates, Answers, Core, Hang,
       requests
<1>2. LoadInv'
  BY <1>0, NativeFrame DEF HandleInv, Dismantled, Hang, requests
<1>3. HandleInv'
  BY <1>0, HandlesAssumption DEF HandleInv, TypeOK, Dismantled, Core, native,
       Hang, requests
<1>4. PollInv'
  BY <1>0 DEF PollInv, TypeOK, Hang, requests
<1>5. DestroyedIsRetired'
  BY <1>0 DEF DestroyedIsRetired, PollInv, TypeOK, Hang, requests
<1>6. QED
  BY <1>1, <1>2, <1>3, <1>4, <1>5 DEF IInv

\* The load and the end of the backend leave the handles alone.
LEMMA BackendStep ==
  ASSUME IInv, Backend, UNCHANGED <<requests, workerFrame, worker>>
  PROVE  IInv'
<1>0. LoadInv /\ HandleInv /\ PollInv /\ DestroyedIsRetired /\ TypeOK
  BY DEF IInv
<1>1. TypeOK'
  BY <1>0 DEF TypeOK, requests, workerFrame
<1>2. PollInv' /\ DestroyedIsRetired'
  BY <1>0 DEF PollInv, DestroyedIsRetired, requests, workerFrame
<1>3. CASE Load
  <2>1. loading # "loaded"
    BY <1>3 DEF Load, OpenTalker, TalkerSymbols, CreateTalker, StartPump, UploadTalker,
       OpenCodec, OpenWeights, CreateCodec, UploadCodec, AgreeOnHandoff, StartScheduler,
       Unwind, Step
  <2>2. worker = "none" /\ worker' = "none"
    BY <1>0, <2>1 DEF HandleInv
  <2>3. LoadInv'
    BY <1>0, <1>3, <2>2, LoadStep
  <2>4. HandleInv'
    BY <1>0, <2>2 DEF HandleInv, Dismantled, requests, workerFrame
  <2>5. QED
    BY <1>1, <1>2, <2>3, <2>4 DEF IInv
<1>4. CASE worker = "dropping" /\ DropBackend
  <2>1. loading = "loaded" /\ loading' = loading
    BY <1>0, <1>4 DEF HandleInv, DropBackend
  <2>2. LoadInv'
    BY <1>0, <1>4, <2>1, DropStep
  <2>3. HandleInv'
    BY <1>0, <1>4, <2>1 DEF HandleInv, Dismantled, requests, workerFrame
  <2>4. QED
    BY <1>1, <1>2, <2>2, <2>3 DEF IInv
<1>5. QED
  BY <1>3, <1>4 DEF Backend

\* No variable changes.
LEMMA Stutter ==
  ASSUME IInv, UNCHANGED vars
  PROVE  IInv'
<1>1. LoadInv'
  BY NativeFrame DEF IInv, vars, Dismantled
<1>2. TypeOK' /\ HandleInv' /\ PollInv' /\ DestroyedIsRetired'
  BY DEF IInv, TypeOK, HandleInv, PollInv, DestroyedIsRetired, Dismantled, vars, requests, native
<1>3. QED
  BY <1>1, <1>2 DEF IInv

LEMMA NextInv == IInv /\ [Next]_vars => IInv'
<1> SUFFICES ASSUME IInv, [Next]_vars PROVE IInv'
  OBVIOUS
<1>1. CASE Handles /\ UNCHANGED native
  <2>1. ASSUME NEW r \in Requests, Calls(r)
        PROVE  IInv'
    BY <1>1, <2>1, RequestStartStep, PollBeginStep, PollEndStep, RequestCancelStep,
       DestroyBeginStep, DestroyEndStep DEF Calls
  <2>2. CASE Released \/ Blocked
    BY <2>2, Stutter DEF Released, Blocked
  <2>3. QED
    BY <1>1, <2>1, <2>2, EngineCreateStep, EngineDestroyStep, JoinEndStep, ServeStep,
       ExitStep, GoneStep, HangStep DEF Handles
<1>2. CASE Backend /\ UNCHANGED <<requests, workerFrame, worker>>
  BY <1>2, BackendStep
<1>3. CASE UNCHANGED vars
  BY <1>3, Stutter
<1>4. QED
  BY <1>1, <1>2, <1>3 DEF Next

LEMMA Inductive == Spec => []IInv
  BY InitInv, NextInv, PTL DEF Spec

-----------------------------------------------------------------------------
(* The theorems.                                                           *)

\* Types of the C interface's state (ffi.rs).
THEOREM HandlesTyped == Spec => []TypeOK
<1>1. IInv => TypeOK
  BY DEF IInv
<1>2. QED
  BY <1>1, Inductive, PTL

\* While any handle can be used the worker runs, on a complete backend
\* (engine_core, an Arc in every handle of ffi.rs).
THEOREM CoreRetained == Spec => []CoreOutlivesHandles
<1>1. IInv => CoreOutlivesHandles
  <2> SUFFICES ASSUME IInv,
                      engine = "live" \/ \E r \in Requests : handle[r] \in {"live", "destroying"}
               PROVE  worker = "running" /\ Complete
    BY DEF CoreOutlivesHandles
  <2>1. worker = "running" /\ loading = "loaded"
    BY DEF IInv, HandleInv
  <2>2. Built /\ Handoff(build.talker, build.codec)
    BY <2>1 DEF IInv, LoadInv, Dismantled, Steps, Agreed
  <2>3. held = Talker \cup Pump \cup {"codecLibrary", "codecModel"} \cup Cuda
    BY <2>1, <2>2 DEF Built, Agreed
  <2>4. Complete
    BY <2>2, <2>3 DEF Complete, Handoff, Talker, Pump, Cuda
  <2>5. QED
    BY <2>1, <2>4
<1>2. QED
  BY <1>1, Inductive, PTL

\* After the last destroy nothing is left of the engine (Drop of the scheduler, of
\* the backend and of what NativeBackend::load made); after a failed create
\* nothing but the native model of a library without the batch symbol, which
\* NativeTalkerModel::load does not own yet.
THEOREM NothingLeft == Spec => []DestroyLeavesNothing
<1>1. IInv => DestroyLeavesNothing
  <2> SUFFICES ASSUME IInv PROVE DestroyLeavesNothing
    OBVIOUS
  <2>1. ASSUME engine = "freed", \A r \in Requests : handle[r] \in {"none", "freed"}
        PROVE  worker = "gone" /\ slots = {} /\ held = {}
    <3>1. holders = {}
      BY <2>1 DEF IInv, HandleInv
    <3>2. worker = "gone"
      BY <2>1, <3>1 DEF IInv, HandleInv, TypeOK
    <3>3. QED
      BY <3>2 DEF IInv, HandleInv, Dismantled
  <2>2. QED
    BY <2>1 DEF DestroyLeavesNothing, IInv, LoadInv
<1>2. QED
  BY <1>1, Inductive, PTL
=============================================================================
