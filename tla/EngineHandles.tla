--------------------------- MODULE EngineHandles ---------------------------
(***************************************************************************)
(* The C interface (ffi.rs, ffi_support.rs): an engine handle and request  *)
(* handles, each with a reference to the engine core.  What the scheduler  *)
(* behind them does for a request is RequestContract.  The threads of the  *)
(* caller use the handles as the README allows: one thread polls a request *)
(* at a time, another may cancel it, no call uses a handle that is being   *)
(* or has been destroyed, and engine and requests are destroyed in any     *)
(* order.  Creating the engine loads the native backend, see NativeLoad;   *)
(* the worker owns it and drops it when it ends.                           *)
(***************************************************************************)
EXTENDS FiniteSets, NativeLoad

CONSTANTS
  Requests,  \* requests that callers start
  Capacity,  \* max_concurrent_requests
  MaxFrames, \* bound: codec frames of a request
  MaxPacket  \* packet_frames of the configuration

ASSUME HandlesAssumption ==
  /\ IsFiniteSet(Requests) /\ "engine" \notin Requests /\ Capacity \in Nat \ {0}
  /\ MaxFrames \in Nat /\ MaxPacket \in Nat \ {0, 1}

VARIABLES
  status, made, heard, closed, slots, \* the requests: see RequestContract
  engine,  \* the engine handle
  handle,  \* handle[r]: the request handle of r
  room,    \* room[r]: packet buffer, in frames, of the thread that polls r; else 0
  answer,  \* answer[r]: what the last call for r has returned
  holders, \* handles with a reference to the engine core
  worker,  \* the worker thread of the scheduler
  hung     \* the backend never returns from its current call

requests == <<status, made, heard, closed, slots>>
vars == <<requests, native, engine, handle, room, answer, holders, worker, hung>>

Contract == INSTANCE RequestContract

Core == "engine"
Answers == {"none", "Ok", "WouldBlock", "EndOfStream", "InvalidArgument", "Cancelled",
            "State", "Internal"}

Init ==
  /\ Contract!Init
  /\ NativeInit
  /\ engine = "none" /\ worker = "none" /\ hung = FALSE
  /\ handle = [r \in Requests |-> "none"]
  /\ answer = [r \in Requests |-> "none"]
  /\ room = [r \in Requests |-> 0] /\ holders = {}

-----------------------------------------------------------------------------
(* The engine handle.                                                      *)

\* The output is null until everything has succeeded: of a failure nothing is
\* left.
EngineCreate ==
  /\ engine = "none" /\ loading = "loaded"
  /\ engine' = "live" /\ worker' = "running" /\ holders' = {Core}
  /\ UNCHANGED <<requests, handle, room, answer, hung>>

\* The last reference drops the scheduler, which stops and joins its worker.
DropCore_Always(h) ==
  /\ holders' = holders \ {h}
  /\ worker' = IF h = Core \/ holders = {h} THEN "stopping" ELSE worker

DropCore_Silent(h) == holders' = holders \ {h} /\ UNCHANGED worker

DropCore(h) ==
  /\ holders' = holders \ {h}
  /\ worker' = IF holders = {h} THEN "stopping" ELSE worker

AfterDrop_Detached(h) == "freed"
AfterDrop(h) == IF holders = {h} THEN "joining" ELSE "freed"

EngineDestroy ==
  /\ engine = "live"
  /\ engine' = AfterDrop(Core)
  /\ DropCore(Core)
  /\ UNCHANGED <<requests, handle, room, answer, hung>>

-----------------------------------------------------------------------------
(* Request handles.                                                        *)

Return(r, result) == answer' = [answer EXCEPT ![r] = result]
Live(r) == handle[r] = "live"
callFrame == <<engine, handle, holders, worker, hung>>

RequestStart(r) ==
  /\ engine = "live" /\ handle[r] = "none"
  /\ \/ /\ Contract!Admit(r)
        /\ handle' = [handle EXCEPT ![r] = "live"]
        /\ holders' = holders \cup {r} /\ Return(r, "Ok")
     \/ /\ Cardinality(slots) = Capacity
        /\ Return(r, "WouldBlock")
        /\ UNCHANGED <<requests, handle, holders>>
  /\ UNCHANGED <<engine, room, worker, hung>>

Suffices(frames) == frames >= MaxPacket

\* The capacity is checked before the queue is touched.
PollBegin(r) ==
  /\ Live(r) /\ room[r] = 0
  /\ \E frames \in {MaxPacket - 1, MaxPacket} :
       IF Suffices(frames)
       THEN room' = [room EXCEPT ![r] = frames] /\ UNCHANGED answer
       ELSE Return(r, "InvalidArgument") /\ UNCHANGED room
  /\ UNCHANGED <<requests, callFrame>>

\* A timed poll: a packet, or why there is none.
PollEnd(r) ==
  /\ room[r] > 0 /\ room' = [room EXCEPT ![r] = 0]
  /\ \/ /\ Contract!Deliver(r) /\ heard'[r] - heard[r] <= MaxPacket
        /\ Return(r, "Ok")
     \/ /\ UNCHANGED requests
        /\ \/ status[r] = "live" /\ Return(r, "WouldBlock")
           \/ status[r] = "ended" /\ Return(r, "EndOfStream")
           \/ status[r] = "cancelled" /\ Return(r, "Cancelled")
           \/ status[r] = "failed" /\ Return(r, "Internal")
  /\ UNCHANGED callFrame

\* A cancellation withdraws the request unless its outcome is settled.
Withdraw(r) == Contract!Cancel(r) \/ (status[r] # "live" /\ UNCHANGED requests)

RequestCancel(r) ==
  /\ Live(r) /\ Withdraw(r) /\ Return(r, "Ok")
  /\ UNCHANGED <<callFrame, room>>

\* request_destroy takes the handle, cancels, and waits up to 30 seconds.
DestroyBegin(r) ==
  /\ Live(r) /\ room[r] = 0
  /\ Withdraw(r)
  /\ handle' = [handle EXCEPT ![r] = "destroying"]
  /\ UNCHANGED <<engine, room, answer, holders, worker, hung>>

Outcome(r) == IF r \in slots THEN {"State"} ELSE {"Ok"}

\* Retired or not, the request and its reference are dropped.
DestroyEnd(r) ==
  /\ handle[r] = "destroying"
  /\ \E result \in Outcome(r) : Return(r, result)
  /\ handle' = [handle EXCEPT ![r] = AfterDrop(r)]
  /\ DropCore(r)
  /\ UNCHANGED <<requests, engine, room, hung>>

\* Drop of the scheduler returns once the worker thread has ended.
JoinEnd ==
  /\ worker = "gone"
  /\ engine = "joining" \/ \E r \in Requests : handle[r] = "joining"
  /\ engine' = IF engine = "joining" THEN "freed" ELSE engine
  /\ handle' = [r \in Requests |-> IF handle[r] = "joining" THEN "freed" ELSE handle[r]]
  /\ UNCHANGED <<requests, room, answer, holders, worker, hung>>

-----------------------------------------------------------------------------
(* The scheduler's worker.                                                 *)

workerFrame == <<engine, handle, room, answer, holders, hung>>

Serve ==
  /\ worker \in {"running", "stopping"} /\ ~hung
  /\ \E r \in Requests :
       Contract!Generate(r) \/ Contract!Fail(r) \/ Contract!Return(r)
  /\ UNCHANGED <<workerFrame, worker>>

\* At the end the worker withdraws and retires whatever it still has, ...
Exit ==
  /\ worker = "stopping" /\ ~hung
  /\ worker' = "dropping" /\ slots' = {}
  /\ UNCHANGED <<workerFrame, status, made, heard, closed>>

\* ... then its backend is dropped and its thread ends.
Gone ==
  /\ worker = "dropping" /\ held = {}
  /\ worker' = "gone"
  /\ UNCHANGED <<requests, workerFrame>>

Hang ==
  /\ worker \in {"running", "stopping"} /\ slots # {} /\ ~hung
  /\ hung' = TRUE
  /\ UNCHANGED <<requests, engine, handle, room, answer, holders, worker>>

Released ==
  /\ engine = "freed" \/ loading = "failed"
  /\ \A r \in Requests : handle[r] \in {"none", "freed"}
  /\ UNCHANGED vars

Blocked ==
  /\ hung /\ "joining" \in {engine} \cup {handle[r] : r \in Requests}
  /\ UNCHANGED vars

Calls(r) ==
  RequestStart(r) \/ PollBegin(r) \/ PollEnd(r) \/ RequestCancel(r)
    \/ DestroyBegin(r) \/ DestroyEnd(r)

Handles ==
  \/ EngineCreate \/ EngineDestroy \/ JoinEnd
  \/ \E r \in Requests : Calls(r)
  \/ Serve \/ Exit \/ Gone \/ Hang \/ Released \/ Blocked

\* Nothing else runs while the engine is created; the dropped backend is the
\* worker's.
Backend == Load \/ (worker = "dropping" /\ DropBackend)

Next ==
  \/ Handles /\ UNCHANGED native
  \/ Backend /\ UNCHANGED <<requests, workerFrame, worker>>

\* Threads inside a call and the worker go on; nobody has to call.
Fairness ==
  /\ \A r \in Requests : /\ WF_vars(DestroyEnd(r) /\ UNCHANGED native)
                         /\ WF_vars(PollEnd(r) /\ UNCHANGED native)
  /\ WF_vars(Exit /\ UNCHANGED native) /\ WF_vars(Gone /\ UNCHANGED native)
  /\ WF_vars(JoinEnd /\ UNCHANGED native)
  /\ WF_vars(Backend /\ UNCHANGED <<requests, workerFrame, worker>>)

Spec == Init /\ [][Next]_vars /\ Fairness

-----------------------------------------------------------------------------
(* Properties.                                                             *)

HandleStates == {"none", "live", "destroying", "joining", "freed"}

TypeOK ==
  /\ status \in [Requests -> {"idle", "live", "ended", "cancelled", "failed"}]
  /\ made \in [Requests -> 0 .. MaxFrames] /\ heard \in [Requests -> 0 .. MaxFrames]
  /\ closed \in [Requests -> BOOLEAN] /\ slots \subseteq Requests
  /\ engine \in HandleStates /\ handle \in [Requests -> HandleStates]
  /\ room \in [Requests -> 0 .. MaxPacket] /\ answer \in [Requests -> Answers]
  /\ holders \subseteq Requests \cup {Core}
  /\ worker \in {"none", "running", "stopping", "dropping", "gone"} /\ hung \in BOOLEAN

\* "An active request retains the engine core": while any handle can be used,
\* whichever was destroyed first, the worker runs and is not being stopped, with
\* both models, and talker and codec agree on the packets between them.
CoreOutlivesHandles ==
  engine = "live" \/ (\E r \in Requests : handle[r] \in {"live", "destroying"})
    => worker = "running" /\ Complete

\* "After a cancelled request has been destroyed successfully, its slot is
\* retired and may be reused immediately": of the slots in use none belongs
\* to such a request.
DestroyedIsRetired ==
  \A r \in Requests : handle[r] \in {"joining", "freed"} /\ answer[r] = "Ok" => r \notin slots

\* The last destroy returns when the worker is gone and every slot, model and
\* library with it: no thread of the library runs on after the last handle; no
\* code is unloaded under what needs it, and a create that fails leaves nothing
\* but the native model it forgets when a library of ABI 3 lacks the batch symbol
\* (NativeTalkerModel::load returns before it owns the handle).
DestroyLeavesNothing ==
  /\ engine = "freed" /\ (\A r \in Requests : handle[r] \in {"none", "freed"})
       => worker = "gone" /\ slots = {} /\ held = {}
  /\ DestroyedIsRetired
  /\ LibrariesLast /\ FailureIsClean

\* Destroying a request or the engine returns, whatever the client has left
\* unread, unless the backend hangs.
DestroyReturns ==
  \A r \in Requests :
    (handle[r] = "destroying" \/ engine = "joining")
      ~> (hung \/ (handle[r] # "destroying" /\ handle[r] # "joining" /\ engine # "joining"))

=============================================================================
