-------------------------- MODULE RequestContract --------------------------
(***************************************************************************)
(* What the scheduler promises its clients, without threads, channel or    *)
(* buffers: at most Capacity requests hold a slot; the audio of a request  *)
(* is delivered in order and completely, or the request is cancelled or    *)
(* has failed and stays so; no failure is reported once the slot has been  *)
(* returned; and a slot that is no longer needed is eventually returned.   *)
(***************************************************************************)
EXTENDS Naturals, FiniteSets

CONSTANTS Requests, Capacity, MaxFrames

VARIABLES
  status,  \* status[r]: what the client of r would be told
  made,    \* made[r]: codec frames generated for r
  heard,   \* heard[r]: codec frames handed to the client of r
  closed,  \* closed[r]: the final frame of r has been generated
  slots    \* requests that hold a slot

vars == <<status, made, heard, closed, slots>>

Init ==
  /\ status = [r \in Requests |-> "idle"]
  /\ made = [r \in Requests |-> 0]
  /\ heard = [r \in Requests |-> 0]
  /\ closed = [r \in Requests |-> FALSE]
  /\ slots = {}

Admit(r) ==
  /\ status[r] = "idle" /\ Cardinality(slots) < Capacity
  /\ status' = [status EXCEPT ![r] = "live"]
  /\ slots' = slots \cup {r}
  /\ UNCHANGED <<made, heard, closed>>

\* A step of the backend, of whose frames a request cancelled meanwhile makes
\* no use.
Generate(r) ==
  /\ r \in slots /\ status[r] \in {"live", "cancelled"} /\ ~closed[r]
  /\ \E n \in 1 .. MaxFrames - made[r] :
       made' = [made EXCEPT ![r] = @ + n]
  /\ closed' \in {closed, [closed EXCEPT ![r] = status[r] = "live"]}
  /\ UNCHANGED <<status, heard, slots>>

\* The stream ends exactly when its last frame is handed over.
Deliver(r) ==
  /\ status[r] = "live"
  /\ \E n \in 1 .. made[r] - heard[r] :
       heard' = [heard EXCEPT ![r] = @ + n]
  /\ status' = [status EXCEPT ![r] =
                  IF closed[r] /\ heard'[r] = made[r] THEN "ended" ELSE @]
  /\ UNCHANGED <<made, closed, slots>>

Cancel(r) ==
  /\ status[r] = "live"
  /\ status' = [status EXCEPT ![r] = "cancelled"]
  /\ closed' = [closed EXCEPT ![r] = FALSE]
  /\ UNCHANGED <<made, heard, slots>>

Fail(r) ==
  /\ r \in slots /\ status[r] \in {"live", "cancelled"}
  /\ status' = [status EXCEPT ![r] = "failed"]
  /\ closed' = [closed EXCEPT ![r] = FALSE]
  /\ UNCHANGED <<made, heard, slots>>

Return(r) ==
  /\ r \in slots /\ (closed[r] \/ status[r] \in {"cancelled", "failed"})
  /\ slots' = slots \ {r}
  /\ UNCHANGED <<status, made, heard, closed>>

Next ==
  \E r \in Requests :
    Admit(r) \/ Generate(r) \/ Deliver(r) \/ Cancel(r) \/ Fail(r) \/ Return(r)

Spec == Init /\ [][Next]_vars /\ \A r \in Requests : WF_vars(Return(r))
=============================================================================
