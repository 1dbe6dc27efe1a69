-------------------------- MODULE BackendContract --------------------------
(***************************************************************************)
(* What a StreamingBackend session gives the scheduler: a first packet of  *)
(* one codec frame, then packets of packet_frames frames, of fewer only at *)
(* the end, and an end that is announced with the last frame, never later. *)
(* The scheduler checks the frame counts and fails a session that passes   *)
(* max_codec_frames without an end.                                        *)
(***************************************************************************)
EXTENDS Naturals

CONSTANTS PacketFrames, MaxFrames

VARIABLES
  session,  \* "none", "open", "complete" or "failed"
  given     \* codec frames in the packets returned for the session

vars == <<session, given>>

Init == session = "none" /\ given = 0

Open == session = "none" /\ session' = "open" /\ given' = 0

Step ==
  /\ session = "open"
  /\ LET want == IF given = 0 THEN 1 ELSE PacketFrames
     IN  \E n \in 1 .. want :
           /\ given' = given + n /\ given' <= MaxFrames
           /\ session' \in {"open", "complete"}
           /\ n < want \/ given' = MaxFrames => session' = "complete"

Fail == session = "open" /\ session' = "failed" /\ UNCHANGED given

Close == session # "none" /\ session' = "none" /\ given' = 0

Next == Open \/ Step \/ Fail \/ Close

Spec == Init /\ [][Next]_vars
=============================================================================
