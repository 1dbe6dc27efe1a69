---------------------------- MODULE MCScheduler ----------------------------
(* Small instances of the scheduler for TLC.                               *)
EXTENDS Scheduler

CONSTANT Fast  \* the request whose client keeps polling, in the pair run

\* One client polls and drops its packets; the others may stop at any point.
\* The scheduler is dropped only from where both run (a bound: the progress run
\* drops it anywhere).
DropFromFull == owner = "live" /\ owner' # "live" => worker.active = Requests

FastClientSpec ==
  /\ Init /\ [][Next /\ DropFromFull]_vars /\ Fairness
  /\ WF_vars(PollPacket(Fast)) /\ WF_vars(PollEnd(Fast)) /\ WF_vars(DropPacket(Fast))

\* A client that keeps polling is eventually told how its request ended, and
\* the request is retired, although another request's client may leave its
\* ring full, sit on packets or never poll.
SlowPeerDoesNotBlock ==
  (handle[Fast] = "open") ~>
    (/\ state[Fast].retired
     /\ state[Fast].phase = "Completed" \/ Withdrawn(state[Fast]))
=============================================================================
