--------------------------- MODULE MCHttpService ---------------------------
(* Small instances of the HTTP service for TLC. *)
EXTENDS HttpService

CONSTANTS Stream, Other, Id, OtherId

\* The stream and the WAVs but one carry the same ID.
MCIdOf == [r \in Requests |-> IF r = Other THEN OtherId ELSE Id]

\* A stream and a WAV arrive, under one ID or under two.
PairSpec ==
  (\E r \in Requests \ {Stream} : InitWith({Stream, r})) /\ [][Next]_vars

\* Only one of the requests arrives: the liveness of a single job, of either
\* mode, above an engine that may hang.
SingleSpec == (\E r \in Requests : InitWith({r})) /\ [][Next]_vars /\ Fairness
=============================================================================
