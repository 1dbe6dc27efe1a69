--------------------------- MODULE MCTalkerModel ---------------------------
(***************************************************************************)
(* Small instances of TalkerModel: a request that needs a small session    *)
(* and others that need a larger one.                                      *)
(***************************************************************************)
EXTENDS TalkerModel

CONSTANTS r1

OneSmall == [r \in Requests |-> IF r = r1 THEN 1 ELSE 2]

=============================================================================
