--------------------------- MODULE MCPoolSession ----------------------------
(* PoolSession on a small instance: two objects, so that the root can move   *)
(* between them, one property and one value.                                 *)
EXTENDS PoolSession

Anything == Behaviours
Throwing == {"throw", "crash"}
Unsupporting == {"unsupported"}
=============================================================================
