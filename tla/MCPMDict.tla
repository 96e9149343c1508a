------------------------------ MODULE MCPMDict -------------------------------
(* PMDict with keys that collide in a block of 8 entries: k1 and k2 start at  *)
(* slot 0, and k5 starts where their probes go next.  Only k5 changes value.  *)
EXTENDS PMDict, TLC

CONSTANTS k1, k2, k3, k4, k5, v1, v2

Colliding == k1 :> 0 @@ k2 :> 8 @@ k3 :> 3 @@ k4 :> 4 @@ k5 :> 17

Values == [k \in Key |-> IF k = k5 THEN {v1, v2} ELSE {v1}]

ThreeKeys == <<k1, k2, k3>>
Nothing == {}
Reading == {"missing"}
=============================================================================
