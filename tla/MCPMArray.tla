----------------------------- MODULE MCPMArray ------------------------------
(* PMArray on arrays of up to three items, with blocks of four, five and six. *)
EXTENDS PMArray

CONSTANTS v1, v2

Nothing == {}
Reading == {"holes"}
=============================================================================
