----------------------------- MODULE MCPMObject -----------------------------
(* PMObject on three indexes, of which 2 and 26 collide in a block of 8        *)
(* entries.  24 and 26 turn an array of one item into a table; at 8 entries    *)
(* the table stays one, and at 16 it is turned back.  To set the length to 23  *)
(* makes the entries of four more indexes, and with them the block grow.       *)
EXTENDS PMObject, TLC

CONSTANTS v1, h1, h2

Reading == {"holes"}
Handles == Permutations({h1, h2})
Popping == {"holes", "pops"}
=============================================================================
