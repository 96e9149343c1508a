------------------------------ MODULE IndexMap -------------------------------
(***************************************************************************)
(* What an object promises of its indexed properties, dense or sparse: a   *)
(* map from indexes to values like the one from names to values, and       *)
(* setting the length takes the values from some index on out of it.       *)
(***************************************************************************)
EXTENDS PropMap, Integers

Shortened(before, n) == [k \in Key |-> IF k < n THEN before[k] ELSE Absent]

Shorten ==
    /\ \E n \in Key : props' = Shortened(props, n)
    /\ saved' = IF open THEN saved ELSE props'
    /\ open' = open

SpecOfIndexes == Init /\ [][Next \/ Shorten]_vars
=============================================================================
