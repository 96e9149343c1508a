------------------------------- MODULE PropMap -------------------------------
(***************************************************************************)
(* What the dictionary of an object's properties promises: a map from keys *)
(* to values, read and written inside transactions that take effect as a   *)
(* whole.                                                                  *)
(*                                                                         *)
(*   props   the map the program sees                                      *)
(*   saved   the map an abort or a crash would bring back; while no        *)
(*           transaction is open it is props                               *)
(*   open    a transaction is open                                         *)
(***************************************************************************)
CONSTANTS Key, Val, Absent

VARIABLES props, saved, open

vars == <<props, saved, open>>

Maps == [Key -> Val \cup {Absent}]

Init == props \in Maps /\ saved = props /\ open = FALSE

\* A call writes or deletes one key, or does nothing; all others stay.
OneKeyChanges(before, after) ==
    \E k \in Key, v \in Val \cup {Absent} : after = [before EXCEPT ![k] = v]

Write ==
    /\ OneKeyChanges(props, props')
    /\ saved' = IF open THEN saved ELSE props'
    /\ open' = open

Begin == ~open /\ open' = TRUE /\ UNCHANGED <<props, saved>>

Commit == open /\ open' = FALSE /\ saved' = props /\ UNCHANGED props

Rollback == open' = FALSE /\ props' = saved /\ UNCHANGED saved

Next == Write \/ Begin \/ Commit \/ Rollback

Spec == Init /\ [][Next]_vars
=============================================================================
