------------------------------ MODULE TxStore -------------------------------
(***************************************************************************)
(* What the API document promises of transactions, as an abstract store.   *)
(*                                                                         *)
(*   committed  what the next successful open() of the pool would show     *)
(*   working    what the program sees now (what recovery will show, while  *)
(*              no pool is open)                                           *)
(*   mode       "idle" outside transactions, "open" inside one, "doomed"   *)
(*              once some level of it has aborted                          *)
(*                                                                         *)
(* A transaction becomes durable as a whole or not at all, nothing that is *)
(* not committed survives it, and an abort at any level is final.          *)
(***************************************************************************)
CONSTANT Image

VARIABLES committed, working, mode

vars == <<committed, working, mode>>

Init ==
    /\ committed \in Image
    /\ working = committed
    /\ mode = "idle"

\* An operation outside transactions is atomic and durable when it returns.
Autocommit ==
    /\ mode = "idle" /\ mode' = "idle"
    /\ working' \in Image
    /\ committed' = working'

\* Begin, nested begins and ends, stores, an inner abort.
Work ==
    /\ mode' \in {"open", "doomed"}
    /\ mode = "doomed" => mode' = "doomed" /\ working' = working
    /\ working' \in Image
    /\ committed' = committed

Commit ==
    /\ mode = "open" /\ mode' = "idle"
    /\ working' = working
    /\ committed' = working

\* The outermost abort, or the end of the process or of the pool handle.
Rollback ==
    /\ mode # "idle" /\ mode' = "idle"
    /\ working' = committed
    /\ committed' = committed

Next == Autocommit \/ Work \/ Commit \/ Rollback

Spec == Init /\ [][Next]_vars
=============================================================================
