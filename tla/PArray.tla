------------------------------- MODULE PArray -------------------------------
(***************************************************************************)
(* What a persistent array keeps: items and a length, read and written     *)
(* inside transactions.                                                    *)
(*                                                                         *)
(*   now     the items and the length the program works on                 *)
(*   saved   those an abort or a crash would bring back; while no          *)
(*           transaction is open they are those of now                     *)
(*   open    a transaction is open                                         *)
(*   alive   the process runs                                              *)
(*                                                                         *)
(* It is less than an array promises, and exactly so in three places: the  *)
(* items that a shorter length cuts off may be kept and appear again when  *)
(* the length grows; an item may be there before the length counts it; and *)
(* shortening may make holes of what an abort or a crash would bring back. *)
(* Every other step keeps every item where it is.                          *)
(***************************************************************************)
EXTENDS Integers

CONSTANTS Item, Hole, Capacity

VARIABLES now, saved, open, alive

vars == <<now, saved, open, alive>>

Slot == 0..Capacity - 1

Init ==
    /\ now = [items |-> [i \in Slot |-> Hole], size |-> 0]
    /\ saved = now
    /\ open = FALSE
    /\ alive = TRUE

\* From a to b, items from n on were kept or cleared, and no other changed.
KeptBelow(a, b, n) ==
    \A i \in Slot :
        b.items[i] = a.items[i] \/ (i >= n /\ b.items[i] = Hole)

\* The same for the items an abort would bring back, if n makes the array shorter.
Damaged(n) ==
    /\ saved'.size = saved.size
    /\ KeptBelow(saved, saved', n)
    /\ n >= now.size =>
          \A i \in Slot : i < saved.size => saved'.items[i] = saved.items[i]

Durable == saved' = IF open THEN saved ELSE now'

Written(i, v) == [now.items EXCEPT ![i] = v]

\* The process may stop when this is done.
Write(i, v) ==
    /\ alive
    /\ now' = [items |-> Written(i, v),
               size |-> IF i + 1 > now.size THEN i + 1 ELSE now.size]
    /\ Durable
    /\ open' = open

\* The process stops before the length counts the item.
HalfWrite(i, v) ==
    /\ alive /\ ~open
    /\ now' = [items |-> Written(i, v), size |-> now.size]
    /\ Durable
    /\ open' = open /\ ~alive'

Resize(n) ==
    /\ alive
    /\ now'.size = n /\ KeptBelow(now, now', n)
    /\ IF open THEN Damaged(n) ELSE saved' = now'
    /\ open' = open

\* The process stops before the transaction of Resize ends.
HalfResize(n) ==
    /\ alive /\ ~open
    /\ now'.size = n /\ KeptBelow(now, now', n)
    /\ Damaged(n)
    /\ open' /\ ~alive'

Begin == alive /\ ~open /\ open' /\ alive' /\ UNCHANGED <<now, saved>>

Commit == alive /\ open /\ saved' = now /\ ~open' /\ alive' /\ UNCHANGED now

Rollback == alive /\ open /\ now' = saved /\ ~open' /\ alive' /\ UNCHANGED saved

Stop == alive /\ ~alive' /\ UNCHANGED <<now, saved, open>>

Recover == ~alive /\ alive' /\ now' = saved /\ ~open' /\ UNCHANGED saved

Next ==
    \/ \E i \in Slot, v \in Item : Write(i, v) \/ HalfWrite(i, v)
    \/ \E n \in 0..Capacity : Resize(n) \/ HalfResize(n)
    \/ Begin \/ Commit \/ Rollback \/ Stop \/ Recover

Spec == Init /\ [][Next]_vars
=============================================================================
