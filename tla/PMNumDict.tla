------------------------------ MODULE PMNumDict ------------------------------
(***************************************************************************)
(* PMNumDict, the sparse form of an object's indexed properties: an open   *)
(* addressing hash table, whose entries keep a state besides key and value *)
(* and whose hash is the index itself.                                     *)
(*                                                                         *)
(* A table d is a record of its counters and its current block of keys.    *)
(* Every operation stores to ranges that it has snapshotted, or to a block *)
(* it has just allocated, in a transaction of its own; so each is an       *)
(* operator from a table to the table it leaves in that transaction, with  *)
(* how it ends: it is done, it throws, or an assertion ends the process.   *)
(***************************************************************************)
EXTENDS Probing, FiniteSetsExt

CONSTANTS
    Val,            \* what the client stores
    PPTR_NULL, PPTR_UNDEFINED,
    MaxLength       \* bound: of the indexes

ASSUME NumDictAssumption ==
    /\ MaxLength \in Nat \ {0}
    /\ PPTR_NULL # PPTR_UNDEFINED
    /\ {PPTR_NULL, PPTR_UNDEFINED} \cap Val = {}

Index == 0..MaxLength - 1
Item == Val \cup {PPTR_NULL, PPTR_UNDEFINED}

ASSUME PerturbAssumption == \A key \in Index : Fades(key)

Entry == [me_state : {"NULL", "DUMMY", "FULL"}, me_key : Index, me_value : Item]
Null == [me_state |-> "NULL", me_key |-> 0, me_value |-> PPTR_NULL]
Full(key, v) == [me_state |-> "FULL", me_key |-> key, me_value |-> v]

\* The tables with a block of size keys.
TablesOf(size) ==
    [ob_size : Nat, ma_used : Nat, dk_size : {size}, dk_usable : Nat,
     entries : [0..size - 1 -> Entry]]

Slots(d) == 0..d.dk_size - 1
SlotsIn(d, state) == {i \in Slots(d) : d.entries[i].me_state = state}

\* d with a new block of keys.
newKeysObject(d, size) ==
    [d EXCEPT !.dk_size = size, !.dk_usable = usableFraction(size),
              !.entries = [i \in 0..size - 1 |-> Null]]

NewNumDict ==
    newKeysObject([ob_size |-> 0, ma_used |-> 0, dk_size |-> 0, dk_usable |-> 0,
                   entries |-> <<>>], MIN_SIZE_COMBINED)

-----------------------------------------------------------------------------
(* Searching. *)

\* The slots that a search for an index looks at, by the size of the block.
Probe == [key \in Index |-> [size \in Sizes |-> Visited(key, size)]]

\* A place on the way to key where lookup() stops: a free entry, or one of key, except
\* a deleted one that is the very first.
Stops(d, key, n) ==
    LET entry == d.entries[Probe[key][d.dk_size][n]]
    IN  \/ entry.me_state = "NULL"
        \/ entry.me_key = key /\ (n > 0 \/ entry.me_state = "FULL")

\* Where it does so first.
Last(d, key) ==
    CHOOSE n \in DOMAIN Probe[key][d.dk_size] :
        Stops(d, key, n) /\ \A j \in 0..n - 1 : ~Stops(d, key, j)

\* How far along the way to key the first entry in state is.
Reach(d, key, state) ==
    LET idx == Probe[key][d.dk_size]
    IN  CHOOSE n \in DOMAIN idx :
            /\ d.entries[idx[n]].me_state = state
            /\ \A j \in 0..n - 1 : d.entries[idx[j]].me_state # state

\* The entry of key; when there is none, the first free or deleted one.
lookup(d, key) ==
    LET idx == Probe[key][d.dk_size]
        last == Last(d, key)
    IN  IF /\ d.entries[idx[last]].me_state = "NULL"
           /\ \E n \in 0..last : d.entries[idx[n]].me_state = "DUMMY"
        THEN idx[Reach(d, key, "DUMMY")]
        ELSE idx[last]

findEmptySlot(d, key) == Probe[key][d.dk_size][Reach(d, key, "NULL")]

getLength(d) == d.ob_size

getProperty(d, key) ==
    LET entry == d.entries[lookup(d, key)]
    IN  IF key >= d.ob_size \/ entry.me_state = "NULL" THEN PPTR_UNDEFINED
        ELSE entry.me_value

-----------------------------------------------------------------------------
(* Changing. *)

Done(d) == [dict |-> d, ends |-> "done"]
Throws(d) == [dict |-> d, ends |-> "throws"]
Asserts(d) == [dict |-> d, ends |-> "asserts"]

\* The bound is met: the block would grow beyond MaxSize.
Beyond(d) == [dict |-> d, ends |-> "beyond"]

growRate(d) == d.ma_used * 2 + d.dk_size \div 2

newsize(d) == Min({size \in Sizes : size > growRate(d)})

\* The new table when the first n entries of the old one have been seen: those with
\* a value move.
Moved(d) ==
    LET moved[n \in 0..d.dk_size] ==
          IF n = 0 THEN newKeysObject(d, newsize(d))
          ELSE LET done == moved[n - 1]
                   entry == d.entries[n - 1]
               IN  IF entry.me_value = PPTR_NULL THEN done
                   ELSE [done EXCEPT !.entries[findEmptySlot(done, entry.me_key)] = entry]
    IN  moved

\* Mutant: the entries that have moved are still counted as usable.
insertionResize_stale_usable(d) == Moved(d)[d.dk_size]

insertionResize(d) == [Moved(d)[d.dk_size] EXCEPT !.dk_usable = @ - d.ma_used]

Inserted(d, key, v) ==
    [d EXCEPT !.entries[findEmptySlot(d, key)] = Full(key, v),
              !.dk_usable = @ - 1, !.ma_used = @ + 1,
              !.ob_size = IF @ < key + 1 THEN key + 1 ELSE @]

\* An index that has been deleted cannot be set again, and one for which a popped
\* entry would be used neither: that entry stays marked as deleted.
setProperty(d, key, v) ==
    LET ep == lookup(d, key)
        entry == d.entries[ep]
    IN  CASE entry.me_value # PPTR_NULL -> Done([d EXCEPT !.entries[ep].me_value = v])
          [] entry.me_state = "NULL" ->
               IF d.dk_usable > 0 THEN Done(Inserted(d, key, v))
               ELSE IF newsize(d) <= MaxSize THEN Done(Inserted(insertionResize(d), key, v))
               ELSE Beyond(d)
          [] entry.me_state = "DUMMY" -> Asserts(d)
          [] OTHER -> Throws(d)

\* An index that is not there becomes one without a value.
delProperty(d, key) == setProperty(d, key, PPTR_NULL)

\* One setProperty after the other, for the indexes in the domain of values: how it
\* stands when those below n have had their turn.
Setting(d, values) ==
    LET set[n \in 0..MaxLength] ==
          IF n = 0 THEN Done(d)
          ELSE LET r == set[n - 1]
               IN  IF n - 1 \in DOMAIN values /\ r.ends = "done"
                   THEN setProperty(r.dict, n - 1, values[n - 1])
                   ELSE r
    IN  set

\* Mutant: the entry becomes free at once.
Popped_null(d, ep) ==
    [d EXCEPT !.entries[ep] = Null, !.ma_used = @ - 1, !.ob_size = @ - 1]

Popped(d, ep) ==
    [d EXCEPT !.entries[ep] = [@ EXCEPT !.me_state = "DUMMY", !.me_value = PPTR_NULL],
              !.ma_used = @ - 1, !.ob_size = @ - 1]

\* What pop() returns, and what it leaves: the length, too, when the last index is
\* one that was never set.
PopReturns(d) ==
    LET entry == d.entries[lookup(d, d.ob_size - 1)]
    IN  IF entry.me_state = "NULL" THEN PPTR_UNDEFINED ELSE entry.me_value

pop(d) ==
    LET ep == lookup(d, d.ob_size - 1)
    IN  IF d.entries[ep].me_state = "NULL" THEN d ELSE Popped(d, ep)

\* Mutant: the length is set, and nothing is deleted.
setLength_keeps(d, new_length) == Done([d EXCEPT !.ob_size = new_length])

\* The indexes from new_length on are deleted, also those that were never set,
\* which makes the table longer again.
setLength(d, new_length) ==
    Setting([d EXCEPT !.ob_size = new_length],
            [i \in new_length..d.ob_size - 1 |-> PPTR_NULL])[MaxLength]

\* The indexes that getValidIndex() lists, also those without a value.
getValidIndex(d) == {d.entries[i].me_key : i \in SlotsIn(d, "FULL")}
=============================================================================
