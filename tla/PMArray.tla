------------------------------- MODULE PMArray ------------------------------
(***************************************************************************)
(* PMSimpleArray, the dense form of an object's indexed properties: a      *)
(* length, and a block of items that is reallocated as it grows and        *)
(* shrinks.                                                                *)
(*                                                                         *)
(* The memory of pm (see PmemTx) holds the length, the allocated size and  *)
(* the items of the current block, UNALLOCATED beyond its size.  A         *)
(* reallocation is a store of all of them, since the new block is another  *)
(* one.  Stores outside transactions are taken to be durable at once (the  *)
(* caches are flushed when the power fails); that the process can stop     *)
(* between two of them is what Interrupted is about.                       *)
(***************************************************************************)
EXTENDS PmemTx, Integers

CONSTANTS
    Val,            \* what the client stores
    PPTR_NULL, PPTR_UNDEFINED,
    UNALLOCATED,
    Client,         \* "holes": it reads items that were never set
    MaxLength,      \* bound: the length of the array
    MaxOps          \* bound: calls of the setters in a transaction

VARIABLES pm, ops     \* ops: how many calls the open transaction has made

vars == <<pm, ops>>

ARRAY_MAX_GAP == 1024

\* Up to that length no index makes PMObject convert the array.
ASSUME LengthAssumption == MaxLength \in 1..ARRAY_MAX_GAP
ASSUME ClientAssumption == Client \subseteq {"holes"}
ASSUME WordAssumption ==
    /\ NoSnap \notin Val \cup {PPTR_NULL, PPTR_UNDEFINED, UNALLOCATED} \cup Nat
    /\ UNALLOCATED \notin Val \cup {PPTR_NULL, PPTR_UNDEFINED}

\* How many items resize() allocates for n of them.
new_allocated(n) ==
    IF n = 0 THEN 0 ELSE n \div 8 + (IF n < 9 THEN 3 ELSE 6) + n

\* The locations: the items, then the length and the allocated size.
MaxAllocated == new_allocated(MaxLength)
Slot == 0..MaxAllocated - 1
ob_size == MaxAllocated
allocated == MaxAllocated + 1
Loc == 0..MaxAllocated + 1

Item == Val \cup {PPTR_NULL, PPTR_UNDEFINED}
Word == Item \cup {UNALLOCATED} \cup Nat

-----------------------------------------------------------------------------
(* The array, from one state of the library to the next. *)

\* There is room for n items, and not twice as much as they need.
InPlace(m, n) == n <= m[allocated] /\ n >= m[allocated] \div 2

\* tz_zrealloc keeps the items that fit, also those beyond n.
moved(m, n) ==
    [l \in Loc |->
        CASE l = ob_size -> n
          [] l = allocated -> new_allocated(n)
          [] l \in Slot /\ l >= new_allocated(n) -> UNALLOCATED
          [] l \in Slot /\ l < new_allocated(n) ->
                IF l < m[allocated] THEN m[l] ELSE PPTR_NULL]

SetLengthTo(p, n) == tx_store(p, {ob_size}, [l \in Loc |-> n])

\* memset() clears the items beyond n, and nothing has snapshotted them.
Cleared(p, n) ==
    [p EXCEPT !.mem = [l \in Loc |->
        IF l >= n /\ l < p.mem[allocated] THEN PPTR_NULL ELSE p.mem[l]]]

\* resize() in place, before its MM_TX_END.
Shortened(p, n) == Cleared(SetLengthTo(tx_enter_context(p), n), n)

\* Mutant: the snapshot of the array stops short of its allocated size.
resize_snapshot_short(p, n) ==
    IF InPlace(p.mem, n) THEN tx_exit_context(Shortened(p, n))
    ELSE LET q == tx_store(tx_enter_context(p), Loc \ {allocated}, moved(p.mem, n))
         IN  tx_exit_context([q EXCEPT !.mem[allocated] = new_allocated(n)])

resize(p, n) ==
    IF InPlace(p.mem, n) THEN tx_exit_context(Shortened(p, n))
    ELSE InTx(p, Loc, moved(p.mem, n))

\* Mutant: off by one, the item after the last one is taken to be there.
Grown_late(p, i) == IF i > p.mem[allocated] THEN resize(p, i + 1) ELSE p

Grown(p, i) == IF i + 1 > p.mem[allocated] THEN resize(p, i + 1) ELSE p

Set(m, i, v) == [m EXCEPT ![i] = v]

\* Mutant: in a transaction the item is stored without a snapshot.
setProperty_no_snapshot(p, i, v) ==
    LET q == Grown(p, i)
        r == [q EXCEPT !.mem = Set(@, i, v)]
    IN  IF i + 1 <= q.mem[ob_size] THEN r
        ELSE InTx(r, {ob_size}, Set(r.mem, ob_size, i + 1))

\* In a transaction the item and the length are snapshotted.  Outside, the item
\* is stored in a transaction of its own, or when only its second word changes
\* by a single store, and the length by another.
setProperty(p, i, v) ==
    LET q == Grown(p, i)
        longer == i + 1 > q.mem[ob_size]
        m == Set(IF longer THEN Set(q.mem, ob_size, i + 1) ELSE q.mem, i, v)
    IN  IF q.stage = "WORK" THEN InTx(q, {i} \cup (IF longer THEN {ob_size} ELSE {}), m)
        ELSE [q EXCEPT !.mem = m]

\* pop() before its own MM_TX_END, and before that of resize() in it.
Popping(p) == SetLengthTo(tx_enter_context(p), p.mem[ob_size] - 1)

pop(p) == tx_exit_context(resize(Popping(p), p.mem[ob_size] - 1))

\* The items the program can see, by index.
View(m) == [i \in 1..m[ob_size] |-> m[i - 1]]

-----------------------------------------------------------------------------
(* The operations. *)

\* A new array has no items and no block of them.  One that is created from a
\* JavaScript array gets its items by setProperty(), like this one.
Created == [l \in Loc |-> IF l \in Slot THEN UNALLOCATED ELSE 0]

Init == pm = Idle(Created) /\ ops = 0

Alive == pm.stage # "DEAD"
InTransaction == pm.stage = "WORK"

\* The client's transactions are one level deep and bracketed.
TxBegin ==
    /\ pm.stage = "NONE"
    /\ pm' = pmemobj_tx_begin(pm)
    /\ ops' = 0

TxCommit ==
    /\ InTransaction
    /\ pm' = pmemobj_tx_end(pmemobj_tx_commit(pm))
    /\ ops' = 0

TxAbort ==
    /\ InTransaction
    /\ pm' = pmemobj_tx_end(pmemobj_tx_abort(pm))
    /\ ops' = 0

\* A call, unless the open transaction has made its share of them.
Calls(p) ==
    /\ Alive
    /\ InTransaction => ops < MaxOps
    /\ pm' = p
    /\ ops' = IF p.stage = "WORK" THEN ops + 1 ELSE 0

Index == 0..MaxLength - 1

SetItem(i, v) == i \in Index /\ Calls(setProperty(pm, i, v))

Push(v) ==
    /\ pm.mem[ob_size] < MaxLength
    /\ Calls(setProperty(pm, pm.mem[ob_size], v))

DelItem(i) ==
    Calls(IF i < pm.mem[ob_size] THEN setProperty(pm, i, PPTR_UNDEFINED) ELSE pm)

SetLength(n) == Calls(resize(pm, n))

\* A value that is PPTR_NULL is dereferenced by resurrect().
resurrect(p, item) == IF item = PPTR_NULL THEN Die(p) ELSE p

\* pop() of an array without items reads the one before the first.
Pop ==
    LET length == pm.mem[ob_size]
    IN  IF length = 0 THEN Calls(Die(pm))
        ELSE Calls(resurrect(pop(pm), pm.mem[length - 1]))

GetItem(i) ==
    /\ Alive
    /\ i < pm.mem[ob_size]
    /\ pm.mem[i] = PPTR_NULL => "holes" \in Client
    /\ pm' = resurrect(pm, pm.mem[i])
    /\ ops' = IF pm'.stage = "WORK" THEN ops ELSE 0

\* The process stops at p, in the middle of a call outside transactions.
Interrupted(p) == pm.stage = "NONE" /\ pm' = Die(p) /\ ops' = 0

SetItemInterrupted(i, v) ==
    \/ Interrupted(Grown(pm, i))
    \/ Interrupted([Grown(pm, i) EXCEPT !.mem = Set(@, i, v)])

SetLengthInterrupted(n) == InPlace(pm.mem, n) /\ Interrupted(Shortened(pm, n))

PopInterrupted ==
    LET n == pm.mem[ob_size] - 1
    IN  /\ n >= 0
        /\ InPlace(pm.mem, n)
        /\ Interrupted(Shortened(Popping(pm), n))

Crash == Alive /\ pm' = Die(pm) /\ ops' = 0

Restart == ~Alive /\ pm' = pmemobj_open(NewProcess(pm)) /\ ops' = 0

Next ==
    \/ \E i \in Index, v \in Val : SetItem(i, v) \/ SetItemInterrupted(i, v)
    \/ \E i \in Index : DelItem(i) \/ GetItem(i)
    \/ \E n \in 0..MaxLength : SetLength(n) \/ SetLengthInterrupted(n)
    \/ \E v \in Val : Push(v)
    \/ Pop \/ PopInterrupted
    \/ TxBegin \/ TxCommit \/ TxAbort
    \/ Crash \/ Restart

Spec == Init /\ [][Next]_vars

-----------------------------------------------------------------------------
(* Properties. *)

\* The images the program may find in the array: now, or after recovery.
Images == {pm.mem, Rolled(pm)}

\* There are exactly as many items as the allocated size says, now and after
\* an abort or a crash: resize() changes the block and its size together.
TypeOK ==
    /\ pm.stage \in Stages /\ pm.depth \in Nat
    /\ \A image \in Images :
          /\ image[ob_size] \in Nat /\ image[allocated] \in Nat
          /\ \A i \in Slot : image[i] \in
                IF i < image[allocated] THEN Item ELSE {UNALLOCATED}

\* The length never exceeds the allocated size, now and after an abort or a
\* crash at any point of any call: no index below the length, which getProperty,
\* getValidIndex and gc() rely on, leads out of the block.
LengthFits == \A image \in Images : image[ob_size] <= image[allocated]

\* What an image holds: the items of its block, and the length.
Image(m) ==
    [items |-> [i \in Slot |-> IF i < m[allocated] THEN m[i] ELSE PPTR_NULL],
     size |-> m[ob_size]]

\* No item is lost, moved or made up, now or for an abort or a crash: a call
\* changes the item it sets, clears at most items from the new length on, and of
\* those an abort would bring back only when it makes the array shorter.
Array == INSTANCE PArray WITH
    Hole <- PPTR_NULL, Capacity <- MaxAllocated,
    now <- Image(pm.mem), saved <- Image(Rolled(pm)),
    open <- pm.depth > 0, alive <- Alive

ImplementsPArray == Array!Spec

\* API-document.md:138.  What a truncation does in a transaction is undone when
\* the transaction ends abnormally.
TruncationIsUndone ==
    [][(Pop \/ \E n \in 0..MaxLength : SetLength(n)) /\ pm'.stage = "WORK" =>
          View(Rolled(pm')) = View(Rolled(pm))]_vars
=============================================================================
