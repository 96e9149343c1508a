------------------------------- MODULE PMObject -------------------------------
(***************************************************************************)
(* The indexed properties of an object: PMObject, which keeps them in a    *)
(* dense array or a sparse table, and moves them from one to the other     *)
(* when an index is set that makes it worth it.                            *)
(*                                                                         *)
(*   pm       the library's state (see PmemTx).  Its memory has one        *)
(*            location: what PObjectObject::elements points at.  All that  *)
(*            the sparse form stores is snapshotted.  The dense form is    *)
(*            here as it is when a store takes effect as a whole and no    *)
(*            array is shortened; PMArray has what else becomes of it.     *)
(*   handle   PMObject::_elements, which each handle of the object keeps   *)
(*            from when it was made: which form it is for.  Those in its   *)
(*            domain are the handles that the client goes on using, which  *)
(*            nothing in the code or its document tells it to choose so:   *)
(*            any other may lead to a block that has been freed.           *)
(*   ops      how many calls the open transaction has made                 *)
(***************************************************************************)
EXTENDS PmemTx, PMNumDict

CONSTANTS
    Indexes,        \* those the client sets and reads
    Lengths,        \* those it sets
    ARRAY_MAX_GAP, ARRAY_MAX_UNCHECK,   \* 1024 and 5000 in the code
    Handle,         \* the objects in the program that are the same persistent one
    Client,         \* "holes": it reads indexes that have no value; "pops": it
                    \* pops also when the last index is not there any more
    MaxOps          \* bound: calls of the setters in a transaction

VARIABLES pm, handle, ops

vars == <<pm, handle, ops>>

SizeofPPtr == 16
SizeofPNumDictKeyEntry == 32
ARRAY_ELEMENTS_SIZE_FACTOR == 3

ASSUME IndexesAssumption ==
    /\ Indexes \subseteq Index /\ Lengths \subseteq Index \ {0}
    /\ ARRAY_MAX_GAP \in Nat /\ ARRAY_MAX_UNCHECK \in Nat /\ MaxOps \in Nat
ASSUME ClientAssumption == Client \subseteq {"holes", "pops"}

-----------------------------------------------------------------------------
(* The dense form, as far as it is not shortened. *)

\* How many items an array of n of them, not zero, gets.
new_allocated(n) == n \div 8 + (IF n < 9 THEN 3 ELSE 6) + n

\* The arrays of n allocated items, and what PObjectObject::elements may be.
ArraysOf(n) == [ob_size : 0..n, allocated : {n}, items : [0..n - 1 -> Item]]

Word ==
    [ob_type : {"ARRAY"}, body : UNION {ArraysOf(n) : n \in 0..new_allocated(MaxLength)}]
    \cup [ob_type : {"NUMDICT"}, body : UNION {TablesOf(size) : size \in Sizes}]

ASSUME SnapAssumption == NoSnap \notin Word

NewSimpleArray == [ob_size |-> 0, allocated |-> 0, items |-> [i \in {} |-> PPTR_NULL]]

resize(a, n) ==
    [ob_size |-> n, allocated |-> new_allocated(n),
     items |-> [i \in 0..new_allocated(n) - 1 |->
                  IF i < a.allocated THEN a.items[i] ELSE PPTR_NULL]]

\* Mutant: off by one, the array does not grow for the item after the last.
setItem_no_growth(a, i, v) ==
    LET b == IF i > a.allocated THEN resize(a, i + 1) ELSE a
    IN  [b EXCEPT !.items[i] = v, !.ob_size = IF @ < i + 1 THEN i + 1 ELSE @]

setItem(a, i, v) ==
    LET b == IF i + 1 > a.allocated THEN resize(a, i + 1) ELSE a
    IN  [b EXCEPT !.items[i] = v, !.ob_size = IF @ < i + 1 THEN i + 1 ELSE @]

getItem(a, i) == IF i < a.ob_size THEN a.items[i] ELSE PPTR_UNDEFINED

-----------------------------------------------------------------------------
(* From one form to the other. *)

\* elements is [ob_type, body].
elements == pm.mem["elements"]
IsDense(e) == e.ob_type = "ARRAY"

shouldConvertToNumDict(a, index) ==
    /\ index >= a.allocated
    /\ \/ index - a.allocated > ARRAY_MAX_GAP
       \/ /\ new_allocated(index + 1) >= ARRAY_MAX_UNCHECK
          /\ a.allocated * SizeofPNumDictKeyEntry * ARRAY_ELEMENTS_SIZE_FACTOR
                < new_allocated(index + 1) * SizeofPPtr

shouldConvertToSimpleArray(d, key) ==
    LET new_length == Max({d.ob_size, key + 1})
    IN  d.dk_size * SizeofPNumDictKeyEntry
           >= (new_allocated(new_length) * SizeofPPtr) \div 2

\* The items of an array that were set, among those below n.
ItemsBelow(a, n) == [i \in {i \in 0..n - 1 : a.items[i] # PPTR_NULL} |-> a.items[i]]

\* Mutant: off by one, the last item is left behind.
convertToNumDict_short(a) ==
    Setting(NewNumDict, ItemsBelow(a, a.ob_size - 1))[MaxLength]

\* The items that were set, one after the other.
convertToNumDict(a) == Setting(NewNumDict, ItemsBelow(a, a.ob_size))[MaxLength]

\* The last index is set first, and then each that is in use, with a value or not.
\* An index beyond the length fails an assertion, and so does a length of zero.
convertToSimpleArray(d) ==
    LET a == setItem(NewSimpleArray, d.ob_size - 1, PPTR_UNDEFINED)
        used == getValidIndex(d)
        value(i) == d.entries[CHOOSE s \in SlotsIn(d, "FULL") : d.entries[s].me_key = i].me_value
    IN  [a EXCEPT !.items = [i \in DOMAIN @ |-> IF i \in used THEN value(i) ELSE @[i]]]

KeysFit(d) == \A i \in getValidIndex(d) : i < d.ob_size

-----------------------------------------------------------------------------
(* The library's state after a call. *)

\* A store of e to the elements, in a transaction of its own.
StoreElements(p, e) == InTx(p, {"elements"}, [p.mem EXCEPT !["elements"] = e])

\* An exception that leaves n transactions of the program's open, with e stored so
\* far, and what the caller's handler then makes of it.
Thrown(p, e, n) ==
    tx_abort_context(
        tx_store(EnterN(p, n), {"elements"}, [p.mem EXCEPT !["elements"] = e]))

\* The call ends as r says, n transactions deep.
StoreResult(p, r, n) ==
    LET e == [p.mem["elements"] EXCEPT !.body = r.dict]
    IN  CASE r.ends = "done" -> StoreElements(p, e)
          [] r.ends = "throws" -> Thrown(p, e, n)
          [] r.ends = "asserts" -> Die(p)

\* The part of PMObject::setProperty() that comes before the index is set.
Converted(p, index) ==
    LET e == p.mem["elements"]
    IN  IF IsDense(e) /\ shouldConvertToNumDict(e.body, index)
        THEN StoreElements(p, [ob_type |-> "NUMDICT",
                               body |-> convertToNumDict(e.body).dict])
        ELSE IF ~IsDense(e) /\ shouldConvertToSimpleArray(e.body, index)
        THEN IF KeysFit(e.body) /\ e.body.ob_size > 0
             THEN StoreElements(p, [ob_type |-> "ARRAY",
                                    body |-> convertToSimpleArray(e.body)])
             ELSE Die(p)
        ELSE p

\* _elements->setProperty(index, v)
Set(p, index, v) ==
    LET e == p.mem["elements"]
    IN  IF IsDense(e) THEN StoreElements(p, [e EXCEPT !.body = setItem(@, index, v)])
        ELSE StoreResult(p, setProperty(e.body, index, v), 1)

\* The bound of the tables: no step in which one would grow beyond it.
ConversionFits(p, index) ==
    LET e == p.mem["elements"]
    IN  IsDense(e) /\ shouldConvertToNumDict(e.body, index)
            => convertToNumDict(e.body).ends # "beyond"

Fits(p, index, v) ==
    LET e == p.mem["elements"]
    IN  ~IsDense(e) => setProperty(e.body, index, v).ends # "beyond"

\* What the program gets for an index.
Read(e, i) == IF IsDense(e) THEN getItem(e.body, i) ELSE getProperty(e.body, i)

LengthOf(e) == e.body.ob_size

\* The indexes that have a value.  One that was deleted may read undefined.
View(image) ==
    [i \in Indexes |->
        LET v == Read(image["elements"], i)
        IN  IF v \in Val THEN v ELSE PPTR_UNDEFINED]

-----------------------------------------------------------------------------
(* The operations. *)

\* The client knows of no handle that it may use.
NoHandles == [h \in {} |-> "ARRAY"]

\* PMObject(mm, is_array): no items yet.
Init ==
    /\ pm = Idle([l \in {"elements"} |->
                    [ob_type |-> "ARRAY", body |-> NewSimpleArray]])
    /\ handle = NoHandles
    /\ ops = 0

InTransaction == pm.stage = "WORK"

\* The client's transactions are one level deep and bracketed, also when an
\* exception has aborted one.  It gets its objects anew after a rollback.
TxBegin ==
    /\ pm.stage = "NONE"
    /\ pm' = pmemobj_tx_begin(pm)
    /\ ops' = 0
    /\ UNCHANGED handle

TxCommit ==
    /\ InTransaction
    /\ pm' = pmemobj_tx_end(pmemobj_tx_commit(pm))
    /\ ops' = 0
    /\ UNCHANGED handle

TxAbort ==
    /\ InTransaction
    /\ pm' = pmemobj_tx_end(pmemobj_tx_abort(pm))
    /\ handle' = NoHandles
    /\ ops' = 0

TxEnd ==
    /\ pm.stage = "ONABORT"
    /\ pm' = pmemobj_tx_end(pm)
    /\ handle' = NoHandles
    /\ ops' = 0

\* A process that ends is started again, and opens the pool.
Restarted(p) == IF p.stage = "DEAD" THEN pmemobj_open(NewProcess(p)) ELSE p

\* The client reads the property that the object is in, once more.
GetHandle(h) ==
    /\ handle' = [g \in DOMAIN handle \cup {h} |->
                    IF g = h THEN elements.ob_type ELSE handle[g]]
    /\ UNCHANGED <<pm, ops>>

\* A call through handle h makes p of the library's state, and the client goes on
\* with the handles in kept; with none when the process or its transaction ends.
Calls(h, p, kept) ==
    /\ h \in DOMAIN handle
    /\ InTransaction => ops < MaxOps
    /\ pm' = Restarted(p)
    /\ ops' = IF pm'.stage = "WORK" THEN ops + 1 ELSE 0
    /\ handle' = IF p.stage = "DEAD" \/ (InTransaction /\ p.stage # "WORK")
                 THEN NoHandles ELSE kept

\* Mutant: the handle is left to the elements as they were.
SetItem_stale(h, i, v) == Calls(h, Set(Converted(pm, i), i, v), [g \in {h} |-> handle[g]])

\* A conversion changes the handle it is made through; so the client goes on with
\* no other.
SetItem(h, i, v) ==
    LET p == Converted(pm, i)
    IN  /\ ConversionFits(pm, i) /\ Fits(p, i, v)
        /\ Calls(h, Set(p, i, v), [g \in {h} |-> p.mem["elements"].ob_type])

\* The process stops after a conversion, outside transactions.
SetItemInterrupted(h, i) ==
    /\ pm.stage = "NONE"
    /\ ConversionFits(pm, i)
    /\ Converted(pm, i) # pm
    /\ Calls(h, Die(Converted(pm, i)), handle)

\* push() does not convert.
Push(h, v) ==
    /\ LengthOf(elements) \in Indexes
    /\ Fits(pm, LengthOf(elements), v)
    /\ Calls(h, Set(pm, LengthOf(elements), v), handle)

DelItem(h, i) ==
    /\ Fits(pm, i, PPTR_NULL)
    /\ Calls(h, IF ~IsDense(elements)
                THEN StoreResult(pm, delProperty(elements.body, i), 1)
                ELSE IF i < LengthOf(elements) THEN Set(pm, i, PPTR_UNDEFINED) ELSE pm,
             handle)

\* A value that is PPTR_NULL is dereferenced by resurrect().
resurrect(p, item) == IF item = PPTR_NULL THEN Die(p) ELSE p

\* (What a table without entries makes of the index before the first is left out.)
Pop(h) ==
    /\ ~IsDense(elements) /\ LengthOf(elements) > 0
    /\ LET d == elements.body
           popped == StoreElements(pm, [elements EXCEPT !.body = pop(d)])
       IN  /\ d.entries[lookup(d, d.ob_size - 1)].me_state = "DUMMY" => "pops" \in Client
           /\ Calls(h, resurrect(IF pop(d) = d THEN pm ELSE popped, PopReturns(d)),
                    handle)

\* An exception leaves the transaction of setLength() and that of the setter.
SetLength(h, n) ==
    /\ ~IsDense(elements)
    /\ n # LengthOf(elements)
    /\ setLength(elements.body, n).ends # "beyond"
    /\ Calls(h, StoreResult(pm, setLength(elements.body, n), 2), handle)

GetItem(h, i) ==
    LET item == Read(elements, i)
    IN  /\ item = PPTR_NULL => "holes" \in Client
        /\ Calls(h, resurrect(pm, item), handle)

\* (While no transaction is open an end of the process leaves all as it is.)
Crash ==
    /\ ~Settled(pm)
    /\ pm' = Restarted(Die(pm))
    /\ handle' = NoHandles
    /\ ops' = 0

Next ==
    \/ \E h \in Handle :
          \/ \E i \in Indexes, v \in Val : SetItem(h, i, v)
          \/ \E i \in Indexes : SetItemInterrupted(h, i) \/ DelItem(h, i) \/ GetItem(h, i)
          \/ \E v \in Val : Push(h, v)
          \/ \E n \in Lengths : SetLength(h, n)
          \/ Pop(h) \/ GetHandle(h)
    \/ TxBegin \/ TxCommit \/ TxAbort \/ TxEnd
    \/ Crash

Spec == Init /\ [][Next]_vars

-----------------------------------------------------------------------------
(* Properties. *)

\* The elements as they are, and as recovery would find them.
Found == {pm.mem["elements"], Rolled(pm)["elements"]}

TablesIn(S) == {e.body : e \in {e \in S : ~IsDense(e)}}
Tables == TablesIn(Found)

\* A table has the entries of its block of keys, an array the items allocated.
TypeOK ==
    /\ pm.stage \in Stages /\ pm.depth \in Nat
    /\ DOMAIN handle \subseteq Handle /\ ops \in 0..MaxOps
    /\ \A h \in DOMAIN handle : handle[h] \in {"ARRAY", "NUMDICT"}
    /\ \A e \in Found : IsDense(e) =>
          e.body.allocated \in Nat /\ e.body \in ArraysOf(e.body.allocated)
    /\ \A d \in Tables : d.dk_size \in Sizes /\ d \in TablesOf(d.dk_size)

\* Usable, used and deleted entries add up to the two thirds of the block that may
\* be used, so that a search meets a free entry and ends.
Accounting ==
    \A d \in Tables :
        /\ d.dk_usable >= 0
        /\ d.dk_usable + d.ma_used + Cardinality(SlotsIn(d, "DUMMY"))
              = usableFraction(d.dk_size)
        /\ Cardinality(SlotsIn(d, "FULL")) <= d.ma_used

\* The entry that scanning lists for an index is the one that a search finds.
IndexesAreFound ==
    \A d \in Tables : \A s \in SlotsIn(d, "FULL") : lookup(d, d.entries[s].me_key) = s

\* No value is out of reach because the length is short of it: except in what an
\* exception has left that setLength() was not done with, and that nothing is stored
\* to any more.
ValuesBelowLength ==
    \A d \in TablesIn(IF pm.stage = "ONABORT" THEN {Rolled(pm)["elements"]} ELSE Found) :
        \A s \in SlotsIn(d, "FULL") :
            d.entries[s].me_value # PPTR_NULL => d.entries[s].me_key < d.ob_size

\* The object is a transactional map of its indexes: whatever conversions, resizes,
\* exceptions and failed assertions there are on the way.
Map == INSTANCE IndexMap WITH
    Key <- Indexes,
    Absent <- PPTR_UNDEFINED,
    props <- View(pm.mem),
    saved <- View(Rolled(pm)),
    open <- ~Settled(pm)

ImplementsIndexMap == Map!SpecOfIndexes

\* No call goes to a block that a conversion has freed or an abort taken back, if the
\* client gets its objects anew after a rollback and, having set an index through one
\* handle of an object, goes on with that one.
HandlesLead == \A h \in DOMAIN handle : handle[h] = elements.ob_type
=============================================================================
