------------------------------- MODULE PMDict -------------------------------
(***************************************************************************)
(* PMDict, the dictionary of an object's named properties: an open         *)
(* addressing hash table in persistent memory, which grows by moving its   *)
(* entries to a new block of keys.                                         *)
(*                                                                         *)
(* The memory of pm (see PmemTx) holds the three counters and the entries  *)
(* of the current block of keys.  Slots beyond dk_size are unallocated, so *)
(* that moving to a new block is a store of all of them.  An entry's key   *)
(* stands for its string, which persistString allocates with the entry and *)
(* delProperty frees with it.                                              *)
(***************************************************************************)
EXTENDS PmemTx, Probing, Sequences, FiniteSetsExt

CONSTANTS
    Key,            \* property names
    Val,            \* numbers and singletons, which free() leaves alone
    Hash,           \* fixedHash: [Key -> Nat]
    Props,          \* the sequence of keys the object is created with
    Stored,         \* the values the client stores under each key: [Key -> SUBSET Val]
    PPTR_NULL, PPTR_DUMMY, PPTR_EMPTY,
    UNALLOCATED,
    Client,         \* "missing": it reads properties the object does not have
    MaxOps          \* bound: calls of the setter and deleter in a transaction

VARIABLES pm, ops     \* ops: how many calls the open transaction has made

vars == <<pm, ops>>

ASSUME NameAssumption ==
    /\ {PPTR_NULL, PPTR_DUMMY} \cap Key = {} /\ PPTR_NULL # PPTR_DUMMY
    /\ {PPTR_NULL, PPTR_EMPTY} \cap Val = {}
ASSUME KeyAssumption ==
    /\ Hash \in [Key -> Nat]
    /\ Props \in Seq(Key)
    /\ Stored \in [Key -> (SUBSET Val) \ {{}}]
ASSUME ClientAssumption == Client \subseteq {"missing"}

ASSUME PerturbAssumption == \A k \in Key : Fades(Hash[k])

\* The locations: the entries, then the counters of the dictionary.
Slot == 0..MaxSize - 1
ma_used == MaxSize
dk_size == MaxSize + 1
dk_usable == MaxSize + 2
Loc == 0..MaxSize + 2

Entry == [me_key : Key \cup {PPTR_NULL, PPTR_DUMMY}, me_value : Val \cup {PPTR_NULL}]
Null == [me_key |-> PPTR_NULL, me_value |-> PPTR_NULL]
Dummy == [me_key |-> PPTR_DUMMY, me_value |-> PPTR_NULL]
Full(k, v) == [me_key |-> k, me_value |-> v]

Word == Nat \cup Entry \cup {UNALLOCATED}

ASSUME SnapAssumption == NoSnap \notin Word

\* The slots of the block of keys in the memory image m.
Slots(m) == 0..m[dk_size] - 1

FullSlots(m) == {i \in Slots(m) : m[i].me_key \in Key}
DummySlots(m) == {i \in Slots(m) : m[i] = Dummy}

-----------------------------------------------------------------------------
(* The hash table, on a memory image m. *)

\* The slots that a search for k looks at, by the size of the block.
Probe == [k \in Key |-> [size \in Sizes |-> Visited(Hash[k], size)]]

\* How far along a probe the first entry is whose key is one of keys.
Reach(m, idx, keys) ==
    CHOOSE n \in DOMAIN idx :
        /\ m[idx[n]].me_key \in keys
        /\ \A j \in 0..n - 1 : m[idx[j]].me_key \notin keys

\* Mutant: lookup takes a deleted entry before it has looked for the key.
lookup_first_dummy(m, k) ==
    LET idx == Probe[k][m[dk_size]]
    IN  idx[Reach(m, idx, {PPTR_NULL, PPTR_DUMMY, k})]

\* The entry of k; when there is none, the first free or deleted one.
lookup(m, k) ==
    LET idx == Probe[k][m[dk_size]]
        last == idx[Reach(m, idx, {PPTR_NULL, k})]
    IN  IF m[last].me_key = k THEN last
        ELSE idx[Reach(m, idx, {PPTR_NULL, PPTR_DUMMY})]

findEmptySlot(m, k) ==
    LET idx == Probe[k][m[dk_size]]
    IN  idx[Reach(m, idx, {PPTR_NULL})]

growRate(m) == m[ma_used] * 2 + m[dk_size] \div 2

newsize(m) == Min({size \in Sizes : size > growRate(m)})

newKeysObject(m, size) ==
    [l \in Loc |->
        CASE l = dk_size -> size
          [] l = dk_usable -> usableFraction(size)
          [] l = ma_used -> m[ma_used]
          [] OTHER -> IF l < size THEN Null ELSE UNALLOCATED]

\* The new block of keys when the first n entries of the old one have been seen.
Moved(m) ==
    LET moved[n \in 0..m[dk_size]] ==
          IF n = 0 THEN newKeysObject(m, newsize(m))
          ELSE LET done == moved[n - 1]
               IN  IF m[n - 1].me_value = PPTR_NULL THEN done
                   ELSE [done EXCEPT ![findEmptySlot(done, m[n - 1].me_key)] = m[n - 1]]
    IN  moved

\* Mutant: the entries that have moved are still counted as usable.
insertionResize_stale_usable(m) == Moved(m)[m[dk_size]]

\* The live entries move to the new block in the order of the old one.
insertionResize(m) == [Moved(m)[m[dk_size]] EXCEPT ![dk_usable] = @ - m[ma_used]]

\* Mutant: off by one, the block is only found full after its last usable entry.
Grows_late(m, k) == m[lookup(m, k)].me_key = PPTR_NULL /\ m[dk_usable] < 0

\* A new key finds no deleted entry to reuse, and no free one it may use.
Grows(m, k) == m[lookup(m, k)].me_key = PPTR_NULL /\ m[dk_usable] <= 0

\* PMDict::setProperty between MM_TX_BEGIN and MM_TX_END.  After a resize ep
\* still points into the old block, which has just been freed: the new key is
\* counted but its entry is written there.
SetBody(m, k, v) ==
    LET ep == lookup(m, k)
        grown == insertionResize(m)
    IN  CASE m[ep].me_value # PPTR_NULL ->
               [m EXCEPT ![ep] = Full(k, v)]
          [] m[ep].me_key = PPTR_DUMMY ->
               [m EXCEPT ![ep] = Full(k, v), ![ma_used] = @ + 1]
          [] Grows(m, k) ->
               [grown EXCEPT ![dk_usable] = @ - 1, ![ma_used] = @ + 1]
          [] OTHER ->
               [m EXCEPT ![ep] = Full(k, v), ![dk_usable] = @ - 1, ![ma_used] = @ + 1]

\* Mutant: a deleted entry becomes free at once.
DelBody_null(m, k) ==
    [m EXCEPT ![lookup(m, k)] = Null, ![ma_used] = @ - 1]

DelBody(m, k) ==
    [m EXCEPT ![lookup(m, k)] = Dummy, ![ma_used] = @ - 1]

\* What the program gets for key k.
View(m) ==
    [k \in Key |->
        LET entry == m[lookup(m, k)]
        IN  IF entry.me_key = k THEN entry.me_value ELSE PPTR_EMPTY]

-----------------------------------------------------------------------------
(* The operations. *)

\* The bound of the block of keys: it is not to grow beyond MaxSize.
Fits(m, k) == Grows(m, k) => newsize(m) <= MaxSize

\* The dictionary of a new object: PMDict(mm), then one setProperty for each
\* property of the JavaScript object, in one transaction.
Empty ==
    newKeysObject([l \in Loc |-> IF l = ma_used THEN 0 ELSE UNALLOCATED],
                  MIN_SIZE_COMBINED)

Created(init) ==
    LET made[n \in 0..Len(Props)] ==
          IF n = 0 THEN Empty ELSE SetBody(made[n - 1], Props[n], init[Props[n]])
    IN  made

Init ==
    /\ \E init \in [Key -> Val] :
          /\ \A k \in Key : init[k] \in Stored[k]
          /\ \A n \in 1..Len(Props) : Fits(Created(init)[n - 1], Props[n])
          /\ pm = Idle(Created(init)[Len(Props)])
    /\ ops = 0

Alive == pm.stage # "DEAD"

\* The client's transactions are one level deep and bracketed.
TxBegin ==
    /\ pm.stage = "NONE"
    /\ pm' = pmemobj_tx_begin(pm)
    /\ ops' = 0

TxCommit ==
    /\ pm.stage = "WORK"
    /\ pm' = pmemobj_tx_end(pmemobj_tx_commit(pm))
    /\ ops' = 0

TxAbort ==
    /\ pm.stage = "WORK"
    /\ pm' = pmemobj_tx_end(pmemobj_tx_abort(pm))
    /\ ops' = 0

Calls ==
    /\ Alive
    /\ pm.stage = "WORK" => ops < MaxOps
    /\ ops' = IF pm.stage = "WORK" THEN ops + 1 ELSE 0

Changed(m) == {l \in Loc : m[l] # pm.mem[l]}

\* Mutant: MM_TX_BEGIN and MM_TX_END are there, snapshotRange is not.
Stores_no_snapshot(m) == pm' = InTx_no_snapshot(pm, Changed(m), m)

\* Every store of the handlers is to a range they have snapshotted, or to a
\* block they have just allocated.
Stores(m) == pm' = InTx(pm, Changed(m), m)

SetProperty(k, v) ==
    /\ Calls
    /\ Fits(pm.mem, k)
    /\ Stores(SetBody(pm.mem, k, v))

DelProperty(k) ==
    /\ Calls
    /\ IF pm.mem[lookup(pm.mem, k)].me_value = PPTR_NULL THEN pm' = pm
       ELSE Stores(DelBody(pm.mem, k))

\* A key that is not found is PPTR_EMPTY, or the PPTR_NULL of a deleted entry:
\* resurrect() throws on the first and dereferences the second.
GetProperty(k) ==
    /\ Alive
    /\ LET entry == pm.mem[lookup(pm.mem, k)]
       IN  /\ entry.me_key # k => "missing" \in Client
           /\ pm' = CASE entry.me_key = PPTR_NULL -> tx_abort_context(pm)
                      [] entry.me_value = PPTR_NULL -> Die(pm)
                      [] OTHER -> pm
    /\ ops' = IF pm'.stage = "WORK" THEN ops ELSE 0

Crash == Alive /\ pm' = Die(pm) /\ ops' = 0

Restart == ~Alive /\ pm' = pmemobj_open(NewProcess(pm)) /\ ops' = 0

Next ==
    \/ \E k \in Key : \E v \in Stored[k] : SetProperty(k, v)
    \/ \E k \in Key : DelProperty(k) \/ GetProperty(k)
    \/ TxBegin \/ TxCommit \/ TxAbort
    \/ Crash \/ Restart

Spec == Init /\ [][Next]_vars

-----------------------------------------------------------------------------
(* Properties. *)

\* The counters are counters, the block of keys is a whole block.
TypeOK ==
    /\ pm.stage \in Stages /\ pm.depth \in Nat
    /\ \A image \in {pm.mem, Rolled(pm)} :
          /\ image[ma_used] \in Nat /\ image[dk_usable] \in Nat
          /\ image[dk_size] \in Sizes
          /\ \A i \in Slot : image[i] \in
                IF i < image[dk_size] THEN Entry ELSE {UNALLOCATED}

\* Free, deleted and used entries add up to the two thirds of the block that may
\* be used, so that a search always meets a free entry, also after recovery.
\* (ma_used counts the keys that a resize has dropped as well.)
Accounting ==
    \A image \in {pm.mem, Rolled(pm)} :
        /\ image[dk_usable] + image[ma_used] + Cardinality(DummySlots(image))
              = usableFraction(image[dk_size])
        /\ Cardinality(FullSlots(image)) <= image[ma_used]

\* What getPropertyNames() lists by scanning is what lookup() finds by probing:
\* every entry is the one its key leads to, through whatever deletions, reuses
\* and resizes lie on its way.
NamesAreFound ==
    \A i \in FullSlots(pm.mem) : lookup(pm.mem, pm.mem[i].me_key) = i

\* The dictionary is a transactional map: a call changes its own key alone, a
\* resize moves every other one, and aborts and crashes take it all back.
Map == INSTANCE PropMap WITH
    Absent <- PPTR_EMPTY,
    props <- View(IF Alive THEN pm.mem ELSE Rolled(pm)),
    saved <- View(Rolled(pm)),
    open <- pm.stage = "WORK"

ImplementsPropMap == Map!Spec

\* API-document.md:201.  The setter sets the key: reading it back gives the value.
SetterSets ==
    [][\A k \in Key, v \in Val : SetProperty(k, v) => View(pm'.mem)[k] = v]_vars

\* API-document.md:229.  A deleted property is simply not there any more: reading
\* it is as harmless as reading one the object never had.
ReadingIsHarmless ==
    [][(\E k \in Key : GetProperty(k)) => pm'.stage # "DEAD"]_vars
=============================================================================
