# A verification development for libpmemobj-js

libpmemobj-js lets a Node.js program keep JavaScript objects in persistent
memory.  This directory holds TLA+ modules that model its core, TLC
configurations that check them on small instances, and TLAPS proofs of the
properties that matter most for every instance.

Paths are relative to the repository; `jspmdk.js`, `pmdict.cc` and so on are the
files of `src/` and `src/internal/`.

## 1. The system

Node is single-threaded and every call is synchronous: there is no
interleaving of threads.  What is hard here is the order of calls, the error
paths between a transaction's begin and its commit, and that the process can
stop between any two steps and find again what it left in persistent memory.

| component | state | operations | interacts with |
|---|---|---|---|
| libpmemobj (external) | stage, nesting and undo log of the thread's transaction; the pool | `pmemobj_tx_*`, allocation, open | called by everything below |
| `MemoryManager` | the pool handle | `tx_enter_context`/`tx_exit_context` (`MM_TX_BEGIN`/`END`), `snapshotRange`, allocation, `free`, `gc` | used by every internal class |
| `PMObjectPool`, `PersistentObjectPool`, class `PersistentObjectPool` of `jspmdk.js` | `_impl`, `_closed`, `_cache`, the root pointer | create, open, close, root, create_object, `transaction`, `tx_*`, `persist`, `resurrect`, `tx_abort_context` | the client; `PersistentObject` through `persist` and `resurrect` |
| `PersistentObject` | a `PMObject` | constructor from a JavaScript object, get, set, delete, names, push, pop, length | recursive with `persist` |
| `PMDict` | `ma_used`, `ma_keys` with `dk_size`, `dk_usable`, entries | lookup, set, get, delete, names, resize | an object's named properties |
| `PMSimpleArray` | length, items, allocated | get, set, push, pop, `setLength`, resize, conversion | an object's indexed properties |
| `PMNumDict` | as `PMDict`, with a length and entry states | the same, for sparse arrays | ditto |
| `PMObject` | pointers to a dict and to one of the two arrays, the latter cached in each handle | forwarding; conversion between the two | |
| `gc()` | the lists of blocks not found yet, for one call | mark from the root, deallocate the rest | reads every container; called by `pool.gc()` only |
| array buffers | bytes | snapshot, persist | the client stores into them directly |
| proxies, `bind` | none | translate property syntax to calls | |

What makes each of them correct, and what could go wrong:

* **Transactions.**  A transaction takes effect as a whole or not at all, also
  nested, also when an allocation fails or an exception leaves a constructor,
  also when the pool is closed inside one.  Helpers must neither leak nor eat a
  nesting level: a leaked one makes the client's own commit an inner one, so that
  nothing it stores is durable, without any sign of it.
* **The session.**  The root must refer to an object that is there: in memory,
  after an abort, after a crash.  Outside transactions what the program sees is
  what the next `open()` finds.
* **Dictionaries.**  A search must end and must find the entry: after
  deletions, which leave dummies on the path of other keys, after reuse of dummies,
  after a resize, after an abort of any of them.  A call must change its own key
  only.
* **Arrays.**  Length, allocated size and items agree; what an abort restores
  is the array before the transaction.
* **The two forms of an array.**  A conversion, in either direction, keeps every
  value and commits before the index is set; every handle of the object caches the form,
  and the one through which it is made must follow it.
* **gc.**  Everything reachable from the root survives, also a crash in the
  middle; a collection ends, finds every container once, and leaves no garbage.

`PROJECT.json` lists the hazards at their lines, with the properties that would
catch each of them, or why there is none.

## 2. Modules

| module | what it is |
|---|---|
| `PmemTx` | the library's transactions and the program's helpers around them, as operators on a record |
| `TxStore` | abstract: a store with atomic, durable transactions |
| `PoolSession` | one client of one pool: create, open, close, root, objects, transactions, error paths, crash and restart |
| `MCPoolSession` | the kinds of clients of the runs |
| `Probing` | what both hash tables have in common: the sizes of a block, the slots a search visits |
| `PropMap` | abstract: a map of properties with transactions |
| `PMDict` | the hash table of an object's named properties |
| `MCPMDict` | hashes that collide, initial properties |
| `PArray` | abstract: a sequence of items with transactions, and what a truncation may damage |
| `PMArray` | the dense form of an object's indexed properties |
| `MCPMArray` | the two kinds of clients of its runs |
| `IndexMap` | abstract: `PropMap` over indexes, which can be cut off from some index on |
| `PMNumDict` | the hash table of the sparse form, as operators on a table |
| `PMObject` | an object's indexed properties in either form, and the conversions |
| `MCPMObject` | its instance |
| `Heap` | the graph of blocks, what the client does to it, and `gc()` |
| `MCHeap` | two objects and a string |
| `PoolSession_proofs`, `PMArray_proofs`, `PMDict_proofs`, `PMObject_proofs`, `Heap_proofs` | the theorems |
| `PmemTx_proofs` | what they need to know of transactions |
| `Probing_proofs`, `PMNumDict_proofs` | induction, and why a probe goes through the whole block; the operations of the sparse table |

`PoolSession`, `PMDict`, `PMArray` and `PMObject` are built on `PmemTx`; `PMObject`
composes it with `PMNumDict`, and `PMDict` and `PMNumDict` are built on `Probing`.
`Heap` stands by itself: a call of the client is one step of it, which is what the other
modules show of calls.

### PmemTx

The library is not part of the repository.  Its state for the thread is a record
`p`: `stage`, `depth`, the memory `mem`, the undo log `undo`, and `orphan`, which
says that the thread is inside a transaction whose pool handle has been closed.
Each operation maps the record before the call to the one after it, so that a
handler that makes several calls is a composition: `InTx(p, S, f)` is a handler's
body between `MM_TX_BEGIN` and `MM_TX_END`, with stores to the locations `S`.

* Nesting is flattened; only the outermost commit drops the undo log and only the
  outermost abort restores it; the end of an aborted inner transaction aborts
  the next outer one.
* Calling the library in a stage in which it calls `FATAL()` ends the process
  (`"DEAD"`).
* An allocation is a store to cells that were unallocated.  One that fails in a
  transaction aborts the innermost level before it returns.
* `Rolled(p)` is what recovery would restore.  A crash keeps the record's memory
  and undo log; `open()` applies the log.  A store within a transaction is thus
  taken to be in persistent memory or not: recovery overwrites it either way,
  since it has been snapshotted.

### PoolSession

`pm` is such a record over the root pointer (`PRoot::root_object`) and one cell per
object and property; `created` tells whether the file exists, `closed` is the
flag of the JavaScript pool, and `calls` the brackets the *client* is in, which
need not be the levels the library is in.

| action | code |
|---|---|
| `Create`, `CreateCrash`, `Open`, `Close` | `PersistentObjectPool::create`, a crash before its `setRoot`, `open`, `close` |
| `Transaction`, `TransactionReturns`, `TransactionThrows` | `transaction(run)`: `_tx_begin`, then after `run` commit and end or abort; or an exception that nothing catches |
| `TxBegin`, `TxCommit`, `TxAbort`, `TxEnd` | the four calls, passed on to the library in whatever stage they are made |
| `SetRoot`, `SetRootTo`, `SetRootObject`, `GetRoot` | the `root` property, for values, handles, JavaScript objects (persisted in a transaction of their own first) |
| `CreateObject`, `UnsupportedMember` | the constructor of `PersistentObject`, and its exit by a `Napi::Error` after some members have been stored |
| `SetProperty`, `GetProperty` | the setter; the getter, whose missing key becomes an exception, an abort, and `undefined` |
| `AllocationFails`, `ConstructionFails` | the throw of `tx_zalloc` or `zalloc` under 0 to 4 `MM_TX_BEGIN`s, and the catch block that meets it; the same for a later member of an object, whose block and first members are stored already |
| `Crash`, `Restart` | the process stops; node is started again |

`Client` is the set of things that the client and its environment may do
(`"throw"`, `"missing"`, `"full"`, ...).  The passing run allows all of them; those
that expect a violation allow what it takes.  `calls` lets
a client keep to its brackets: outside `"stray"` it does not go on working in a
transaction that it knows to have aborted.  The `tx_*` calls have no guard on the stage:
a commit or an abort outside `WORK`, or an end inside, ends the process, as in the `catch`
block that `API-document.md:163` shows, when an allocation has failed and aborted already.

Freeing is not in this module: objects come to be here, and go only with the transaction
that made them.  `RootNotDangling` is about that; `Heap` is about deletions and `gc()`.

### PMDict

The memory of `pm` holds the counters and the entries of the current block of
keys; the slots beyond its size are unallocated, so moving to a new block is a
store to all of them, undone by an abort like every other.  A key stands for its
string; hashes are a constant, so that the configuration chooses the
collisions.  `Probe` is the sequence of slots that a search visits (`Visited`), with the
perturbation of `lookup` and `findEmptySlot`; `SetBody`, `DelBody` and
`insertionResize` follow the code branch by branch, including that `SetBody`
writes through `ep` after a resize, into the block just freed, so the key is
counted and not stored.  `GetProperty` follows `getProperty` through `resurrect`:
absent keys abort the transaction, deleted ones dereference a null pointer.

The values are numbers and singletons, which `free()` leaves alone.  The client's
transactions are one level deep; `PoolSession` has the rest.

### PMArray

The memory of `pm` holds the length (`ob_size`), the allocated size and the items of
the current block, `UNALLOCATED` beyond its size; a reallocation is a store of all
of them in a transaction, since it makes another block.  Inside transactions
everything is snapshotted, with one exception, which the model keeps: the `memset`
of `resize` in place (`Cleared`) changes the memory and no undo log.  Outside,
`setProperty` makes several stores, each durable when it is made; `SetItemInterrupted`,
`SetLengthInterrupted` and `PopInterrupted` are the points between them at which the
process can stop.  A call is otherwise one step.

| operator or action | code |
|---|---|
| `new_allocated`, `InPlace`, `moved`, `Cleared`, `resize` | `PMSimpleArray::resize`: the over-allocation, the two branches, `tz_zrealloc` with its zeroed tail |
| `Grown`, `setProperty` | `setProperty`: inside a transaction and outside |
| `SetItem`, `DelItem`, `Push`, `Pop`, `SetLength`, `GetItem` | the calls of `PersistentObject`, through `PMObject` |
| `resurrect` | `getValue`, which dereferences a hole (`PPTR_NULL`) |

`PArray` is what is left of a transactional sequence.  Its state is the items of the whole
block and the length, as they are (`now`) and as an abort would bring them back (`saved`),
and every step says of every item what becomes of it:

* `Write` sets one item, and the length if it is beyond.
* `Resize(n)` may clear items from `n` on, and changes none below `n`: in `now`, and in `saved`
  only when it makes the array shorter.  A step that makes the array longer damages nothing.
* Items beyond the length need not be holes: reallocation keeps them, and a longer
  length shows them again.
* `HalfWrite` and `HalfResize` are a setter and a truncation that the process does not live
  to finish; a setter may leave a longer array with a hole.
* `Commit`, `Rollback`, `Recover` copy one of the two to the other, as they are.

Below `ARRAY_MAX_GAP` no index makes `PMObject` convert
the array to its sparse form, and `MaxLength` keeps to that.

### PMNumDict and PMObject

`PMNumDict` has no variables: a table is a record of its counters and entries, an
operation maps it to the table that it leaves in its transaction and to how it
ends (`"done"`, `"throws"`, `"asserts"`).  This is enough since the sparse form snapshots all
that it stores to, so that a transaction is one store of the table.  `lookup` keeps
what distinguishes it from `PMDict`'s: deleted entries keep their key.  `Stops` is
where its loop returns, `Last` the first such place on the way; the loop of
`insertionResize` is `Moved`, those that set or delete many indexes are `Setting`.  `setProperty`
keeps what follows: an index without a value cannot be set (throws), an entry that a
pop has left cannot be used again (asserts); `delProperty` is `setProperty` of `PPTR_NULL`.

`PMObject` has the memory location `elements` (form and body), the client's
transactions, one level deep, and `handle`, each handle's idea of the form (`_elements`,
cached when the handle is made or converts).  Its domain is the handles that the client goes
on using: there are any number of them, since every read of the property that the object is in
makes another (`jspmdk.js:83-85`).

| operator or action | code |
|---|---|
| `shouldConvertToNumDict`, `shouldConvertToSimpleArray` | the two tests before an index is set |
| `convertToNumDict`, `convertToSimpleArray`, `KeysFit` | the conversions and their assertions |
| `SetItem`, `SetItemInterrupted` | conversion, then the index; the process stops between the two transactions |
| `Push`, `DelItem`, `Pop`, `SetLength`, `GetItem` | the calls of `PersistentObject` that forward to the elements |
| `Thrown` | an exception under one or two transactions, what was stored before it, and the caller's handler |
| `GetHandle` | the object is read anew: the constructor that sets `_elements` |

The dense form is there as far as it is not shortened, its stores taken to be atomic:
`PMArray` has the rest.

*Handles.*  A conversion frees the old block, and changes the `_elements` only of the handle
through which it is made; an abort takes the new block back and changes none.  A call through
any other handle then works on freed memory, of which no model can say more.  So the module
keeps to a rule and shows that it is enough (`HandlesLead`): after a rollback the client gets
its objects anew, and having set an index through one handle of an object it goes on with that
one.  (No other handle is in use after a conversion, so that one which leads to the right form
leads to the right block.) Nothing in the API document tells the client of it.

*Pops.*  `"pops"` in `Client` lets the client pop a table whose last index leads to an entry
that was popped before.  `PMNumDict::pop` does not look at the state of the entry and
counts it down twice; the client cannot see the condition.  `object_pops`
shows what follows, with four calls; the passing run and the theorems are about the clients that
this does not befall.  A table of length zero is not popped: the code computes the index before
the first modulo 2^32.

What the code does here, and no run claims otherwise:

* A conversion that commits and is not followed by its index leaves a table of
  length 0; when it is converted back, `assert(idx < UINT32_MAX)` fails.
* `setLength` of a table leaves entries beyond the length; a conversion back fails the
  assertion at `pmarray.cc:428` on them.
* `setProperty` throws within `setLength`, two transactions deep, of which the caller's
  handler ends one.  Outside a transaction the library is left in `ONABORT` and the next
  write is fatal; in the client's transaction, until `tx_end()`, what `setLength` had deleted so far
  stays deleted for whoever reads (`ValuesBelowLength` leaves this state out).
* Setting the index that was popped from a table fails the assertion at `pmarray.cc:304`.

`IndexMap` allows a process to stop and a transaction to roll back at any time, and
that is all that these come to there.  It says nothing of the length either, nor of an index whose
value is gone but which is counted still; the invariants of the table do.

### Heap

`used` is the set of allocated blocks; objects point at a dictionary and an array, whose
`entries` and `items` hold scalars, strings and objects.  The calls of the client that move
pointers are one step each; `gc()` is as many as it has transactions, and one for each
container traced.

| action | code |
|---|---|
| `CreateObject`, `SetRoot`, `SetItem`, `GetProperty` | as in the modules above, for what they do to pointers |
| `ReplaceProperty`, `InsertProperty` | `PMDict::setProperty`: the old value is left to `gc()`; a key is a string of its own |
| `DelProperty` | `PMDict::delProperty`: key and value are freed at once, also a value that others refer to |
| `GcStart` | the two sets of all blocks, less what the root is |
| `GcTrace` | one container of the list: what it refers to leaves the sets, what is a container goes on the list |
| `GcSweep`, `GcDeallocate`, `GcFinish` | one transaction per container, one for all the rest |
| `Crash` | at any point; the collection is forgotten |

`lookup` compares the text of the key, which `free()` leaves until the block is used
again: since `gc()` does not take the keys of live dictionaries off its list
(`gc_keys`), a key can later read as another string.  A string that is stored may read like a
property's name (`tests/pool.js:130` stores one): a key that was freed and is used again for
such a string is found by `lookup`, and a deletion then frees the string.  That a deletion
frees what others refer to is in the model, and that it never does is claimed nowhere.

The client drops the handles of what it has not referenced from the root when it calls `gc()`, and
calls it outside transactions.  A pointer to an object that a deletion has freed stays where it is:
the client may store it again, or have it as its root (`gc()` is then undefined, and not called).
What a *call* on such an object does is undefined and left out, as is what a free of a block that is
free does, but for ending the process.  A block is used again for the same kind of thing
only, and of what is freed nothing is kept, except the text of strings.

## 3. Runs

| run | instance | result |
|---|---|---|
| `session_all` | every behaviour of client and environment; 2 objects, 1 property, 1 value; 2 nested brackets, 5 levels of the library | `TypeOK`, `DurableOutsideTx`, `RootNotDangling`, `BracketsBalance`, `KilledOnlyBy` hold; `PoolSession` implements `TxStore` (98 471 states) |
| `tx_body_throws` | the body of `transaction` throws | **violated**: its stores stay |
| `reopen_loses` | an object with a function in it | **violated**: what is stored afterwards is lost when the pool is reopened |
| `dict` | 5 keys, 3 at first, blocks of 8 and 16, one call per transaction, reading missing keys | `TypeOK`, `Accounting`, `NamesAreFound` hold; `PMDict` implements `PropMap` (34 766 states) |
| `dict_insert_lost` | the sixth key of a block of eight | **violated**: it is not there |
| `dict_read_deleted` | a deleted key is read | **violated**: the process dies |
| `array` | lengths up to 3 in blocks of 4, 5 and 6, two calls per transaction, holes that are read | `TypeOK`, `LengthFits` hold; `PMArray` implements `PArray` (57 838 states) |
| `array_truncate` | the length is set, or an item popped, in a transaction | **violated**: after an abort there are holes |
| `object` | indexes 2, 24, 26 and length 23, two handles, conversions both ways, blocks of 8 and 16, one call per transaction | `TypeOK`, `Accounting`, `IndexesAreFound`, `ValuesBelowLength`, `HandlesLead` hold; `PMObject` implements `IndexMap` (52 800 states up to symmetry) |
| `object_pops` | indexes 2 and 26, length 27, one handle; `"pops"` | **violated** (`Accounting`): an entry is counted down twice, and the process ends |
| `heap` | two objects, a string, one name, one index; crashes at every point | `TypeOK`, `PartsSurvive`, `AssertsHold`, `SparesReferenced`, `CollectsAll` hold; `GcEnds` does under fairness (742 038 states) |
| `gc_keys` | the same | **violated**: `gc()` frees the keys of a live dictionary |

`BracketsBalance` and `KilledOnlyBy` are about every client and every error path.  They do not
say that no level is leaked and that nothing is fatal, which would be wrong: they say by which
calls, in which stages and by how many levels.  A leak or a death that is not in these lists
would violate them.

The seven violations are disagreements of the code with the API document; the
findings in `PROJECT.json` quote the sentences.  They do not contradict the
refinement `session_all` checks: `TxStore` allows a transaction to stay open or
to roll back at any time, and promises only that it does so as a whole, that an
abort is final, and that nothing outside transactions is lost.

More disagreements are in the models and have no run of their own:

| what the code does | where | against | in the model |
|---|---|---|---|
| reading a missing property aborts the open transaction | `persistentobjectpool.cc:101` | `API-document.md:216` | `GetProperty` of `PoolSession`, the last case of `BracketsBalance` |
| after a failed allocation the `tx_abort()` of the documented `catch` block is fatal | `persistentobjectpool.cc:305-310` | `API-document.md:163` | `TxAbort`, named in `KilledOnlyBy` |
| a setter that is interrupted outside transactions leaves a longer array with a hole | `pmarray.cc:53` | `API-document.md:201` | `SetItemInterrupted` of `PMArray`, `HalfWrite` and `Resize` of `PArray` |
| items that were cut off come back: `[1, 2, 3]`, `length = 1`, `length = 3` is `[1, 2, 3]` again | `pmarray.cc:194-225` | `API-document.md:266`, `:273` | `moved`; `PArray` keeps the items of the block for this reason |
| deleting a property frees its object, also when others refer to it | `pmdict.cc:107` | `API-document.md:209`, `:229` | `DelProperty` of `Heap` |
| a deleted index of a sparse array cannot be set again: it throws | `pmarray.cc:298` | `API-document.md:201`, `:266` | `setProperty` of `PMNumDict` |
| deleting an index that a sparse array does not have makes an entry, and may lengthen the array | `pmarray.cc:323` | `API-document.md:229` | `delProperty` of `PMNumDict` |
| setting a length of a sparse array can leave it longer than that, since the deletions lengthen it again | `pmarray.cc:373-381` | `API-document.md:273` | `setLength` of `PMNumDict` |
| after an abort, or a conversion through another handle, a handle leads to a block that is freed | `pmobject.cc:67-68` | nothing in the document says so | the rule of `HandlesLead` |

**Bounds.**  `MaxCalls` and `MaxDepth` bound nesting.  Everything the library does
distinguishes only the outermost level from the others, so three levels of the
library inside two of the client show every case; five leave room for a constructor
(four levels) inside a leaked one.  Two objects let the root move from an object
that exists to one that does not yet.  One property and one value suffice as
cells are symmetric and no operation compares values.  In `dict`, the keys `k1`, `k2`
start at the same slot of a block of eight and `k5` on the path of both; a block of
eight has five usable entries, so that deleting and inserting uses them up and
grows the block; `MaxSize` stops at 16, the second resize being the same code from
a bigger block.  `MaxPerturb` is the number of shifts after which every hash of the
instance is zero (an assumption of the module that TLC evaluates), after which a
probe visits every slot.  `MaxOps` is one call per explicit transaction: each
call is already a transaction, and a longer one only composes them.

In `array`, three items give the sizes at which the block is kept, grown and shrunk
(a block of five for two items is kept for two to five, one of four is given up for
one item or none), and two calls in a transaction reallocate twice, or reallocate and
then truncate in place.

In `object`, the constants `ARRAY_MAX_GAP` and `ARRAY_MAX_UNCHECK` are scaled down to 16 and
24 so that the conditions fall the same way for small numbers: 24 and 26 are far
enough from an array of one item to turn it into a table, which stays one with 8
entries and is turned back with 16.  2 and 26 collide in a block of 8.  Setting the length
to 23 makes entries of the indexes beyond, as the code does, and with them a
resize.  One value suffices: no operation compares values, and which
index has a value is what the refinement tells apart.  The two handles behave alike, so that
the run takes states that differ by their exchange for one (`SYMMETRY`; no temporal property with
fairness is checked there); one conversion through either, while the other is held, is all that
`HandlesLead` needs.  `object_pops` has the indexes and the length that make the shortest way to the
violation.  A call in which a table would grow beyond
`MaxSize` is left out (it ends `"beyond"`, and `Fits` and `ConversionFits` are the guards): in
this instance there is none.

In `heap`, two objects are enough for self-references, cycles of two, sharing between a
live and a dead container, and an object deallocated before what refers to it; the
string is a key or an item, so that reuse of a key's block occurs, also by an item that reads like
the key.  What needs
more (chains) is covered by the proofs.

**Deadlock** is checked in every run.  **Fairness** is assumed of `gc()` alone,
`WF_vars(GcStep)`: it is one synchronous call, so that its loops go on until it returns or
the process ends.  `GcEnds` needs it, and that no container comes back on the
list.  The client owes no step, and a synchronous library makes none that the
client does not ask for, so that the other specifications state no fairness.  What else
must end by itself is the search in a hash table; `Accounting` is why it does: free,
dummy and used entries add up to less than the block.

Each property of a passing run has a mutant of the code that breaks it: a dropped
snapshot, a forgotten commit or end, an off-by-one, a stale counter.  They are
the definitions commented *Mutant*, next to their originals, and
no specification uses them.

## 4. Theorems

For every set of objects, properties and values, every bound and, but for the
hypotheses in the table, every `Client`:

| theorem | statement |
|---|---|
| `PoolSession_proofs!TypeCorrect` | `Spec => []TypeOK` |
| `PoolSession_proofs!Durable` | `Spec => []DurableOutsideTx` |
| `PoolSession_proofs!Refinement` | `Spec => ImplementsTxStore` |
| `PoolSession_proofs!RootSafe` | `Spec => []RootNotDangling` |
| `PoolSession_proofs!BracketsAreTheClients` | `Spec => BracketsBalance` |
| `PoolSession_proofs!EndsOnlySo` | `Spec => KilledOnlyBy` |
| `PMArray_proofs!TypeCorrect` | `Spec => []TypeOK`, of `PMArray` |
| `PMArray_proofs!LengthSafe` | `Spec => []LengthFits` |
| `PMArray_proofs!Refinement` | `Spec => ImplementsPArray` |
| `PMDict_proofs!DictTypeCorrect` | `Spec => []TypeOK`, of `PMDict` |
| `PMDict_proofs!DictAccounting` | `Spec => []Accounting` |
| `PMDict_proofs!DictNamesAreFound` | `Spec => []NamesAreFound` |
| `PMDict_proofs!DictRefinement` | `Spec => ImplementsPropMap` |
| `PMObject_proofs!ElementsInvariance` | `"pops" \notin Client` implies `Spec => []IInv`, of `PMObject` |
| `PMObject_proofs!ElementsTypeCorrect` | the same implies `Spec => []TypeOK` |
| `PMObject_proofs!ElementsAccounting` | the same implies `Spec => []Accounting` |
| `PMObject_proofs!IndexesFound` | the same implies `Spec => []IndexesAreFound` |
| `PMObject_proofs!ValuesWithinLength` | the same implies `Spec => []ValuesBelowLength` |
| `PMObject_proofs!ElementsRefinement` | the same implies `Spec => ImplementsIndexMap` |
| `PMObject_proofs!HandlesLeadToElements` | the same implies `Spec => []HandlesLead` |
| `Heap_proofs!HeapTypeCorrect` | `Spec => []TypeOK`, of `Heap` |
| `Heap_proofs!PartsAreKept` | `Spec => []PartsSurvive` |
| `Heap_proofs!ReferencedIsSpared` | `Spec => SparesReferenced` |
| `Heap_proofs!AssertionsHold` | `Spec => []AssertsHold` |
| `Heap_proofs!NoGarbageLeft` | `Spec => CollectsAll` |

Those about the session use only the assumptions that `PoolSession` declares: the root
is not a cell, the marks `NoSnap` and `UNALLOCATED` and the pointers to objects are
different from other words, the bounds are natural numbers.

*The inductive invariant.*  `DurableOutsideTx` is not inductive: that a commit at
depth 1 leaves a clean log needs to be known while the depth is still 2, and a
handle that was closed inside a transaction has a log that nobody may apply
twice.  `IInv` adds `Shape`, which ties the stage to the depth (`NONE` is depth 0,
`ONCOMMIT` and `ONABORT` at least 1), `Clean`, that a settled record has
no undo log, and that before `create()` there is no depth or log at all.
`Invariance` proves it, and TLC agrees with it on the instance of `session_all`.

*The argument.*  `PmemTx_proofs` shows of each operation of the library that it keeps
a good record good and does to the pair (`Rolled`, `mem`) what a step of `TxStore`
does to (`committed`, `working`).  Handlers are compositions, so the same is
shown for `InTx`, `tx_abort_context` and a failing allocation, then for each group of
actions, and `SteppingLemma` puts them together.  The refinement follows from the
same lemmas: `Refines` is a step of `TxStore`.

What the refinement does not say is when a transaction may roll back: `TxStore` allows it at any
time, so that a read that aborts, or an exception that does, is one of its steps.  `BracketsBalance`
tells such calls from the others.

*The root.*  `RootNotDangling` needs more than the two images it speaks of only in
appearance: a library call never makes a new image, it moves between the two
that are there, and a store makes one more, whose root is an object that the
guard, or the store in the same transaction before it, has allocated.

*The brackets.*  Neither property needs more of the state than `IInv`.  A stage in which a
handler can begin (`Ready`) is `NONE` or `WORK` of an open handle.  There each operation ends
what it has begun (`HandlerLemma`, `TwoHandlersLemma`), and each error path has a lemma for the
levels it leaves: one for a constructor (`UnsupportedMemberLemma`), as many as there were begun
for an allocation, since the catch block ends the level that the library has aborted and no
other (`AllocationFailsEnds`, `ConstructionFailsEnds`), one level too few for a read that finds
nothing in a client's transaction (`GetPropertyLemma`).  In any other stage the library ends
the process. `AsSaid` is both properties of one step, and `LevelsLemma` has a case for each
action.

*The array.*  `LengthFits` speaks of the image in memory and of the one recovery would
restore.  A store inside a transaction changes only the former, a commit or an
abort makes one of the other; but `Cleared` stores without a snapshot and changes
both.  That it cannot spoil the block recovery restores is the added part of
`IInv`, `Whole`: when the allocated size has been snapshotted, so has every item, so
`Cleared` changes the other image only while the block is the same in both.  The
proof follows the code: a lemma for what each store builds (`MovedLemma`,
`PutLengthLemma`, `SetItemLemma`), one for each step of the library on such images, one
for each operation of the array, and `StepLemma` with one step per action.  It
assumes that `MaxLength` is at most `ARRAY_MAX_GAP`, that `NoSnap` is no word, and
nothing of the values.

*The array as a sequence.*  `PMArray_proofs` says what the same steps do to what the images
hold (`Content`), item by item and beyond the length, too.  Its added invariant is `Cut`: an
item beyond the length that an abort would bring back has been snapshotted or is `PPTR_NULL`
already.  Without it, making the array longer again, which clears the items beyond the new
length, could damage what shortening had not, and the last conjunct of `PArray!Damaged` would
fail.  Each operation is `Written` or `Resized`, relations between the images before and after
it (`Kept`, `Holed`, `Same`, `Stored`); `KeptImage` and `StoredImage` turn these into what
`PArray` says of `now` and `saved`, `WrittenStep`, `ResizedStep` and the lemmas of interrupted
calls (`HalfStep`, `HalfWriteStep`) into its actions, and `FollowLemma` has one step per
action.

*The dictionary.* All of it rests on one fact about numbers: the steps `i -> 5i + 1` go
through every slot of a block whose size is a power of two. `Probing_proofs` shows it by
doubling: if the orbit advances in `n` steps by `n` times an odd number, and its first
`n` values are different modulo `n`, then the same is true of `2n` (`AdvancesTwice`,
`CoversTwice`). When the perturbation is over (`PerturbAssumption`: the hash is a number
and each shift divides it by 32) a probe follows that orbit, so that `ProbeLemma` has it
visit all slots. An invariant of the table says that a free slot is left (`Counted`, the
equation of `Accounting`), so that a search ends, and that every entry is `OnPath` of
its key: there is no free slot before it on the probe, and no other entry of that key
(`Found`). A deleted entry stays on the paths that lead over it; that is why `DelBody`
leaves a dummy, and why the counter of usable slots is not given back. Setting, deleting
and growing keep the invariant (`WrittenLemma`, `DelBodyLemma`, `SetBodyLemma`, and
`Moving` for the loop of `insertionResize`, an induction over the slots already moved),
and change what `View` shows in one key only, which is a step of `PropMap`. That the
loop of the resize meets room for every entry is the other half of `Accounting`: the
entries in use are at most `ma_used`, and the new size is chosen by that counter. The
dropped key of a resize is counted and not there, so that the half is an inequality. The
assumptions are those of `PMDict`: marks are no keys and no values, `NoSnap` is no word,
and the sizes go up to 1024 (`MaxSize` at most 512), since the doubling is done for each
power of two.

*The indexed properties.*  `IInv` of `PMObject_proofs` says of the library's state that it is
`Sane`: the client's transaction is one level deep, one that an exception has aborted one or
two; and of both images, the one in memory and the one recovery would find, that the elements
are `Sound`.  A sound array has no values beyond its length.  A sound table is `Formed`, its
entries are `OnPath` as in `PMDict` and its counters add up, and `Bounded`: no value at or
beyond the length. One state is less: when `setLength` has been left by an exception in a
client's transaction, the memory is only `Formed` until that transaction ends; nothing can be
stored meanwhile. One more thing has to be known: deleted entries hold no value, else setting
their index would not meet the assertion that keeps the counters true.

The two forms are compared through a relation of indexes and values, `Holds` of a table and
`Has` of either form. `setProperty` changes it at one index, whether it finds the entry,
inserts one, or moves all to a bigger block first (`ResizeLemma`, an induction over the slots
moved, whose half-moved tables are `Moving`); a loop of such calls is `SettingTable`, an
induction over the indexes. `ToNumDictLemma` and `ToArrayLemma` say that the conversions keep
the relation: the first from that loop, the second because the entry that scanning finds for an
index is the only one. A call then ends in one of five ways: nothing has changed, the process
has ended (`EndsCall`), the transaction is undone (`UndoesCall`), one index is written or some
are cut off (`WritesCall`), or some are cut off until the client ends its transaction
(`LeavesCall`); `CallStep` has what each is in `IndexMap`.  `HandlesLead` is part of `IInv`, so
that no call is made through a stale handle: a call keeps the form of the elements
(`KeptLemma`), or changes it together with that of the one handle that is kept, or leaves no
handle (`DroppedLemma`).

The hypothesis, `"pops" \notin Client`, excludes what no client can see: popping a table whose
last index leads to a popped entry counts that entry down a second time, and `Accounting` does
not hold afterwards.  It is needed: `object_pops` is the counterexample without it.  The other
assumptions are that the marks are different from values, that `NoSnap` is no word, that
perturbation fades, and `MaxSize` at most 512 as above; transactions may have any number of
calls, and objects any number of handles.

*The heap.*  That `gc()` frees nothing in use rests on what it has not found yet, and that on
the shape of the graph.  `IInv` is `TypeOK`, `PartsSurvive`, and three more parts. `Separate`:
live objects share neither dictionary nor array (garbage that a crash has left may share them
with a live object), so that tracing one object does not find those of another.  `FreshEmpty`:
dictionaries and arrays that are not allocated refer to no object. `Marking`: all that has been
found is referenced (`FoundIsReferenced`), and what has been traced refers only to what has
been found (`ReferencedIsFound`), strings included.  `Reach` is defined as the least closed set
and not by recursion, so that to prove that an object is not reached is to find a closed set
without it: the marking, when nothing is left to trace, is one.  `GraphLemma` and `LiveLemma`
say how the set of live objects changes with a store; each operation of the client and each
step of `gc()` has a lemma, and `NextLemma` puts them together.  `AssertionsHold` follows from
`Separate` and the first half of `Marking`, `NoGarbageLeft` from that half, too, and
`ReferencedIsSpared` from the other (`SparedLemma`). The proofs use the assumptions of `Heap`:
that blocks of different kinds are different, and what may be stored.  They are of any number
of objects and need no finiteness.

These theorems are about `gc()` and about the objects that are there.  That a deletion spares
what others refer to is not among them, since it does not: `DelProperty` frees an object or a
string that is shared, as `pmdict.cc:107` does.  `PartsSurvive` says that an object that is
still allocated has not lost its dictionary or array by that, and `CollectsAll` that the next
collection takes what the deleted object has left behind.

*Not proved.*  `GcEnds` of the heap is liveness, which is out of the prover's reach, and
stays with TLC, as do the seven violations, each of which is a behaviour.  All invariants, action
properties and refinements of the other runs are theorems.  Probing, moving the entries
of a block and setting many indexes are loops, in the models recursive functions of a
number; induction is a property of a *set* of numbers here (`SetInduction` of
`Probing_proofs`), since the library's own theorem takes an operator, which the
backends cannot instantiate.

## 5. What is left

* A client of `PMObject` that pops at will: what remains true of its tables once an entry has
  been counted down twice (a search still ends while a free entry is left).
* A client that goes on with a stale handle: what its calls then do to the freed block, as long as
  that is not allocated again.
* The dense form inside `PMObject` where it is shortened, which is in `PMArray` alone.

### Not modelled

* Array buffers: the client stores bytes directly, the library's snapshot and persist
  are passed on.  `create_arraybuffer` of `jspmdk.js` replaces the buffer it
  is given by a new one of ten bytes: a wrong argument, not a matter of state.
* Proxies and `bind`: forwarding.  `check()`: reads only.  Build scripts, logging, and the
  conversion of strings and numbers at the Node API.
* `_cache`: it compares N-API handles after the scope in which they were made has ended;
  which entry they then match is undefined, and a model that allows any would
  say nothing of the rest.
* A failing `snapshotRange()`: no caller looks at its result, and the stores that follow
  are neither logged nor undone, so that no property of transactions holds.
* The processor's caches, and with them the address that is persisted at
  `pmarray.cc:79`: stores are durable when they are made.
* What calls `gc()`: only `pool.gc()` does, although `API-document.md:174` and `:186` also
  say that opening and closing a pool do.
