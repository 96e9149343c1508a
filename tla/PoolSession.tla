---------------------------- MODULE PoolSession -----------------------------
(***************************************************************************)
(* One JavaScript client of one pool: create, open and close the pool, the *)
(* transaction calls, and the operations that run inside them, over the    *)
(* crash of the process at any point.  The pool holds the root pointer and *)
(* objects; what an object's dictionary does inside is module PMDict's.    *)
(*                                                                         *)
(*   pm      the thread's transaction state and the persistent memory      *)
(*   created the pool file exists                                          *)
(*   closed  the pool's `_closed` flag (`_impl` is null exactly then)      *)
(*   calls   the transaction brackets the client is inside: "run" for the  *)
(*           body of transaction(run), "manual" for tx_begin()             *)
(*                                                                         *)
(* Client says which of the things a client or its environment may do are  *)
(* considered:                                                             *)
(*   "manual"       it uses tx_begin/tx_commit/tx_abort/tx_end, in any     *)
(*                  stage: a tx_end() closes the latest tx_begin()         *)
(*   "throw"        the body of transaction(run) throws                    *)
(*   "missing"      it reads a property the object does not have           *)
(*   "unsupported"  it persists an object that holds, say, a function      *)
(*   "full"         an allocation fails                                    *)
(*   "crash"        the process or the machine stops                       *)
(*   "stray"        it goes on using a transaction that has aborted        *)
(***************************************************************************)
EXTENDS PmemTx, Sequences

CONSTANTS
    Obj,            \* persistent objects
    Prop,           \* property names
    Val,            \* numbers and singletons: values stored in the pointer
    Root,           \* the location PRoot::root_object
    PPTR_NULL, PPTR_UNDEFINED, PPTR_EMPTY,
    UNALLOCATED,    \* the word of a cell whose object is not allocated
    Client,         \* see above
    MaxCalls,       \* bound: nesting of the client's transaction brackets
    MaxDepth        \* bound: nesting of libpmemobj's transactions

VARIABLES pm, created, closed, calls

vars == <<pm, created, closed, calls>>

Cell == Obj \X Prop
Loc == {Root} \cup Cell
Word == Obj \cup Val \cup {PPTR_NULL, PPTR_UNDEFINED, PPTR_EMPTY, UNALLOCATED}

Behaviours ==
    {"manual", "throw", "missing", "unsupported", "full", "crash", "stray"}

ASSUME ClientAssumption == Client \subseteq Behaviours
ASSUME BoundAssumption == MaxCalls \in Nat /\ MaxDepth \in Nat
ASSUME LocAssumption == Root \notin Cell
ASSUME WordAssumption ==
    /\ NoSnap \notin Word
    /\ UNALLOCATED \notin Obj \cup Val \cup {PPTR_NULL, PPTR_UNDEFINED, PPTR_EMPTY}
    /\ Obj \cap (Val \cup {PPTR_NULL, PPTR_UNDEFINED, PPTR_EMPTY}) = {}

Cells(o) == {o} \X Prop

\* A constructor allocates all of an object, so its cells go together.
Allocated(image, o) == \A c \in Cells(o) : image[c] # UNALLOCATED

\* The process lives and holds the pool open.
Usable == pm.stage # "DEAD" /\ ~closed

\* A client that knows its own transaction to have ended or aborted does not
\* operate inside it, unless it is a stray one.
MayOperate ==
    Usable /\ (pm.stage \in {"NONE", "WORK"} \/ calls = <<>> \/ "stray" \in Client)

\* Words to store: w everywhere, or the properties of init in object o.
Everywhere(w) == [l \in Loc |-> w]
Props(init) == [l \in Loc |-> IF l \in Cell THEN init[l[2]] ELSE PPTR_EMPTY]

Init ==
    /\ pm = Idle([l \in Loc |-> IF l = Root THEN PPTR_NULL ELSE UNALLOCATED])
    /\ created = FALSE
    /\ closed = TRUE
    /\ calls = <<>>

-----------------------------------------------------------------------------
(* The pool. *)

\* Mutant: root->root_object is stored without snapshotRange.
PMObjectPool_setRoot_no_snapshot(p, word) == InTx_no_snapshot(p, {Root}, Everywhere(word))

PMObjectPool_setRoot(p, word) == InTx(p, {Root}, Everywhere(word))

\* Mutant: the memory is allocated without being cleared.
create_object_uncleared(p, o, init) ==
    InTx(p, Cells(o), [l \in Loc |->
        IF Props(init)[l] = PPTR_EMPTY THEN "garbage" ELSE Props(init)[l]])

\* new PersistentObject(js_obj): allocation and properties in one transaction.
create_object(p, o, init) == InTx(p, Cells(o), Props(init))

Create ==
    /\ pm.stage # "DEAD" /\ closed
    /\ ~created
    /\ pm' = PMObjectPool_setRoot(pm, PPTR_UNDEFINED)
    /\ created' = TRUE
    /\ closed' = FALSE
    /\ UNCHANGED calls

\* The process stops between pmemobj_create and the end of setRoot.
CreateCrash ==
    /\ "crash" \in Client
    /\ pm.stage # "DEAD" /\ closed
    /\ ~created
    /\ pm' = Die(pm)
    /\ created' = TRUE
    /\ UNCHANGED <<closed, calls>>

\* Mutant: what an interrupted transaction left is not recovered.
Open_no_recovery ==
    /\ pm.stage # "DEAD" /\ closed
    /\ created
    /\ closed' = FALSE
    /\ UNCHANGED <<pm, created, calls>>

Open ==
    /\ pm.stage # "DEAD" /\ closed
    /\ created
    /\ pm' = pmemobj_open(pm)
    /\ closed' = FALSE
    /\ UNCHANGED <<created, calls>>

\* close() does not look at the transaction stage.  The client is assumed to
\* call it outside the brackets of its own transactions.
Close ==
    /\ Usable
    /\ calls = <<>>
    /\ closed' = TRUE
    /\ UNCHANGED <<pm, created, calls>>

-----------------------------------------------------------------------------
(* The client's transactions. *)

Opens(bracket) ==
    /\ Len(calls) < MaxCalls /\ pm.depth < MaxDepth
    /\ pm' = pmemobj_tx_begin(pm)
    /\ calls' = Append(calls, bracket)
    /\ UNCHANGED <<created, closed>>

Inside(bracket) == Usable /\ calls # <<>> /\ calls[Len(calls)] = bracket

Leaves == calls' = SubSeq(calls, 1, Len(calls) - 1)

Transaction == MayOperate /\ Opens("run")

\* transaction() after run() has returned.
TransactionReturns ==
    /\ Inside("run")
    /\ pm' = IF pm.stage = "WORK" THEN pmemobj_tx_end(pmemobj_tx_commit(pm))
             ELSE pmemobj_tx_abort(pm)
    /\ Leaves
    /\ UNCHANGED <<created, closed>>

\* transaction() when run() throws: nothing catches the exception.
TransactionThrows ==
    /\ "throw" \in Client
    /\ Inside("run")
    /\ Leaves
    /\ UNCHANGED <<pm, created, closed>>

TxBegin == "manual" \in Client /\ MayOperate /\ Opens("manual")

\* The tx_* calls go to the library unchecked: in a stage that is not theirs,
\* as the tx_abort() of a catch block after a failed allocation has aborted
\* already (API-document.md:163), it ends the process.
TxCommit ==
    /\ Inside("manual")
    /\ pm' = pmemobj_tx_commit(pm)
    /\ UNCHANGED <<created, closed, calls>>

TxAbort ==
    /\ Inside("manual")
    /\ pm' = pmemobj_tx_abort(pm)
    /\ UNCHANGED <<created, closed, calls>>

TxEnd ==
    /\ Inside("manual")
    /\ pm' = pmemobj_tx_end(pm)
    /\ Leaves
    /\ UNCHANGED <<created, closed>>

-----------------------------------------------------------------------------
(* The operations. *)

Operates(p) == pm' = p /\ UNCHANGED <<created, closed, calls>>

\* pool.root = <number, boolean, null, undefined>
SetRoot(v) ==
    /\ MayOperate
    /\ Operates(PMObjectPool_setRoot(pm, v))

\* pool.root = pobj, for a handle to an object that is still there
SetRootTo(o) ==
    /\ MayOperate
    /\ Allocated(pm.mem, o)
    /\ Operates(PMObjectPool_setRoot(pm, o))

\* pool.create_object(js_obj)
CreateObject(o, init) ==
    /\ MayOperate
    /\ ~Allocated(pm.mem, o)
    /\ Operates(create_object(pm, o, init))

\* pool.root = js_obj: persisted first, in a transaction of its own
SetRootObject(o, init) ==
    /\ MayOperate
    /\ ~Allocated(pm.mem, o)
    /\ Operates(PMObjectPool_setRoot(create_object(pm, o, init), o))

\* pobj[prop] = v
SetProperty(o, prop, v) ==
    /\ MayOperate
    /\ Allocated(pm.mem, o)
    /\ Operates(InTx(pm, {<<o, prop>>}, Everywhere(v)))

\* Reading pobj[prop]: the missing key is an exception, caught by a
\* tx_abort_context on its way to the proxy that turns it into undefined.
resurrect(p, word) == IF word = PPTR_EMPTY THEN tx_abort_context(p) ELSE p

GetProperty(o, prop) ==
    /\ Usable
    /\ Allocated(pm.mem, o)
    /\ pm.mem[<<o, prop>>] = PPTR_EMPTY => "missing" \in Client
    /\ Operates(resurrect(pm, pm.mem[<<o, prop>>]))

\* Reading pool.root dereferences whatever pointer it holds.
GetRoot ==
    /\ Usable
    /\ Operates(IF pm.mem[Root] = PPTR_NULL THEN Die(pm) ELSE pm)

\* The constructor only catches `const char*`: the Napi::Error of persist()
\* for a member of an unsupported type leaves its transaction open, with the
\* members before it (init) stored.
UnsupportedMember(o, init) ==
    /\ "unsupported" \in Client
    /\ MayOperate /\ pm.depth < MaxDepth
    /\ ~Allocated(pm.mem, o)
    /\ Operates(tx_store(tx_enter_context(pm), Cells(o), Props(init)))

\* An allocation fails under j MM_TX_BEGINs: 0 for a string value, up to 4 in
\* the constructors.  The exception is caught where tx_abort_context runs.
AllocationFails(j) ==
    /\ "full" \in Client
    /\ MayOperate /\ pm.depth + j <= MaxDepth
    /\ Operates(tx_abort_context(alloc_fails(EnterN(pm, j))))

\* So does one for a later member of an object whose block, and whose members
\* before that one, the constructor has stored already.
ConstructionFails(j, o, init) ==
    /\ "full" \in Client
    /\ MayOperate /\ pm.depth + j <= MaxDepth
    /\ ~Allocated(pm.mem, o)
    /\ LET built == tx_store(EnterN(pm, j), Cells(o), Props(init))
       IN  Operates(tx_abort_context(alloc_fails(built)))

Crash ==
    /\ "crash" \in Client
    /\ pm.stage # "DEAD"
    /\ Operates(Die(pm))

Restart ==
    /\ pm.stage = "DEAD"
    /\ pm' = NewProcess(pm)
    /\ closed' = TRUE
    /\ calls' = <<>>
    /\ UNCHANGED created

Initial == [Prop -> Val \cup {PPTR_EMPTY}]

Next ==
    \/ Create \/ CreateCrash \/ Open \/ Close
    \/ Transaction \/ TransactionReturns \/ TransactionThrows
    \/ TxBegin \/ TxCommit \/ TxAbort \/ TxEnd
    \/ \E v \in Val : SetRoot(v)
    \/ \E o \in Obj : SetRootTo(o)
    \/ \E o \in Obj, init \in Initial :
          \/ CreateObject(o, init) \/ SetRootObject(o, init)
          \/ UnsupportedMember(o, init)
          \/ \E j \in 1..4 : ConstructionFails(j, o, init)
    \/ \E o \in Obj, prop \in Prop, v \in Val : SetProperty(o, prop, v)
    \/ \E o \in Obj, prop \in Prop : GetProperty(o, prop)
    \/ GetRoot
    \/ \E j \in 0..4 : AllocationFails(j)
    \/ Crash \/ Restart

Spec == Init /\ [][Next]_vars

-----------------------------------------------------------------------------
(* Properties. *)

\* Types of the variables; the program never unbalances the library's nesting
\* below zero (tx_enter/exit/abort_context).
TypeOK ==
    /\ pm \in TxState(Loc, Word)
    /\ created \in BOOLEAN
    /\ closed \in BOOLEAN
    /\ calls \in Seq({"run", "manual"})

\* In an open pool outside transactions everything visible is durable: no
\* operation, error path or recovery leaves an undo log behind that a later
\* open would apply.
DurableOutsideTx == Usable /\ Settled(pm) => Rolled(pm) = pm.mem

\* The root never refers to an object that is not there yet, or not any more
\* after an abort: not in the memory the program sees, nor in what recovery
\* would restore after a crash.  (What is freed later is module Heap's.)
RootRefersToObject(image) ==
    \A o \in Obj : image[Root] = o => Allocated(image, o)

RootNotDangling ==
    /\ RootRefersToObject(pm.mem)
    /\ RootRefersToObject(Rolled(pm))

\* API-document.md:138.  When the body of an outermost transaction() throws,
\* none of its changes stays visible.
AbnormalEndRollsBack ==
    [][TransactionThrows /\ Len(calls) = 1 => pm'.mem = Rolled(pm)]_vars

\* What a client can reach from pool.root in a memory image.
FromRoot(image) ==
    IF image[Root] \in Obj
    THEN <<image[Root], [prop \in Prop |-> image[<<image[Root], prop>>]]>>
    ELSE <<image[Root], <<>> >>

\* API-document.md:186.  What is reachable from the root when the pool is
\* closed is what the next open() will show.
ReopenPreserves == [][Close => FromRoot(Rolled(pm)) = FromRoot(pm.mem)]_vars

\* The levels of the library's transactions a step leaves above the client's
\* own brackets, and those it takes away from them.
Leaks(n) == pm'.depth + Len(calls) = pm.depth + Len(calls') + n
Takes(n) == pm'.depth + Len(calls) + n = pm.depth + Len(calls')

\* Every call begins exactly as many levels as it ends, the client's brackets
\* apart, in whatever stage it is made and whatever it throws, except where an
\* exception passes a transaction by: run() throws past transaction(), a
\* constructor past its tx_exit_context, an allocation past the j MM_TX_ENDs
\* above it; and the catch block of a read that finds nothing ends a level it
\* has not begun.
BracketsBalance ==
    [][pm.stage # "DEAD" /\ pm'.stage # "DEAD" =>
          \/ Leaks(0)
          \/ TransactionThrows /\ Leaks(1)
          \/ \E o \in Obj, init \in Initial : UnsupportedMember(o, init) /\ Leaks(1)
          \/ \E j \in 1..4 : AllocationFails(j) /\ Leaks(j)
          \/ \E o \in Obj, init \in Initial, j \in 1..4 :
                ConstructionFails(j, o, init) /\ Leaks(j)
          \/ \E o \in Obj, prop \in Prop :
                /\ GetProperty(o, prop) /\ pm.mem[<<o, prop>>] = PPTR_EMPTY
                /\ Takes(1)]_vars

\* A call ends the process only where it crashes; reading the root of a pool
\* whose create() was cut off; in a tx_* call, or the end of transaction()
\* (jspmdk.js:198), in a stage that is not its own; or in a transaction that
\* has ended already or belongs to a closed handle.  In the stages NONE and
\* WORK of an open handle no operation, and no error path of one, runs into a
\* FATAL() of the library.
KilledOnlyBy ==
    [][pm.stage # "DEAD" /\ pm'.stage = "DEAD" =>
          \/ Crash \/ CreateCrash
          \/ GetRoot /\ pm.mem[Root] = PPTR_NULL
          \/ (TxCommit \/ TxAbort \/ TransactionReturns) /\ pm.stage # "WORK"
          \/ TxEnd /\ pm.stage \notin {"ONCOMMIT", "ONABORT"}
          \/ pm.stage \in {"ONCOMMIT", "ONABORT"} \/ pm.orphan]_vars

\* What the program sees of the memory, and the mode of its transaction.
Seen(p) == IF p.stage = "DEAD" THEN Rolled(p) ELSE p.mem

Mode(p) ==
    IF p.stage = "DEAD" \/ Settled(p) THEN "idle"
    ELSE IF p.stage = "ONABORT" THEN "doomed" ELSE "open"

\* The pool implements the transactional store of the API document: whatever
\* the client does and wherever it stops, transactions are atomic and durable,
\* and an abort at any level is final.
Store == INSTANCE TxStore WITH
    Image <- [Loc -> Word],
    committed <- Rolled(pm),
    working <- IF closed THEN Rolled(pm) ELSE Seen(pm),
    mode <- IF closed THEN "idle" ELSE Mode(pm)

ImplementsTxStore == Store!Spec
=============================================================================
