------------------------------- MODULE PmemTx -------------------------------
(***************************************************************************)
(* The transactions of libpmemobj as libpmemobj-js uses them, and the      *)
(* helpers with which MemoryManager and PersistentObjectPool drive them.   *)
(*                                                                         *)
(* The library is not part of the repository.  The state it keeps for the  *)
(* one thread of node is a record p, and every operation is an operator    *)
(* from such a record to the record after the call, so that a handler that *)
(* makes several calls is their composition:                               *)
(*                                                                         *)
(*   p.stage   pmemobj_tx_stage(), or "DEAD" when the process is gone      *)
(*             (crash, FATAL() in the library, failed assertion, SIGSEGV)  *)
(*   p.depth   how many pmemobj_tx_begin() wait for their pmemobj_tx_end() *)
(*   p.mem     the persistent memory as loads of the program see it        *)
(*   p.undo    the undo log: the pre-image of every location snapshotted   *)
(*             since the outermost begin, NoSnap for the others            *)
(*   p.orphan  the thread is inside a transaction of a pool handle that    *)
(*             has been closed; the library's state for it is gone         *)
(***************************************************************************)
EXTENDS Naturals

CONSTANT NoSnap

Stages == {"NONE", "WORK", "ONCOMMIT", "ONABORT", "DEAD"}

\* The states of the library over locations Loc that hold words of Word.
TxState(Loc, Word) ==
    [stage : Stages, depth : Nat, mem : [Loc -> Word],
     undo : [Loc -> Word \cup {NoSnap}], orphan : BOOLEAN]

\* A thread outside any transaction, over the memory image.
Idle(image) ==
    [stage |-> "NONE", depth |-> 0, mem |-> image,
     undo |-> [l \in DOMAIN image |-> NoSnap], orphan |-> FALSE]

\* What recovery would restore: the image of the last outermost commit.
Rolled(p) ==
    [l \in DOMAIN p.mem |-> IF p.undo[l] = NoSnap THEN p.mem[l] ELSE p.undo[l]]

NoUndo(p) == [l \in DOMAIN p.undo |-> NoSnap]

\* No outermost transaction is still to be committed or aborted.
Settled(p) ==
    \/ p.stage = "NONE"
    \/ p.stage \in {"ONCOMMIT", "ONABORT"} /\ p.depth = 1
    \/ p.orphan

Die(p) == [p EXCEPT !.stage = "DEAD"]

-----------------------------------------------------------------------------
(* The library. *)

\* Nested transactions are flattened; begin outside NONE and WORK is FATAL.
pmemobj_tx_begin(p) ==
    IF p.stage \in {"NONE", "WORK"} /\ ~p.orphan
    THEN [p EXCEPT !.stage = "WORK", !.depth = @ + 1]
    ELSE Die(p)

\* Only the outermost commit drops the undo log.
pmemobj_tx_commit(p) ==
    IF p.stage = "WORK" /\ ~p.orphan
    THEN [p EXCEPT !.stage = "ONCOMMIT",
                   !.undo = IF p.depth = 1 THEN NoUndo(p) ELSE @]
    ELSE Die(p)

\* Only the outermost abort restores the snapshots.
pmemobj_tx_abort(p) ==
    IF p.stage = "WORK" /\ ~p.orphan
    THEN [p EXCEPT !.stage = "ONABORT",
                   !.mem = IF p.depth = 1 THEN Rolled(p) ELSE @,
                   !.undo = IF p.depth = 1 THEN NoUndo(p) ELSE @]
    ELSE Die(p)

\* The end of an aborted inner transaction aborts the next outer one.
pmemobj_tx_end(p) ==
    IF p.stage \notin {"ONCOMMIT", "ONABORT"} \/ p.orphan THEN Die(p)
    ELSE IF p.depth = 1 THEN [p EXCEPT !.stage = "NONE", !.depth = 0]
    ELSE LET outer == [p EXCEPT !.stage = "WORK", !.depth = @ - 1]
         IN  IF p.stage = "ONABORT" THEN pmemobj_tx_abort(outer) ELSE outer

\* Snapshot the locations of S (freshly allocated ones included: their
\* pre-image is "unallocated"), then store the words of f in them.
tx_store(p, S, f) ==
    IF p.stage # "WORK" THEN p
    ELSE [p EXCEPT
            !.undo = [l \in DOMAIN p.undo |->
                        IF l \in S /\ p.undo[l] = NoSnap THEN p.mem[l]
                        ELSE p.undo[l]],
            !.mem = [l \in DOMAIN p.mem |-> IF l \in S THEN f[l] ELSE p.mem[l]]]

\* pmemobj_tx_(z)alloc that fails aborts the innermost transaction itself;
\* outside a transaction the atomic pmemobj_zalloc just returns OID_NULL.
alloc_fails(p) == IF p.stage = "WORK" THEN pmemobj_tx_abort(p) ELSE p

\* Opening the pool file applies the undo log an interrupted transaction left;
\* a transaction the thread is still inside belongs to the closed handle.
pmemobj_open(p) ==
    [p EXCEPT !.mem = Rolled(p), !.undo = NoUndo(p), !.orphan = p.depth > 0]

\* A new process over what the pool file holds.
NewProcess(p) == [p EXCEPT !.stage = "NONE", !.depth = 0, !.orphan = FALSE]

-----------------------------------------------------------------------------
(* The program's helpers. *)

\* MemoryManager::tx_enter_context (MM_TX_BEGIN)
tx_enter_context(p) == pmemobj_tx_begin(p)

\* Mutant: the commit is forgotten.
tx_exit_context_no_commit(p) == pmemobj_tx_end(p)

\* MemoryManager::tx_exit_context (MM_TX_END).  It throws when tx_end returns
\* an error, that of an aborted transaction: no handler gets here with one.
tx_exit_context(p) ==
    pmemobj_tx_end(IF p.stage = "WORK" THEN pmemobj_tx_commit(p) ELSE p)

\* PersistentObjectPool::tx_abort_context, run by every catch block.
tx_abort_context(p) ==
    IF p.stage = "WORK" THEN pmemobj_tx_end(pmemobj_tx_abort(p)) ELSE p

\* Mutant: stores without snapshotRange.
InTx_no_snapshot(p, S, f) ==
    LET q == tx_enter_context(p)
    IN  tx_exit_context([q EXCEPT !.mem = tx_store(q, S, f).mem])

\* Mutant: an early return skips MM_TX_END.
InTx_no_end(p, S, f) == tx_store(tx_enter_context(p), S, f)

\* A handler whose body, bracketed by the two helpers, stores f in S.
InTx(p, S, f) == tx_exit_context(tx_store(tx_enter_context(p), S, f))

\* j MM_TX_BEGINs that an exception then leaves without their MM_TX_END.
EnterN(p, j) ==
    IF j = 0 THEN p
    ELSE IF p.stage \in {"NONE", "WORK"} /\ ~p.orphan
         THEN [p EXCEPT !.stage = "WORK", !.depth = @ + j]
         ELSE Die(p)
=============================================================================
