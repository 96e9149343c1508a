------------------------- MODULE PoolSession_proofs -------------------------
(***************************************************************************)
(* PoolSession, for every set of objects, properties and values, every     *)
(* client and every bound: it is type correct, keeps nothing pending       *)
(* outside transactions, and implements the transactional store TxStore.   *)
(*                                                                         *)
(* IInv is the inductive invariant: while a pool is open the state of the  *)
(* library is well-formed (Good); while it is closed an undo log may be    *)
(* left by a crash or a leaked transaction; and before create() there is   *)
(* nothing to undo.  The last parts of the module are about the root, and  *)
(* about the levels of the library's transactions: who leaks one, and in   *)
(* which calls the library ends the process.                               *)
(***************************************************************************)
EXTENDS PoolSession, PmemTx_proofs

NothingBefore ==
    ~created =>
        /\ closed
        /\ pm.stage \in {"NONE", "DEAD"} /\ pm.depth = 0 /\ ~pm.orphan
        /\ pm.undo = NoUndo(pm)

IInv ==
    /\ TypeOK
    /\ Shape(pm)
    /\ ~closed => Clean(pm)
    /\ NothingBefore

\* The abstract step from p to q, both of an open pool.
Refines(p, q) ==
    \/ /\ Mode(p) = "idle" /\ Mode(q) = "idle"
       /\ Rolled(q) = Seen(q)
    \/ /\ Mode(q) \in {"open", "doomed"}
       /\ Mode(p) = "doomed" => Mode(q) = "doomed" /\ Seen(q) = Seen(p)
       /\ Rolled(q) = Rolled(p)
    \/ /\ Mode(p) = "open" /\ Mode(q) = "idle"
       /\ Seen(q) = Seen(p) /\ Rolled(q) = Seen(p)
    \/ /\ Mode(p) # "idle" /\ Mode(q) = "idle"
       /\ Seen(q) = Rolled(p) /\ Rolled(q) = Rolled(p)

\* Any operation of an open pool that keeps its library state well-formed, and
\* refines, is a step of the proof.
OpStep(p, q) == Good(q, Loc, Word) /\ Refines(p, q)

\* In an open pool outside transactions the two images are one.
LEMMA SettledLemma ==
    ASSUME NEW p, Good(p, Loc, Word), Mode(p) = "idle"
    PROVE  Rolled(p) = Seen(p)
  BY FieldLemma DEF Good, Clean, Mode, Seen

\* A step that ends the process rolls the open transaction back.
LEMMA DieStep ==
    ASSUME NEW p, Good(p, Loc, Word)
    PROVE  OpStep(p, Die(p))
<1>1. /\ Good(Die(p), Loc, Word) /\ Die(p).stage = "DEAD"
      /\ Rolled(Die(p)) = Rolled(p)
  BY DieLemma
<1>2. Mode(Die(p)) = "idle" /\ Seen(Die(p)) = Rolled(p)
  BY <1>1 DEF Mode, Seen
<1> QED
  BY <1>1, <1>2 DEF OpStep, Refines

\* A call that returns early or throws before it changes anything.
LEMMA SameStep ==
    ASSUME NEW p, Good(p, Loc, Word)
    PROVE  OpStep(p, p)
<1>1. Mode(p) \in {"idle", "open", "doomed"}
  BY DEF Mode
<1> QED
  BY <1>1, SettledLemma DEF OpStep, Refines

\* A handler bracketed by MM_TX_BEGIN and MM_TX_END.
LEMMA InTxStep ==
    ASSUME NEW p, Good(p, Loc, Word), NEW S \in SUBSET Loc,
           NEW f \in [Loc -> Word], NEW q, q = InTx(p, S, f)
    PROVE  OpStep(p, q)
<1>0. NoSnap \notin Word
  BY WordAssumption
<1>1. CASE p.stage = "NONE" /\ ~p.orphan
  <2>1. /\ Good(q, Loc, Word) /\ q.stage = "NONE" /\ Rolled(q) = q.mem
    BY <1>0, <1>1, InTxLemma
  <2> QED
    BY <1>1, <2>1 DEF OpStep, Refines, Mode, Seen, Settled
<1>2. CASE p.stage = "WORK" /\ ~p.orphan
  <2>1. /\ Good(q, Loc, Word) /\ q.stage = "WORK" /\ ~q.orphan
        /\ Rolled(q) = Rolled(p)
    BY <1>0, <1>2, InTxLemma
  <2> QED
    BY <1>2, <2>1 DEF OpStep, Refines, Mode, Seen, Settled
<1>3. CASE p.stage \notin {"NONE", "WORK"} \/ p.orphan
  <2>1. q = Die(p)
    BY <1>0, <1>3, InTxLemma
  <2> QED
    BY <2>1, DieStep
<1> QED
  BY <1>1, <1>2, <1>3

\* Two such handlers in a row, as pool.root = js_obj has them.
LEMMA InTxTwiceStep ==
    ASSUME NEW p, Good(p, Loc, Word),
           NEW S \in SUBSET Loc, NEW f \in [Loc -> Word],
           NEW T \in SUBSET Loc, NEW g \in [Loc -> Word],
           NEW r, r = InTx(p, S, f), NEW q, q = InTx(r, T, g)
    PROVE  OpStep(p, q)
<1>0. NoSnap \notin Word
  BY WordAssumption
<1>1. CASE p.stage = "NONE" /\ ~p.orphan
  <2>1. Good(r, Loc, Word) /\ r.stage = "NONE" /\ ~r.orphan
    BY <1>0, <1>1, InTxLemma
  <2>2. /\ Good(q, Loc, Word) /\ q.stage = "NONE" /\ Rolled(q) = q.mem
    BY <1>0, <2>1, InTxLemma
  <2> QED
    BY <1>1, <2>2 DEF OpStep, Refines, Mode, Seen, Settled
<1>2. CASE p.stage = "WORK" /\ ~p.orphan
  <2>1. /\ Good(r, Loc, Word) /\ r.stage = "WORK" /\ ~r.orphan
        /\ Rolled(r) = Rolled(p)
    BY <1>0, <1>2, InTxLemma
  <2>2. /\ Good(q, Loc, Word) /\ q.stage = "WORK" /\ ~q.orphan
        /\ Rolled(q) = Rolled(p)
    BY <1>0, <2>1, InTxLemma
  <2> QED
    BY <1>2, <2>2 DEF OpStep, Refines, Mode, Seen, Settled
<1>3. CASE p.stage \notin {"NONE", "WORK"} \/ p.orphan
  <2>1. r = Die(p)
    BY <1>0, <1>3, InTxLemma
  <2>2. Good(r, Loc, Word) /\ r.stage = "DEAD"
    BY <2>1, DieLemma
  <2>3. q = Die(r)
    BY <1>0, <2>2, InTxLemma
  <2>4. q = Die(p)
    BY <2>1, <2>2, <2>3, DeadLemma DEF Good
  <2> QED
    BY <2>4, DieStep
<1> QED
  BY <1>1, <1>2, <1>3

\* The calls of the client's own transactions.
LEMMA BeginStep ==
    ASSUME NEW p, Good(p, Loc, Word), NEW q, q = pmemobj_tx_begin(p)
    PROVE  OpStep(p, q)
<1>1. CASE p.stage \in {"NONE", "WORK"} /\ ~p.orphan
  <2>1. /\ Good(q, Loc, Word) /\ q.stage = "WORK" /\ ~q.orphan
        /\ Rolled(q) = Rolled(p)
    BY <1>1, BeginLemma
  <2> QED
    BY <1>1, <2>1 DEF OpStep, Refines, Mode, Settled
<1>2. CASE ~(p.stage \in {"NONE", "WORK"} /\ ~p.orphan)
  <2>1. q = Die(p)
    BY <1>2 DEF pmemobj_tx_begin
  <2> QED
    BY <2>1, DieStep
<1> QED
  BY <1>1, <1>2

LEMMA CommitStep ==
    ASSUME NEW p, Good(p, Loc, Word), NEW q, q = pmemobj_tx_commit(p)
    PROVE  OpStep(p, q)
<1>1. CASE p.stage = "WORK" /\ ~p.orphan
  <2>1. /\ Good(q, Loc, Word) /\ q.stage = "ONCOMMIT" /\ ~q.orphan
        /\ q.mem = p.mem /\ q.depth = p.depth
        /\ Rolled(q) = IF p.depth = 1 THEN p.mem ELSE Rolled(p)
    BY <1>1, CommitLemma
  <2> QED
    BY <1>1, <2>1 DEF OpStep, Refines, Mode, Settled, Seen
<1>2. CASE ~(p.stage = "WORK" /\ ~p.orphan)
  <2>1. q = Die(p)
    BY <1>2 DEF pmemobj_tx_commit
  <2> QED
    BY <2>1, DieStep
<1> QED
  BY <1>1, <1>2

LEMMA AbortStep ==
    ASSUME NEW p, Good(p, Loc, Word), NEW q, q = pmemobj_tx_abort(p)
    PROVE  OpStep(p, q)
<1>1. CASE p.stage = "WORK" /\ ~p.orphan
  <2>1. /\ Good(q, Loc, Word) /\ q.stage = "ONABORT" /\ ~q.orphan
        /\ q.depth = p.depth /\ Rolled(q) = Rolled(p)
        /\ q.mem = IF p.depth = 1 THEN Rolled(p) ELSE p.mem
    BY <1>1, AbortLemma
  <2> QED
    BY <1>1, <2>1 DEF OpStep, Refines, Mode, Settled, Seen
<1>2. CASE ~(p.stage = "WORK" /\ ~p.orphan)
  <2>1. q = Die(p)
    BY <1>2 DEF pmemobj_tx_abort
  <2> QED
    BY <2>1, DieStep
<1> QED
  BY <1>1, <1>2

LEMMA EndStep ==
    ASSUME NEW p, Good(p, Loc, Word), NEW q, q = pmemobj_tx_end(p)
    PROVE  OpStep(p, q)
<1>0. p.depth \in Nat
  BY FieldLemma DEF Good
<1>1. CASE p.stage \in {"ONCOMMIT", "ONABORT"} /\ ~p.orphan
  <2>1. /\ Good(q, Loc, Word) /\ ~q.orphan
        /\ q.depth = p.depth - 1 /\ Rolled(q) = Rolled(p)
        /\ q.stage = IF p.depth = 1 THEN "NONE"
                     ELSE IF p.stage = "ONABORT" THEN "ONABORT" ELSE "WORK"
        /\ q.mem = IF p.stage = "ONABORT" /\ p.depth = 2 THEN Rolled(p)
                   ELSE p.mem
    BY <1>1, EndLemma
  <2>2. CASE p.depth = 1
    <3>1. Mode(p) = "idle" /\ Mode(q) = "idle"
      BY <1>1, <2>1, <2>2 DEF Mode, Settled
    <3>2. Rolled(q) = Seen(q)
      BY <2>1, <3>1, SettledLemma
    <3> QED
      BY <2>1, <3>1, <3>2 DEF OpStep, Refines
  <2>3. CASE p.depth # 1 /\ p.stage = "ONCOMMIT"
    BY <1>1, <2>1, <2>3 DEF OpStep, Refines, Mode, Settled, Seen
  <2>4. CASE p.depth = 2 /\ p.stage = "ONABORT"
    BY <1>1, <2>1, <2>4 DEF OpStep, Refines, Mode, Settled, Seen
  <2>5. CASE p.depth \notin {1, 2} /\ p.stage = "ONABORT"
    <3>1. q.depth # 1
      BY <1>0, <2>1, <2>5
    <3> QED
      BY <1>1, <2>1, <2>5, <3>1 DEF OpStep, Refines, Mode, Settled, Seen
  <2> QED
    BY <1>1, <2>2, <2>3, <2>4, <2>5
<1>2. CASE ~(p.stage \in {"ONCOMMIT", "ONABORT"} /\ ~p.orphan)
  <2>1. q = Die(p)
    BY <1>2 DEF pmemobj_tx_end
  <2> QED
    BY <2>1, DieStep
<1> QED
  BY <1>1, <1>2

\* transaction() after a body that left the stage at WORK.
LEMMA CommitEndStep ==
    ASSUME NEW p, Good(p, Loc, Word), p.stage = "WORK",
           NEW c, c = pmemobj_tx_commit(p), NEW q, q = pmemobj_tx_end(c)
    PROVE  OpStep(p, q)
<1>0. p.depth \in Nat
  BY FieldLemma DEF Good
<1>1. CASE ~p.orphan
  <2>1. /\ Good(c, Loc, Word) /\ c.stage = "ONCOMMIT" /\ ~c.orphan
        /\ c.mem = p.mem /\ c.depth = p.depth
        /\ Rolled(c) = IF p.depth = 1 THEN p.mem ELSE Rolled(p)
    BY <1>1, CommitLemma
  <2>2. /\ Good(q, Loc, Word) /\ ~q.orphan
        /\ q.depth = p.depth - 1 /\ Rolled(q) = Rolled(c)
        /\ q.stage = IF p.depth = 1 THEN "NONE" ELSE "WORK"
        /\ q.mem = p.mem
    BY <2>1, EndLemma
  <2>3. CASE p.depth = 1
    BY <1>1, <2>1, <2>2, <2>3 DEF OpStep, Refines, Mode, Settled, Seen
  <2>4. CASE p.depth # 1
    BY <1>1, <2>1, <2>2, <2>4 DEF OpStep, Refines, Mode, Settled, Seen
  <2> QED
    BY <2>3, <2>4
<1>2. CASE p.orphan
  <2>1. c = Die(p)
    BY <1>2 DEF pmemobj_tx_commit
  <2>2. Good(c, Loc, Word) /\ c.stage = "DEAD"
    BY <2>1, DieLemma
  <2>3. q = Die(p)
    BY <2>1, <2>2, DeadLemma DEF Good, pmemobj_tx_end
  <2> QED
    BY <2>3, DieStep
<1> QED
  BY <1>1, <1>2

\* The error paths.
LEMMA AbortContextStep ==
    ASSUME NEW p, Good(p, Loc, Word), NEW q, q = tx_abort_context(p)
    PROVE  OpStep(p, q)
<1>0. p.depth \in Nat
  BY FieldLemma DEF Good
<1>1. CASE p.stage # "WORK"
  BY <1>1, AbortContextLemma, SameStep
<1>2. CASE p.stage = "WORK" /\ p.orphan
  BY <1>2, AbortContextLemma, DieStep
<1>3. CASE p.stage = "WORK" /\ ~p.orphan
  <2>1. /\ Good(q, Loc, Word) /\ Rolled(q) = Rolled(p)
        /\ q.depth = p.depth - 1 /\ ~q.orphan
        /\ q.stage = IF p.depth = 1 THEN "NONE" ELSE "ONABORT"
        /\ q.mem = IF p.depth \in {1, 2} THEN Rolled(p) ELSE p.mem
    BY <1>3, AbortContextLemma
  <2>2. p.depth = 2 <=> q.depth = 1
    BY <1>0, <2>1
  <2> QED
    BY <1>3, <2>1, <2>2 DEF OpStep, Refines, Mode, Settled, Seen
<1> QED
  BY <1>1, <1>2, <1>3

LEMMA AllocationFailsStep ==
    ASSUME NEW p, Good(p, Loc, Word), NEW j \in Nat,
           NEW q, q = tx_abort_context(alloc_fails(EnterN(p, j)))
    PROVE  OpStep(p, q)
<1>1. \/ q = p
      \/ q = Die(p)
      \/ /\ Good(q, Loc, Word) /\ ~q.orphan /\ ~p.orphan
         /\ p.stage \in {"NONE", "WORK"}
         /\ q.stage = "ONABORT" /\ q.depth = p.depth + j
         /\ Rolled(q) = Rolled(p)
         /\ q.mem = IF p.depth + j = 1 THEN Rolled(p) ELSE p.mem
  BY AllocationFailsLemma
<1>2. CASE /\ Good(q, Loc, Word) /\ ~q.orphan /\ ~p.orphan
           /\ p.stage \in {"NONE", "WORK"}
           /\ q.stage = "ONABORT" /\ q.depth = p.depth + j
           /\ Rolled(q) = Rolled(p)
           /\ q.mem = IF p.depth + j = 1 THEN Rolled(p) ELSE p.mem
  <2>1. CASE q.depth = 1
    BY <1>2, <2>1 DEF OpStep, Refines, Mode, Settled, Seen
  <2>2. CASE q.depth # 1
    BY <1>2, <2>2 DEF OpStep, Refines, Mode, Settled, Seen
  <2> QED
    BY <2>1, <2>2
<1> QED
  BY <1>1, <1>2, SameStep, DieStep

LEMMA ConstructionFailsStep ==
    ASSUME NEW p, Good(p, Loc, Word), NEW j \in Nat, j # 0,
           NEW S \in SUBSET Loc, NEW f \in [Loc -> Word],
           NEW q, q = tx_abort_context(alloc_fails(tx_store(EnterN(p, j), S, f)))
    PROVE  OpStep(p, q)
<1>1. \/ q = Die(p)
      \/ /\ Good(q, Loc, Word) /\ ~q.orphan /\ ~p.orphan
         /\ p.stage \in {"NONE", "WORK"}
         /\ q.stage = "ONABORT" /\ q.depth = p.depth + j
         /\ Rolled(q) = Rolled(p)
         /\ p.depth + j = 1 => q.mem = Rolled(p)
  BY ConstructionFailsLemma, WordAssumption
<1>2. CASE /\ Good(q, Loc, Word) /\ ~q.orphan /\ ~p.orphan
           /\ p.stage \in {"NONE", "WORK"}
           /\ q.stage = "ONABORT" /\ q.depth = p.depth + j
           /\ Rolled(q) = Rolled(p)
           /\ p.depth + j = 1 => q.mem = Rolled(p)
  <2>1. CASE q.depth = 1
    BY <1>2, <2>1 DEF OpStep, Refines, Mode, Settled, Seen
  <2>2. CASE q.depth # 1
    BY <1>2, <2>2 DEF OpStep, Refines, Mode, Settled, Seen
  <2> QED
    BY <2>1, <2>2
<1> QED
  BY <1>1, <1>2, DieStep

\* The constructor that an unsupported member leaves in the middle.
LEMMA LeakStep ==
    ASSUME NEW p, Good(p, Loc, Word), NEW S \in SUBSET Loc,
           NEW f \in [Loc -> Word],
           NEW q, q = tx_store(tx_enter_context(p), S, f)
    PROVE  OpStep(p, q)
<1> DEFINE b == pmemobj_tx_begin(p)
<1>0. NoSnap \notin Word /\ q = tx_store(b, S, f)
  BY WordAssumption DEF tx_enter_context
<1>1. CASE p.stage \in {"NONE", "WORK"} /\ ~p.orphan
  <2>1. /\ Good(b, Loc, Word) /\ b.stage = "WORK" /\ ~b.orphan
        /\ Rolled(b) = Rolled(p)
    BY <1>1, BeginLemma
  <2>2. /\ Good(q, Loc, Word) /\ q.stage = "WORK" /\ ~q.orphan
        /\ Rolled(q) = Rolled(p)
    <3> HIDE DEF b
    <3> QED BY <1>0, <2>1, StoreLemma
  <2> QED
    BY <1>1, <2>2 DEF OpStep, Refines, Mode, Settled
<1>2. CASE ~(p.stage \in {"NONE", "WORK"} /\ ~p.orphan)
  <2>1. b = Die(p)
    BY <1>2 DEF pmemobj_tx_begin
  <2>2. Good(b, Loc, Word) /\ b.stage = "DEAD"
    BY <2>1, DieLemma
  <2>3. q = b
    <3> HIDE DEF b
    <3> QED BY <1>0, <2>2, DeadLemma DEF Good
  <2> QED
    BY <2>1, <2>3, DieStep
<1> QED
  BY <1>1, <1>2


-----------------------------------------------------------------------------
(* The steps of the specification. *)

\* A step of an open pool that stays open: what OpStep says of it.
OpAction ==
    /\ ~closed
    /\ closed' = closed /\ created' = created
    /\ calls' \in Seq({"run", "manual"})
    /\ OpStep(pm, pm')

\* The brackets stay a sequence of brackets.
LEMMA CallsLemma ==
    ASSUME TypeOK
    PROVE  /\ \A b \in {"run", "manual"} : Append(calls, b) \in Seq({"run", "manual"})
           /\ calls # <<>> =>
                SubSeq(calls, 1, Len(calls) - 1) \in Seq({"run", "manual"})
<1>1. calls \in Seq({"run", "manual"}) /\ Len(calls) \in Nat
  BY DEF TypeOK
<1>2. calls # <<>> => Len(calls) - 1 \in 0..Len(calls)
  BY <1>1
<1> QED
  BY <1>1, <1>2

\* What handlers store is made of words.
LEMMA StoredLemma ==
    /\ Cell \subseteq Loc /\ {Root} \subseteq Loc
    /\ \A o \in Obj : Cells(o) \subseteq Loc
    /\ \A o \in Obj, prop \in Prop : {<<o, prop>>} \subseteq Loc
    /\ \A w \in Word : Everywhere(w) \in [Loc -> Word]
    /\ \A init \in Initial : Props(init) \in [Loc -> Word]
<1>1. /\ Cell \subseteq Loc /\ {Root} \subseteq Loc
      /\ \A o \in Obj : Cells(o) \subseteq Loc
      /\ \A o \in Obj, prop \in Prop : {<<o, prop>>} \subseteq Loc
  BY DEF Loc, Cell, Cells
<1>2. \A w \in Word : Everywhere(w) \in [Loc -> Word]
  BY DEF Everywhere
<1>3. ASSUME NEW init \in Initial
      PROVE  Props(init) \in [Loc -> Word]
  <2>1. PPTR_EMPTY \in Word /\ Val \subseteq Word
    BY DEF Word
  <2>2. ASSUME NEW l \in Cell
        PROVE  init[l[2]] \in Word
    <3>1. l[2] \in Prop
      BY DEF Cell
    <3> QED
      BY <2>1, <3>1 DEF Initial
  <2> QED
    BY <2>1, <2>2 DEF Props
<1> QED
  BY <1>1, <1>2, <1>3

LEMMA SteppingLemma ==
    ASSUME IInv, Next
    PROVE  OpAction \/ Create \/ CreateCrash \/ Open \/ Close \/ (Crash /\ closed) \/ Restart
<1> SUFFICES ASSUME ~(Create \/ CreateCrash \/ Open \/ Close \/ (Crash /\ closed) \/ Restart)
             PROVE  OpAction
  OBVIOUS
<1>1. ~closed => Good(pm, Loc, Word)
  BY DEF IInv, Good, TypeOK
<1>2. calls \in Seq({"run", "manual"})
  BY DEF IInv, TypeOK
<1>3. ASSUME Usable, Operates(pm'), OpStep(pm, pm')
      PROVE  OpAction
  BY <1>2, <1>3 DEF OpAction, Operates, Usable
<1>4. CASE Transaction
  <2>1. ~closed /\ pm' = pmemobj_tx_begin(pm) /\ calls' = Append(calls, "run")
        /\ closed' = closed /\ created' = created
    BY <1>4 DEF Transaction, Opens, MayOperate, Usable
  <2> QED
    BY <1>1, <2>1, BeginStep, CallsLemma DEF OpAction, IInv
<1>5. CASE TransactionReturns
  <2>1. /\ ~closed /\ closed' = closed /\ created' = created
        /\ calls' \in Seq({"run", "manual"})
    BY <1>5, CallsLemma DEF TransactionReturns, Inside, Leaves, Usable, IInv
  <2>2. CASE pm.stage = "WORK"
    BY <1>1, <1>5, <2>1, <2>2, CommitEndStep DEF TransactionReturns, OpAction
  <2>3. CASE pm.stage # "WORK"
    BY <1>1, <1>5, <2>1, <2>3, AbortStep DEF TransactionReturns, OpAction
  <2> QED
    BY <2>2, <2>3
<1>6. CASE TransactionThrows
  <2>1. /\ ~closed /\ closed' = closed /\ created' = created /\ pm' = pm
        /\ calls' \in Seq({"run", "manual"})
    BY <1>6, CallsLemma DEF TransactionThrows, Inside, Leaves, Usable, IInv
  <2> QED
    BY <1>1, <2>1, SameStep DEF OpAction
<1>7. CASE TxBegin
  <2>1. ~closed /\ pm' = pmemobj_tx_begin(pm) /\ calls' = Append(calls, "manual")
        /\ closed' = closed /\ created' = created
    BY <1>7 DEF TxBegin, Opens, MayOperate, Usable
  <2> QED
    BY <1>1, <2>1, BeginStep, CallsLemma DEF OpAction, IInv
<1>8. CASE TxCommit
  BY <1>1, <1>2, <1>8, CommitStep DEF TxCommit, Inside, Usable, OpAction
<1>9. CASE TxAbort
  BY <1>1, <1>2, <1>9, AbortStep DEF TxAbort, Inside, Usable, OpAction
<1>10. CASE TxEnd
  <2>1. /\ ~closed /\ closed' = closed /\ created' = created
        /\ calls' \in Seq({"run", "manual"}) /\ pm' = pmemobj_tx_end(pm)
    BY <1>10, CallsLemma DEF TxEnd, Inside, Leaves, Usable, IInv
  <2> QED
    BY <1>1, <2>1, EndStep DEF OpAction
<1>11. ASSUME NEW v \in Val, SetRoot(v)
       PROVE  OpAction
  <2>1. Everywhere(v) \in [Loc -> Word] /\ {Root} \in SUBSET Loc
    BY StoredLemma DEF Word
  <2>2. Usable /\ Operates(pm') /\ pm' = InTx(pm, {Root}, Everywhere(v))
    BY <1>11 DEF SetRoot, MayOperate, Operates, PMObjectPool_setRoot
  <2> QED
    BY <1>1, <1>3, <2>1, <2>2, InTxStep DEF Usable
<1>12. ASSUME NEW o \in Obj, SetRootTo(o)
       PROVE  OpAction
  <2>1. Everywhere(o) \in [Loc -> Word] /\ {Root} \in SUBSET Loc
    BY StoredLemma DEF Word
  <2>2. Usable /\ Operates(pm') /\ pm' = InTx(pm, {Root}, Everywhere(o))
    BY <1>12 DEF SetRootTo, MayOperate, Operates, PMObjectPool_setRoot
  <2> QED
    BY <1>1, <1>3, <2>1, <2>2, InTxStep DEF Usable
<1>13. ASSUME NEW o \in Obj, NEW init \in Initial, UnsupportedMember(o, init)
       PROVE  OpAction
  <2>1. Props(init) \in [Loc -> Word] /\ Cells(o) \in SUBSET Loc
    BY StoredLemma
  <2>2. /\ Usable /\ Operates(pm')
        /\ pm' = tx_store(tx_enter_context(pm), Cells(o), Props(init))
    BY <1>13 DEF UnsupportedMember, MayOperate, Operates
  <2> QED
    BY <1>1, <1>3, <2>1, <2>2, LeakStep DEF Usable
<1>14. ASSUME NEW o \in Obj, NEW init \in Initial, CreateObject(o, init)
       PROVE  OpAction
  <2>1. Props(init) \in [Loc -> Word] /\ Cells(o) \in SUBSET Loc
    BY StoredLemma
  <2>2. Usable /\ Operates(pm') /\ pm' = InTx(pm, Cells(o), Props(init))
    BY <1>14 DEF CreateObject, MayOperate, Operates, create_object
  <2> QED
    BY <1>1, <1>3, <2>1, <2>2, InTxStep DEF Usable
<1>15. ASSUME NEW o \in Obj, NEW init \in Initial, SetRootObject(o, init)
       PROVE  OpAction
  <2>1. /\ Props(init) \in [Loc -> Word] /\ Cells(o) \in SUBSET Loc
        /\ Everywhere(o) \in [Loc -> Word] /\ {Root} \in SUBSET Loc
    BY StoredLemma DEF Word
  <2>2. /\ Usable /\ Operates(pm')
        /\ pm' = InTx(InTx(pm, Cells(o), Props(init)), {Root}, Everywhere(o))
    BY <1>15 DEF SetRootObject, MayOperate, Operates, create_object, PMObjectPool_setRoot
  <2> QED
    BY <1>1, <1>3, <2>1, <2>2, InTxTwiceStep DEF Usable
<1>16. ASSUME NEW o \in Obj, NEW prop \in Prop, NEW v \in Val, SetProperty(o, prop, v)
       PROVE  OpAction
  <2>1. Everywhere(v) \in [Loc -> Word] /\ {<<o, prop>>} \in SUBSET Loc
    BY StoredLemma DEF Word
  <2>2. Usable /\ Operates(pm') /\ pm' = InTx(pm, {<<o, prop>>}, Everywhere(v))
    BY <1>16 DEF SetProperty, MayOperate, Operates
  <2> QED
    BY <1>1, <1>3, <2>1, <2>2, InTxStep DEF Usable
<1>17. ASSUME NEW o \in Obj, NEW prop \in Prop, GetProperty(o, prop)
       PROVE  OpAction
  <2>1. Usable /\ Operates(pm') /\ (pm' = tx_abort_context(pm) \/ pm' = pm)
    BY <1>17 DEF GetProperty, Operates, resurrect
  <2> QED
    BY <1>1, <1>3, <2>1, AbortContextStep, SameStep DEF Usable
<1>18. CASE GetRoot
  <2>1. Usable /\ Operates(pm') /\ (pm' = Die(pm) \/ pm' = pm)
    BY <1>18 DEF GetRoot, Operates
  <2> QED
    BY <1>1, <1>3, <2>1, DieStep, SameStep DEF Usable
<1>19. ASSUME NEW j \in 0..4, AllocationFails(j)
       PROVE  OpAction
  <2>1. /\ Usable /\ Operates(pm') /\ j \in Nat
        /\ pm' = tx_abort_context(alloc_fails(EnterN(pm, j)))
    BY <1>19 DEF AllocationFails, MayOperate, Operates
  <2> QED
    BY <1>1, <1>3, <2>1, AllocationFailsStep DEF Usable
<1>20. CASE Crash /\ ~closed
  <2>1. Usable /\ Operates(pm') /\ pm' = Die(pm)
    BY <1>20 DEF Crash, Operates, Usable
  <2> QED
    BY <1>1, <1>3, <2>1, DieStep DEF Usable
<1>21. ASSUME NEW o \in Obj, NEW init \in Initial, NEW j \in 1..4,
              ConstructionFails(j, o, init)
       PROVE  OpAction
  <2>1. Props(init) \in [Loc -> Word] /\ Cells(o) \in SUBSET Loc
    BY StoredLemma
  <2>2. /\ Usable /\ Operates(pm') /\ j \in Nat /\ j # 0
        /\ pm' = tx_abort_context(alloc_fails(
                     tx_store(EnterN(pm, j), Cells(o), Props(init))))
    BY <1>21 DEF ConstructionFails, MayOperate, Operates
  <2> QED
    BY <1>1, <1>3, <2>1, <2>2, ConstructionFailsStep DEF Usable
<1> QED
  BY <1>4, <1>5, <1>6, <1>7, <1>8, <1>9, <1>10, <1>11, <1>12, <1>13, <1>14,
     <1>15, <1>16, <1>17, <1>18, <1>19, <1>20, <1>21 DEF Next

\* In a closed pool the store is idle and shows what recovery would restore.
\* So it is, at every step, in one of the states of TxStore.
LEMMA ImageLemma ==
    ASSUME NEW p \in TxState(Loc, Word)
    PROVE  Rolled(p) \in [Loc -> Word] /\ Seen(p) \in [Loc -> Word]
  BY FieldLemma DEF Seen

LEMMA OpActionLemma ==
    ASSUME IInv, OpAction
    PROVE  IInv' /\ Store!Next
<1>1. Good(pm', Loc, Word) /\ Refines(pm, pm') /\ ~closed /\ ~closed'
  BY DEF OpAction, OpStep
<1>2. IInv'
  BY <1>1 DEF IInv, TypeOK, NothingBefore, OpAction, Good
<1>3. Seen(pm') \in [Loc -> Word]
  BY <1>1, ImageLemma DEF Good
<1>4. Store!Next
  BY <1>1, <1>3 DEF Refines, Store!Next, Store!Autocommit, Store!Work,
                    Store!Commit, Store!Rollback
<1> QED
  BY <1>2, <1>4

LEMMA CreateLemma ==
    ASSUME IInv, Create
    PROVE  IInv' /\ Store!Next
<1>1. /\ pm.stage = "NONE" /\ ~pm.orphan /\ closed /\ ~closed'
      /\ pm' = InTx(pm, {Root}, Everywhere(PPTR_UNDEFINED))
      /\ created' /\ calls' = calls
  BY DEF IInv, NothingBefore, Create, PMObjectPool_setRoot
<1>2. Good(pm, Loc, Word)
  BY DEF Create, IInv, TypeOK, NothingBefore, Good, Clean
<1>3. NoSnap \notin Word /\ PPTR_UNDEFINED \in Word
  BY WordAssumption DEF Word
<1>4. Everywhere(PPTR_UNDEFINED) \in [Loc -> Word] /\ {Root} \in SUBSET Loc
  BY <1>3, StoredLemma
<1>5. /\ Good(pm', Loc, Word) /\ pm'.stage = "NONE" /\ Rolled(pm') = pm'.mem
  BY <1>1, <1>2, <1>3, <1>4, InTxLemma
<1>6. IInv'
  BY <1>1, <1>5 DEF IInv, TypeOK, NothingBefore, Create, Good
<1>7. Mode(pm') = "idle" /\ Rolled(pm') = Seen(pm') /\ Seen(pm') \in [Loc -> Word]
  BY <1>5, ImageLemma DEF Mode, Settled, Seen, Good
<1>8. Store!Autocommit
  BY <1>1, <1>7 DEF Store!Autocommit
<1> QED
  BY <1>6, <1>8 DEF Store!Next

\* The end of the process while no pool is open.
LEMMA ClosedCrashLemma ==
    ASSUME IInv, closed, CreateCrash \/ Crash
    PROVE  IInv' /\ UNCHANGED Store!vars
<1>1. /\ pm' = Die(pm) /\ closed' = closed /\ calls' = calls
      /\ created' = created \/ created'
      /\ created' \in BOOLEAN
  BY DEF CreateCrash, Crash, Operates, IInv, TypeOK
<1>2. /\ pm' \in TxState(Loc, Word) /\ pm'.stage = "DEAD"
      /\ pm'.depth = pm.depth /\ pm'.orphan = pm.orphan
      /\ pm'.undo = pm.undo
      /\ Rolled(pm') = Rolled(pm) /\ NoUndo(pm') = NoUndo(pm)
  BY <1>1, DieFieldsLemma DEF IInv, TypeOK
<1>3. IInv'
  BY <1>1, <1>2 DEF IInv, TypeOK, NothingBefore, Shape
<1> QED
  BY <1>1, <1>2, <1>3 DEF Store!vars

LEMMA OpenStep ==
    ASSUME IInv, Open
    PROVE  IInv' /\ UNCHANGED Store!vars
<1>1. /\ pm' = pmemobj_open(pm) /\ pm.stage # "DEAD" /\ closed /\ ~closed'
      /\ created /\ created' = created /\ calls' = calls
      /\ closed' \in BOOLEAN
  BY DEF Open
<1>2. /\ Good(pm', Loc, Word) /\ pm'.stage = pm.stage
      /\ pm'.mem = Rolled(pm) /\ Rolled(pm') = Rolled(pm) /\ Settled(pm')
  BY <1>1, OpenLemma DEF IInv, TypeOK
<1>3. IInv'
  BY <1>1, <1>2 DEF IInv, TypeOK, NothingBefore, Good
<1>4. Seen(pm') = Rolled(pm) /\ Mode(pm') = "idle"
  BY <1>1, <1>2 DEF Seen, Mode
<1> QED
  BY <1>1, <1>2, <1>3, <1>4 DEF Store!vars

LEMMA CloseStep ==
    ASSUME IInv, Close
    PROVE  IInv' /\ (Store!Next \/ UNCHANGED Store!vars)
<1>1. /\ pm' = pm /\ ~closed /\ closed' = TRUE /\ created' = created
      /\ calls' = calls
  BY DEF Close, Usable
<1>2. IInv'
  BY <1>1 DEF IInv, TypeOK, NothingBefore
<1>3. CASE Mode(pm) = "idle"
  <2>1. Rolled(pm) = Seen(pm)
    BY <1>1, <1>3, SettledLemma DEF IInv, TypeOK, Good
  <2> QED
    BY <1>1, <1>2, <1>3, <2>1 DEF Store!vars
<1>4. CASE Mode(pm) # "idle"
  <2>1. Store!Rollback
    BY <1>1, <1>4 DEF Store!Rollback
  <2> QED
    BY <1>2, <2>1 DEF Store!Next
<1> QED
  BY <1>3, <1>4

LEMMA RestartStep ==
    ASSUME IInv, Restart
    PROVE  IInv' /\ UNCHANGED Store!vars
<1>1. /\ pm' = NewProcess(pm) /\ pm.stage = "DEAD" /\ closed' = TRUE
      /\ created' = created /\ calls' = <<>>
  BY DEF Restart
<1>2. /\ pm' \in TxState(Loc, Word) /\ Shape(pm')
      /\ pm'.stage = "NONE" /\ pm'.depth = 0 /\ ~pm'.orphan
      /\ pm'.undo = pm.undo
      /\ Rolled(pm') = Rolled(pm) /\ NoUndo(pm') = NoUndo(pm)
  BY <1>1, NewProcessLemma DEF IInv, TypeOK
<1>3. calls' \in Seq({"run", "manual"})
  BY <1>1
<1>4. IInv'
  BY <1>1, <1>2, <1>3 DEF IInv, TypeOK, NothingBefore
<1>5. Seen(pm) = Rolled(pm) /\ Mode(pm) = "idle"
  BY <1>1 DEF Seen, Mode
<1> QED
  BY <1>1, <1>2, <1>4, <1>5 DEF Store!vars

LEMMA InitLemma ==
    ASSUME Init
    PROVE  IInv /\ Store!Init
<1> DEFINE image == [l \in Loc |-> IF l = Root THEN PPTR_NULL ELSE UNALLOCATED]
<1>1. image \in [Loc -> Word]
  BY DEF Word
<1>2. /\ pm.stage = "NONE" /\ pm.depth = 0 /\ ~pm.orphan
      /\ pm.mem = image /\ pm.undo = [l \in Loc |-> NoSnap]
      /\ pm = [stage |-> "NONE", depth |-> 0, mem |-> image,
               undo |-> [l \in Loc |-> NoSnap], orphan |-> FALSE]
  BY DEF Init, Idle
<1>3. pm \in TxState(Loc, Word)
  <2> HIDE DEF image
  <2>1. [l \in Loc |-> NoSnap] \in [Loc -> Word \cup {NoSnap}]
    OBVIOUS
  <2> QED
    BY <1>1, <1>2, <2>1 DEF TxState, Stages
<1>4. pm.undo = NoUndo(pm)
  BY <1>2 DEF NoUndo
<1>5. TypeOK
  <2>1. calls = <<>> /\ created = FALSE /\ closed = TRUE
    BY DEF Init
  <2>2. calls \in Seq({"run", "manual"})
    BY <2>1
  <2> QED
    BY <1>3, <2>1, <2>2 DEF TypeOK
<1>6. IInv
  BY <1>2, <1>4, <1>5 DEF IInv, Shape, NothingBefore, Init
<1>7. Rolled(pm) \in [Loc -> Word] /\ closed
  BY <1>3, ImageLemma DEF Init
<1>8. Store!Init
  BY <1>7 DEF Store!Init
<1> QED
  BY <1>6, <1>8

\* Every step keeps the invariant and implements a step of the store, or none.
LEMMA StepLemma ==
    ASSUME IInv, [Next]_vars
    PROVE  IInv' /\ [Store!Next]_(Store!vars)
<1>1. CASE UNCHANGED vars
  BY <1>1 DEF vars, IInv, TypeOK, NothingBefore, Store!vars
<1>2. CASE Next
  <2>1. \/ OpAction \/ Create \/ CreateCrash \/ Open \/ Close
        \/ (Crash /\ closed) \/ Restart
    BY <1>2, SteppingLemma
  <2>2. CreateCrash => closed
    BY DEF CreateCrash
  <2> QED
    BY <2>1, <2>2, OpActionLemma, CreateLemma, ClosedCrashLemma, OpenStep,
       CloseStep, RestartStep
<1> QED
  BY <1>1, <1>2

\* IInv is an invariant of the pool, whatever the client does.
THEOREM Invariance == Spec => []IInv
<1>1. Init => IInv
  BY InitLemma
<1>2. IInv /\ [Next]_vars => IInv'
  BY StepLemma
<1> QED
  BY <1>1, <1>2, PTL DEF Spec

\* TypeOK: the nesting of the library's transactions is a number of levels and
\* memory holds words, through every operation, exception path and crash.
THEOREM TypeCorrect == Spec => []TypeOK
<1>1. IInv => TypeOK
  BY DEF IInv
<1> QED
  BY <1>1, Invariance, PTL

\* DurableOutsideTx: in an open pool outside transactions what the program
\* sees is what a crash would leave (MM_TX_BEGIN, MM_TX_END and the catch
\* blocks of the program never leave an undo log behind).
THEOREM Durable == Spec => []DurableOutsideTx
<1>1. IInv => DurableOutsideTx
  BY FieldLemma DEF IInv, TypeOK, Clean, DurableOutsideTx, Usable
<1> QED
  BY <1>1, Invariance, PTL

\* ImplementsTxStore: transaction(), the tx_* calls and every operation make
\* of the pool the transactional store of the API document.
THEOREM Refinement == Spec => ImplementsTxStore
<1>1. Init => Store!Init
  BY InitLemma
<1>2. IInv /\ [Next]_vars => [Store!Next]_(Store!vars)
  BY StepLemma
<1> QED
  BY <1>1, <1>2, Invariance, PTL DEF Spec, ImplementsTxStore, Store!Spec

-----------------------------------------------------------------------------
(***************************************************************************)
(* The root of a pool never dangles, in any image of the memory: neither   *)
(* in the one the program sees nor in the one recovery would restore.      *)
(*                                                                         *)
(* Images(p) are these two.  The operations of the library only make one   *)
(* image out of the other, so all that has to be looked at is the image a  *)
(* handler builds by its stores (Put).                                     *)
(***************************************************************************)

Images(p) == {p.mem, Rolled(p)}

\* q shows no image that p did not have, except those in M.
Shows(p, q, M) == Images(q) \subseteq Images(p) \cup M

\* The objects' cells are not the root, and hold words of allocated objects.
LEMMA CellLemma ==
    /\ \A o \in Obj : Cells(o) \subseteq Cell
    /\ Root \notin Cell /\ Cell \subseteq Loc /\ Root \in Loc
    /\ PPTR_EMPTY \in Word \ {UNALLOCATED}
    /\ Val \subseteq Word \ {UNALLOCATED}
    /\ Obj \subseteq Word \ {UNALLOCATED}
    /\ PPTR_UNDEFINED \notin Obj /\ PPTR_NULL \notin Obj /\ Val \cap Obj = {}
  BY LocAssumption, WordAssumption DEF Cells, Cell, Loc, Word

\* Storing words in cells leaves the root where it was and frees no object.
LEMMA PutCellsLemma ==
    ASSUME NEW m \in [Loc -> Word], RootRefersToObject(m),
           NEW S \in SUBSET Cell, NEW f, \A l \in Cell : f[l] # UNALLOCATED
    PROVE  RootRefersToObject(Put(m, S, f, Loc))
<1> DEFINE q == Put(m, S, f, Loc)
<1>1. q[Root] = m[Root]
  BY CellLemma DEF Put
<1>2. ASSUME NEW o \in Obj, Allocated(m, o)
      PROVE  Allocated(q, o)
  <2> SUFFICES ASSUME NEW c \in Cells(o)
               PROVE  q[c] # UNALLOCATED
    BY DEF Allocated
  <2>1. c \in Cell /\ c \in Loc
    BY CellLemma
  <2>2. m[c] # UNALLOCATED
    BY <1>2 DEF Allocated
  <2> QED
    BY <2>1, <2>2 DEF Put
<1> QED
  BY <1>1, <1>2 DEF RootRefersToObject

\* A root is set to a value, or to an object that is there.
LEMMA PutRootLemma ==
    ASSUME NEW m \in [Loc -> Word], NEW w, w \in Obj => Allocated(m, w)
    PROVE  RootRefersToObject(Put(m, {Root}, Everywhere(w), Loc))
<1> DEFINE q == Put(m, {Root}, Everywhere(w), Loc)
<1>1. q[Root] = w
  BY CellLemma DEF Put, Everywhere
<1>2. ASSUME NEW o \in Obj, Allocated(m, o)
      PROVE  Allocated(q, o)
  <2> SUFFICES ASSUME NEW c \in Cells(o)
               PROVE  q[c] # UNALLOCATED
    BY DEF Allocated
  <2>1. c \in Loc /\ c # Root
    BY CellLemma
  <2>2. m[c] # UNALLOCATED
    BY <1>2 DEF Allocated
  <2> QED
    BY <2>1, <2>2 DEF Put
<1> QED
  BY <1>1, <1>2 DEF RootRefersToObject

\* What a constructor stores is what create_object allocates.
LEMMA PropsLemma ==
    ASSUME NEW init \in Initial
    PROVE  /\ Props(init) \in [Loc -> Word]
           /\ \A l \in Cell : Props(init)[l] # UNALLOCATED
<1>1. ASSUME NEW l \in Cell
      PROVE  Props(init)[l] # UNALLOCATED
  <2>1. l[2] \in Prop /\ l \in Loc
    BY CellLemma DEF Cell
  <2>2. init[l[2]] \in Val \cup {PPTR_EMPTY}
    BY <2>1 DEF Initial
  <2> QED
    BY <2>1, <2>2, CellLemma DEF Props
<1> QED
  BY <1>1, StoredLemma

-----------------------------------------------------------------------------
(* The images of each operation. *)

LEMMA InTxShows ==
    ASSUME NEW p, Good(p, Loc, Word), NEW S \in SUBSET Loc,
           NEW f \in [Loc -> Word], NEW q, q = InTx(p, S, f)
    PROVE  /\ Good(q, Loc, Word)
           /\ Shows(p, q, {Put(p.mem, S, f, Loc)})
           /\ q.stage # "DEAD" => q.mem = Put(p.mem, S, f, Loc)
<1>0. NoSnap \notin Word
  BY WordAssumption
<1>1. CASE p.stage = "NONE" /\ ~p.orphan
  <2>1. /\ Good(q, Loc, Word) /\ q.mem = Put(p.mem, S, f, Loc)
        /\ Rolled(q) = q.mem
    BY <1>0, <1>1, InTxLemma
  <2> QED
    BY <2>1 DEF Shows, Images
<1>2. CASE p.stage = "WORK" /\ ~p.orphan
  <2>1. /\ Good(q, Loc, Word) /\ q.mem = Put(p.mem, S, f, Loc)
        /\ Rolled(q) = Rolled(p)
    BY <1>0, <1>2, InTxLemma
  <2> QED
    BY <2>1 DEF Shows, Images
<1>3. CASE p.stage \notin {"NONE", "WORK"} \/ p.orphan
  <2>1. q = Die(p)
    BY <1>0, <1>3, InTxLemma
  <2>2. /\ Good(q, Loc, Word) /\ q.stage = "DEAD"
        /\ q.mem = p.mem /\ Rolled(q) = Rolled(p)
    BY <2>1, DieLemma
  <2> QED
    BY <2>2 DEF Shows, Images
<1> QED
  BY <1>1, <1>2, <1>3

LEMMA DieShows ==
    ASSUME NEW p \in TxState(Loc, Word)
    PROVE  Shows(p, Die(p), {})
  BY DieFieldsLemma DEF Shows, Images

LEMMA BeginShows ==
    ASSUME NEW p, Good(p, Loc, Word), NEW q, q = pmemobj_tx_begin(p)
    PROVE  Shows(p, q, {})
<1>1. CASE p.stage \in {"NONE", "WORK"} /\ ~p.orphan
  BY <1>1, BeginLemma DEF Shows, Images
<1>2. CASE ~(p.stage \in {"NONE", "WORK"} /\ ~p.orphan)
  <2>1. q = Die(p)
    BY <1>2 DEF pmemobj_tx_begin
  <2> QED
    BY <2>1, DieShows DEF Good
<1> QED
  BY <1>1, <1>2

LEMMA CommitShows ==
    ASSUME NEW p, Good(p, Loc, Word), NEW q, q = pmemobj_tx_commit(p)
    PROVE  Good(q, Loc, Word) /\ Shows(p, q, {})
<1>1. CASE p.stage = "WORK" /\ ~p.orphan
  BY <1>1, CommitLemma DEF Shows, Images
<1>2. CASE ~(p.stage = "WORK" /\ ~p.orphan)
  <2>1. q = Die(p)
    BY <1>2 DEF pmemobj_tx_commit
  <2> QED
    BY <2>1, DieShows, DieLemma DEF Good
<1> QED
  BY <1>1, <1>2

LEMMA AbortShows ==
    ASSUME NEW p, Good(p, Loc, Word), NEW q, q = pmemobj_tx_abort(p)
    PROVE  Shows(p, q, {})
<1>1. CASE p.stage = "WORK" /\ ~p.orphan
  BY <1>1, AbortLemma DEF Shows, Images
<1>2. CASE ~(p.stage = "WORK" /\ ~p.orphan)
  <2>1. q = Die(p)
    BY <1>2 DEF pmemobj_tx_abort
  <2> QED
    BY <2>1, DieShows DEF Good
<1> QED
  BY <1>1, <1>2

LEMMA EndShows ==
    ASSUME NEW p, Good(p, Loc, Word), NEW q, q = pmemobj_tx_end(p)
    PROVE  Shows(p, q, {})
<1>1. CASE p.stage \in {"ONCOMMIT", "ONABORT"} /\ ~p.orphan
  BY <1>1, EndLemma DEF Shows, Images
<1>2. CASE ~(p.stage \in {"ONCOMMIT", "ONABORT"} /\ ~p.orphan)
  <2>1. q = Die(p)
    BY <1>2 DEF pmemobj_tx_end
  <2> QED
    BY <2>1, DieShows DEF Good
<1> QED
  BY <1>1, <1>2

LEMMA AbortContextShows ==
    ASSUME NEW p, Good(p, Loc, Word), NEW q, q = tx_abort_context(p)
    PROVE  Shows(p, q, {})
<1>1. CASE p.stage # "WORK"
  BY <1>1, AbortContextLemma DEF Shows, Images
<1>2. CASE p.stage = "WORK" /\ p.orphan
  BY <1>2, AbortContextLemma, DieShows DEF Good
<1>3. CASE p.stage = "WORK" /\ ~p.orphan
  BY <1>3, AbortContextLemma DEF Shows, Images
<1> QED
  BY <1>1, <1>2, <1>3

LEMMA AllocationFailsShows ==
    ASSUME NEW p, Good(p, Loc, Word), NEW j \in Nat,
           NEW q, q = tx_abort_context(alloc_fails(EnterN(p, j)))
    PROVE  Shows(p, q, {})
<1>1. \/ q = p
      \/ q = Die(p)
      \/ Rolled(q) = Rolled(p) /\ q.mem \in {p.mem, Rolled(p)}
  BY AllocationFailsLemma
<1> QED
  BY <1>1, DieShows DEF Shows, Images, Good

LEMMA LeakShows ==
    ASSUME NEW p, Good(p, Loc, Word), NEW S \in SUBSET Loc,
           NEW f \in [Loc -> Word],
           NEW q, q = tx_store(tx_enter_context(p), S, f)
    PROVE  Shows(p, q, {Put(p.mem, S, f, Loc)})
<1> DEFINE b == pmemobj_tx_begin(p)
<1>0. NoSnap \notin Word /\ q = tx_store(b, S, f)
  BY WordAssumption DEF tx_enter_context
<1>1. CASE p.stage \in {"NONE", "WORK"} /\ ~p.orphan
  <2>1. /\ Good(b, Loc, Word) /\ b.stage = "WORK" /\ ~b.orphan
        /\ b.mem = p.mem /\ Rolled(b) = Rolled(p)
    BY <1>1, BeginLemma
  <2>2. q.mem = Put(p.mem, S, f, Loc) /\ Rolled(q) = Rolled(p)
    <3> HIDE DEF b
    <3> QED BY <1>0, <2>1, StoreLemma
  <2> QED
    BY <2>2 DEF Shows, Images
<1>2. CASE ~(p.stage \in {"NONE", "WORK"} /\ ~p.orphan)
  <2>1. b = Die(p)
    BY <1>2 DEF pmemobj_tx_begin
  <2>2. Good(b, Loc, Word) /\ b.stage = "DEAD"
    BY <2>1, DieLemma
  <2>3. q = b
    <3> HIDE DEF b
    <3> QED BY <1>0, <2>2, DeadLemma DEF Good
  <2> QED
    BY <2>1, <2>3, DieShows DEF Good, Shows
<1> QED
  BY <1>1, <1>2

LEMMA ConstructionFailsShows ==
    ASSUME NEW p, Good(p, Loc, Word), NEW j \in Nat, j # 0,
           NEW S \in SUBSET Loc, NEW f \in [Loc -> Word],
           NEW q, q = tx_abort_context(alloc_fails(tx_store(EnterN(p, j), S, f)))
    PROVE  Shows(p, q, {Put(p.mem, S, f, Loc)})
<1>1. \/ q = Die(p)
      \/ Rolled(q) = Rolled(p) /\ q.mem \in {Put(p.mem, S, f, Loc), Rolled(p)}
  BY ConstructionFailsLemma, WordAssumption
<1> QED
  BY <1>1, DieShows DEF Shows, Images, Good

-----------------------------------------------------------------------------
(* The steps. *)

\* The root dangles in none of the images of p.
Rooted(p) == \A image \in Images(p) : RootRefersToObject(image)

\* A step that shows only images whose root does not dangle.
LEMMA ShowsLemma ==
    ASSUME NEW p, NEW q, NEW M, Rooted(p), Shows(p, q, M),
           \A image \in M : RootRefersToObject(image)
    PROVE  Rooted(q)
  BY DEF Rooted, Shows

LEMMA RootLemma ==
    ASSUME IInv, Rooted(pm), Next
    PROVE  Rooted(pm')
<1>1. ~closed => Good(pm, Loc, Word)
  BY DEF IInv, Good, TypeOK
<1>2. pm \in TxState(Loc, Word) /\ pm.mem \in [Loc -> Word]
  BY FieldLemma DEF IInv, TypeOK
<1>3. RootRefersToObject(pm.mem)
  BY DEF Rooted, Images
<1>4. ASSUME Shows(pm, pm', {})
      PROVE  Rooted(pm')
  BY <1>4, ShowsLemma
\* pool.root = w
<1>5. ASSUME NEW w \in Word, Good(pm, Loc, Word), w \in Obj => Allocated(pm.mem, w),
             pm' = InTx(pm, {Root}, Everywhere(w))
      PROVE  Rooted(pm')
  <2>1. {Root} \in SUBSET Loc /\ Everywhere(w) \in [Loc -> Word]
    BY StoredLemma
  <2>2. Shows(pm, pm', {Put(pm.mem, {Root}, Everywhere(w), Loc)})
    BY <1>5, <2>1, InTxShows
  <2>3. RootRefersToObject(Put(pm.mem, {Root}, Everywhere(w), Loc))
    BY <1>2, <1>5, PutRootLemma
  <2> QED
    BY <2>2, <2>3, ShowsLemma
<1>6. CASE Create
  <2>1. /\ Good(pm, Loc, Word)
        /\ pm' = InTx(pm, {Root}, Everywhere(PPTR_UNDEFINED))
    BY <1>6 DEF Create, PMObjectPool_setRoot, IInv, TypeOK, NothingBefore, Good, Clean
  <2>2. PPTR_UNDEFINED \in Word /\ PPTR_UNDEFINED \notin Obj
    BY CellLemma DEF Word
  <2> QED
    BY <1>5, <2>1, <2>2
<1>7. CASE CreateCrash \/ Crash
  <2>1. pm' = Die(pm)
    BY <1>7 DEF CreateCrash, Crash, Operates
  <2> QED
    BY <1>2, <1>4, <2>1, DieShows
<1>8. CASE Open
  <2>1. pm' = pmemobj_open(pm) /\ pm.stage # "DEAD"
    BY <1>8 DEF Open
  <2>2. pm'.mem = Rolled(pm) /\ Rolled(pm') = Rolled(pm)
    BY <1>2, <2>1, OpenLemma DEF IInv
  <2> QED
    BY <1>4, <2>2 DEF Shows, Images
<1>9. CASE Close \/ TransactionThrows
  BY <1>9 DEF Close, TransactionThrows
<1>10. CASE Transaction \/ TxBegin
  <2>1. pm' = pmemobj_tx_begin(pm) /\ ~closed
    BY <1>10 DEF Transaction, TxBegin, Opens, MayOperate, Usable
  <2> QED
    BY <1>1, <1>4, <2>1, BeginShows
<1>11. CASE TransactionReturns
  <2>1. CASE pm.stage = "WORK"
    <3> DEFINE c == pmemobj_tx_commit(pm)
    <3>1. Good(pm, Loc, Word) /\ pm' = pmemobj_tx_end(c)
      BY <1>1, <1>11, <2>1 DEF TransactionReturns, Inside, Usable
    <3>2. Good(c, Loc, Word) /\ Shows(pm, c, {})
      BY <3>1, CommitShows
    <3>3. Shows(c, pm', {})
      <4> HIDE DEF c
      <4> QED BY <3>1, <3>2, EndShows
    <3> QED
      BY <1>4, <3>2, <3>3 DEF Shows
  <2>2. CASE pm.stage # "WORK"
    BY <1>1, <1>4, <1>11, <2>2, AbortShows DEF TransactionReturns, Inside, Usable
  <2> QED
    BY <2>1, <2>2
<1>12. CASE TxCommit
  BY <1>1, <1>4, <1>12, CommitShows DEF TxCommit, Inside, Usable
<1>13. CASE TxAbort
  BY <1>1, <1>4, <1>13, AbortShows DEF TxAbort, Inside, Usable
<1>14. CASE TxEnd
  BY <1>1, <1>4, <1>14, EndShows DEF TxEnd, Inside, Usable
<1>15. ASSUME NEW v \in Val, SetRoot(v)
       PROVE  Rooted(pm')
  <2>1. v \in Word /\ v \notin Obj
    BY CellLemma
  <2>2. ~closed /\ pm' = InTx(pm, {Root}, Everywhere(v))
    BY <1>15 DEF SetRoot, MayOperate, Usable, Operates, PMObjectPool_setRoot
  <2> QED
    BY <1>1, <1>5, <2>1, <2>2
<1>16. ASSUME NEW o \in Obj, SetRootTo(o)
       PROVE  Rooted(pm')
  <2>1. o \in Word
    BY CellLemma
  <2>2. ~closed /\ Allocated(pm.mem, o) /\ pm' = InTx(pm, {Root}, Everywhere(o))
    BY <1>16 DEF SetRootTo, MayOperate, Usable, Operates, PMObjectPool_setRoot
  <2> QED
    BY <1>1, <1>5, <2>1, <2>2
<1>17. ASSUME NEW o \in Obj, NEW init \in Initial, UnsupportedMember(o, init)
       PROVE  Rooted(pm')
  <2> DEFINE f == Props(init)
  <2>1. /\ ~closed /\ pm' = tx_store(tx_enter_context(pm), Cells(o), f)
    BY <1>17 DEF UnsupportedMember, MayOperate, Usable, Operates
  <2>2. /\ Cells(o) \in SUBSET Loc /\ Cells(o) \in SUBSET Cell
        /\ f \in [Loc -> Word] /\ \A l \in Cell : f[l] # UNALLOCATED
    BY StoredLemma, CellLemma, PropsLemma
  <2> HIDE DEF f
  <2>3. Shows(pm, pm', {Put(pm.mem, Cells(o), f, Loc)})
    BY <1>1, <2>1, <2>2, LeakShows
  <2>4. RootRefersToObject(Put(pm.mem, Cells(o), f, Loc))
    BY <1>2, <1>3, <2>2, PutCellsLemma
  <2> QED
    BY <2>3, <2>4, ShowsLemma
<1>18. ASSUME NEW o \in Obj, NEW init \in Initial, CreateObject(o, init)
       PROVE  Rooted(pm')
  <2> DEFINE f == Props(init)
  <2>1. ~closed /\ pm' = InTx(pm, Cells(o), f)
    BY <1>18 DEF CreateObject, MayOperate, Usable, Operates, create_object
  <2>2. /\ Cells(o) \in SUBSET Loc /\ Cells(o) \in SUBSET Cell
        /\ f \in [Loc -> Word] /\ \A l \in Cell : f[l] # UNALLOCATED
    BY StoredLemma, CellLemma, PropsLemma
  <2> HIDE DEF f
  <2>3. Shows(pm, pm', {Put(pm.mem, Cells(o), f, Loc)})
    BY <1>1, <2>1, <2>2, InTxShows
  <2>4. RootRefersToObject(Put(pm.mem, Cells(o), f, Loc))
    BY <1>2, <1>3, <2>2, PutCellsLemma
  <2> QED
    BY <2>3, <2>4, ShowsLemma
<1>19. ASSUME NEW o \in Obj, NEW init \in Initial, SetRootObject(o, init)
       PROVE  Rooted(pm')
  <2> DEFINE f == Props(init)
  <2> DEFINE r == InTx(pm, Cells(o), f)
  <2>1. ~closed /\ pm' = InTx(r, {Root}, Everywhere(o))
    BY <1>19 DEF SetRootObject, MayOperate, Usable, Operates, create_object,
                 PMObjectPool_setRoot
  <2>2. /\ Cells(o) \in SUBSET Loc /\ Cells(o) \in SUBSET Cell
        /\ f \in [Loc -> Word] /\ \A l \in Cell : f[l] # UNALLOCATED
        /\ {Root} \in SUBSET Loc /\ Everywhere(o) \in [Loc -> Word]
    BY StoredLemma, CellLemma, PropsLemma
  <2> HIDE DEF f
  <2>3. /\ Good(r, Loc, Word)
        /\ Shows(pm, r, {Put(pm.mem, Cells(o), f, Loc)})
        /\ r.stage # "DEAD" => r.mem = Put(pm.mem, Cells(o), f, Loc)
    BY <1>1, <2>1, <2>2, InTxShows
  <2>4. RootRefersToObject(Put(pm.mem, Cells(o), f, Loc))
    BY <1>2, <1>3, <2>2, PutCellsLemma
  <2> HIDE DEF r
  <2>5. Rooted(r)
    BY <2>3, <2>4, ShowsLemma
  <2>6. CASE r.stage = "DEAD"
    <3>1. pm' = Die(r)
      BY <2>1, <2>2, <2>3, <2>6, InTxLemma, WordAssumption
    <3> QED
      BY <2>3, <2>5, <3>1, DieShows, ShowsLemma DEF Good
  <2>7. CASE r.stage # "DEAD"
    <3>1. Allocated(r.mem, o)
      <4> SUFFICES ASSUME NEW c \in Cells(o)
                   PROVE  r.mem[c] # UNALLOCATED
        BY DEF Allocated
      <4>1. r.mem = Put(pm.mem, Cells(o), f, Loc) /\ c \in Loc /\ c \in Cell
        BY <2>2, <2>3, <2>7
      <4> QED
        BY <2>2, <4>1 DEF Put
    <3>2. r.mem \in [Loc -> Word]
      BY <2>3, FieldLemma DEF Good
    <3>3. Shows(r, pm', {Put(r.mem, {Root}, Everywhere(o), Loc)})
      BY <2>1, <2>2, <2>3, InTxShows
    <3>4. RootRefersToObject(Put(r.mem, {Root}, Everywhere(o), Loc))
      BY <3>1, <3>2, PutRootLemma
    <3> QED
      BY <2>5, <3>3, <3>4, ShowsLemma
  <2> QED
    BY <2>6, <2>7
<1>20. ASSUME NEW o \in Obj, NEW prop \in Prop, NEW v \in Val, SetProperty(o, prop, v)
       PROVE  Rooted(pm')
  <2> DEFINE S == {<<o, prop>>}
  <2> DEFINE f == Everywhere(v)
  <2>1. ~closed /\ pm' = InTx(pm, S, f)
    BY <1>20 DEF SetProperty, MayOperate, Usable, Operates
  <2>2. /\ S \in SUBSET Loc /\ S \in SUBSET Cell
        /\ f \in [Loc -> Word] /\ \A l \in Cell : f[l] # UNALLOCATED
    BY StoredLemma, CellLemma DEF Everywhere, Cell
  <2> HIDE DEF S, f
  <2>3. Shows(pm, pm', {Put(pm.mem, S, f, Loc)})
    BY <1>1, <2>1, <2>2, InTxShows
  <2>4. RootRefersToObject(Put(pm.mem, S, f, Loc))
    BY <1>2, <1>3, <2>2, PutCellsLemma
  <2> QED
    BY <2>3, <2>4, ShowsLemma
<1>21. ASSUME NEW o \in Obj, NEW prop \in Prop, GetProperty(o, prop)
       PROVE  Rooted(pm')
  <2>1. ~closed /\ (pm' = tx_abort_context(pm) \/ pm' = pm)
    BY <1>21 DEF GetProperty, Usable, Operates, resurrect
  <2> QED
    BY <1>1, <1>4, <2>1, AbortContextShows
<1>22. CASE GetRoot
  <2>1. pm' = Die(pm) \/ pm' = pm
    BY <1>22 DEF GetRoot, Operates
  <2> QED
    BY <1>2, <1>4, <2>1, DieShows
<1>23. ASSUME NEW j \in 0..4, AllocationFails(j)
       PROVE  Rooted(pm')
  <2>1. ~closed /\ j \in Nat /\ pm' = tx_abort_context(alloc_fails(EnterN(pm, j)))
    BY <1>23 DEF AllocationFails, MayOperate, Usable, Operates
  <2> QED
    BY <1>1, <1>4, <2>1, AllocationFailsShows
<1>24. CASE Restart
  <2>1. pm' = NewProcess(pm)
    BY <1>24 DEF Restart
  <2>2. pm'.mem = pm.mem /\ Rolled(pm') = Rolled(pm)
    BY <1>2, <2>1, NewProcessLemma
  <2> QED
    BY <1>4, <2>2 DEF Shows, Images
<1>25. ASSUME NEW o \in Obj, NEW init \in Initial, NEW j \in 1..4,
              ConstructionFails(j, o, init)
       PROVE  Rooted(pm')
  <2> DEFINE f == Props(init)
  <2>1. /\ ~closed /\ j \in Nat /\ j # 0
        /\ pm' = tx_abort_context(alloc_fails(tx_store(EnterN(pm, j), Cells(o), f)))
    BY <1>25 DEF ConstructionFails, MayOperate, Usable, Operates
  <2>2. /\ Cells(o) \in SUBSET Loc /\ Cells(o) \in SUBSET Cell
        /\ f \in [Loc -> Word] /\ \A l \in Cell : f[l] # UNALLOCATED
    BY StoredLemma, CellLemma, PropsLemma
  <2> HIDE DEF f
  <2>3. Shows(pm, pm', {Put(pm.mem, Cells(o), f, Loc)})
    BY <1>1, <2>1, <2>2, ConstructionFailsShows
  <2>4. RootRefersToObject(Put(pm.mem, Cells(o), f, Loc))
    BY <1>2, <1>3, <2>2, PutCellsLemma
  <2> QED
    BY <2>3, <2>4, ShowsLemma
<1> QED
  BY <1>6, <1>7, <1>8, <1>9, <1>10, <1>11, <1>12, <1>13, <1>14, <1>15, <1>16,
     <1>17, <1>18, <1>19, <1>20, <1>21, <1>22, <1>23, <1>24, <1>25 DEF Next

\* RootNotDangling: the root refers to an allocated object or to none, in the
\* memory the program sees and in what recovery would restore, whatever sequence
\* of setRoot, create_object, transactions, aborts and crashes led there.
THEOREM RootSafe == Spec => []RootNotDangling
<1>1. Init => Rooted(pm)
  <2> SUFFICES ASSUME Init
               PROVE  Rooted(pm)
    OBVIOUS
  <2> DEFINE image == [l \in Loc |-> IF l = Root THEN PPTR_NULL ELSE UNALLOCATED]
  <2>1. pm \in TxState(Loc, Word) /\ pm.undo = NoUndo(pm) /\ ~created
    BY InitLemma DEF IInv, TypeOK, NothingBefore, Init
  <2>2. Rolled(pm) = pm.mem
    BY <2>1, FieldLemma
  <2>3. pm.mem[Root] = PPTR_NULL
    BY CellLemma DEF Init, Idle
  <2> QED
    BY <2>2, <2>3, CellLemma DEF Rooted, Images, RootRefersToObject
<1>2. IInv /\ Rooted(pm) /\ [Next]_vars => Rooted(pm')
  <2> SUFFICES ASSUME IInv, Rooted(pm), [Next]_vars
               PROVE  Rooted(pm')
    OBVIOUS
  <2>1. CASE Next
    BY <2>1, RootLemma
  <2>2. CASE UNCHANGED vars
    BY <2>2 DEF vars
  <2> QED
    BY <2>1, <2>2
<1>3. Rooted(pm) <=> RootNotDangling
  BY DEF Rooted, Images, RootNotDangling
<1>4. Init => RootNotDangling
  BY <1>1, <1>3
<1>5. IInv /\ RootNotDangling /\ [Next]_vars => RootNotDangling'
  BY <1>2 DEF Rooted, Images, RootNotDangling
<1> QED
  BY <1>4, <1>5, Invariance, PTL DEF Spec

-----------------------------------------------------------------------------
(***************************************************************************)
(* The levels of the library's transactions.  In a stage in which one can  *)
(* begin (Ready) an operation ends what it has begun, and its error paths  *)
(* leak what BracketsBalance says; in any other the library ends the       *)
(* process.  Nothing else is needed of the state than IInv: the two        *)
(* properties hold of every client.                                        *)
(***************************************************************************)

Ready(p) == p.stage \in {"NONE", "WORK"} /\ ~p.orphan

\* How the process may end, and what a call may do to the levels.
EndsAsSaid ==
    pm.stage # "DEAD" /\ pm'.stage = "DEAD" =>
        \/ Crash \/ CreateCrash
        \/ GetRoot /\ pm.mem[Root] = PPTR_NULL
        \/ (TxCommit \/ TxAbort \/ TransactionReturns) /\ pm.stage # "WORK"
        \/ TxEnd /\ pm.stage \notin {"ONCOMMIT", "ONABORT"}
        \/ pm.stage \in {"ONCOMMIT", "ONABORT"} \/ pm.orphan

BalancesAsSaid ==
    pm.stage # "DEAD" /\ pm'.stage # "DEAD" =>
        \/ Leaks(0)
        \/ TransactionThrows /\ Leaks(1)
        \/ \E o \in Obj, init \in Initial : UnsupportedMember(o, init) /\ Leaks(1)
        \/ \E j \in 1..4 : AllocationFails(j) /\ Leaks(j)
        \/ \E o \in Obj, init \in Initial, j \in 1..4 :
              ConstructionFails(j, o, init) /\ Leaks(j)
        \/ \E o \in Obj, prop \in Prop :
              /\ GetProperty(o, prop) /\ pm.mem[<<o, prop>>] = PPTR_EMPTY
              /\ Takes(1)

AsSaid == EndsAsSaid /\ BalancesAsSaid

\* A call that goes on and ends what it has begun, and one that the library
\* ends the process in for the stage it is made in.
Even == pm'.stage # "DEAD" /\ Leaks(0)
Refused == pm'.stage = "DEAD" /\ ~Ready(pm)

LEMMA DepthLemma ==
    ASSUME IInv
    PROVE  /\ pm.depth \in Nat /\ pm.stage \in Stages
           /\ calls \in Seq({"run", "manual"}) /\ Len(calls) \in Nat
           /\ pm.stage = "NONE" => pm.depth = 0
           /\ ~closed => Good(pm, Loc, Word)
           /\ Die(pm).stage = "DEAD"
<1>1. /\ pm.depth \in Nat /\ pm.stage \in Stages
      /\ calls \in Seq({"run", "manual"}) /\ Die(pm).stage = "DEAD"
  BY FieldLemma, DieFieldsLemma DEF IInv, TypeOK
<1> QED
  BY <1>1 DEF IInv, TypeOK, Good, Shape

LEMMA AsSaidLemma ==
    ASSUME IInv
    PROVE  Even \/ Refused => AsSaid
<1>1. CASE Even
  BY <1>1 DEF Even, AsSaid, EndsAsSaid, BalancesAsSaid
<1>2. CASE Refused
  <2>1. \/ pm.stage = "DEAD" \/ pm.orphan
        \/ pm.stage \in {"ONCOMMIT", "ONABORT"}
    BY <1>2, DepthLemma DEF Refused, Ready, Stages
  <2> QED
    BY <1>2, <2>1 DEF Refused, AsSaid, EndsAsSaid, BalancesAsSaid
<1> QED
  BY <1>1, <1>2

\* A call that leaves both the depth and the brackets.
LEMMA KeepsLemma ==
    ASSUME IInv, calls' = calls, pm'.depth = pm.depth
    PROVE  Leaks(0)
  BY DepthLemma DEF Leaks

\* A handler ends what it has begun.
LEMMA HandlerLemma ==
    ASSUME IInv, ~closed, NEW S \in SUBSET Loc, NEW f \in [Loc -> Word],
           pm' = InTx(pm, S, f), calls' = calls
    PROVE  Even \/ Refused
<1>1. CASE Ready(pm)
  <2>1. pm'.stage = pm.stage /\ pm'.depth = pm.depth
    BY <1>1, DepthLemma, InTxLemma, WordAssumption DEF Ready
  <2>2. pm.stage # "DEAD"
    BY <1>1 DEF Ready
  <2> QED
    BY <2>1, <2>2, KeepsLemma DEF Even
<1>2. CASE ~Ready(pm)
  <2>1. Good(pm, Loc, Word)
    BY DepthLemma
  <2>2. pm' = Die(pm)
    BY <1>2, <2>1, InTxLemma, WordAssumption DEF Ready
  <2>3. pm'.stage = "DEAD"
    BY <2>2, DepthLemma
  <2> QED
    BY <1>2, <2>3 DEF Refused
<1> QED
  BY <1>1, <1>2

\* Two handlers in a row do the same.
LEMMA TwoHandlersLemma ==
    ASSUME IInv, ~closed,
           NEW S \in SUBSET Loc, NEW f \in [Loc -> Word],
           NEW T \in SUBSET Loc, NEW g \in [Loc -> Word],
           pm' = InTx(InTx(pm, S, f), T, g), calls' = calls
    PROVE  Even \/ Refused
<1> DEFINE p == InTx(pm, S, f)
<1>1. Good(pm, Loc, Word) /\ pm' = InTx(p, T, g)
  BY DepthLemma
<1>2. CASE Ready(pm)
  <2>1. /\ Good(p, Loc, Word) /\ p.stage = pm.stage
        /\ p.depth = pm.depth /\ ~p.orphan
    BY <1>1, <1>2, DepthLemma, InTxLemma, WordAssumption DEF Ready
  <2> HIDE DEF p
  <2>2. pm'.stage = pm.stage /\ pm'.depth = pm.depth
    BY <1>1, <1>2, <2>1, DepthLemma, InTxLemma, WordAssumption DEF Ready
  <2>3. pm.stage # "DEAD"
    BY <1>2 DEF Ready
  <2> QED
    BY <2>2, <2>3, KeepsLemma DEF Even
<1>3. CASE ~Ready(pm)
  <2>1. p = Die(pm)
    BY <1>1, <1>3, InTxLemma, WordAssumption DEF Ready
  <2>2. Good(p, Loc, Word) /\ p.stage = "DEAD"
    BY <1>1, <2>1, DieLemma
  <2> HIDE DEF p
  <2>3. pm' = Die(p)
    BY <1>1, <2>2, InTxLemma, WordAssumption
  <2>4. pm'.stage = "DEAD"
    BY <2>2, <2>3, DieLemma
  <2> QED
    BY <1>3, <2>4 DEF Refused
<1> QED
  BY <1>2, <1>3

\* A bracket of the client is one level of the library.
LEMMA OpensLemma ==
    ASSUME IInv, ~closed, NEW bracket \in {"run", "manual"}, Opens(bracket)
    PROVE  Even \/ Refused
<1>1. Good(pm, Loc, Word) /\ pm' = pmemobj_tx_begin(pm)
  BY DepthLemma DEF Opens
<1>2. CASE Ready(pm)
  <2>1. pm'.stage = "WORK" /\ pm'.depth = pm.depth + 1
    BY <1>1, <1>2, BeginLemma DEF Ready
  <2>2. Len(calls') = Len(calls) + 1
    BY DepthLemma DEF Opens
  <2>3. Leaks(0)
    BY <2>1, <2>2, DepthLemma DEF Leaks
  <2> QED
    BY <2>1, <2>3 DEF Even
<1>3. CASE ~Ready(pm)
  <2>1. pm' = Die(pm)
    BY <1>1, <1>3 DEF pmemobj_tx_begin, Ready
  <2> QED
    BY <1>3, <2>1, DepthLemma DEF Refused
<1> QED
  BY <1>2, <1>3

LEMMA LeavesLemma ==
    ASSUME IInv, calls # <<>>, Leaves
    PROVE  Len(calls') = Len(calls) - 1 /\ Len(calls) > 0
<1> DEFINE n == Len(calls) - 1
<1>1. calls \in Seq({"run", "manual"}) /\ Len(calls) \in Nat
  BY DEF IInv, TypeOK
<1>2. n \in 0..Len(calls) /\ calls' = SubSeq(calls, 1, n)
  BY <1>1 DEF Leaves
<1> HIDE DEF n
<1>3. Len(calls') = n
  BY <1>1, <1>2
<1> QED
  BY <1>1, <1>2, <1>3 DEF n

\* The end of a transaction takes one level and one bracket away.
LEMMA EndedLemma ==
    ASSUME IInv, calls # <<>>, Leaves, NEW p, p.depth = pm.depth,
           Good(p, Loc, Word), p.stage \in {"ONCOMMIT", "ONABORT"}, ~p.orphan,
           pm' = pmemobj_tx_end(p)
    PROVE  Even
<1>1. /\ pm'.depth = p.depth - 1
      /\ pm'.stage \in {"NONE", "ONABORT", "WORK"}
  BY EndLemma
<1>2. Len(calls') = Len(calls) - 1 /\ Len(calls) > 0
  BY LeavesLemma
<1> QED
  BY <1>1, <1>2, DepthLemma DEF Even, Leaks

LEMMA TransactionReturnsLemma ==
    ASSUME IInv, TransactionReturns
    PROVE  AsSaid
<1>1. /\ ~closed /\ Good(pm, Loc, Word) /\ calls # <<>> /\ Leaves
  BY DepthLemma DEF TransactionReturns, Inside, Usable
<1>2. CASE pm.stage = "WORK" /\ ~pm.orphan
  <2> DEFINE c == pmemobj_tx_commit(pm)
  <2>1. pm' = pmemobj_tx_end(c)
    BY <1>2 DEF TransactionReturns
  <2>2. /\ Good(c, Loc, Word) /\ c.stage = "ONCOMMIT" /\ ~c.orphan
        /\ c.depth = pm.depth
    BY <1>1, <1>2, CommitLemma
  <2> HIDE DEF c
  <2> QED
    BY <1>1, <2>1, <2>2, EndedLemma, AsSaidLemma
<1>3. CASE pm.stage = "WORK" /\ pm.orphan
  <2> DEFINE c == Die(pm)
  <2>1. pm' = pmemobj_tx_end(c)
    BY <1>3 DEF TransactionReturns, pmemobj_tx_commit
  <2>2. Good(c, Loc, Word) /\ c.stage = "DEAD"
    BY <1>1, DieLemma
  <2> HIDE DEF c
  <2>3. pm' = Die(c)
    BY <2>1, <2>2 DEF pmemobj_tx_end
  <2>4. pm'.stage = "DEAD"
    BY <2>2, <2>3, DieLemma
  <2> QED
    BY <1>3, <2>4, AsSaidLemma DEF Refused, Ready
<1>4. CASE pm.stage # "WORK"
  <2>1. pm' = Die(pm)
    BY <1>4 DEF TransactionReturns, pmemobj_tx_abort
  <2>2. pm'.stage = "DEAD"
    BY <2>1, DepthLemma
  <2> QED
    BY <1>4, <2>2 DEF AsSaid, EndsAsSaid, BalancesAsSaid
<1> QED
  BY <1>2, <1>3, <1>4

LEMMA TxCommitLemma ==
    ASSUME IInv, TxCommit \/ TxAbort
    PROVE  AsSaid
<1>1. /\ ~closed /\ Good(pm, Loc, Word) /\ calls' = calls
      /\ pm' = pmemobj_tx_commit(pm) \/ pm' = pmemobj_tx_abort(pm)
  BY DepthLemma DEF TxCommit, TxAbort, Inside, Usable
<1>2. CASE pm.stage = "WORK" /\ ~pm.orphan
  <2>1. pm'.stage \in {"ONCOMMIT", "ONABORT"} /\ pm'.depth = pm.depth
    BY <1>1, <1>2, CommitLemma, AbortLemma
  <2> QED
    BY <1>1, <2>1, KeepsLemma, AsSaidLemma DEF Even
<1>3. CASE ~(pm.stage = "WORK" /\ ~pm.orphan)
  <2>1. pm' = Die(pm)
    BY <1>1, <1>3 DEF pmemobj_tx_commit, pmemobj_tx_abort
  <2>2. pm'.stage = "DEAD"
    BY <2>1, DepthLemma
  <2> QED
    BY <1>3, <2>2 DEF AsSaid, EndsAsSaid, BalancesAsSaid
<1> QED
  BY <1>2, <1>3

LEMMA TxEndLemma ==
    ASSUME IInv, TxEnd
    PROVE  AsSaid
<1>1. /\ ~closed /\ Good(pm, Loc, Word) /\ calls # <<>> /\ Leaves
      /\ pm' = pmemobj_tx_end(pm)
  BY DepthLemma DEF TxEnd, Inside, Usable
<1>2. CASE pm.stage \in {"ONCOMMIT", "ONABORT"} /\ ~pm.orphan
  BY <1>1, <1>2, EndedLemma, AsSaidLemma
<1>3. CASE ~(pm.stage \in {"ONCOMMIT", "ONABORT"} /\ ~pm.orphan)
  <2>1. pm' = Die(pm)
    BY <1>1, <1>3 DEF pmemobj_tx_end
  <2>2. pm'.stage = "DEAD"
    BY <2>1, DepthLemma
  <2> QED
    BY <1>3, <2>2 DEF AsSaid, EndsAsSaid, BalancesAsSaid
<1> QED
  BY <1>2, <1>3

\* run() throws: the level of its transaction stays.
LEMMA TransactionThrowsLemma ==
    ASSUME IInv, TransactionThrows
    PROVE  AsSaid
<1>1. pm' = pm /\ Len(calls') = Len(calls) - 1 /\ Len(calls) > 0
  BY LeavesLemma DEF TransactionThrows, Inside
<1>2. Leaks(1)
  BY <1>1, DepthLemma DEF Leaks
<1> QED
  BY <1>1, <1>2 DEF AsSaid, EndsAsSaid, BalancesAsSaid

-----------------------------------------------------------------------------
(* The error paths. *)

LEMMA UnsupportedMemberLemma ==
    ASSUME IInv, NEW o \in Obj, NEW init \in Initial, UnsupportedMember(o, init)
    PROVE  AsSaid
<1> DEFINE b == pmemobj_tx_begin(pm)
<1>1. /\ Good(pm, Loc, Word) /\ calls' = calls
      /\ pm' = tx_store(b, Cells(o), Props(init))
      /\ Cells(o) \in SUBSET Loc /\ Props(init) \in [Loc -> Word]
      /\ NoSnap \notin Word
  BY DepthLemma, StoredLemma, WordAssumption
     DEF UnsupportedMember, MayOperate, Usable, Operates, tx_enter_context
<1>2. CASE Ready(pm)
  <2>1. /\ Good(b, Loc, Word) /\ b.stage = "WORK" /\ ~b.orphan
        /\ b.depth = pm.depth + 1
    BY <1>1, <1>2, BeginLemma DEF Ready
  <2> HIDE DEF b
  <2>2. pm'.stage = "WORK" /\ pm'.depth = pm.depth + 1
    BY <1>1, <2>1, StoreLemma
  <2>3. Leaks(1)
    BY <1>1, <2>2, DepthLemma DEF Leaks
  <2> QED
    BY <2>2, <2>3 DEF AsSaid, EndsAsSaid, BalancesAsSaid
<1>3. CASE ~Ready(pm)
  <2>1. b = Die(pm) /\ b.stage = "DEAD"
    BY <1>3, DepthLemma DEF pmemobj_tx_begin, Ready
  <2> HIDE DEF b
  <2>2. pm' = b
    BY <1>1, <2>1 DEF tx_store
  <2> QED
    BY <1>3, <2>1, <2>2, AsSaidLemma DEF Refused
<1> QED
  BY <1>2, <1>3

LEMMA AllocationFailsEnds ==
    ASSUME IInv, NEW j \in 0..4, AllocationFails(j)
    PROVE  AsSaid
<1>1. /\ Good(pm, Loc, Word) /\ calls' = calls /\ j \in Nat /\ pm.stage # "DEAD"
      /\ pm' = tx_abort_context(alloc_fails(EnterN(pm, j)))
  BY DepthLemma DEF AllocationFails, MayOperate, Usable, Operates
<1>2. \/ pm' = pm /\ j = 0
      \/ pm' = Die(pm) /\ ~Ready(pm)
      \/ pm'.stage = "ONABORT" /\ pm'.depth = pm.depth + j
  BY <1>1, AllocationFailsLemma DEF Ready
<1>3. CASE pm' = pm
  BY <1>1, <1>3, KeepsLemma, AsSaidLemma DEF Even
<1>4. CASE pm' = Die(pm) /\ ~Ready(pm)
  BY <1>4, DepthLemma, AsSaidLemma DEF Refused
<1>5. CASE pm'.stage = "ONABORT" /\ pm'.depth = pm.depth + j
  <2>1. Leaks(j)
    BY <1>1, <1>5, DepthLemma DEF Leaks
  <2>2. CASE j = 0
    BY <1>5, <2>1, <2>2, AsSaidLemma DEF Even
  <2>3. CASE j # 0
    <3>1. j \in 1..4
      BY <2>3
    <3> QED
      BY <1>5, <2>1, <3>1 DEF AsSaid, EndsAsSaid, BalancesAsSaid
  <2> QED
    BY <2>2, <2>3
<1> QED
  BY <1>2, <1>3, <1>4, <1>5

LEMMA ConstructionFailsEnds ==
    ASSUME IInv, NEW o \in Obj, NEW init \in Initial, NEW j \in 1..4,
           ConstructionFails(j, o, init)
    PROVE  AsSaid
<1>1. /\ Good(pm, Loc, Word) /\ calls' = calls /\ j \in Nat /\ j # 0
      /\ pm' = tx_abort_context(alloc_fails(
                  tx_store(EnterN(pm, j), Cells(o), Props(init))))
      /\ Cells(o) \in SUBSET Loc /\ Props(init) \in [Loc -> Word]
      /\ NoSnap \notin Word
  BY DepthLemma, StoredLemma, WordAssumption
     DEF ConstructionFails, MayOperate, Usable, Operates
<1>2. \/ pm' = Die(pm) /\ ~Ready(pm)
      \/ pm'.stage = "ONABORT" /\ pm'.depth = pm.depth + j
  BY <1>1, ConstructionFailsLemma DEF Ready
<1>3. CASE pm' = Die(pm) /\ ~Ready(pm)
  BY <1>3, DepthLemma, AsSaidLemma DEF Refused
<1>4. CASE pm'.stage = "ONABORT" /\ pm'.depth = pm.depth + j
  <2>1. Leaks(j)
    BY <1>1, <1>4, DepthLemma DEF Leaks
  <2> QED
    BY <1>4, <2>1 DEF AsSaid, EndsAsSaid, BalancesAsSaid
<1> QED
  BY <1>2, <1>3, <1>4

\* A read that finds nothing ends the level it is made in.
LEMMA GetPropertyLemma ==
    ASSUME IInv, NEW o \in Obj, NEW prop \in Prop, GetProperty(o, prop)
    PROVE  AsSaid
<1>1. /\ Good(pm, Loc, Word) /\ calls' = calls /\ pm.stage # "DEAD"
      /\ pm' = resurrect(pm, pm.mem[<<o, prop>>])
  BY DepthLemma DEF GetProperty, Usable, Operates
<1>2. CASE pm' = pm
  BY <1>1, <1>2, KeepsLemma, AsSaidLemma DEF Even
<1>3. CASE pm' # pm
  <2>1. pm' = tx_abort_context(pm) /\ pm.mem[<<o, prop>>] = PPTR_EMPTY
    BY <1>1, <1>3 DEF resurrect
  <2>2. pm.stage = "WORK"
    BY <1>3, <2>1 DEF tx_abort_context
  <2>3. CASE pm.orphan
    <3>1. pm' = Die(pm)
      BY <1>1, <2>1, <2>2, <2>3, AbortContextLemma
    <3> QED
      BY <2>3, <3>1, DepthLemma, AsSaidLemma DEF Refused, Ready
  <2>4. CASE ~pm.orphan
    <3>1. pm'.depth = pm.depth - 1 /\ pm'.stage \in {"NONE", "ONABORT"}
      BY <1>1, <2>1, <2>2, <2>4, AbortContextLemma
    <3>2. Takes(1)
      BY <1>1, <3>1, DepthLemma DEF Takes
    <3> QED
      BY <2>1, <3>1, <3>2 DEF AsSaid, EndsAsSaid, BalancesAsSaid
  <2> QED
    BY <2>3, <2>4
<1> QED
  BY <1>2, <1>3

-----------------------------------------------------------------------------
(* The pool. *)

LEMMA CreateEnds ==
    ASSUME IInv, Create
    PROVE  Even
<1>1. /\ pm.stage = "NONE" /\ ~pm.orphan /\ calls' = calls /\ pm.depth = 0
      /\ Good(pm, Loc, Word)
      /\ pm' = InTx(pm, {Root}, Everywhere(PPTR_UNDEFINED))
  BY DEF IInv, TypeOK, NothingBefore, Create, PMObjectPool_setRoot, Good, Clean
<1>2. Everywhere(PPTR_UNDEFINED) \in [Loc -> Word] /\ {Root} \in SUBSET Loc
  BY StoredLemma DEF Word
<1>3. pm'.stage = "NONE" /\ pm'.depth = 0
  BY <1>1, <1>2, InTxLemma, WordAssumption
<1> QED
  BY <1>1, <1>3, KeepsLemma DEF Even

LEMMA OpenEnds ==
    ASSUME IInv, Open
    PROVE  Even
<1> DEFINE inside == pm.depth > 0
<1>1. pm.stage # "DEAD" /\ calls' = calls /\ pm \in TxState(Loc, Word)
  BY DEF Open, IInv, TypeOK
<1>2. pm' = [stage |-> pm.stage, depth |-> pm.depth, mem |-> Rolled(pm),
             undo |-> NoUndo(pm), orphan |-> inside]
  BY <1>1 DEF Open, pmemobj_open, TxState
<1> QED
  BY <1>1, <1>2, KeepsLemma DEF Even

\* A step that changes nothing of the session.
LEMMA SameLemma ==
    ASSUME IInv, pm' = pm, calls' = calls
    PROVE  AsSaid
<1>1. Leaks(0)
  BY KeepsLemma
<1> QED
  BY <1>1 DEF AsSaid, EndsAsSaid, BalancesAsSaid

-----------------------------------------------------------------------------
(* The theorems. *)

LEMMA LevelsLemma ==
    ASSUME IInv, Next
    PROVE  AsSaid
<1>0. Even \/ Refused => AsSaid
  BY AsSaidLemma
<1>1. CASE Create
  BY <1>0, <1>1, CreateEnds
<1>2. CASE Open
  BY <1>0, <1>2, OpenEnds
<1>3. CASE Close
  BY <1>3, SameLemma DEF Close
<1>4. CASE Crash \/ CreateCrash
  <2>1. pm' = Die(pm)
    BY <1>4 DEF Crash, CreateCrash, Operates
  <2> QED
    BY <1>4, <2>1, DepthLemma DEF AsSaid, EndsAsSaid, BalancesAsSaid
<1>5. CASE Restart
  <2>1. pm.stage = "DEAD"
    BY <1>5 DEF Restart
  <2> QED
    BY <2>1 DEF AsSaid, EndsAsSaid, BalancesAsSaid
<1>6. CASE Transaction \/ TxBegin
  BY <1>0, <1>6, OpensLemma DEF Transaction, TxBegin, MayOperate, Usable
<1>7. CASE TransactionReturns
  BY <1>7, TransactionReturnsLemma
<1>8. CASE TxCommit \/ TxAbort
  BY <1>8, TxCommitLemma
<1>9. CASE TxEnd
  BY <1>9, TxEndLemma
<1>10. CASE TransactionThrows
  BY <1>10, TransactionThrowsLemma
<1>11. ASSUME NEW S \in SUBSET Loc, NEW f \in [Loc -> Word], MayOperate,
              Operates(InTx(pm, S, f))
       PROVE  AsSaid
  BY <1>0, <1>11, HandlerLemma DEF MayOperate, Usable, Operates
<1>12. ASSUME NEW v \in Val, SetRoot(v)
       PROVE  AsSaid
  <2>1. Everywhere(v) \in [Loc -> Word] /\ {Root} \in SUBSET Loc
    BY StoredLemma DEF Word
  <2> QED
    BY <1>11, <1>12, <2>1 DEF SetRoot, PMObjectPool_setRoot
<1>13. ASSUME NEW o \in Obj, SetRootTo(o)
       PROVE  AsSaid
  <2>1. Everywhere(o) \in [Loc -> Word] /\ {Root} \in SUBSET Loc
    BY StoredLemma DEF Word
  <2> QED
    BY <1>11, <1>13, <2>1 DEF SetRootTo, PMObjectPool_setRoot
<1>14. ASSUME NEW o \in Obj, NEW init \in Initial, CreateObject(o, init)
       PROVE  AsSaid
  <2>1. Props(init) \in [Loc -> Word] /\ Cells(o) \in SUBSET Loc
    BY StoredLemma
  <2> QED
    BY <1>11, <1>14, <2>1 DEF CreateObject, create_object
<1>15. ASSUME NEW o \in Obj, NEW init \in Initial, SetRootObject(o, init)
       PROVE  AsSaid
  <2>1. /\ Props(init) \in [Loc -> Word] /\ Cells(o) \in SUBSET Loc
        /\ Everywhere(o) \in [Loc -> Word] /\ {Root} \in SUBSET Loc
    BY StoredLemma DEF Word
  <2> QED
    BY <1>0, <1>15, <2>1, TwoHandlersLemma
       DEF SetRootObject, create_object, PMObjectPool_setRoot, MayOperate,
           Usable, Operates
<1>16. ASSUME NEW o \in Obj, NEW prop \in Prop, NEW v \in Val, SetProperty(o, prop, v)
       PROVE  AsSaid
  <2>1. Everywhere(v) \in [Loc -> Word] /\ {<<o, prop>>} \in SUBSET Loc
    BY StoredLemma DEF Word
  <2> QED
    BY <1>11, <1>16, <2>1 DEF SetProperty
<1>17. CASE GetRoot
  <2>1. CASE pm.mem[Root] = PPTR_NULL
    <3>1. pm' = Die(pm)
      BY <1>17, <2>1 DEF GetRoot, Operates
    <3> QED
      BY <1>17, <2>1, <3>1, DepthLemma DEF AsSaid, EndsAsSaid, BalancesAsSaid
  <2>2. CASE pm.mem[Root] # PPTR_NULL
    BY <1>17, <2>2, SameLemma DEF GetRoot, Operates
  <2> QED
    BY <2>1, <2>2
<1> QED
  BY <1>1, <1>2, <1>3, <1>4, <1>5, <1>6, <1>7, <1>8, <1>9, <1>10, <1>12, <1>13,
     <1>14, <1>15, <1>16, <1>17, UnsupportedMemberLemma, AllocationFailsEnds,
     ConstructionFailsEnds, GetPropertyLemma DEF Next

LEMMA LevelsStep ==
    ASSUME IInv, [Next]_vars
    PROVE  AsSaid
  BY LevelsLemma, SameLemma DEF vars

\* BracketsBalance, of every client and in every stage: an operation ends the
\* levels it has begun, and the error paths that leak or take one are those of
\* the statement, by as many levels as it says.
THEOREM BracketsAreTheClients == Spec => BracketsBalance
<1>1. IInv /\ [Next]_vars => BalancesAsSaid
  BY LevelsStep DEF AsSaid
<1>2. IInv /\ [Next]_vars =>
        [pm.stage # "DEAD" /\ pm'.stage # "DEAD" =>
            \/ Leaks(0)
            \/ TransactionThrows /\ Leaks(1)
            \/ \E o \in Obj, init \in Initial : UnsupportedMember(o, init) /\ Leaks(1)
            \/ \E j \in 1..4 : AllocationFails(j) /\ Leaks(j)
            \/ \E o \in Obj, init \in Initial, j \in 1..4 :
                  ConstructionFails(j, o, init) /\ Leaks(j)
            \/ \E o \in Obj, prop \in Prop :
                  /\ GetProperty(o, prop) /\ pm.mem[<<o, prop>>] = PPTR_EMPTY
                  /\ Takes(1)]_vars
  BY <1>1 DEF BalancesAsSaid
<1> QED
  BY <1>2, Invariance, PTL DEF BracketsBalance, Spec

\* KilledOnlyBy, of every client: outside the calls it names, no operation and
\* no error path of one ends the process.
THEOREM EndsOnlySo == Spec => KilledOnlyBy
<1>1. IInv /\ [Next]_vars => EndsAsSaid
  BY LevelsStep DEF AsSaid
<1>2. IInv /\ [Next]_vars =>
        [pm.stage # "DEAD" /\ pm'.stage = "DEAD" =>
            \/ Crash \/ CreateCrash
            \/ GetRoot /\ pm.mem[Root] = PPTR_NULL
            \/ (TxCommit \/ TxAbort \/ TransactionReturns) /\ pm.stage # "WORK"
            \/ TxEnd /\ pm.stage \notin {"ONCOMMIT", "ONABORT"}
            \/ pm.stage \in {"ONCOMMIT", "ONABORT"} \/ pm.orphan]_vars
  BY <1>1 DEF EndsAsSaid
<1> QED
  BY <1>2, Invariance, PTL DEF KilledOnlyBy, Spec
=============================================================================
