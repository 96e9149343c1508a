---------------------------- MODULE PmemTx_proofs ---------------------------
(***************************************************************************)
(* What the operations of PmemTx do to a well-formed transaction state:    *)
(* the lemmas on which the proofs about the modules above it rest.         *)
(***************************************************************************)
EXTENDS PmemTx, TLAPS

\* Stage and nesting agree, and an orphaned transaction is one the live
\* thread is still inside.
Shape(p) ==
    p.stage # "DEAD" =>
        /\ p.stage = "NONE" <=> p.depth = 0
        /\ p.orphan => p.depth > 0

\* Outside transactions the undo log is empty.
Clean(p) == p.stage # "DEAD" /\ Settled(p) => p.undo = NoUndo(p)

Good(p, Loc, Word) ==
    /\ p \in TxState(Loc, Word)
    /\ Shape(p)
    /\ Clean(p)

\* The fields of a state, and the types of the images computed from them.
LEMMA FieldLemma ==
    ASSUME NEW Loc, NEW Word, NEW p \in TxState(Loc, Word)
    PROVE  /\ p.stage \in Stages /\ p.depth \in Nat /\ p.orphan \in BOOLEAN
           /\ p.mem \in [Loc -> Word] /\ p.undo \in [Loc -> Word \cup {NoSnap}]
           /\ Rolled(p) \in [Loc -> Word]
           /\ NoUndo(p) = [l \in Loc |-> NoSnap]
           /\ NoUndo(p) \in [Loc -> Word \cup {NoSnap}]
           /\ p.undo = NoUndo(p) => Rolled(p) = p.mem
<1>1. /\ p.stage \in Stages /\ p.depth \in Nat /\ p.orphan \in BOOLEAN
      /\ p.mem \in [Loc -> Word] /\ p.undo \in [Loc -> Word \cup {NoSnap}]
  BY DEF TxState
<1>2. Rolled(p) \in [Loc -> Word]
  BY <1>1 DEF Rolled
<1>3. NoUndo(p) = [l \in Loc |-> NoSnap]
  BY <1>1 DEF NoUndo
<1>4. p.undo = NoUndo(p) => Rolled(p) = p.mem
  BY <1>1, <1>3 DEF Rolled
<1> QED
  BY <1>1, <1>2, <1>3, <1>4

\* What recovery restores depends on the memory and the undo log alone.
LEMMA RolledLemma ==
    ASSUME NEW p, NEW q, q.mem = p.mem, q.undo = p.undo
    PROVE  Rolled(q) = Rolled(p) /\ NoUndo(q) = NoUndo(p)
  BY DEF Rolled, NoUndo

\* The end of the process changes the stage and nothing else.
LEMMA DieFieldsLemma ==
    ASSUME NEW Loc, NEW Word, NEW p \in TxState(Loc, Word)
    PROVE  LET q == Die(p)
           IN  /\ q \in TxState(Loc, Word) /\ q.stage = "DEAD"
               /\ q.depth = p.depth /\ q.orphan = p.orphan
               /\ q.mem = p.mem /\ q.undo = p.undo
               /\ Rolled(q) = Rolled(p) /\ NoUndo(q) = NoUndo(p)
<1> DEFINE q == Die(p)
<1>1. q = [stage |-> "DEAD", depth |-> p.depth, mem |-> p.mem,
           undo |-> p.undo, orphan |-> p.orphan]
  BY DEF Die, TxState
<1>2. q \in TxState(Loc, Word)
  BY <1>1 DEF TxState, Stages
<1>3. Rolled(q) = Rolled(p) /\ NoUndo(q) = NoUndo(p)
  BY <1>1 DEF Rolled, NoUndo
<1> QED
  BY <1>1, <1>2, <1>3

\* A well-formed state stays well-formed in death.
LEMMA DieLemma ==
    ASSUME NEW Loc, NEW Word, NEW p, Good(p, Loc, Word)
    PROVE  LET q == Die(p)
           IN  /\ Good(q, Loc, Word) /\ q.stage = "DEAD"
               /\ q.depth = p.depth /\ q.orphan = p.orphan
               /\ q.mem = p.mem /\ q.undo = p.undo /\ Rolled(q) = Rolled(p)
  BY DieFieldsLemma DEF Good, Shape, Clean

\* A process that has ended stays as it is, whatever calls the handler has left.
LEMMA DeadLemma ==
    ASSUME NEW Loc, NEW Word, NEW p \in TxState(Loc, Word), p.stage = "DEAD"
    PROVE  /\ Die(p) = p /\ tx_enter_context(p) = p /\ tx_exit_context(p) = p
           /\ tx_abort_context(p) = p /\ alloc_fails(p) = p
           /\ \A S, f : tx_store(p, S, f) = p
<1>1. Die(p) = p
  BY DEF Die, TxState
<1> QED
  BY <1>1 DEF tx_enter_context, tx_exit_context, tx_abort_context, alloc_fails,
              tx_store, pmemobj_tx_begin, pmemobj_tx_end

\* A begin that does not end the process only deepens the nesting.
LEMMA BeginLemma ==
    ASSUME NEW Loc, NEW Word, NEW p, Good(p, Loc, Word),
           p.stage \in {"NONE", "WORK"}, ~p.orphan
    PROVE  LET q == pmemobj_tx_begin(p)
           IN  /\ Good(q, Loc, Word)
               /\ q.stage = "WORK" /\ q.depth = p.depth + 1 /\ ~q.orphan
               /\ q.mem = p.mem /\ q.undo = p.undo /\ Rolled(q) = Rolled(p)
<1> DEFINE q == pmemobj_tx_begin(p)
<1>1. p \in TxState(Loc, Word)
  BY DEF Good
<1>2. q = [stage |-> "WORK", depth |-> p.depth + 1, mem |-> p.mem,
           undo |-> p.undo, orphan |-> p.orphan]
  BY <1>1 DEF pmemobj_tx_begin, TxState
<1>3. q \in TxState(Loc, Word)
  BY <1>1, <1>2 DEF TxState, Stages
<1>4. Rolled(q) = Rolled(p)
  BY <1>2 DEF Rolled
<1>5. Shape(q) /\ Clean(q)
  BY <1>1, <1>2, FieldLemma DEF Shape, Clean, Settled
<1> QED
  BY <1>2, <1>3, <1>4, <1>5 DEF Good


\* A commit makes the visible image the one recovery restores, when it is the
\* outermost one, and changes no image otherwise.
LEMMA CommitLemma ==
    ASSUME NEW Loc, NEW Word, NEW p, Good(p, Loc, Word),
           p.stage = "WORK", ~p.orphan
    PROVE  LET q == pmemobj_tx_commit(p)
           IN  /\ Good(q, Loc, Word)
               /\ q.stage = "ONCOMMIT" /\ q.depth = p.depth /\ ~q.orphan
               /\ q.mem = p.mem
               /\ Rolled(q) = IF p.depth = 1 THEN p.mem ELSE Rolled(p)
               /\ q.undo = IF p.depth = 1 THEN NoUndo(p) ELSE p.undo
<1> DEFINE q == pmemobj_tx_commit(p)
<1> DEFINE u == IF p.depth = 1 THEN NoUndo(p) ELSE p.undo
<1>1. p \in TxState(Loc, Word)
  BY DEF Good
<1>2. q = [stage |-> "ONCOMMIT", depth |-> p.depth, mem |-> p.mem,
           undo |-> u, orphan |-> p.orphan]
  BY <1>1 DEF pmemobj_tx_commit, TxState
<1>3. u \in [Loc -> Word \cup {NoSnap}] /\ q.undo = u
  BY <1>1, <1>2, FieldLemma
<1>4. q \in TxState(Loc, Word)
  <2> HIDE DEF u
  <2> QED BY <1>1, <1>2, <1>3 DEF TxState, Stages
<1> q.mem = p.mem /\ q.depth = p.depth /\ q.stage = "ONCOMMIT" /\ q.orphan = p.orphan
  BY <1>2
<1>a. p.depth = 1 => q.undo = NoUndo(q)
  <2> HIDE DEF q
  <2> QED BY <1>1, <1>3, <1>4, FieldLemma
<1>5. Rolled(q) = IF p.depth = 1 THEN p.mem ELSE Rolled(p)
  <2>1. p.depth = 1 => Rolled(q) = p.mem
    <3> HIDE DEF q
    <3> QED BY <1>4, <1>a, FieldLemma
  <2>2. p.depth # 1 => Rolled(q) = Rolled(p)
    <3> HIDE DEF q
    <3> QED BY <1>3, RolledLemma
  <2> QED BY <2>1, <2>2
<1>6. Shape(q)
  BY <1>1, <1>2 DEF Good, Shape
<1>7. Clean(q)
  <2> HIDE DEF q
  <2> QED BY <1>a DEF Clean, Settled
<1> QED
  BY <1>2, <1>4, <1>5, <1>6, <1>7 DEF Good

\* An abort never changes what recovery restores, and the outermost one shows it.
LEMMA AbortLemma ==
    ASSUME NEW Loc, NEW Word, NEW p, Good(p, Loc, Word),
           p.stage = "WORK", ~p.orphan
    PROVE  LET q == pmemobj_tx_abort(p)
           IN  /\ Good(q, Loc, Word)
               /\ q.stage = "ONABORT" /\ q.depth = p.depth /\ ~q.orphan
               /\ Rolled(q) = Rolled(p)
               /\ q.mem = IF p.depth = 1 THEN Rolled(p) ELSE p.mem
<1> DEFINE q == pmemobj_tx_abort(p)
<1> DEFINE u == IF p.depth = 1 THEN NoUndo(p) ELSE p.undo
<1> DEFINE m == IF p.depth = 1 THEN Rolled(p) ELSE p.mem
<1>1. p \in TxState(Loc, Word)
  BY DEF Good
<1>2. q = [stage |-> "ONABORT", depth |-> p.depth, mem |-> m,
           undo |-> u, orphan |-> p.orphan]
  BY <1>1 DEF pmemobj_tx_abort, TxState
<1>3. /\ u \in [Loc -> Word \cup {NoSnap}] /\ q.undo = u
      /\ m \in [Loc -> Word] /\ q.mem = m
  BY <1>1, <1>2, FieldLemma
<1>4. q \in TxState(Loc, Word)
  <2> HIDE DEF u, m
  <2> QED BY <1>1, <1>2, <1>3 DEF TxState, Stages
<1> q.mem = m /\ q.depth = p.depth /\ q.stage = "ONABORT" /\ q.orphan = p.orphan
  BY <1>2
<1>a. p.depth = 1 => q.undo = NoUndo(q)
  <2> HIDE DEF q
  <2> QED BY <1>1, <1>3, <1>4, FieldLemma
<1>5. Rolled(q) = Rolled(p)
  <2>1. p.depth = 1 => Rolled(q) = Rolled(p)
    <3> HIDE DEF q
    <3> QED BY <1>3, <1>4, <1>a, FieldLemma
  <2>2. p.depth # 1 => Rolled(q) = Rolled(p)
    <3> HIDE DEF q
    <3> QED BY <1>3, RolledLemma
  <2> QED BY <2>1, <2>2
<1>6. Shape(q)
  BY <1>1, <1>2 DEF Good, Shape
<1>7. Clean(q)
  <2> HIDE DEF q
  <2> QED BY <1>a DEF Clean, Settled
<1> QED
  BY <1>2, <1>3, <1>4, <1>5, <1>6, <1>7 DEF Good

\* The level below the innermost one, as the end of the innermost resumes it.
LEMMA OuterLemma ==
    ASSUME NEW Loc, NEW Word, NEW p \in TxState(Loc, Word), NEW d \in Nat,
           NEW q, q = [p EXCEPT !.stage = "WORK", !.depth = d]
    PROVE  q = [stage |-> "WORK", depth |-> d, mem |-> p.mem,
                undo |-> p.undo, orphan |-> p.orphan]
  BY DEF TxState

\* The end of a level never changes what recovery restores; a committed level
\* returns to the body of the next one, an aborted one aborts it.
LEMMA EndLemma ==
    ASSUME NEW Loc, NEW Word, NEW p, Good(p, Loc, Word),
           p.stage \in {"ONCOMMIT", "ONABORT"}, ~p.orphan
    PROVE  LET q == pmemobj_tx_end(p)
           IN  /\ Good(q, Loc, Word) /\ ~q.orphan
               /\ q.depth = p.depth - 1 /\ Rolled(q) = Rolled(p)
               /\ q.stage = IF p.depth = 1 THEN "NONE"
                            ELSE IF p.stage = "ONABORT" THEN "ONABORT" ELSE "WORK"
               /\ q.mem = IF p.stage = "ONABORT" /\ p.depth = 2 THEN Rolled(p)
                          ELSE p.mem
               /\ p.stage = "ONCOMMIT" => q.undo = p.undo
<1> DEFINE q == pmemobj_tx_end(p)
<1> DEFINE d == p.depth - 1
<1> DEFINE outer == [p EXCEPT !.stage = "WORK", !.depth = d]
<1>1. p \in TxState(Loc, Word) /\ p.depth \in Nat /\ p.depth # 0
  BY DEF Good, TxState, Shape
<1>d. d \in Nat
  BY <1>1
<1>2. CASE p.depth = 1
  <2>1. q = [stage |-> "NONE", depth |-> 0, mem |-> p.mem,
             undo |-> p.undo, orphan |-> p.orphan]
    BY <1>1, <1>2 DEF pmemobj_tx_end, TxState
  <2>2. q \in TxState(Loc, Word)
    BY <1>1, <2>1 DEF TxState, Stages
  <2>3. Rolled(q) = Rolled(p)
    BY <2>1 DEF Rolled
  <2>4. p.undo = NoUndo(p)
    BY <1>2 DEF Good, Clean, Settled
  <2>5. Shape(q) /\ Clean(q)
    BY <2>1, <2>4 DEF Shape, Clean, NoUndo
  <2> QED
    BY <1>2, <2>1, <2>2, <2>3, <2>5 DEF Good
<1>3. CASE p.depth # 1
  <2>1. outer = [stage |-> "WORK", depth |-> d, mem |-> p.mem,
                 undo |-> p.undo, orphan |-> p.orphan]
    <3> HIDE DEF d
    <3> QED BY <1>1, <1>d, OuterLemma
  <2>2. p.depth - 1 \in Nat /\ p.depth - 1 > 0
    BY <1>1, <1>3
  <2>3. outer \in TxState(Loc, Word)
    BY <1>1, <2>1, <2>2 DEF TxState, Stages
  <2>4. Rolled(outer) = Rolled(p)
    BY <2>1 DEF Rolled
  <2>5. Good(outer, Loc, Word)
    BY <2>1, <2>2, <2>3 DEF Good, Shape, Clean, Settled
  <2>6. q = IF p.stage = "ONABORT" THEN pmemobj_tx_abort(outer) ELSE outer
    BY <1>3 DEF pmemobj_tx_end
  <2>7. outer.stage = "WORK" /\ ~outer.orphan /\ outer.depth = p.depth - 1
        /\ outer.mem = p.mem /\ outer.undo = p.undo
    BY <2>1
  <2>8. CASE p.stage = "ONABORT"
    <3> HIDE DEF outer
    <3>1. q = pmemobj_tx_abort(outer)
      BY <2>6, <2>8
    <3>2. /\ Good(q, Loc, Word) /\ q.stage = "ONABORT" /\ ~q.orphan
          /\ q.depth = p.depth - 1 /\ Rolled(q) = Rolled(p)
          /\ q.mem = IF outer.depth = 1 THEN Rolled(p) ELSE p.mem
      BY <2>4, <2>5, <2>7, <3>1, AbortLemma
    <3>3. outer.depth = 1 <=> p.depth = 2
      BY <1>1, <2>7
    <3> QED
      BY <1>3, <2>8, <3>2, <3>3
  <2>9. CASE p.stage # "ONABORT"
    BY <1>3, <2>4, <2>5, <2>6, <2>7, <2>9
  <2> QED
    BY <2>8, <2>9
<1> QED
  BY <1>2, <1>3


\* The image with the words of f stored in S.
Put(image, S, f, Loc) == [l \in Loc |-> IF l \in S THEN f[l] ELSE image[l]]

\* A store inside a transaction never changes what recovery restores: what it
\* overwrites has been snapshotted.
LEMMA StoreLemma ==
    ASSUME NEW Loc, NEW Word, NEW p, Good(p, Loc, Word), NoSnap \notin Word,
           p.stage = "WORK", ~p.orphan,
           NEW S \in SUBSET Loc, NEW f \in [Loc -> Word]
    PROVE  LET q == tx_store(p, S, f)
           IN  /\ Good(q, Loc, Word)
               /\ q.stage = "WORK" /\ q.depth = p.depth /\ ~q.orphan
               /\ q.mem = Put(p.mem, S, f, Loc)
               /\ Rolled(q) = Rolled(p)
               /\ \A l \in Loc :
                     q.undo[l] = NoSnap <=> l \notin S /\ p.undo[l] = NoSnap
<1> DEFINE q == tx_store(p, S, f)
<1> DEFINE u == [l \in Loc |-> IF l \in S /\ p.undo[l] = NoSnap THEN p.mem[l]
                               ELSE p.undo[l]]
<1> DEFINE m == Put(p.mem, S, f, Loc)
<1>1. p \in TxState(Loc, Word)
  BY DEF Good
<1>f. p.mem \in [Loc -> Word] /\ p.undo \in [Loc -> Word \cup {NoSnap}]
  BY <1>1, FieldLemma
<1>2. /\ m \in [Loc -> Word] /\ DOMAIN m = Loc
      /\ u \in [Loc -> Word \cup {NoSnap}]
  BY <1>f DEF Put
<1>3. q = [p EXCEPT !.undo = u, !.mem = m]
  <2>1. DOMAIN p.mem = Loc /\ DOMAIN p.undo = Loc
    BY <1>f
  <2> QED
    BY <2>1 DEF tx_store, Put
<1>4. q = [stage |-> "WORK", depth |-> p.depth, mem |-> m,
           undo |-> u, orphan |-> p.orphan]
  <2> HIDE DEF u, m
  <2> QED BY <1>1, <1>3 DEF TxState
<1>5. q \in TxState(Loc, Word)
  <2> HIDE DEF u, m
  <2> QED BY <1>1, <1>2, <1>4 DEF TxState, Stages
<1>6. Rolled(q) = Rolled(p)
  <2>1. Rolled(q) = [l \in Loc |-> IF u[l] = NoSnap THEN m[l] ELSE u[l]]
    <3> HIDE DEF u, m
    <3> QED BY <1>2, <1>4 DEF Rolled
  <2>2. Rolled(p) = [l \in Loc |-> IF p.undo[l] = NoSnap THEN p.mem[l] ELSE p.undo[l]]
    BY <1>f DEF Rolled
  <2>3. ASSUME NEW l \in Loc
        PROVE  (IF u[l] = NoSnap THEN m[l] ELSE u[l])
                 = IF p.undo[l] = NoSnap THEN p.mem[l] ELSE p.undo[l]
    <3>1. p.mem[l] \in Word
      BY <1>1, FieldLemma
    <3> QED
      BY <3>1 DEF Put
  <2> QED
    <3> HIDE DEF u, m, q
    <3> QED BY <2>1, <2>2, <2>3
<1>7. Shape(q) /\ Clean(q)
  BY <1>4 DEF Good, Shape, Clean, Settled
<1>8. ASSUME NEW l \in Loc
      PROVE  q.undo[l] = NoSnap <=> l \notin S /\ p.undo[l] = NoSnap
  <2>1. p.mem[l] # NoSnap /\ q.undo[l] = u[l]
    BY <1>4, <1>f
  <2> HIDE DEF q
  <2> QED
    BY <2>1
<1> QED
  BY <1>4, <1>5, <1>6, <1>7, <1>8 DEF Good

\* A handler bracketed by MM_TX_BEGIN and MM_TX_END: on its own it is atomic
\* and durable, inside a transaction it belongs to that transaction, and
\* anywhere else it ends the process.
LEMMA InTxLemma ==
    ASSUME NEW Loc, NEW Word, NEW p, Good(p, Loc, Word), NoSnap \notin Word,
           NEW S \in SUBSET Loc, NEW f \in [Loc -> Word]
    PROVE  LET q == InTx(p, S, f)
           IN  /\ Good(q, Loc, Word)
               /\ p.stage = "NONE" /\ ~p.orphan =>
                    /\ q.stage = "NONE" /\ q.depth = 0 /\ ~q.orphan
                    /\ q.mem = Put(p.mem, S, f, Loc) /\ Rolled(q) = q.mem
               /\ p.stage = "WORK" /\ ~p.orphan =>
                    /\ q.stage = "WORK" /\ q.depth = p.depth /\ ~q.orphan
                    /\ q.mem = Put(p.mem, S, f, Loc) /\ Rolled(q) = Rolled(p)
               /\ p.stage \notin {"NONE", "WORK"} \/ p.orphan => q = Die(p)
<1> DEFINE b == pmemobj_tx_begin(p)
<1> DEFINE w == tx_store(b, S, f)
<1> DEFINE c == pmemobj_tx_commit(w)
<1>0. p.depth \in Nat
  BY FieldLemma DEF Good
<1>1. CASE p.stage \in {"NONE", "WORK"} /\ ~p.orphan
  <2>1. /\ Good(b, Loc, Word) /\ b.stage = "WORK" /\ ~b.orphan
        /\ b.depth = p.depth + 1 /\ b.mem = p.mem /\ Rolled(b) = Rolled(p)
    BY <1>1, BeginLemma
  <2>2. /\ Good(w, Loc, Word) /\ w.stage = "WORK" /\ ~w.orphan
        /\ w.depth = p.depth + 1 /\ w.mem = Put(p.mem, S, f, Loc)
        /\ Rolled(w) = Rolled(p)
    <3> HIDE DEF b
    <3> QED BY <2>1, StoreLemma
  <2>3. /\ Good(c, Loc, Word) /\ c.stage = "ONCOMMIT" /\ ~c.orphan
        /\ c.depth = p.depth + 1 /\ c.mem = Put(p.mem, S, f, Loc)
        /\ Rolled(c) = IF p.depth = 0 THEN c.mem ELSE Rolled(p)
    <3> HIDE DEF w
    <3> QED BY <1>0, <2>2, CommitLemma
  <2>4. InTx(p, S, f) = pmemobj_tx_end(c)
    <3>1. InTx(p, S, f) = tx_exit_context(w)
      BY DEF InTx, tx_enter_context
    <3> HIDE DEF w
    <3> QED BY <2>2, <3>1 DEF tx_exit_context
  <2>5. LET q == pmemobj_tx_end(c)
        IN  /\ Good(q, Loc, Word) /\ ~q.orphan
            /\ q.depth = p.depth /\ Rolled(q) = Rolled(c)
            /\ q.stage = IF p.depth = 0 THEN "NONE" ELSE "WORK"
            /\ q.mem = Put(p.mem, S, f, Loc)
    <3>1. c.depth = 1 <=> p.depth = 0
      <4> HIDE DEF c
      <4> QED BY <1>0, <2>3
    <3>2. c.depth - 1 = p.depth
      <4> HIDE DEF c
      <4> QED BY <1>0, <2>3
    <3> HIDE DEF c
    <3> QED BY <2>3, <3>1, <3>2, EndLemma
  <2>6. p.stage = "NONE" <=> p.depth = 0
    BY <1>1 DEF Good, Shape
  <2> HIDE DEF c
  <2> QED
    BY <1>1, <2>3, <2>4, <2>5, <2>6
<1>2. CASE ~(p.stage \in {"NONE", "WORK"} /\ ~p.orphan)
  <2>1. b = Die(p)
    BY <1>2 DEF pmemobj_tx_begin
  <2>2. Good(b, Loc, Word) /\ b.stage = "DEAD"
    BY <2>1, DieLemma
  <2>3. tx_store(b, S, f) = b /\ tx_exit_context(b) = b
    <3> HIDE DEF b
    <3> QED BY <2>2, DeadLemma DEF Good
  <2>4. InTx(p, S, f) = Die(p)
    BY <2>1, <2>3 DEF InTx, tx_enter_context
  <2> QED
    BY <1>2, <2>1, <2>2, <2>4
<1> QED
  BY <1>1, <1>2


\* The catch blocks: they abort and end the level they are reached in, if it is
\* in WORK, and the abort of an inner level is that of all levels.
LEMMA AbortContextLemma ==
    ASSUME NEW Loc, NEW Word, NEW p, Good(p, Loc, Word)
    PROVE  LET q == tx_abort_context(p)
           IN  /\ Good(q, Loc, Word) /\ Rolled(q) = Rolled(p)
               /\ p.stage # "WORK" => q = p
               /\ p.stage = "WORK" /\ p.orphan => q = Die(p)
               /\ p.stage = "WORK" /\ ~p.orphan =>
                    /\ q.depth = p.depth - 1 /\ ~q.orphan
                    /\ q.stage = IF p.depth = 1 THEN "NONE" ELSE "ONABORT"
                    /\ q.mem = IF p.depth \in {1, 2} THEN Rolled(p) ELSE p.mem
<1> DEFINE a == pmemobj_tx_abort(p)
<1>1. CASE p.stage # "WORK"
  BY <1>1 DEF tx_abort_context
<1>2. CASE p.stage = "WORK" /\ p.orphan
  <2>1. tx_abort_context(p) = pmemobj_tx_end(Die(p))
    BY <1>2 DEF tx_abort_context, pmemobj_tx_abort
  <2>2. Good(Die(p), Loc, Word) /\ Die(p).stage = "DEAD" /\ Rolled(Die(p)) = Rolled(p)
    BY DieLemma
  <2>3. pmemobj_tx_end(Die(p)) = Die(Die(p))
    BY <2>2 DEF pmemobj_tx_end
  <2>4. Die(Die(p)) = Die(p)
    BY <2>2, DeadLemma DEF Good
  <2> QED
    BY <1>2, <2>1, <2>2, <2>3, <2>4
<1>3. CASE p.stage = "WORK" /\ ~p.orphan
  <2>1. tx_abort_context(p) = pmemobj_tx_end(a)
    BY <1>3 DEF tx_abort_context
  <2>2. /\ Good(a, Loc, Word) /\ a.stage = "ONABORT" /\ a.depth = p.depth
        /\ ~a.orphan /\ Rolled(a) = Rolled(p)
        /\ a.mem = IF p.depth = 1 THEN Rolled(p) ELSE p.mem
    BY <1>3, AbortLemma
  <2>3. LET q == pmemobj_tx_end(a)
        IN  /\ Good(q, Loc, Word) /\ ~q.orphan
            /\ q.depth = p.depth - 1 /\ Rolled(q) = Rolled(p)
            /\ q.stage = IF p.depth = 1 THEN "NONE" ELSE "ONABORT"
            /\ q.mem = IF p.depth = 2 THEN Rolled(p) ELSE a.mem
    <3> HIDE DEF a
    <3> QED BY <2>2, EndLemma
  <2> HIDE DEF a
  <2> QED
    BY <1>3, <2>1, <2>2, <2>3
<1> QED
  BY <1>1, <1>2, <1>3

\* A handler that leaves j levels of its own behind.
LEMMA EnterNLemma ==
    ASSUME NEW Loc, NEW Word, NEW p, Good(p, Loc, Word), NEW j \in Nat, j # 0,
           p.stage \in {"NONE", "WORK"}, ~p.orphan
    PROVE  LET q == EnterN(p, j)
           IN  /\ Good(q, Loc, Word)
               /\ q.stage = "WORK" /\ q.depth = p.depth + j /\ ~q.orphan
               /\ q.mem = p.mem /\ Rolled(q) = Rolled(p)
<1> DEFINE q == EnterN(p, j)
<1> DEFINE d == p.depth + j
<1>1. p \in TxState(Loc, Word)
  BY DEF Good
<1>2. d \in Nat /\ d > 0
  BY <1>1, FieldLemma
<1>3. q = [p EXCEPT !.stage = "WORK", !.depth = d]
  BY DEF EnterN
<1>4. q = [stage |-> "WORK", depth |-> d, mem |-> p.mem,
           undo |-> p.undo, orphan |-> p.orphan]
  <2> HIDE DEF d, q
  <2> QED BY <1>1, <1>2, <1>3, OuterLemma
<1>5. q \in TxState(Loc, Word)
  <2> HIDE DEF d, q
  <2> QED BY <1>1, <1>2, <1>4 DEF TxState, Stages
<1>6. Rolled(q) = Rolled(p)
  <2> HIDE DEF d, q
  <2> QED BY <1>4, RolledLemma
<1>7. Shape(q) /\ Clean(q)
  <2> HIDE DEF q
  <2> QED BY <1>2, <1>4 DEF Shape, Clean, Settled
<1> QED
  BY <1>4, <1>5, <1>6, <1>7 DEF Good

\* An allocation that fails inside a transaction aborts the level it happens in
\* and leaves the levels above it to whoever began them.
LEMMA AllocationFailsLemma ==
    ASSUME NEW Loc, NEW Word, NEW p, Good(p, Loc, Word), NEW j \in Nat,
           NEW e, e = EnterN(p, j), NEW a, a = alloc_fails(e),
           NEW q, q = tx_abort_context(a)
    PROVE  \/ q = p /\ j = 0
           \/ q = Die(p) /\ ~(p.stage \in {"NONE", "WORK"} /\ ~p.orphan)
           \/ /\ Good(q, Loc, Word) /\ ~q.orphan /\ ~p.orphan
              /\ p.stage \in {"NONE", "WORK"}
              /\ q.stage = "ONABORT" /\ q.depth = p.depth + j
              /\ Rolled(q) = Rolled(p)
              /\ q.mem = IF p.depth + j = 1 THEN Rolled(p) ELSE p.mem
<1>0. p.depth \in Nat
  BY FieldLemma DEF Good
<1>1. \/ e = p /\ j = 0
      \/ e = Die(p) /\ ~(p.stage \in {"NONE", "WORK"} /\ ~p.orphan)
      \/ /\ p.stage \in {"NONE", "WORK"} /\ ~p.orphan
         /\ Good(e, Loc, Word) /\ e.stage = "WORK" /\ ~e.orphan
         /\ e.depth = p.depth + j /\ e.mem = p.mem /\ Rolled(e) = Rolled(p)
  <2>1. CASE j = 0
    BY <2>1 DEF EnterN
  <2>2. CASE j # 0 /\ p.stage \in {"NONE", "WORK"} /\ ~p.orphan
    BY <2>2, EnterNLemma
  <2>3. CASE j # 0 /\ ~(p.stage \in {"NONE", "WORK"} /\ ~p.orphan)
    BY <2>3 DEF EnterN
  <2> QED
    BY <2>1, <2>2, <2>3
<1>2. CASE e = Die(p) /\ ~(p.stage \in {"NONE", "WORK"} /\ ~p.orphan)
  <2>1. Good(Die(p), Loc, Word) /\ Die(p).stage = "DEAD"
    BY DieLemma
  <2>2. alloc_fails(Die(p)) = Die(p) /\ tx_abort_context(Die(p)) = Die(p)
    BY <2>1, DeadLemma DEF Good
  <2> QED
    BY <1>2, <2>2
<1>3. CASE e.stage = "WORK" /\ ~e.orphan /\ Good(e, Loc, Word)
           /\ e.depth = p.depth + j /\ e.mem = p.mem /\ Rolled(e) = Rolled(p)
           /\ p.stage \in {"NONE", "WORK"} /\ ~p.orphan
  <2>1. /\ Good(a, Loc, Word) /\ a.stage = "ONABORT" /\ ~a.orphan
        /\ a.depth = p.depth + j /\ Rolled(a) = Rolled(p)
        /\ a.mem = IF p.depth + j = 1 THEN Rolled(p) ELSE p.mem
    BY <1>3, AbortLemma DEF alloc_fails
  <2>2. tx_abort_context(a) = a
    BY <2>1 DEF tx_abort_context
  <2> QED
    BY <1>3, <2>1, <2>2
<1>4. CASE e = p /\ j = 0 /\ p.stage # "WORK"
  <2>1. alloc_fails(p) = p /\ tx_abort_context(p) = p
    BY <1>4 DEF alloc_fails, tx_abort_context
  <2> QED
    BY <1>4, <2>1
<1>5. CASE e = p /\ j = 0 /\ p.stage = "WORK" /\ p.orphan
  <2>1. alloc_fails(p) = Die(p)
    BY <1>5 DEF alloc_fails, pmemobj_tx_abort
  <2>2. tx_abort_context(Die(p)) = Die(p)
    BY DieLemma DEF tx_abort_context
  <2> QED
    BY <1>5, <2>1, <2>2
<1>6. CASE e = p /\ j = 0 /\ p.stage = "WORK" /\ ~p.orphan
  <2>1. p.depth + j = p.depth
    BY <1>0, <1>6
  <2> QED
    BY <1>3, <1>6, <2>1
<1> QED
  BY <1>1, <1>2, <1>3, <1>4, <1>5, <1>6

\* An allocation that fails after the handler's stores: an outermost abort takes
\* them back, an inner one leaves them to be seen until the outermost ends.
LEMMA ConstructionFailsLemma ==
    ASSUME NEW Loc, NEW Word, NEW p, Good(p, Loc, Word), NoSnap \notin Word,
           NEW j \in Nat, j # 0, NEW S \in SUBSET Loc, NEW f \in [Loc -> Word],
           NEW e, e = EnterN(p, j), NEW b, b = tx_store(e, S, f),
           NEW a, a = alloc_fails(b), NEW q, q = tx_abort_context(a)
    PROVE  \/ q = Die(p) /\ ~(p.stage \in {"NONE", "WORK"} /\ ~p.orphan)
           \/ /\ Good(q, Loc, Word) /\ ~q.orphan /\ ~p.orphan
              /\ p.stage \in {"NONE", "WORK"}
              /\ q.stage = "ONABORT" /\ q.depth = p.depth + j
              /\ Rolled(q) = Rolled(p)
              /\ q.mem = IF p.depth + j = 1 THEN Rolled(p) ELSE Put(p.mem, S, f, Loc)
<1>1. CASE p.stage \in {"NONE", "WORK"} /\ ~p.orphan
  <2>1. /\ Good(e, Loc, Word) /\ e.stage = "WORK" /\ ~e.orphan
        /\ e.depth = p.depth + j /\ e.mem = p.mem /\ Rolled(e) = Rolled(p)
    BY <1>1, EnterNLemma
  <2>2. /\ Good(b, Loc, Word) /\ b.stage = "WORK" /\ ~b.orphan
        /\ b.depth = p.depth + j /\ Rolled(b) = Rolled(p)
        /\ b.mem = Put(p.mem, S, f, Loc)
    BY <2>1, StoreLemma
  <2>3. /\ Good(a, Loc, Word) /\ a.stage = "ONABORT" /\ ~a.orphan
        /\ a.depth = p.depth + j /\ Rolled(a) = Rolled(p)
        /\ a.mem = IF p.depth + j = 1 THEN Rolled(p) ELSE Put(p.mem, S, f, Loc)
    BY <2>2, AbortLemma DEF alloc_fails
  <2>4. q = a
    BY <2>3 DEF tx_abort_context
  <2> QED
    BY <1>1, <2>3, <2>4
<1>2. CASE ~(p.stage \in {"NONE", "WORK"} /\ ~p.orphan)
  <2>1. e = Die(p) /\ Good(e, Loc, Word) /\ e.stage = "DEAD"
    BY <1>2, DieLemma DEF EnterN
  <2>2. b = e
    BY <2>1 DEF tx_store
  <2>3. a = e /\ q = e
    BY <2>1, <2>2 DEF alloc_fails, tx_abort_context
  <2> QED
    BY <1>2, <2>1, <2>3
<1> QED
  BY <1>1, <1>2

\* Recovery shows the image of the last commit and leaves nothing to undo.
LEMMA OpenLemma ==
    ASSUME NEW Loc, NEW Word, NEW p \in TxState(Loc, Word), Shape(p),
           p.stage # "DEAD"
    PROVE  LET q == pmemobj_open(p)
           IN  /\ Good(q, Loc, Word) /\ q.stage = p.stage
               /\ q.mem = Rolled(p) /\ Rolled(q) = Rolled(p) /\ Settled(q)
<1> DEFINE q == pmemobj_open(p)
<1> DEFINE o == p.depth > 0
<1> DEFINE m == Rolled(p)
<1> DEFINE u == NoUndo(p)
<1>1. /\ p.depth \in Nat /\ p.stage \in Stages /\ o \in BOOLEAN
      /\ m \in [Loc -> Word] /\ u \in [Loc -> Word \cup {NoSnap}]
  BY FieldLemma
<1>2. q = [p EXCEPT !.mem = m, !.undo = u, !.orphan = o]
  BY DEF pmemobj_open
<1>3. q = [stage |-> p.stage, depth |-> p.depth, mem |-> m, undo |-> u, orphan |-> o]
  <2> HIDE DEF m, u, o, q
  <2> QED BY <1>2 DEF TxState
<1>4. q \in TxState(Loc, Word)
  <2> HIDE DEF m, u, o, q
  <2> QED BY <1>1, <1>3 DEF TxState
<1>5. q.undo = NoUndo(q) /\ q.mem = Rolled(p) /\ q.stage = p.stage
  <2> HIDE DEF q
  <2> QED BY <1>3, <1>4, FieldLemma
<1>6. Rolled(q) = Rolled(p)
  <2> HIDE DEF q
  <2> QED BY <1>4, <1>5, FieldLemma
<1>7. q.orphan <=> p.depth > 0
  <2> HIDE DEF q, m, u
  <2> QED BY <1>3
<1>8. q.depth = p.depth
  <2> HIDE DEF q
  <2> QED BY <1>3
<1>9. Shape(q) /\ Settled(q) /\ Clean(q)
  <2> HIDE DEF q, m, u
  <2> QED BY <1>1, <1>5, <1>7, <1>8 DEF Shape, Settled, Clean
<1> QED
  BY <1>4, <1>5, <1>6, <1>9 DEF Good

\* A restart keeps the persistent memory and its undo log.
LEMMA NewProcessLemma ==
    ASSUME NEW Loc, NEW Word, NEW p \in TxState(Loc, Word)
    PROVE  LET q == NewProcess(p)
           IN  /\ q \in TxState(Loc, Word) /\ Shape(q)
               /\ q.stage = "NONE" /\ q.depth = 0 /\ ~q.orphan
               /\ q.mem = p.mem /\ q.undo = p.undo
               /\ Rolled(q) = Rolled(p) /\ NoUndo(q) = NoUndo(p)
<1> DEFINE q == NewProcess(p)
<1>0. q = [p EXCEPT !.stage = "NONE", !.depth = 0, !.orphan = FALSE]
  BY DEF NewProcess
<1>1. q = [stage |-> "NONE", depth |-> 0, mem |-> p.mem, undo |-> p.undo,
           orphan |-> FALSE]
  <2> HIDE DEF q
  <2> QED BY <1>0 DEF TxState
<1>2. q \in TxState(Loc, Word)
  BY <1>1 DEF TxState, Stages
<1>3. Rolled(q) = Rolled(p) /\ NoUndo(q) = NoUndo(p)
  <2> HIDE DEF q
  <2> QED BY <1>1, RolledLemma
<1> QED
  BY <1>1, <1>2, <1>3 DEF Shape

=============================================================================
