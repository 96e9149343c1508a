--------------------------- MODULE PMArray_proofs ---------------------------
(***************************************************************************)
(* The length of an array never exceeds its block, and the block is always *)
(* as large as its allocated size says: now, and in the image an abort or  *)
(* a recovery would bring back, at every point where the process can stop. *)
(*                                                                         *)
(* resize() clears items that nothing has snapshotted, which changes the   *)
(* image recovery would restore as well.  It does no harm to the shape of  *)
(* that image, because a transaction that has snapshotted the allocated    *)
(* size has snapshotted the whole block with it (Whole).                   *)
(*                                                                         *)
(* And the array implements PArray (the second half of the module).        *)
(***************************************************************************)
EXTENDS PMArray, PmemTx_proofs

Sound(m) ==
    /\ m[ob_size] \in Nat /\ m[allocated] \in Nat
    /\ m[ob_size] <= m[allocated] /\ m[allocated] <= MaxAllocated
    /\ m[ob_size] <= MaxLength
    /\ \A i \in Slot : m[i] \in IF i < m[allocated] THEN Item ELSE {UNALLOCATED}

Whole(p) == p.undo[allocated] # NoSnap => \A l \in Loc : p.undo[l] # NoSnap

Consistent(p) ==
    /\ Good(p, Loc, Word) /\ ~p.orphan
    /\ p.stage \in {"NONE", "WORK", "DEAD"}
    /\ Sound(p.mem) /\ Sound(Rolled(p)) /\ Whole(p)

Running(p) == Consistent(p) /\ p.stage # "DEAD"

-----------------------------------------------------------------------------
(* The locations, and the sizes. *)

\* A block for n items has room for them, and more items need no less room.
LEMMA SizeLemma ==
    ASSUME NEW n \in 0..MaxLength
    PROVE  /\ MaxAllocated \in Nat
           /\ new_allocated(n) \in Nat
           /\ n <= new_allocated(n) /\ new_allocated(n) <= MaxAllocated
<1>1. MaxLength \in Nat /\ MaxLength >= 1
  BY LengthAssumption
<1>2. n \in Nat /\ n <= MaxLength
  BY <1>1
<1>3. /\ n \div 8 \in Nat /\ MaxLength \div 8 \in Nat
      /\ n \div 8 <= MaxLength \div 8
  BY <1>1, <1>2, SMT
<1> QED
  BY <1>1, <1>2, <1>3 DEF MaxAllocated, new_allocated

LEMMA LocLemma ==
    /\ MaxLength \in Nat /\ MaxAllocated \in Nat
    /\ Slot \subseteq Loc /\ ob_size \in Loc /\ allocated \in Loc
    /\ ob_size \notin Slot /\ allocated \notin Slot /\ ob_size # allocated
    /\ \A l \in Loc : l \in Slot \/ l = ob_size \/ l = allocated
    /\ \A i \in Slot : i \in Nat /\ i < MaxAllocated
    /\ \A i \in Nat : i < MaxAllocated => i \in Slot
    /\ NoSnap \notin Word /\ Item \subseteq Word /\ Nat \subseteq Word
    /\ UNALLOCATED \in Word /\ PPTR_NULL \in Item /\ PPTR_UNDEFINED \in Item
    /\ Val \subseteq Item
<1>1. MaxLength \in Nat /\ MaxAllocated \in Nat
  BY SizeLemma, LengthAssumption
<1>2. NoSnap \notin Word
  BY WordAssumption DEF Word, Item
<1> QED
  BY <1>1, <1>2 DEF Slot, Loc, ob_size, allocated, Word, Item

-----------------------------------------------------------------------------
(* The images that stores build. *)

LEMMA MovedLemma ==
    ASSUME NEW m \in [Loc -> Word], Sound(m), NEW n \in 0..MaxLength
    PROVE  LET k == moved(m, n)
           IN  k \in [Loc -> Word] /\ Sound(k) /\ k[ob_size] = n
<1> DEFINE k == moved(m, n)
<1> DEFINE a == new_allocated(n)
<1>1. n \in Nat /\ a \in Nat /\ n <= a /\ a <= MaxAllocated
  BY SizeLemma
<1> HIDE DEF a
<1>2. DOMAIN k = Loc /\ k[ob_size] = n /\ k[allocated] = a
  BY LocLemma DEF moved, a
<1>3. ASSUME NEW i \in Slot
      PROVE  k[i] \in IF i < a THEN Item ELSE {UNALLOCATED}
  <2>1. i \in Nat /\ i \in Loc /\ i # ob_size /\ i # allocated
    BY LocLemma
  <2>2. CASE i >= a
    BY <1>1, <2>1, <2>2 DEF moved, a
  <2>3. CASE i < a
    <3>1. k[i] = IF i < m[allocated] THEN m[i] ELSE PPTR_NULL
      BY <1>1, <2>1, <2>3 DEF moved, a
    <3>2. i < m[allocated] => m[i] \in Item
      BY DEF Sound
    <3> QED
      BY <2>3, <3>1, <3>2, LocLemma
  <2> QED
    BY <1>1, <2>1, <2>2, <2>3
<1>4. k \in [Loc -> Word]
  BY <1>1, LocLemma DEF moved, a
<1> HIDE DEF k
<1>5. Sound(k)
  BY <1>1, <1>2, <1>3, LocLemma DEF Sound
<1> QED
  BY <1>2, <1>4, <1>5 DEF k

LEMMA PutLengthLemma ==
    ASSUME NEW m \in [Loc -> Word], Sound(m), NEW n \in 0..MaxLength, n <= m[allocated]
    PROVE  LET k == Put(m, {ob_size}, [l \in Loc |-> n], Loc)
           IN  /\ k \in [Loc -> Word] /\ Sound(k)
               /\ k[ob_size] = n /\ k[allocated] = m[allocated]
<1> DEFINE k == Put(m, {ob_size}, [l \in Loc |-> n], Loc)
<1>1. k \in [Loc -> Word]
  BY LocLemma DEF Put
<1>2. k[ob_size] = n /\ k[allocated] = m[allocated] /\ \A i \in Slot : k[i] = m[i]
  BY LocLemma DEF Put
<1> HIDE DEF k
<1>3. Sound(k)
  BY <1>2, LocLemma DEF Sound
<1> QED
  BY <1>1, <1>2, <1>3 DEF k

\* An item stored within the block.
LEMMA SetItemLemma ==
    ASSUME NEW m \in [Loc -> Word], Sound(m), NEW v \in Item,
           NEW i \in Nat, i < m[allocated]
    PROVE  LET k == Set(m, i, v)
           IN  k \in [Loc -> Word] /\ Sound(k)
<1> DEFINE k == Set(m, i, v)
<1>1. i \in Slot /\ i \in Loc /\ v \in Word
  BY LocLemma DEF Sound
<1>2. /\ k \in [Loc -> Word]
      /\ k[allocated] = m[allocated] /\ k[ob_size] = m[ob_size]
      /\ \A j \in Slot : k[j] = IF j = i THEN v ELSE m[j]
  BY <1>1, LocLemma DEF Set
<1> HIDE DEF k
<1>3. Sound(k)
  BY <1>1, <1>2 DEF Sound
<1> QED
  BY <1>2, <1>3 DEF k

\* An index within the block, counted by the length.
LEMMA SetLengthLemma ==
    ASSUME NEW m \in [Loc -> Word], Sound(m), NEW i \in Index, i < m[allocated]
    PROVE  LET k == Set(m, ob_size, i + 1)
           IN  k \in [Loc -> Word] /\ Sound(k) /\ k[allocated] = m[allocated]
<1> DEFINE k == Set(m, ob_size, i + 1)
<1>1. i \in Nat /\ i + 1 \in Nat /\ i + 1 <= MaxLength
  BY LocLemma DEF Index
<1>2. /\ k \in [Loc -> Word]
      /\ k[allocated] = m[allocated] /\ k[ob_size] = i + 1
      /\ \A j \in Slot : k[j] = m[j]
  BY <1>1, LocLemma DEF Set
<1> HIDE DEF k
<1>3. Sound(k)
  BY <1>1, <1>2 DEF Sound
<1> QED
  BY <1>2, <1>3 DEF k

-----------------------------------------------------------------------------
(* The steps of the library. *)

LEMMA FieldsLemma ==
    ASSUME NEW p, Consistent(p)
    PROVE  /\ p \in TxState(Loc, Word) /\ p.depth \in Nat
           /\ p.mem \in [Loc -> Word] /\ p.undo \in [Loc -> Word \cup {NoSnap}]
           /\ Rolled(p) \in [Loc -> Word]
           /\ p.stage # "DEAD" => (p.stage = "NONE" <=> p.depth = 0)
  BY FieldLemma DEF Consistent, Good, Shape

LEMMA DieConsistent ==
    ASSUME NEW p, Consistent(p)
    PROVE  Consistent(Die(p)) /\ Die(p).stage = "DEAD"
<1> DEFINE q == Die(p)
<1>1. /\ Good(q, Loc, Word) /\ q.stage = "DEAD" /\ q.orphan = p.orphan
      /\ q.mem = p.mem /\ q.undo = p.undo /\ Rolled(q) = Rolled(p)
  BY DieLemma DEF Consistent
<1> HIDE DEF q
<1>2. Consistent(q)
  BY <1>1 DEF Consistent, Whole
<1> QED
  BY <1>1, <1>2 DEF q

LEMMA EnterLemma ==
    ASSUME NEW p, Running(p)
    PROVE  LET q == tx_enter_context(p)
           IN  /\ Running(q) /\ q.stage = "WORK" /\ q.depth = p.depth + 1
               /\ q.mem = p.mem /\ Rolled(q) = Rolled(p)
<1> DEFINE q == pmemobj_tx_begin(p)
<1>1. /\ Good(q, Loc, Word) /\ q.stage = "WORK" /\ q.depth = p.depth + 1 /\ ~q.orphan
      /\ q.mem = p.mem /\ q.undo = p.undo /\ Rolled(q) = Rolled(p)
  BY BeginLemma DEF Running, Consistent
<1>2. tx_enter_context(p) = q
  BY DEF tx_enter_context
<1> HIDE DEF q
<1>3. Running(q)
  BY <1>1 DEF Running, Consistent, Whole
<1> QED
  BY <1>1, <1>2, <1>3

\* MM_TX_END: back to the level above, or to none with a durable image.
LEMMA ExitLemma ==
    ASSUME NEW p, Running(p), p.stage = "WORK"
    PROVE  LET q == tx_exit_context(p)
           IN  /\ Running(q) /\ q.depth = p.depth - 1 /\ q.mem = p.mem
               /\ q.stage = IF p.depth = 1 THEN "NONE" ELSE "WORK"
<1> DEFINE c == pmemobj_tx_commit(p)
<1> DEFINE q == pmemobj_tx_end(c)
<1>1. tx_exit_context(p) = q
  BY DEF tx_exit_context
<1>2. Good(p, Loc, Word) /\ ~p.orphan /\ p \in TxState(Loc, Word)
  BY DEF Running, Consistent, Good
<1>3. /\ Good(c, Loc, Word) /\ c.stage = "ONCOMMIT" /\ c.depth = p.depth /\ ~c.orphan
      /\ c.mem = p.mem /\ Rolled(c) = IF p.depth = 1 THEN p.mem ELSE Rolled(p)
      /\ c.undo = IF p.depth = 1 THEN NoUndo(p) ELSE p.undo
  BY <1>2, CommitLemma
<1> HIDE DEF c
<1>4. /\ Good(q, Loc, Word) /\ ~q.orphan /\ q.depth = p.depth - 1
      /\ q.mem = p.mem /\ Rolled(q) = Rolled(c) /\ q.undo = c.undo
      /\ q.stage = IF p.depth = 1 THEN "NONE" ELSE "WORK"
  BY <1>3, EndLemma
<1> HIDE DEF q
<1>5. Sound(q.mem) /\ Sound(Rolled(q))
  BY <1>3, <1>4 DEF Running, Consistent
<1>6. Whole(q)
  <2>1. CASE p.depth = 1
    <3>1. q.undo = [l \in Loc |-> NoSnap]
      BY <1>2, <1>3, <1>4, <2>1, FieldLemma
    <3> QED
      BY <3>1, LocLemma DEF Whole
  <2>2. CASE p.depth # 1
    BY <1>3, <1>4, <2>2 DEF Running, Consistent, Whole
  <2> QED
    BY <2>1, <2>2
<1> QED
  BY <1>1, <1>4, <1>5, <1>6 DEF Running, Consistent

\* A store of the allocated size is one of the whole block.
LEMMA TxStoreLemma ==
    ASSUME NEW p, Running(p), p.stage = "WORK",
           NEW S \in SUBSET Loc, allocated \in S => S = Loc,
           NEW f \in [Loc -> Word], Sound(Put(p.mem, S, f, Loc))
    PROVE  LET q == tx_store(p, S, f)
           IN  /\ Running(q) /\ q.stage = "WORK" /\ q.depth = p.depth
               /\ q.mem = Put(p.mem, S, f, Loc)
<1> DEFINE q == tx_store(p, S, f)
<1>1. /\ Good(q, Loc, Word) /\ q.stage = "WORK" /\ q.depth = p.depth /\ ~q.orphan
      /\ q.mem = Put(p.mem, S, f, Loc) /\ Rolled(q) = Rolled(p)
      /\ \A l \in Loc : q.undo[l] = NoSnap <=> l \notin S /\ p.undo[l] = NoSnap
  BY LocLemma, StoreLemma DEF Running, Consistent
<1> HIDE DEF q
<1>2. Whole(q)
  BY <1>1, LocLemma DEF Whole, Running, Consistent
<1> QED
  BY <1>1, <1>2 DEF Running, Consistent, q

LEMMA InTxRunning ==
    ASSUME NEW p, Running(p),
           NEW S \in SUBSET Loc, allocated \in S => S = Loc,
           NEW f \in [Loc -> Word], Sound(Put(p.mem, S, f, Loc))
    PROVE  LET q == InTx(p, S, f)
           IN  /\ Running(q) /\ q.stage = p.stage /\ q.depth = p.depth
               /\ q.mem = Put(p.mem, S, f, Loc)
<1> DEFINE e == tx_enter_context(p)
<1> DEFINE w == tx_store(e, S, f)
<1>1. Running(e) /\ e.stage = "WORK" /\ e.depth = p.depth + 1 /\ e.mem = p.mem
  BY EnterLemma
<1> HIDE DEF e
<1>2. /\ Running(w) /\ w.stage = "WORK" /\ w.depth = p.depth + 1
      /\ w.mem = Put(p.mem, S, f, Loc)
  BY <1>1, TxStoreLemma
<1>3. InTx(p, S, f) = tx_exit_context(w)
  BY DEF InTx, e
<1> HIDE DEF w
<1>4. LET q == tx_exit_context(w)
      IN  /\ Running(q) /\ q.depth = w.depth - 1 /\ q.mem = w.mem
          /\ q.stage = IF w.depth = 1 THEN "NONE" ELSE "WORK"
  BY <1>2, ExitLemma
<1>5. p.depth \in Nat /\ p.stage \in {"NONE", "WORK"} /\ (p.stage = "NONE" <=> p.depth = 0)
  BY FieldsLemma DEF Running, Consistent
<1> QED
  BY <1>2, <1>3, <1>4, <1>5

-----------------------------------------------------------------------------
(* The operations of the array. *)

\* memset() changes both images, but the shape of neither.
LEMMA ClearedLemma ==
    ASSUME NEW p, Running(p), p.stage = "WORK", NEW n \in Nat
    PROVE  LET q == Cleared(p, n)
           IN  /\ Running(q) /\ q.stage = "WORK" /\ q.depth = p.depth
               /\ q.mem[ob_size] = p.mem[ob_size]
               /\ q.mem[allocated] = p.mem[allocated]
<1> DEFINE m == [l \in Loc |-> IF l >= n /\ l < p.mem[allocated] THEN PPTR_NULL
                               ELSE p.mem[l]]
<1> DEFINE q == Cleared(p, n)
<1>1. /\ p \in TxState(Loc, Word) /\ p.depth \in Nat
      /\ p.mem \in [Loc -> Word] /\ p.undo \in [Loc -> Word \cup {NoSnap}]
      /\ Rolled(p) \in [Loc -> Word] /\ Sound(p.mem) /\ Sound(Rolled(p)) /\ Whole(p)
      /\ Good(p, Loc, Word) /\ ~p.orphan
  BY FieldsLemma DEF Running, Consistent
<1>2. /\ m \in [Loc -> Word]
      /\ m[ob_size] = p.mem[ob_size] /\ m[allocated] = p.mem[allocated]
      /\ \A i \in Slot : m[i] = p.mem[i] \/ (i < p.mem[allocated] /\ m[i] = PPTR_NULL)
  <2>1. m \in [Loc -> Word]
    BY <1>1, LocLemma
  <2>2. p.mem[allocated] \in Nat /\ p.mem[allocated] <= MaxAllocated
    BY <1>1 DEF Sound
  <2>3. m[ob_size] = p.mem[ob_size] /\ m[allocated] = p.mem[allocated]
    BY <2>2, LocLemma DEF ob_size, allocated
  <2> QED
    BY <2>1, <2>3, LocLemma
<1>3. q = [p EXCEPT !.mem = m]
  BY DEF Cleared
<1> HIDE DEF m
<1>4. q = [stage |-> "WORK", depth |-> p.depth, mem |-> m, undo |-> p.undo,
           orphan |-> p.orphan]
  BY <1>1, <1>3 DEF TxState
<1> HIDE DEF q
<1>5. Good(q, Loc, Word)
  <2>1. q \in TxState(Loc, Word)
    BY <1>1, <1>2, <1>4 DEF TxState, Stages
  <2> QED
    BY <1>1, <1>4, <2>1 DEF Good, Shape, Clean, Settled
<1>6. Sound(m)
  BY <1>1, <1>2, LocLemma DEF Sound
<1>7. Whole(q)
  BY <1>1, <1>4 DEF Whole
<1>8. Sound(Rolled(q))
  <2>1. \A l \in Loc : Rolled(q)[l] = IF p.undo[l] = NoSnap THEN m[l] ELSE p.undo[l]
    BY <1>2, <1>4 DEF Rolled
  <2>2. \A l \in Loc : Rolled(p)[l] = IF p.undo[l] = NoSnap THEN p.mem[l] ELSE p.undo[l]
    BY <1>1 DEF Rolled
  <2>3. /\ Rolled(q)[ob_size] = Rolled(p)[ob_size]
        /\ Rolled(q)[allocated] = Rolled(p)[allocated]
    BY <1>2, <2>1, <2>2, LocLemma
  <2>4. ASSUME NEW i \in Slot
        PROVE  Rolled(q)[i] \in
                 IF i < Rolled(q)[allocated] THEN Item ELSE {UNALLOCATED}
    <3>1. i \in Loc /\ allocated \in Loc
      BY LocLemma
    <3>2. CASE p.undo[i] # NoSnap
      BY <1>1, <2>1, <2>2, <2>3, <3>1, <3>2 DEF Sound
    <3>3. CASE p.undo[i] = NoSnap
      <4>1. p.undo[allocated] = NoSnap
        BY <1>1, <3>1, <3>3 DEF Whole
      <4>2. Rolled(q)[allocated] = m[allocated] /\ Rolled(q)[i] = m[i]
        BY <2>1, <3>1, <3>3, <4>1
      <4> QED
        BY <1>6, <4>2 DEF Sound
    <3> QED
      BY <3>2, <3>3
  <2> QED
    BY <1>1, <2>3, <2>4 DEF Sound
<1> QED
  BY <1>1, <1>2, <1>4, <1>5, <1>6, <1>7, <1>8 DEF Running, Consistent, q

LEMMA ShortenedLemma ==
    ASSUME NEW p, Running(p), NEW n \in 0..MaxLength, n <= p.mem[allocated]
    PROVE  LET q == Shortened(p, n)
           IN  /\ Running(q) /\ q.stage = "WORK" /\ q.depth = p.depth + 1
               /\ q.mem[ob_size] = n
<1> DEFINE e == tx_enter_context(p)
<1> DEFINE w == SetLengthTo(e, n)
<1>1. Running(e) /\ e.stage = "WORK" /\ e.depth = p.depth + 1 /\ e.mem = p.mem
  BY EnterLemma
<1>2. p.mem \in [Loc -> Word] /\ Sound(p.mem)
  BY FieldsLemma DEF Running, Consistent
<1> HIDE DEF e
<1>n. n \in Nat
  BY LocLemma
<1>3. /\ Running(w) /\ w.stage = "WORK" /\ w.depth = p.depth + 1
      /\ w.mem[ob_size] = n
  <2>1. /\ {ob_size} \in SUBSET Loc /\ allocated \notin {ob_size}
        /\ [l \in Loc |-> n] \in [Loc -> Word]
    BY <1>n, LocLemma
  <2>2. LET k == Put(p.mem, {ob_size}, [l \in Loc |-> n], Loc)
        IN  Sound(k) /\ k[ob_size] = n
    BY <1>2, PutLengthLemma
  <2> QED
    BY <1>1, <2>1, <2>2, TxStoreLemma DEF SetLengthTo
<1>4. Shortened(p, n) = Cleared(w, n)
  BY DEF Shortened, e
<1> HIDE DEF w
<1> QED
  BY <1>n, <1>3, <1>4, ClearedLemma

LEMMA ResizeLemma ==
    ASSUME NEW p, Running(p), NEW n \in 0..MaxLength
    PROVE  LET q == resize(p, n)
           IN  /\ Running(q) /\ q.stage = p.stage /\ q.depth = p.depth
               /\ q.mem[ob_size] = n
<1>1. /\ p.mem \in [Loc -> Word] /\ Sound(p.mem) /\ p.depth \in Nat
      /\ p.stage \in {"NONE", "WORK"} /\ (p.stage = "NONE" <=> p.depth = 0)
  BY FieldsLemma DEF Running, Consistent
<1>2. n \in Nat
  BY LocLemma
<1>3. CASE InPlace(p.mem, n)
  <2> DEFINE w == Shortened(p, n)
  <2>1. /\ Running(w) /\ w.stage = "WORK" /\ w.depth = p.depth + 1
        /\ w.mem[ob_size] = n
    BY <1>2, <1>3, ShortenedLemma DEF InPlace
  <2>2. resize(p, n) = tx_exit_context(w)
    BY <1>3 DEF resize
  <2> HIDE DEF w
  <2> QED
    BY <1>1, <2>1, <2>2, ExitLemma
<1>4. CASE ~InPlace(p.mem, n)
  <2> DEFINE f == moved(p.mem, n)
  <2>1. f \in [Loc -> Word] /\ Sound(f) /\ f[ob_size] = n
    BY <1>1, MovedLemma
  <2>2. resize(p, n) = InTx(p, Loc, f)
    BY <1>4 DEF resize
  <2> HIDE DEF f
  <2>3. Put(p.mem, Loc, f, Loc) = f
    BY <2>1 DEF Put
  <2> QED
    BY <2>1, <2>2, <2>3, InTxRunning
<1> QED
  BY <1>3, <1>4

\* After it there is room for index i.
LEMMA GrownLemma ==
    ASSUME NEW p, Running(p), NEW i \in Index
    PROVE  LET q == Grown(p, i)
           IN  /\ Running(q) /\ q.stage = p.stage /\ q.depth = p.depth
               /\ i \in Nat /\ i < q.mem[allocated]
<1>1. i \in Nat /\ i + 1 \in 0..MaxLength
  BY LocLemma DEF Index
<1>2. p.mem[allocated] \in Nat
  BY DEF Running, Consistent, Sound
<1>3. CASE i + 1 > p.mem[allocated]
  <2> DEFINE q == resize(p, i + 1)
  <2>1. /\ Running(q) /\ q.stage = p.stage /\ q.depth = p.depth
        /\ q.mem[ob_size] = i + 1
    BY <1>1, ResizeLemma
  <2>2. Grown(p, i) = q
    BY <1>3 DEF Grown
  <2> HIDE DEF q
  <2>3. i < q.mem[allocated]
    BY <1>1, <2>1 DEF Running, Consistent, Sound
  <2> QED
    BY <1>1, <2>1, <2>2, <2>3
<1>4. CASE ~(i + 1 > p.mem[allocated])
  BY <1>1, <1>2, <1>4 DEF Grown
<1> QED
  BY <1>3, <1>4

\* Outside transactions a store is durable at once.
LEMMA LoneStoreLemma ==
    ASSUME NEW p, Running(p), p.stage = "NONE", NEW m \in [Loc -> Word], Sound(m)
    PROVE  LET q == [p EXCEPT !.mem = m]
           IN  Running(q) /\ q.stage = "NONE" /\ q.depth = p.depth
<1> DEFINE q == [p EXCEPT !.mem = m]
<1>1. /\ p \in TxState(Loc, Word) /\ p.depth \in Nat /\ p.undo = NoUndo(p)
      /\ Good(p, Loc, Word) /\ ~p.orphan /\ Whole(p)
      /\ p.undo \in [Loc -> Word \cup {NoSnap}]
  BY FieldsLemma DEF Running, Consistent, Good, Clean, Settled
<1>2. q = [stage |-> "NONE", depth |-> p.depth, mem |-> m, undo |-> p.undo,
           orphan |-> p.orphan]
  BY <1>1 DEF TxState
<1> HIDE DEF q
<1>3. q \in TxState(Loc, Word)
  BY <1>1, <1>2 DEF TxState, Stages
<1>4. q.undo = NoUndo(q)
  BY <1>1, <1>2 DEF NoUndo
<1>5. Good(q, Loc, Word)
  BY <1>1, <1>2, <1>3, <1>4 DEF Good, Shape, Clean
<1>6. Rolled(q) = m
  BY <1>2, <1>3, <1>4, FieldLemma
<1> QED
  BY <1>1, <1>2, <1>5, <1>6 DEF Running, Consistent, Whole, q

LEMMA SetPropertyLemma ==
    ASSUME NEW p, Running(p), NEW i \in Index, NEW v \in Item
    PROVE  LET q == setProperty(p, i, v)
           IN  Running(q) /\ q.stage = p.stage /\ q.depth = p.depth
<1> DEFINE q == Grown(p, i)
<1> DEFINE longer == i + 1 > q.mem[ob_size]
<1> DEFINE g == IF longer THEN Set(q.mem, ob_size, i + 1) ELSE q.mem
<1> DEFINE m == Set(g, i, v)
<1> DEFINE S == {i} \cup (IF longer THEN {ob_size} ELSE {})
<1>1. /\ Running(q) /\ q.stage = p.stage /\ q.depth = p.depth
      /\ i \in Nat /\ i < q.mem[allocated]
  BY GrownLemma
<1>2. setProperty(p, i, v) =
        IF q.stage = "WORK" THEN InTx(q, S, m) ELSE [q EXCEPT !.mem = m]
  BY DEF setProperty
<1> HIDE DEF q
<1>3. q.mem \in [Loc -> Word] /\ Sound(q.mem)
  BY <1>1, FieldsLemma DEF Running, Consistent
<1>4. g \in [Loc -> Word] /\ Sound(g) /\ g[allocated] = q.mem[allocated]
  BY <1>1, <1>3, SetLengthLemma
<1>5. i \in Slot
  BY <1>1, <1>3, LocLemma DEF Sound
<1>6. Put(q.mem, S, m, Loc) = m
  <2>1. \A l \in Loc : l \notin S => m[l] = q.mem[l]
    BY <1>3, <1>5, LocLemma DEF Set
  <2>2. m \in [Loc -> Word]
    BY <1>1, <1>4, SetItemLemma
  <2> HIDE DEF m, S
  <2> QED
    BY <2>1, <2>2 DEF Put
<1> HIDE DEF g
<1>7. m \in [Loc -> Word] /\ Sound(m)
  BY <1>1, <1>4, SetItemLemma
<1> HIDE DEF m
<1>8. S \in SUBSET Loc /\ allocated \notin S
  BY <1>5, LocLemma
<1> HIDE DEF S
<1>9. CASE q.stage = "WORK"
  BY <1>1, <1>2, <1>6, <1>7, <1>8, <1>9, InTxRunning
<1>10. CASE q.stage # "WORK"
  <2>1. q.stage = "NONE"
    BY <1>1, <1>10 DEF Running, Consistent
  <2> QED
    BY <1>1, <1>2, <1>7, <1>10, <2>1, LoneStoreLemma
<1> QED
  BY <1>9, <1>10

\* pop() before it calls resize(), and as a whole.
LEMMA PopLemma ==
    ASSUME NEW p, Running(p), p.mem[ob_size] # 0
    PROVE  /\ p.mem[ob_size] - 1 \in 0..MaxLength
           /\ LET q == Popping(p)
              IN  /\ Running(q) /\ q.stage = "WORK" /\ q.depth = p.depth + 1
                  /\ q.mem[allocated] = p.mem[allocated]
           /\ LET q == pop(p)
              IN  Running(q) /\ q.stage = p.stage /\ q.depth = p.depth
<1> DEFINE n == p.mem[ob_size] - 1
<1> DEFINE e == tx_enter_context(p)
<1> DEFINE w == Popping(p)
<1> DEFINE r == resize(w, n)
<1>1. /\ p.mem \in [Loc -> Word] /\ Sound(p.mem) /\ p.depth \in Nat
      /\ p.stage \in {"NONE", "WORK"} /\ (p.stage = "NONE" <=> p.depth = 0)
  BY FieldsLemma DEF Running, Consistent
<1>2. n \in 0..MaxLength /\ n \in Nat /\ n <= p.mem[allocated]
  BY <1>1, LocLemma DEF Sound
<1>3. w = SetLengthTo(e, n) /\ pop(p) = tx_exit_context(r)
  BY DEF Popping, pop
<1>4. Running(e) /\ e.stage = "WORK" /\ e.depth = p.depth + 1 /\ e.mem = p.mem
  BY EnterLemma
<1> HIDE DEF e, n
<1>5. /\ Running(w) /\ w.stage = "WORK" /\ w.depth = p.depth + 1
      /\ w.mem[allocated] = p.mem[allocated]
  <2>1. /\ {ob_size} \in SUBSET Loc /\ allocated \notin {ob_size}
        /\ [l \in Loc |-> n] \in [Loc -> Word]
    BY <1>2, LocLemma
  <2>2. LET k == Put(p.mem, {ob_size}, [l \in Loc |-> n], Loc)
        IN  Sound(k) /\ k[allocated] = p.mem[allocated]
    BY <1>1, <1>2, PutLengthLemma
  <2> HIDE DEF w
  <2> QED
    BY <1>3, <1>4, <2>1, <2>2, TxStoreLemma DEF SetLengthTo
<1> HIDE DEF w
<1>6. Running(r) /\ r.stage = "WORK" /\ r.depth = p.depth + 1
  BY <1>2, <1>5, ResizeLemma
<1> HIDE DEF r
<1>7. Running(pop(p)) /\ pop(p).stage = p.stage /\ pop(p).depth = p.depth
  BY <1>1, <1>3, <1>6, ExitLemma
<1> QED
  BY <1>2, <1>5, <1>7 DEF n, w

-----------------------------------------------------------------------------
(* The steps. *)

\* The client's transactions are one level deep.
IInv == Consistent(pm) /\ (pm.stage = "WORK" => pm.depth = 1)

LEMMA InitLemma == Init => IInv
<1> SUFFICES ASSUME Init
             PROVE  IInv
  OBVIOUS
<1> DEFINE m == Created
<1>1. m \in [Loc -> Word]
  BY LocLemma DEF Created
<1>2. m[ob_size] = 0 /\ m[allocated] = 0 /\ \A i \in Slot : m[i] = UNALLOCATED
  BY LocLemma DEF Created
<1> HIDE DEF m
<1>3. pm = [stage |-> "NONE", depth |-> 0, mem |-> m,
            undo |-> [l \in Loc |-> NoSnap], orphan |-> FALSE]
  BY <1>1 DEF Init, Idle, m
<1>4. pm \in TxState(Loc, Word)
  BY <1>1, <1>3 DEF TxState, Stages
<1>5. pm.undo = NoUndo(pm) /\ Rolled(pm) = m
  BY <1>3, <1>4, FieldLemma
<1>6. Sound(m)
  BY <1>2, LocLemma DEF Sound
<1>7. Good(pm, Loc, Word)
  BY <1>3, <1>4, <1>5 DEF Good, Shape, Clean
<1>8. Whole(pm)
  BY <1>3, LocLemma DEF Whole
<1> QED
  BY <1>3, <1>5, <1>6, <1>7, <1>8 DEF IInv, Consistent

\* A call that ends in p.
LEMMA CallsLemma ==
    ASSUME NEW p, Calls(p), IInv,
           \/ Running(p) /\ p.stage = pm.stage /\ p.depth = pm.depth
           \/ Consistent(p) /\ p.stage = "DEAD"
    PROVE  IInv'
  BY DEF Calls, IInv, Running

\* What resurrect() makes of it.
LEMMA ResurrectLemma ==
    ASSUME NEW p, NEW q, Running(p), NEW item, q = resurrect(p, item)
    PROVE  \/ q = p
           \/ Consistent(q) /\ q.stage = "DEAD"
  BY DieConsistent DEF resurrect, Running

LEMMA InterruptedLemma ==
    ASSUME NEW p, Running(p), Interrupted(p)
    PROVE  IInv'
  BY DieConsistent DEF Interrupted, IInv, Running

LEMMA StepLemma ==
    ASSUME IInv, Next
    PROVE  IInv'
<1>1. Alive => Running(pm)
  BY DEF IInv, Alive, Running
<1>2. /\ pm \in TxState(Loc, Word) /\ pm.mem \in [Loc -> Word] /\ Sound(pm.mem)
      /\ Good(pm, Loc, Word) /\ ~pm.orphan
  BY FieldsLemma DEF IInv, Consistent
<1>3. ASSUME NEW i \in Index, NEW v \in Item, Calls(setProperty(pm, i, v))
      PROVE  IInv'
  <2>1. Running(pm)
    BY <1>1, <1>3 DEF Calls
  <2> QED
    BY <1>3, <2>1, SetPropertyLemma, CallsLemma
<1>4. ASSUME NEW i \in Index, NEW v \in Val, SetItem(i, v)
      PROVE  IInv'
  BY <1>3, <1>4, LocLemma DEF SetItem
<1>5. ASSUME NEW v \in Val, Push(v)
      PROVE  IInv'
  <2>1. pm.mem[ob_size] \in Index
    BY <1>2, <1>5, LocLemma DEF Push, Index, Sound
  <2> QED
    BY <1>3, <1>5, <2>1, LocLemma DEF Push
<1>6. ASSUME NEW i \in Index, DelItem(i)
      PROVE  IInv'
  <2>1. CASE i < pm.mem[ob_size]
    BY <1>3, <1>6, <2>1, LocLemma DEF DelItem
  <2>2. CASE ~(i < pm.mem[ob_size])
    BY <1>1, <1>6, <2>2, CallsLemma DEF DelItem, Calls
  <2> QED
    BY <2>1, <2>2
<1>7. ASSUME NEW n \in 0..MaxLength, SetLength(n)
      PROVE  IInv'
  <2>1. Running(pm)
    BY <1>1, <1>7 DEF SetLength, Calls
  <2> QED
    BY <1>7, <2>1, ResizeLemma, CallsLemma DEF SetLength
<1>8. CASE Pop
  <2>1. Running(pm)
    BY <1>1, <1>8 DEF Pop, Calls
  <2>2. CASE pm.mem[ob_size] = 0
    <3>1. Calls(Die(pm))
      BY <1>8, <2>2 DEF Pop
    <3> QED
      BY <2>1, <3>1, DieConsistent, CallsLemma DEF Running
  <2>3. CASE pm.mem[ob_size] # 0
    <3> DEFINE r == resurrect(pop(pm), pm.mem[pm.mem[ob_size] - 1])
    <3>1. Calls(r)
      BY <1>8, <2>3 DEF Pop
    <3>2. Running(pop(pm)) /\ pop(pm).stage = pm.stage /\ pop(pm).depth = pm.depth
      BY <2>1, <2>3, PopLemma
    <3>3. r = pop(pm) \/ (Consistent(r) /\ r.stage = "DEAD")
      BY <3>2, ResurrectLemma
    <3> HIDE DEF r
    <3> QED
      BY <3>1, <3>2, <3>3, CallsLemma
  <2> QED
    BY <2>2, <2>3
<1>9. ASSUME NEW i \in Index, GetItem(i)
      PROVE  IInv'
  <2>1. Running(pm) /\ pm' = resurrect(pm, pm.mem[i])
    BY <1>1, <1>9 DEF GetItem
  <2>2. pm' = pm \/ (Consistent(pm)' /\ pm'.stage = "DEAD")
    BY <2>1, ResurrectLemma DEF Consistent
  <2> QED
    BY <2>2 DEF IInv
<1>10. ASSUME NEW i \in Index, NEW v \in Val, SetItemInterrupted(i, v)
       PROVE  IInv'
  <2> DEFINE q == Grown(pm, i)
  <2>1. Running(pm) /\ pm.stage = "NONE"
    BY <1>1, <1>10 DEF SetItemInterrupted, Interrupted, Alive
  <2>2. /\ Running(q) /\ q.stage = "NONE"
        /\ i \in Nat /\ i < q.mem[allocated]
    BY <2>1, GrownLemma
  <2>3. \/ Interrupted(q)
        \/ Interrupted([q EXCEPT !.mem = Set(q.mem, i, v)])
    BY <1>10 DEF SetItemInterrupted
  <2> HIDE DEF q
  <2>4. Set(q.mem, i, v) \in [Loc -> Word] /\ Sound(Set(q.mem, i, v))
    BY <2>2, SetItemLemma, FieldsLemma, LocLemma DEF Running, Consistent
  <2>5. Running([q EXCEPT !.mem = Set(q.mem, i, v)])
    BY <2>2, <2>4, LoneStoreLemma
  <2> QED
    BY <2>2, <2>3, <2>5, InterruptedLemma
<1>11. ASSUME NEW n \in 0..MaxLength, SetLengthInterrupted(n)
       PROVE  IInv'
  <2>1. Running(pm) /\ n <= pm.mem[allocated] /\ Interrupted(Shortened(pm, n))
    BY <1>1, <1>11 DEF SetLengthInterrupted, Interrupted, InPlace, Alive
  <2> QED
    BY <2>1, ShortenedLemma, InterruptedLemma
<1>12. CASE PopInterrupted
  <2> DEFINE n == pm.mem[ob_size] - 1
  <2> DEFINE w == Popping(pm)
  <2>1. Running(pm) /\ n >= 0 /\ n <= pm.mem[allocated] /\ Interrupted(Shortened(w, n))
    BY <1>1, <1>12 DEF PopInterrupted, Interrupted, InPlace, Alive
  <2>2. pm.mem[ob_size] # 0
    BY <2>1
  <2>3. n \in 0..MaxLength /\ Running(w) /\ n <= w.mem[allocated]
    BY <2>1, <2>2, PopLemma
  <2> HIDE DEF n, w
  <2> QED
    BY <2>1, <2>3, ShortenedLemma, InterruptedLemma
<1>13. CASE TxBegin
  <2>1. Running(pm) /\ pm.stage = "NONE" /\ pm' = tx_enter_context(pm)
    BY <1>1, <1>13 DEF TxBegin, Alive, tx_enter_context
  <2>2. pm.depth = 0
    BY <2>1, FieldsLemma DEF Running
  <2> QED
    BY <2>1, <2>2, EnterLemma DEF IInv, Running
<1>14. CASE TxCommit
  <2>1. Running(pm) /\ pm.stage = "WORK" /\ pm.depth = 1
    BY <1>1, <1>14 DEF TxCommit, InTransaction, Alive, IInv
  <2>2. pm' = tx_exit_context(pm)
    BY <1>14, <2>1 DEF TxCommit, tx_exit_context
  <2> QED
    BY <2>1, <2>2, ExitLemma DEF IInv, Running
<1>15. CASE TxAbort
  <2>1. /\ pm.stage = "WORK" /\ pm.depth = 1
        /\ pm' = pmemobj_tx_end(pmemobj_tx_abort(pm))
    BY <1>15 DEF TxAbort, InTransaction, IInv
  <2>2. pm' = tx_abort_context(pm)
    BY <2>1 DEF tx_abort_context
  <2>3. /\ Good(pm', Loc, Word) /\ Rolled(pm') = Rolled(pm) /\ ~pm'.orphan
        /\ pm'.stage = "NONE" /\ pm'.depth = 0 /\ pm'.mem = Rolled(pm)
    BY <1>2, <2>1, <2>2, AbortContextLemma
  <2>4. pm'.undo = [l \in Loc |-> NoSnap]
    BY <2>3, FieldLemma DEF Good, Clean, Settled
  <2>5. Whole(pm')
    BY <2>4, LocLemma DEF Whole
  <2> QED
    BY <2>3, <2>5 DEF IInv, Consistent
<1>16. CASE Crash
  BY <1>16, DieConsistent DEF Crash, IInv
<1>17. CASE Restart
  <2> DEFINE q == NewProcess(pm)
  <2>1. /\ q \in TxState(Loc, Word) /\ Shape(q) /\ q.stage = "NONE"
        /\ q.depth = 0 /\ Rolled(q) = Rolled(pm)
    BY <1>2, NewProcessLemma
  <2>2. pm' = pmemobj_open(q)
    BY <1>17 DEF Restart
  <2> HIDE DEF q
  <2>3. /\ Good(pm', Loc, Word) /\ pm'.stage = "NONE"
        /\ pm'.mem = Rolled(pm) /\ Rolled(pm') = Rolled(pm)
    BY <2>1, <2>2, OpenLemma
  <2>4. pm'.undo = [l \in Loc |-> NoSnap] /\ ~pm'.orphan
    BY <2>3, FieldLemma DEF Good, Clean, Settled, Shape
  <2>5. Whole(pm')
    BY <2>4, LocLemma DEF Whole
  <2> QED
    BY <2>3, <2>4, <2>5 DEF IInv, Consistent
<1> QED
  BY <1>4, <1>5, <1>6, <1>7, <1>8, <1>9, <1>10, <1>11, <1>12, <1>13, <1>14,
     <1>15, <1>16, <1>17 DEF Next

\* The shape of both images is an invariant of every behaviour, for arrays of any
\* length that the dense form is used for.
THEOREM Invariance == Spec => []IInv
<1>1. IInv /\ [Next]_vars => IInv'
  <2> SUFFICES ASSUME IInv, [Next]_vars
               PROVE  IInv'
    OBVIOUS
  <2>1. CASE Next
    BY <2>1, StepLemma
  <2>2. CASE UNCHANGED vars
    BY <2>2 DEF vars, IInv, Consistent, Whole
  <2> QED
    BY <2>1, <2>2
<1> QED
  BY <1>1, InitLemma, PTL DEF Spec

\* TypeOK: there are as many items as the allocated size says, now and after an
\* abort or a crash, although resize() replaces the block and its size.
THEOREM TypeCorrect == Spec => []TypeOK
<1>1. IInv => TypeOK
  <2> SUFFICES ASSUME IInv
               PROVE  TypeOK
    OBVIOUS
  <2>1. pm.stage \in Stages /\ pm.depth \in Nat
    BY FieldsLemma, FieldLemma DEF IInv
  <2>2. \A image \in Images : Sound(image)
    BY DEF IInv, Consistent, Images
  <2> QED
    BY <2>1, <2>2 DEF TypeOK, Sound
<1> QED
  BY <1>1, Invariance, PTL

\* LengthFits: no index below the length leads out of the block, now and after
\* an abort or a crash at any point of resize(), setProperty() or pop().
THEOREM LengthSafe == Spec => []LengthFits
<1>1. IInv => LengthFits
  BY DEF IInv, Consistent, Sound, LengthFits, Images
<1> QED
  BY <1>1, Invariance, PTL


-----------------------------------------------------------------------------
(***************************************************************************)
(* The dense form implements PArray, for arrays of any length.             *)
(*                                                                         *)
(* Besides the shape of the images this needs what they hold, and one      *)
(* invariant more, Cut: what lies beyond the length and within the length  *)
(* that an abort would restore has been snapshotted or cleared.  So making *)
(* the array longer again damages nothing that shortening it has not.      *)
(***************************************************************************)

Cut(p) ==
    \A i \in Slot :
        p.mem[ob_size] <= i /\ i < Rolled(p)[ob_size] /\ p.undo[i] = NoSnap
            => p.mem[i] = PPTR_NULL

-----------------------------------------------------------------------------
(* What two images hold, one after the other. *)

Content(m, i) == IF i < m[allocated] THEN m[i] ELSE PPTR_NULL

\* Items from n on were kept or cleared, and no other changed.
Kept(m, k, n) ==
    \A i \in Slot :
        Content(k, i) = Content(m, i) \/ (i >= n /\ Content(k, i) = PPTR_NULL)

\* An abort's image, when the length becomes n.
Holed(m, k, n) == k[ob_size] = m[ob_size] /\ Kept(m, k, n)

\* And when that is no truncation.
Same(m, k) == \A i \in Slot : i < m[ob_size] => Content(k, i) = Content(m, i)

\* Index i holds v, and the length counts it.
Stored(m, k, i, v) ==
    \A j \in Slot : Content(k, j) = IF j = i THEN v ELSE Content(m, j)

Extended(m, k, i, v) ==
    /\ k[ob_size] = IF i + 1 > m[ob_size] THEN i + 1 ELSE m[ob_size]
    /\ Stored(m, k, i, v)

LEMMA ContentLemma ==
    ASSUME NEW m
    PROVE  /\ Image(m) = [items |-> [i \in Slot |-> Content(m, i)], size |-> m[ob_size]]
           /\ Image(m).size = m[ob_size]
           /\ \A i \in Slot : Image(m).items[i] = Content(m, i)
  BY DEF Image, Content

LEMMA ImageSlot == Array!Slot = Slot
  BY DEF Array!Slot, Slot

LEMMA KeptImage ==
    ASSUME NEW m, NEW k, NEW n, Kept(m, k, n)
    PROVE  Array!KeptBelow(Image(m), Image(k), n)
  BY ContentLemma, ImageSlot DEF Kept, Array!KeptBelow

LEMMA StoredImage ==
    ASSUME NEW m, NEW k, NEW i \in Slot, NEW v, Stored(m, k, i, v)
    PROVE  Image(k).items = [Image(m).items EXCEPT ![i] = v]
<1> DEFINE a == [j \in Slot |-> Content(m, j)]
<1> DEFINE b == [j \in Slot |-> Content(k, j)]
<1>1. Image(m).items = a /\ Image(k).items = b
  BY DEF Image, Content
<1>2. b = [a EXCEPT ![i] = v]
  BY DEF Stored
<1> QED
  BY <1>1, <1>2

-----------------------------------------------------------------------------
(* What the library's calls do to the images and to the undo log. *)

\* Outside transactions the two images are one.
LEMMA IdleImages ==
    ASSUME NEW p, Running(p), p.stage = "NONE"
    PROVE  Rolled(p) = p.mem /\ Cut(p)
<1>1. p \in TxState(Loc, Word) /\ p.undo = NoUndo(p)
  BY FieldsLemma DEF Running, Consistent, Good, Clean, Settled
<1>2. Rolled(p) = p.mem
  BY <1>1, FieldLemma
<1> QED
  BY <1>2, LocLemma DEF Cut, Running, Consistent, Sound

LEMMA EnterImages ==
    ASSUME NEW p, Running(p)
    PROVE  LET q == tx_enter_context(p)
           IN  q.mem = p.mem /\ Rolled(q) = Rolled(p) /\ q.undo = p.undo
  BY BeginLemma DEF tx_enter_context, Running, Consistent

LEMMA ExitImages ==
    ASSUME NEW p, Running(p), p.stage = "WORK"
    PROVE  LET q == tx_exit_context(p)
           IN  /\ q.mem = p.mem
               /\ Rolled(q) = IF p.depth = 1 THEN p.mem ELSE Rolled(p)
               /\ p.depth # 1 => q.undo = p.undo
<1> DEFINE c == pmemobj_tx_commit(p)
<1> DEFINE q == pmemobj_tx_end(c)
<1>1. tx_exit_context(p) = q
  BY DEF tx_exit_context
<1>2. Good(p, Loc, Word) /\ ~p.orphan
  BY DEF Running, Consistent
<1>3. /\ Good(c, Loc, Word) /\ c.stage = "ONCOMMIT" /\ c.depth = p.depth /\ ~c.orphan
      /\ c.mem = p.mem /\ Rolled(c) = IF p.depth = 1 THEN p.mem ELSE Rolled(p)
      /\ c.undo = IF p.depth = 1 THEN NoUndo(p) ELSE p.undo
  BY <1>2, CommitLemma
<1> HIDE DEF c
<1>4. q.mem = c.mem /\ Rolled(q) = Rolled(c) /\ q.undo = c.undo
  BY <1>3, EndLemma
<1> HIDE DEF q
<1> QED
  BY <1>1, <1>3, <1>4

LEMMA StoreImages ==
    ASSUME NEW p, Running(p), p.stage = "WORK",
           NEW S \in SUBSET Loc, NEW f \in [Loc -> Word]
    PROVE  LET q == tx_store(p, S, f)
           IN  /\ q.mem = Put(p.mem, S, f, Loc) /\ Rolled(q) = Rolled(p)
               /\ \A l \in Loc : q.undo[l] = NoSnap <=> l \notin S /\ p.undo[l] = NoSnap
  BY LocLemma, StoreLemma DEF Running, Consistent

LEMMA InTxImages ==
    ASSUME NEW p, Running(p),
           NEW S \in SUBSET Loc, allocated \in S => S = Loc,
           NEW f \in [Loc -> Word], Sound(Put(p.mem, S, f, Loc))
    PROVE  LET q == InTx(p, S, f)
           IN  /\ q.mem = Put(p.mem, S, f, Loc)
               /\ Rolled(q) = IF p.stage = "NONE" THEN q.mem ELSE Rolled(p)
               /\ p.stage = "WORK" => \A l \in Loc :
                     q.undo[l] = NoSnap <=> l \notin S /\ p.undo[l] = NoSnap
<1> DEFINE e == tx_enter_context(p)
<1> DEFINE w == tx_store(e, S, f)
<1> DEFINE q == tx_exit_context(w)
<1>1. /\ Running(e) /\ e.stage = "WORK" /\ e.depth = p.depth + 1 /\ e.mem = p.mem
      /\ Rolled(e) = Rolled(p) /\ e.undo = p.undo
  BY EnterLemma, EnterImages
<1> HIDE DEF e
<1>2. /\ Running(w) /\ w.stage = "WORK" /\ w.depth = p.depth + 1
      /\ w.mem = Put(p.mem, S, f, Loc) /\ Rolled(w) = Rolled(p)
      /\ \A l \in Loc : w.undo[l] = NoSnap <=> l \notin S /\ p.undo[l] = NoSnap
  BY <1>1, TxStoreLemma, StoreImages
<1>3. InTx(p, S, f) = q
  BY DEF InTx, e
<1> HIDE DEF w
<1>4. /\ q.mem = w.mem /\ Rolled(q) = IF w.depth = 1 THEN w.mem ELSE Rolled(w)
      /\ w.depth # 1 => q.undo = w.undo
  BY <1>2, ExitImages
<1> HIDE DEF q
<1>5. p.depth \in Nat /\ p.stage \in {"NONE", "WORK"} /\ (p.stage = "NONE" <=> p.depth = 0)
  BY FieldsLemma DEF Running, Consistent
<1>6. w.depth = 1 <=> p.stage = "NONE"
  BY <1>2, <1>5
<1> QED
  BY <1>2, <1>3, <1>4, <1>5, <1>6

\* memset() clears what it finds from n on, in both images where nothing has
\* snapshotted it.
LEMMA ClearedImages ==
    ASSUME NEW p, Running(p), p.stage = "WORK", NEW n \in Nat
    PROVE  LET q == Cleared(p, n)
           IN  /\ q.mem[ob_size] = p.mem[ob_size] /\ q.mem[allocated] = p.mem[allocated]
               /\ \A i \in Slot : q.mem[i] =
                     IF i >= n /\ i < p.mem[allocated] THEN PPTR_NULL ELSE p.mem[i]
               /\ q.undo = p.undo
               /\ Rolled(q)[ob_size] = Rolled(p)[ob_size]
               /\ Rolled(q)[allocated] = Rolled(p)[allocated]
               /\ \A i \in Slot : Rolled(q)[i] =
                     IF p.undo[i] = NoSnap THEN q.mem[i] ELSE Rolled(p)[i]
<1> DEFINE m == [l \in Loc |-> IF l >= n /\ l < p.mem[allocated] THEN PPTR_NULL
                               ELSE p.mem[l]]
<1> DEFINE q == Cleared(p, n)
<1>1. /\ p \in TxState(Loc, Word)
      /\ p.mem \in [Loc -> Word] /\ Rolled(p) \in [Loc -> Word] /\ Sound(p.mem)
  BY FieldsLemma DEF Running, Consistent
<1>2. /\ m \in [Loc -> Word]
      /\ \A i \in Slot : m[i] =
            IF i >= n /\ i < p.mem[allocated] THEN PPTR_NULL ELSE p.mem[i]
  BY <1>1, LocLemma
<1>3. q.mem = m /\ q.undo = p.undo
  BY <1>1 DEF Cleared, TxState
<1>4. m[ob_size] = p.mem[ob_size] /\ m[allocated] = p.mem[allocated]
  BY <1>3, ClearedLemma
<1> HIDE DEF m, q
<1>5. \A l \in Loc : Rolled(q)[l] = IF p.undo[l] = NoSnap THEN m[l] ELSE p.undo[l]
  BY <1>2, <1>3 DEF Rolled
<1>6. \A l \in Loc : Rolled(p)[l] = IF p.undo[l] = NoSnap THEN p.mem[l] ELSE p.undo[l]
  BY <1>1 DEF Rolled
<1>7. /\ Rolled(q)[ob_size] = Rolled(p)[ob_size]
      /\ Rolled(q)[allocated] = Rolled(p)[allocated]
  BY <1>4, <1>5, <1>6, LocLemma
<1>8. ASSUME NEW i \in Slot
      PROVE  Rolled(q)[i] = IF p.undo[i] = NoSnap THEN q.mem[i] ELSE Rolled(p)[i]
  BY <1>3, <1>5, <1>6, LocLemma
<1> QED
  BY <1>2, <1>3, <1>4, <1>7, <1>8 DEF q

-----------------------------------------------------------------------------
(* What the operations of the array do to the images. *)

\* From p to q the length has become n.
Resized(p, q, n) ==
    /\ q.mem[ob_size] = n
    /\ Kept(p.mem, q.mem, n)
    /\ p.stage = "NONE" => Rolled(q) = q.mem
    /\ p.stage = "WORK" =>
          /\ Holed(Rolled(p), Rolled(q), n)
          /\ Cut(p) /\ n >= p.mem[ob_size] => Same(Rolled(p), Rolled(q))
    /\ Cut(q)

\* Before MM_TX_END.  What was cut off before stays as it is.
LEMMA ShortenedImages ==
    ASSUME NEW p, Running(p), NEW n \in 0..MaxLength, n <= p.mem[allocated]
    PROVE  LET q == Shortened(p, n)
           IN  /\ q.mem[ob_size] = n
               /\ Kept(p.mem, q.mem, n)
               /\ Holed(Rolled(p), Rolled(q), n)
               /\ Cut(p) /\ n >= p.mem[ob_size] => Same(Rolled(p), Rolled(q))
               /\ Cut(q)
<1> DEFINE e == tx_enter_context(p)
<1> DEFINE w == SetLengthTo(e, n)
<1> DEFINE q == Cleared(w, n)
<1>n. n \in Nat
  BY LocLemma
<1>1. /\ Running(e) /\ e.stage = "WORK" /\ e.mem = p.mem
      /\ Rolled(e) = Rolled(p) /\ e.undo = p.undo
  BY EnterLemma, EnterImages
<1>2. p.mem \in [Loc -> Word] /\ Sound(p.mem) /\ Sound(Rolled(p))
  BY FieldsLemma DEF Running, Consistent
<1> HIDE DEF e
<1>3. /\ Running(w) /\ w.stage = "WORK" /\ Rolled(w) = Rolled(p)
      /\ w.mem[ob_size] = n /\ w.mem[allocated] = p.mem[allocated]
      /\ \A i \in Slot : w.mem[i] = p.mem[i] /\ (w.undo[i] = NoSnap <=> p.undo[i] = NoSnap)
  <2> DEFINE f == [l \in Loc |-> n]
  <2>1. /\ {ob_size} \in SUBSET Loc /\ allocated \notin {ob_size}
        /\ f \in [Loc -> Word]
    BY <1>n, LocLemma
  <2>2. LET k == Put(p.mem, {ob_size}, f, Loc)
        IN  Sound(k) /\ k[ob_size] = n /\ k[allocated] = p.mem[allocated]
    BY <1>2, PutLengthLemma
  <2>3. \A i \in Slot : Put(p.mem, {ob_size}, f, Loc)[i] = p.mem[i]
    BY LocLemma DEF Put
  <2>4. w = tx_store(e, {ob_size}, f)
    BY DEF SetLengthTo
  <2> HIDE DEF w, f
  <2>5. Running(w) /\ w.stage = "WORK" /\ w.mem = Put(p.mem, {ob_size}, f, Loc)
    BY <1>1, <2>1, <2>2, <2>4, TxStoreLemma
  <2>6. /\ Rolled(w) = Rolled(e)
        /\ \A l \in Loc : w.undo[l] = NoSnap <=> l \notin {ob_size} /\ e.undo[l] = NoSnap
    <3> DEFINE S == {ob_size}
    <3>1. S \in SUBSET Loc /\ w = tx_store(e, S, f)
      BY <2>1, <2>4
    <3> HIDE DEF S
    <3>2. /\ Rolled(w) = Rolled(e)
          /\ \A l \in Loc : w.undo[l] = NoSnap <=> l \notin S /\ e.undo[l] = NoSnap
      BY <1>1, <2>1, <3>1, StoreImages
    <3> QED
      BY <3>2 DEF S
  <2> QED
    BY <1>1, <2>2, <2>3, <2>5, <2>6, LocLemma
<1>4. Shortened(p, n) = q
  BY DEF Shortened, e
<1> HIDE DEF w
<1>5. /\ q.mem[ob_size] = n /\ q.mem[allocated] = p.mem[allocated]
      /\ \A i \in Slot : q.mem[i] =
            IF i >= n /\ i < p.mem[allocated] THEN PPTR_NULL ELSE p.mem[i]
      /\ q.undo = w.undo
      /\ Rolled(q)[ob_size] = Rolled(p)[ob_size]
      /\ Rolled(q)[allocated] = Rolled(p)[allocated]
      /\ \A i \in Slot : Rolled(q)[i] =
            IF p.undo[i] = NoSnap THEN q.mem[i] ELSE Rolled(p)[i]
  BY <1>n, <1>3, ClearedImages
<1>6. Running(q)
  BY <1>n, <1>3, ClearedLemma
<1>7. \A i \in Slot : p.undo[i] = NoSnap => Rolled(p)[i] = p.mem[i]
  BY <1>2, LocLemma DEF Rolled
<1>8. \A i \in Slot : i \in Nat
  BY LocLemma
<1> HIDE DEF q
<1>9. Kept(p.mem, q.mem, n)
  BY <1>n, <1>5, <1>8 DEF Kept, Content
<1>10. Holed(Rolled(p), Rolled(q), n)
  <2>1. \A i \in Slot : Rolled(q)[i] = Rolled(p)[i] \/ (i >= n /\ Rolled(q)[i] = PPTR_NULL)
    BY <1>n, <1>5, <1>7, <1>8
  <2> QED
    BY <1>5, <2>1 DEF Holed, Kept, Content
<1>11. ASSUME Cut(p), n >= p.mem[ob_size]
       PROVE  Same(Rolled(p), Rolled(q))
  <2> SUFFICES ASSUME NEW i \in Slot, i < Rolled(p)[ob_size]
               PROVE  Rolled(q)[i] = Rolled(p)[i]
    BY <1>5 DEF Same, Content
  <2>1. p.mem[ob_size] \in Nat /\ i \in Nat
    BY <1>2, <1>8 DEF Sound
  <2>2. CASE p.undo[i] = NoSnap /\ i >= n
    <3>1. p.mem[i] = PPTR_NULL
      BY <1>n, <1>11, <2>1, <2>2 DEF Cut
    <3> QED
      BY <1>5, <1>7, <2>2, <3>1
  <2>3. CASE p.undo[i] = NoSnap /\ i < n
    BY <1>n, <1>5, <1>7, <2>1, <2>3
  <2>4. CASE p.undo[i] # NoSnap
    BY <1>5, <2>4
  <2> QED
    BY <1>n, <2>1, <2>2, <2>3, <2>4
<1>12. Cut(q)
  <2> SUFFICES ASSUME NEW i \in Slot, n <= i, i < Rolled(q)[ob_size], q.undo[i] = NoSnap
               PROVE  q.mem[i] = PPTR_NULL
    BY <1>5 DEF Cut
  <2>1. q.undo[allocated] = NoSnap
    BY <1>6, LocLemma DEF Running, Consistent, Whole
  <2>2. Rolled(q)[allocated] = q.mem[allocated]
    BY <1>6, <2>1, FieldsLemma, LocLemma DEF Running, Rolled
  <2>3. i < p.mem[allocated]
    BY <1>5, <1>6, <1>8, <2>2 DEF Running, Consistent, Sound
  <2> QED
    BY <1>n, <1>5, <1>8, <2>3
<1> QED
  BY <1>4, <1>5, <1>9, <1>10, <1>11, <1>12

\* With a new block.  It holds what the old one held, as far as it reaches.
LEMMA ReallocImages ==
    ASSUME NEW p, Running(p), NEW n \in 0..MaxLength, ~InPlace(p.mem, n)
    PROVE  LET q == resize(p, n)
           IN  /\ q.mem[ob_size] = n
               /\ \A i \in Slot : Content(q.mem, i) =
                     IF i < new_allocated(n) THEN Content(p.mem, i) ELSE PPTR_NULL
               /\ Rolled(q) = IF p.stage = "NONE" THEN q.mem ELSE Rolled(p)
               /\ Cut(q)
<1> DEFINE f == moved(p.mem, n)
<1> DEFINE q == resize(p, n)
<1>1. p.mem \in [Loc -> Word] /\ Sound(p.mem) /\ p.stage \in {"NONE", "WORK"}
  BY FieldsLemma DEF Running, Consistent
<1>2. Running(q) /\ q.stage = p.stage
  BY ResizeLemma
<1>3. f \in [Loc -> Word] /\ Sound(f) /\ f[ob_size] = n
  BY <1>1, MovedLemma
<1>4. ASSUME NEW i \in Slot
      PROVE  Content(f, i) = IF i < new_allocated(n) THEN Content(p.mem, i) ELSE PPTR_NULL
  <2>1. i \in Nat /\ i \in Loc /\ i # ob_size /\ i # allocated
    BY LocLemma
  <2>2. f[allocated] = new_allocated(n) /\ new_allocated(n) \in Nat
    BY LocLemma, SizeLemma DEF moved
  <2>3. i < new_allocated(n) => f[i] = Content(p.mem, i)
    BY <2>1, <2>2 DEF moved, Content
  <2> QED
    BY <2>2, <2>3 DEF Content
<1>5. q = InTx(p, Loc, f)
  BY DEF resize
<1> HIDE DEF f, q
<1>6. Put(p.mem, Loc, f, Loc) = f
  BY <1>3 DEF Put
<1>7. /\ q.mem = f /\ Rolled(q) = IF p.stage = "NONE" THEN q.mem ELSE Rolled(p)
      /\ p.stage = "WORK" => \A l \in Loc : q.undo[l] # NoSnap
  BY <1>3, <1>5, <1>6, InTxImages
<1>8. Cut(q)
  <2>1. CASE p.stage = "NONE"
    BY <1>2, <2>1, IdleImages
  <2>2. CASE p.stage = "WORK"
    BY <1>7, <2>2, LocLemma DEF Cut
  <2> QED
    BY <1>1, <2>1, <2>2
<1> QED
  BY <1>3, <1>4, <1>7, <1>8 DEF q

LEMMA ResizeImages ==
    ASSUME NEW p, Running(p), NEW n \in 0..MaxLength
    PROVE  Resized(p, resize(p, n), n)
<1> DEFINE q == resize(p, n)
<1>1. /\ p.mem \in [Loc -> Word] /\ Sound(p.mem) /\ Sound(Rolled(p)) /\ p.depth \in Nat
      /\ p.stage \in {"NONE", "WORK"} /\ (p.stage = "NONE" <=> p.depth = 0)
  BY FieldsLemma DEF Running, Consistent
<1>2. n \in Nat /\ Running(q) /\ q.stage = p.stage
  BY ResizeLemma, LocLemma
<1>3. CASE InPlace(p.mem, n)
  <2> DEFINE w == Shortened(p, n)
  <2>1. Running(w) /\ w.stage = "WORK" /\ w.depth = p.depth + 1
    BY <1>3, ShortenedLemma DEF InPlace
  <2>2. /\ w.mem[ob_size] = n
        /\ Kept(p.mem, w.mem, n)
        /\ Holed(Rolled(p), Rolled(w), n)
        /\ Cut(p) /\ n >= p.mem[ob_size] => Same(Rolled(p), Rolled(w))
        /\ Cut(w)
    BY <1>3, ShortenedImages DEF InPlace
  <2>3. q = tx_exit_context(w)
    BY <1>3 DEF resize
  <2> HIDE DEF w
  <2>4. /\ q.mem = w.mem /\ Rolled(q) = IF w.depth = 1 THEN w.mem ELSE Rolled(w)
        /\ w.depth # 1 => q.undo = w.undo
    BY <2>1, <2>3, ExitImages
  <2>5. w.depth = 1 <=> p.stage = "NONE"
    BY <1>1, <2>1
  <2> HIDE DEF q
  <2>6. Cut(q)
    <3>1. CASE p.stage = "NONE"
      BY <1>2, <3>1, IdleImages
    <3>2. CASE p.stage # "NONE"
      BY <2>2, <2>4, <2>5, <3>2 DEF Cut
    <3> QED
      BY <3>1, <3>2
  <2>7. p.stage = "WORK" => Rolled(q) = Rolled(w)
    BY <2>4, <2>5
  <2> QED
    BY <2>2, <2>4, <2>5, <2>6, <2>7 DEF Resized, q
<1>4. CASE ~InPlace(p.mem, n)
  <2>1. /\ q.mem[ob_size] = n
        /\ \A i \in Slot : Content(q.mem, i) =
              IF i < new_allocated(n) THEN Content(p.mem, i) ELSE PPTR_NULL
        /\ Rolled(q) = IF p.stage = "NONE" THEN q.mem ELSE Rolled(p)
        /\ Cut(q)
    BY <1>4, ReallocImages
  <2> HIDE DEF q
  <2>2. Kept(p.mem, q.mem, n)
    BY <1>2, <2>1, SizeLemma, LocLemma DEF Kept
  <2>3. p.stage = "WORK" =>
          Holed(Rolled(p), Rolled(q), n) /\ Same(Rolled(p), Rolled(q))
    BY <2>1 DEF Holed, Kept, Same
  <2> QED
    BY <2>1, <2>2, <2>3 DEF Resized, q
<1> QED
  BY <1>3, <1>4

\* From p to q index i has been set to v.
Written(p, q, i, v) ==
    /\ Extended(p.mem, q.mem, i, v)
    /\ p.stage = "WORK" => Rolled(q) = Rolled(p)
    /\ Cut(q)

\* What is there stays, and the length becomes that of the index or stays.
LEMMA GrownImages ==
    ASSUME NEW p, Running(p), Cut(p), NEW i \in Index
    PROVE  LET q == Grown(p, i)
           IN  /\ \/ q = p
                  \/ i + 1 > p.mem[ob_size] /\ q.mem[ob_size] = i + 1
               /\ \A j \in Slot : Content(q.mem, j) = Content(p.mem, j)
               /\ p.stage = "WORK" => Rolled(q) = Rolled(p)
               /\ Cut(q)
<1>1. i \in Nat /\ i + 1 \in 0..MaxLength
  BY LocLemma DEF Index
<1>2. /\ p.mem[allocated] \in Nat /\ p.mem[ob_size] \in Nat
      /\ p.mem[ob_size] <= p.mem[allocated]
  BY DEF Running, Consistent, Sound
<1>3. CASE i + 1 > p.mem[allocated]
  <2> DEFINE n == i + 1
  <2> DEFINE q == resize(p, n)
  <2>1. Grown(p, i) = q /\ n \in 0..MaxLength /\ n \in Nat
    BY <1>1, <1>3 DEF Grown
  <2>2. ~InPlace(p.mem, n) /\ n > p.mem[ob_size]
    BY <1>1, <1>2, <1>3 DEF InPlace
  <2> HIDE DEF n
  <2>3. /\ q.mem[ob_size] = n
        /\ \A j \in Slot : Content(q.mem, j) =
              IF j < new_allocated(n) THEN Content(p.mem, j) ELSE PPTR_NULL
        /\ Rolled(q) = IF p.stage = "NONE" THEN q.mem ELSE Rolled(p)
        /\ Cut(q)
    BY <2>1, <2>2, ReallocImages
  <2> HIDE DEF q
  <2>4. new_allocated(n) \in Nat /\ p.mem[allocated] <= new_allocated(n)
    <3>1. new_allocated(n) \in Nat /\ n <= new_allocated(n) /\ n > p.mem[allocated]
      BY <1>3, <2>1, SizeLemma DEF n
    <3> QED
      BY <1>2, <2>1, <3>1
  <2>5. \A j \in Slot : Content(q.mem, j) = Content(p.mem, j)
    BY <1>2, <2>3, <2>4, LocLemma DEF Content
  <2> QED
    BY <2>1, <2>2, <2>3, <2>5 DEF n
<1>4. CASE ~(i + 1 > p.mem[allocated])
  BY <1>4 DEF Grown
<1> QED
  BY <1>3, <1>4

\* The stores of setProperty() in the block q has grown to.
LEMMA StoredLemma ==
    ASSUME NEW m \in [Loc -> Word], NEW i \in Slot, i < m[allocated], NEW v,
           NEW k, k[allocated] = m[allocated],
           \A j \in Slot : k[j] = IF j = i THEN v ELSE m[j]
    PROVE  Stored(m, k, i, v)
  BY DEF Stored, Content

LEMMA SetPropertyImages ==
    ASSUME NEW p, Running(p), Cut(p), NEW i \in Index, NEW v \in Item
    PROVE  Written(p, setProperty(p, i, v), i, v)
<1> DEFINE q == Grown(p, i)
<1> DEFINE longer == i + 1 > q.mem[ob_size]
<1> DEFINE g == IF longer THEN Set(q.mem, ob_size, i + 1) ELSE q.mem
<1> DEFINE m == Set(g, i, v)
<1> DEFINE S == {i} \cup (IF longer THEN {ob_size} ELSE {})
<1> DEFINE r == setProperty(p, i, v)
<1>1. /\ Running(q) /\ q.stage = p.stage
      /\ i \in Nat /\ i < q.mem[allocated]
  BY GrownLemma
<1>2. /\ \/ q.mem[ob_size] = p.mem[ob_size]
         \/ i + 1 > p.mem[ob_size] /\ q.mem[ob_size] = i + 1
      /\ \A j \in Slot : Content(q.mem, j) = Content(p.mem, j)
      /\ p.stage = "WORK" => Rolled(q) = Rolled(p)
      /\ Cut(q)
  BY GrownImages
<1>3. r = IF q.stage = "WORK" THEN InTx(q, S, m) ELSE [q EXCEPT !.mem = m]
  BY DEF setProperty
<1>r. Running(r) /\ r.stage = p.stage
  BY SetPropertyLemma
<1>p. p.mem[ob_size] \in Nat
  BY DEF Running, Consistent, Sound
<1> HIDE DEF q, r
<1>4. q.mem \in [Loc -> Word] /\ Sound(q.mem) /\ Sound(Rolled(q))
  BY <1>1, FieldsLemma DEF Running, Consistent
<1>5. i \in Slot /\ i # ob_size /\ i \in Loc
  BY <1>1, <1>4, LocLemma DEF Sound
<1>6. g \in [Loc -> Word] /\ Sound(g) /\ g[allocated] = q.mem[allocated]
  BY <1>1, <1>4, SetLengthLemma
<1>7. m \in [Loc -> Word] /\ Sound(m)
  BY <1>1, <1>6, SetItemLemma
<1>8. /\ m[ob_size] = IF longer THEN i + 1 ELSE q.mem[ob_size]
      /\ m[allocated] = q.mem[allocated]
      /\ \A j \in Slot : m[j] = IF j = i THEN v ELSE q.mem[j]
      /\ \A l \in Loc : l \notin S => m[l] = q.mem[l]
  BY <1>4, <1>5, LocLemma DEF Set
<1> HIDE DEF g, m
<1>9. Put(q.mem, S, m, Loc) = m
  <2> HIDE DEF S
  <2> QED BY <1>7, <1>8 DEF Put
<1>10. Extended(p.mem, m, i, v)
  <2>1. m[ob_size] = IF i + 1 > p.mem[ob_size] THEN i + 1 ELSE p.mem[ob_size]
    BY <1>1, <1>2, <1>8, <1>p
  <2>2. Stored(q.mem, m, i, v)
    BY <1>1, <1>4, <1>5, <1>8, StoredLemma
  <2> QED
    BY <1>2, <2>1, <2>2 DEF Extended, Stored
<1>11. S \in SUBSET Loc /\ allocated \notin S
  BY <1>5, LocLemma
<1>12. CASE q.stage = "WORK"
  <2>1. /\ r.mem = m /\ Rolled(r) = Rolled(q)
        /\ \A l \in Loc : r.undo[l] = NoSnap <=> l \notin S /\ q.undo[l] = NoSnap
    <3> HIDE DEF S
    <3> QED BY <1>1, <1>3, <1>7, <1>9, <1>11, <1>12, InTxImages
  <2>2. Cut(r)
    <3> SUFFICES ASSUME NEW j \in Slot, m[ob_size] <= j, j < Rolled(q)[ob_size],
                        r.undo[j] = NoSnap
                 PROVE  m[j] = PPTR_NULL
      BY <2>1 DEF Cut
    <3>1. j \notin S /\ q.undo[j] = NoSnap /\ m[j] = q.mem[j]
      BY <1>8, <2>1, LocLemma
    <3>2. q.mem[ob_size] <= j
      BY <1>1, <1>4, <1>8, LocLemma DEF Sound
    <3> QED
      BY <1>2, <3>1, <3>2 DEF Cut
  <2> QED
    BY <1>1, <1>2, <1>10, <1>12, <2>1, <2>2 DEF Written, r
<1>13. CASE q.stage # "WORK"
  <2>1. q.stage = "NONE"
    BY <1>1, <1>13 DEF Running, Consistent
  <2>2. r.mem = m
    BY <1>1, <1>3, <1>13, FieldsLemma DEF Running, TxState
  <2>3. Cut(r)
    BY <1>1, <1>r, <2>1, IdleImages
  <2> QED
    BY <1>1, <1>10, <2>1, <2>2, <2>3 DEF Written, r
<1> QED
  BY <1>12, <1>13

\* pop() before it calls resize(), and as a whole: the length is one less.
LEMMA PoppingImages ==
    ASSUME NEW p, Running(p), p.mem[ob_size] # 0
    PROVE  LET q == Popping(p)
           IN  /\ q.mem[ob_size] = p.mem[ob_size] - 1
               /\ \A i \in Slot : q.mem[i] = p.mem[i]
               /\ Rolled(q) = Rolled(p)
<1> DEFINE n == p.mem[ob_size] - 1
<1> DEFINE e == tx_enter_context(p)
<1> DEFINE f == [l \in Loc |-> n]
<1> DEFINE S == {ob_size}
<1> DEFINE w == tx_store(e, S, f)
<1>1. n \in Nat /\ f \in [Loc -> Word] /\ S \in SUBSET Loc
  BY PopLemma, LocLemma
<1>2. Popping(p) = w
  BY DEF Popping, SetLengthTo
<1>3. Running(e) /\ e.stage = "WORK" /\ e.mem = p.mem /\ Rolled(e) = Rolled(p)
  BY EnterLemma, EnterImages
<1>4. p.mem \in [Loc -> Word]
  BY FieldsLemma DEF Running
<1>5. LET k == Put(p.mem, S, f, Loc)
      IN  k[ob_size] = n /\ \A i \in Slot : k[i] = p.mem[i]
  BY <1>1, <1>4, LocLemma DEF Put
<1> HIDE DEF e, f, S, n
<1>6. w.mem = Put(p.mem, S, f, Loc) /\ Rolled(w) = Rolled(p)
  BY <1>1, <1>3, StoreImages
<1> QED
  BY <1>2, <1>5, <1>6 DEF n

LEMMA PopImages ==
    ASSUME NEW p, Running(p), p.mem[ob_size] # 0
    PROVE  Resized(p, pop(p), p.mem[ob_size] - 1)
<1> DEFINE n == p.mem[ob_size] - 1
<1> DEFINE w == Popping(p)
<1> DEFINE r == resize(w, n)
<1> DEFINE q == pop(p)
<1>1. /\ p.depth \in Nat /\ Sound(p.mem)
      /\ p.stage \in {"NONE", "WORK"} /\ (p.stage = "NONE" <=> p.depth = 0)
  BY FieldsLemma DEF Running, Consistent
<1>2. /\ n \in 0..MaxLength /\ n \in Nat
      /\ Running(w) /\ w.stage = "WORK" /\ w.depth = p.depth + 1
      /\ Running(q) /\ q.stage = p.stage
  BY PopLemma, LocLemma
<1>3. /\ w.mem[ob_size] = n /\ \A i \in Slot : w.mem[i] = p.mem[i]
      /\ w.mem[allocated] = p.mem[allocated]
      /\ Rolled(w) = Rolled(p)
  BY PoppingImages, PopLemma
<1>4. q = tx_exit_context(r)
  BY DEF pop
<1>5. ~(n >= p.mem[ob_size])
  BY <1>1 DEF Sound
<1> HIDE DEF w, n, q
<1>6. Running(r) /\ r.stage = "WORK" /\ r.depth = p.depth + 1 /\ Resized(w, r, n)
  BY <1>2, ResizeLemma, ResizeImages
<1> HIDE DEF r
<1>7. /\ q.mem = r.mem /\ Rolled(q) = IF r.depth = 1 THEN r.mem ELSE Rolled(r)
      /\ r.depth # 1 => q.undo = r.undo
  BY <1>4, <1>6, ExitImages
<1>8. r.depth = 1 <=> p.stage = "NONE"
  BY <1>1, <1>6
<1>9. Kept(p.mem, q.mem, n)
  <2>1. Kept(w.mem, q.mem, n)
    BY <1>6, <1>7 DEF Resized
  <2>2. \A i \in Slot : Content(w.mem, i) = Content(p.mem, i)
    BY <1>3 DEF Content
  <2> QED
    BY <2>1, <2>2 DEF Kept
<1>10. Holed(Rolled(p), Rolled(r), n) /\ Cut(r) /\ r.mem[ob_size] = n
  BY <1>2, <1>3, <1>6 DEF Resized
<1>11. Cut(q)
  <2>1. CASE p.stage = "NONE"
    BY <1>2, <2>1, IdleImages
  <2>2. CASE p.stage # "NONE"
    BY <1>7, <1>8, <1>10, <2>2 DEF Cut
  <2> QED
    BY <2>1, <2>2
<1>12. p.stage = "WORK" => Rolled(q) = Rolled(r)
  BY <1>7, <1>8
<1> QED
  BY <1>5, <1>7, <1>8, <1>9, <1>10, <1>11, <1>12 DEF Resized, q, n

-----------------------------------------------------------------------------
(* The steps. *)

JInv == IInv /\ (InTransaction => Cut(pm))

\* The step is one of PArray or a stutter, and keeps Cut.
Follows == [Array!Next]_(Array!vars) /\ (InTransaction => Cut(pm))'

LEMMA RunningLemma ==
    ASSUME JInv, Alive
    PROVE  /\ Running(pm) /\ Cut(pm) /\ pm.stage \in {"NONE", "WORK"}
           /\ Sound(pm.mem) /\ Sound(Rolled(pm))
           /\ pm.depth \in Nat /\ (pm.depth > 0 <=> pm.stage = "WORK")
           /\ pm.stage = "NONE" => Rolled(pm) = pm.mem
<1>1. /\ Running(pm) /\ pm.stage \in {"NONE", "WORK"} /\ Sound(pm.mem) /\ Sound(Rolled(pm))
      /\ pm.depth \in Nat /\ (pm.stage = "NONE" <=> pm.depth = 0)
  BY FieldsLemma DEF JInv, IInv, Alive, Running, Consistent
<1> QED
  BY <1>1, IdleImages DEF JInv, InTransaction

\* How a call ends: it returns, or the process ends at that point.
Ends(p, q) == q = p \/ q = Die(p)

LEMMA EndsLemma ==
    ASSUME NEW p, Running(p), NEW q, Ends(p, q)
    PROVE  /\ q.mem = p.mem /\ Rolled(q) = Rolled(p) /\ q.depth = p.depth
           /\ q.stage = "WORK" => q = p
  BY DieLemma DEF Ends, Running, Consistent

LEMMA SlotLemma ==
    /\ \A i \in Index : i \in Slot /\ i \in Array!Slot /\ i \in Nat
    /\ \A n \in 0..MaxLength : n \in 0..MaxAllocated /\ n \in Nat
<1>1. MaxLength \in Nat /\ MaxAllocated \in Nat /\ MaxLength <= MaxAllocated
  <2>1. MaxLength \in 0..MaxLength
    BY LocLemma
  <2>2. MaxLength <= new_allocated(MaxLength)
    BY <2>1, SizeLemma
  <2> QED
    BY <2>2, LocLemma DEF MaxAllocated
<1> QED
  BY <1>1, ImageSlot DEF Index, Slot

\* A call that has set an index.
LEMMA WrittenStep ==
    ASSUME JInv, Alive, NEW i \in Index, NEW v \in Item,
           NEW p, Running(p), p.stage = pm.stage, p.depth = pm.depth,
           Written(pm, p, i, v), Ends(p, pm')
    PROVE  Follows
<1>1. /\ pm.stage \in {"NONE", "WORK"} /\ (pm.depth > 0 <=> pm.stage = "WORK")
      /\ pm'.mem = p.mem /\ Rolled(pm') = Rolled(p) /\ pm'.depth = pm.depth
      /\ pm'.stage = "WORK" => pm' = p
  BY RunningLemma, EndsLemma
<1>2. /\ Image(p.mem).size = IF i + 1 > Image(pm.mem).size THEN i + 1 ELSE Image(pm.mem).size
      /\ Image(p.mem).items = [Image(pm.mem).items EXCEPT ![i] = v]
  <2>1. Image(p.mem).size = p.mem[ob_size] /\ Image(pm.mem).size = pm.mem[ob_size]
    BY DEF Image
  <2>2. i \in Slot /\ Stored(pm.mem, p.mem, i, v)
    BY SlotLemma DEF Written, Extended
  <2>3. Image(p.mem).items = [Image(pm.mem).items EXCEPT ![i] = v]
    BY <2>2, StoredImage
  <2> QED
    BY <2>1, <2>3 DEF Written, Extended
<1>3. Image(p.mem) = [items |-> Image(p.mem).items, size |-> Image(p.mem).size]
  BY DEF Image
<1>4. Image(Rolled(p)) = IF pm.depth > 0 THEN Image(Rolled(pm)) ELSE Image(p.mem)
  BY <1>1, IdleImages DEF Written
<1>5. Array!Write(i, v)
  BY <1>1, <1>2, <1>3, <1>4 DEF Array!Write, Array!Written, Array!Durable
<1>6. Array!Next
  BY <1>5, SlotLemma DEF Array!Next
<1> QED
  BY <1>1, <1>6 DEF Follows, Written, InTransaction

\* An abort's image, after the length has become n.
LEMMA DamagedLemma ==
    ASSUME NEW n, Holed(Rolled(pm), Rolled(pm'), n),
           n >= pm.mem[ob_size] => Same(Rolled(pm), Rolled(pm'))
    PROVE  Array!Damaged(n)
<1>1. Array!KeptBelow(Image(Rolled(pm)), Image(Rolled(pm')), n)
  BY KeptImage DEF Holed
<1>2. Image(Rolled(pm')).size = Image(Rolled(pm)).size
  BY ContentLemma DEF Holed
<1>3. n >= Image(pm.mem).size =>
        \A i \in Array!Slot : i < Image(Rolled(pm)).size =>
            Image(Rolled(pm')).items[i] = Image(Rolled(pm)).items[i]
  BY ContentLemma, ImageSlot DEF Same
<1> QED
  BY <1>1, <1>2, <1>3 DEF Array!Damaged

\* One that has set the length.
LEMMA ResizedStep ==
    ASSUME JInv, Alive, NEW n \in 0..MaxLength,
           NEW p, Running(p), p.stage = pm.stage, p.depth = pm.depth,
           Resized(pm, p, n), Ends(p, pm')
    PROVE  Follows
<1>1. /\ pm.stage \in {"NONE", "WORK"} /\ (pm.depth > 0 <=> pm.stage = "WORK") /\ Cut(pm)
      /\ pm'.mem = p.mem /\ Rolled(pm') = Rolled(p) /\ pm'.depth = pm.depth
      /\ pm'.stage = "WORK" => pm' = p
  BY RunningLemma, EndsLemma
<1>2. Image(p.mem).size = n /\ Array!KeptBelow(Image(pm.mem), Image(p.mem), n)
  BY KeptImage, ContentLemma DEF Resized
<1>3. CASE pm.stage = "WORK"
  <2>1. Array!Damaged(n)
    BY <1>1, <1>3, DamagedLemma DEF Resized
  <2>2. Array!Resize(n)
    BY <1>1, <1>2, <1>3, <2>1 DEF Array!Resize
  <2> QED
    BY <1>1, <2>2, SlotLemma DEF Follows, Array!Next, Resized, InTransaction
<1>4. CASE pm.stage = "NONE"
  <2>1. Image(Rolled(p)) = Image(p.mem)
    BY <1>4 DEF Resized
  <2>2. Array!Resize(n)
    BY <1>1, <1>2, <1>4, <2>1 DEF Array!Resize
  <2> QED
    BY <1>1, <2>2, SlotLemma DEF Follows, Array!Next, Resized, InTransaction
<1> QED
  BY <1>1, <1>3, <1>4

\* The process ends, and nothing else has happened.
LEMMA StopStep ==
    ASSUME JInv, Alive, pm' = Die(pm)
    PROVE  Follows
<1>1. /\ Die(pm).stage = "DEAD" /\ Die(pm).depth = pm.depth
      /\ Die(pm).mem = pm.mem /\ Rolled(Die(pm)) = Rolled(pm)
  BY RunningLemma, DieLemma DEF Running, Consistent
<1>2. Array!Stop
  BY <1>1 DEF Array!Stop, Alive
<1> QED
  BY <1>1, <1>2 DEF Follows, Array!Next, InTransaction

\* It ends while the length becomes n, in the transaction of resize().
LEMMA HalfStep ==
    ASSUME JInv, pm.stage = "NONE", NEW n \in 0..MaxLength,
           NEW p, Running(p), p.depth > 0,
           p.mem[ob_size] = n, Kept(pm.mem, p.mem, n),
           Holed(Rolled(pm), Rolled(p), n),
           n >= pm.mem[ob_size] => Same(Rolled(pm), Rolled(p)),
           pm' = Die(p)
    PROVE  Follows
<1>1. /\ pm'.stage = "DEAD" /\ pm'.depth = p.depth
      /\ pm'.mem = p.mem /\ Rolled(pm') = Rolled(p)
  BY DieLemma DEF Running, Consistent
<1>2. Alive /\ ~(pm.depth > 0)
  BY RunningLemma DEF Alive
<1>3. Image(p.mem).size = n /\ Array!KeptBelow(Image(pm.mem), Image(p.mem), n)
  BY KeptImage, ContentLemma
<1>4. Array!Damaged(n)
  BY <1>1, DamagedLemma
<1>5. Array!HalfResize(n)
  BY <1>1, <1>2, <1>3, <1>4 DEF Array!HalfResize, Alive
<1> QED
  BY <1>1, <1>5, SlotLemma DEF Follows, Array!Next, InTransaction

\* It ends after the item is stored, before the length counts it.
LEMMA HalfWriteStep ==
    ASSUME JInv, pm.stage = "NONE", NEW i \in Index, NEW v \in Item,
           NEW p, Running(p), p.stage = "NONE",
           p.mem[ob_size] = pm.mem[ob_size], Stored(pm.mem, p.mem, i, v),
           pm' = Die(p)
    PROVE  Follows
<1>1. /\ pm'.stage = "DEAD" /\ pm'.depth = p.depth /\ ~(p.depth > 0)
      /\ pm'.mem = p.mem /\ Rolled(pm') = p.mem
  BY DieLemma, IdleImages, FieldsLemma DEF Running, Consistent
<1>2. Alive /\ ~(pm.depth > 0)
  BY RunningLemma DEF Alive
<1>3. /\ Image(p.mem).size = Image(pm.mem).size
      /\ Image(p.mem).items = [Image(pm.mem).items EXCEPT ![i] = v]
  <2>1. i \in Slot
    BY SlotLemma
  <2>2. Image(p.mem).items = [Image(pm.mem).items EXCEPT ![i] = v]
    BY <2>1, StoredImage
  <2> QED
    BY <2>2 DEF Image
<1>4. Image(p.mem) = [items |-> Image(p.mem).items, size |-> Image(p.mem).size]
  BY DEF Image
<1>5. Array!HalfWrite(i, v)
  BY <1>1, <1>2, <1>3, <1>4 DEF Array!HalfWrite, Array!Written, Array!Durable, Alive
<1> QED
  BY <1>1, <1>5, SlotLemma DEF Follows, Array!Next, InTransaction

LEMMA FollowLemma ==
    ASSUME JInv, Next
    PROVE  Follows
<1>1. ASSUME NEW i \in Index, NEW v \in Item, Calls(setProperty(pm, i, v))
      PROVE  Follows
  <2>1. Alive /\ pm' = setProperty(pm, i, v)
    BY <1>1 DEF Calls
  <2> QED
    BY <2>1, RunningLemma, SetPropertyLemma, SetPropertyImages, WrittenStep DEF Ends
<1>2. ASSUME NEW i \in Index, NEW v \in Val, SetItem(i, v)
      PROVE  Follows
  BY <1>1, <1>2, LocLemma DEF SetItem
<1>3. ASSUME NEW v \in Val, Push(v)
      PROVE  Follows
  <2>1. pm.mem[ob_size] \in Index
    BY <1>3, RunningLemma, LocLemma DEF Push, Calls, Index, Sound
  <2> QED
    BY <1>1, <1>3, <2>1, LocLemma DEF Push
<1>4. ASSUME NEW i \in Index, DelItem(i)
      PROVE  Follows
  <2>1. CASE i < pm.mem[ob_size]
    BY <1>1, <1>4, <2>1, LocLemma DEF DelItem
  <2>2. CASE ~(i < pm.mem[ob_size])
    <3>1. pm' = pm
      BY <1>4, <2>2 DEF DelItem, Calls
    <3> QED
      BY <3>1 DEF Follows, JInv, Array!vars, Alive, InTransaction
  <2> QED
    BY <2>1, <2>2
<1>5. ASSUME NEW n \in 0..MaxLength, SetLength(n)
      PROVE  Follows
  <2>1. Alive /\ pm' = resize(pm, n)
    BY <1>5 DEF SetLength, Calls
  <2> QED
    BY <2>1, RunningLemma, ResizeLemma, ResizeImages, ResizedStep DEF Ends
<1>6. CASE Pop
  <2> DEFINE n == pm.mem[ob_size] - 1
  <2> DEFINE q == pop(pm)
  <2>1. Alive /\ Running(pm)
    BY <1>6, RunningLemma DEF Pop, Calls
  <2>2. CASE pm.mem[ob_size] = 0
    <3>1. pm' = Die(pm)
      BY <1>6, <2>2 DEF Pop, Calls
    <3> QED
      BY <2>1, <3>1, StopStep
  <2>3. CASE pm.mem[ob_size] # 0
    <3>1. Ends(q, pm')
      BY <1>6, <2>3 DEF Pop, Calls, resurrect, Ends
    <3>2. /\ n \in 0..MaxLength
          /\ Running(q) /\ q.stage = pm.stage /\ q.depth = pm.depth /\ Resized(pm, q, n)
      BY <2>1, <2>3, PopLemma, PopImages
    <3> HIDE DEF n, q
    <3> QED
      BY <2>1, <3>1, <3>2, ResizedStep
  <2> QED
    BY <2>2, <2>3
<1>7. ASSUME NEW i \in Index, GetItem(i)
      PROVE  Follows
  <2>1. Alive /\ Ends(pm, pm')
    BY <1>7 DEF GetItem, resurrect, Ends
  <2>2. CASE pm' = pm
    BY <2>2 DEF Follows, JInv, Array!vars, Alive, InTransaction
  <2>3. CASE pm' = Die(pm)
    BY <2>1, <2>3, StopStep
  <2> QED
    BY <2>1, <2>2, <2>3 DEF Ends
<1>8. ASSUME NEW i \in Index, NEW v \in Val, SetItemInterrupted(i, v)
      PROVE  Follows
  <2> DEFINE q == Grown(pm, i)
  <2> DEFINE m == Set(q.mem, i, v)
  <2> DEFINE r == [q EXCEPT !.mem = m]
  <2>1. /\ pm.stage = "NONE" /\ (pm' = Die(q) \/ pm' = Die(r))
    BY <1>8 DEF SetItemInterrupted, Interrupted
  <2>2. Alive /\ Running(pm) /\ Cut(pm)
    BY <2>1, RunningLemma DEF Alive
  <2>3. /\ Running(q) /\ q.stage = "NONE" /\ q.depth = pm.depth
        /\ i \in Nat /\ i < q.mem[allocated] /\ i + 1 \in 0..MaxLength
        /\ pm.mem[ob_size] \in Nat
    BY <2>1, <2>2, GrownLemma, RunningLemma, LocLemma DEF Index, Sound
  <2>4. /\ \/ q = pm
           \/ i + 1 > pm.mem[ob_size] /\ q.mem[ob_size] = i + 1
        /\ \A j \in Slot : Content(q.mem, j) = Content(pm.mem, j)
    BY <2>2, GrownImages
  <2>5. q = pm \/ Resized(pm, q, i + 1)
    BY <2>2, <2>3, ResizeImages DEF Grown
  <2> HIDE DEF q
  <2>6. /\ m \in [Loc -> Word] /\ Sound(m)
        /\ m[ob_size] = q.mem[ob_size] /\ m[allocated] = q.mem[allocated]
        /\ \A j \in Slot : m[j] = IF j = i THEN v ELSE q.mem[j]
        /\ q.mem \in [Loc -> Word]
    <3>1. q.mem \in [Loc -> Word] /\ Sound(q.mem)
      BY <2>3, FieldsLemma DEF Running, Consistent
    <3>2. i \in Slot /\ v \in Item
      BY SlotLemma, LocLemma
    <3> QED
      BY <2>3, <3>1, <3>2, SetItemLemma, LocLemma DEF Set
  <2> HIDE DEF m
  <2>7. Stored(pm.mem, m, i, v)
    <3>1. Stored(q.mem, m, i, v)
      BY <2>3, <2>6, SlotLemma, StoredLemma
    <3> QED
      BY <2>4, <3>1 DEF Stored
  <2>8. Running(r) /\ r.stage = "NONE" /\ r.mem = m /\ r.depth = pm.depth
    BY <2>3, <2>6, LoneStoreLemma, FieldsLemma DEF Running, TxState
  <2> HIDE DEF r
  <2>9. v \in Item
    BY LocLemma
  <2>10. CASE pm' = Die(q)
    <3>1. CASE q = pm
      BY <2>2, <2>10, <3>1, StopStep
    <3>2. CASE Resized(pm, q, i + 1)
      BY <2>1, <2>2, <2>3, <2>10, <3>2, ResizedStep DEF Ends
    <3> QED
      BY <2>5, <3>1, <3>2
  <2>11. CASE pm' = Die(r)
    <3>1. CASE m[ob_size] = pm.mem[ob_size]
      BY <2>1, <2>7, <2>8, <2>9, <2>11, <3>1, HalfWriteStep
    <3>2. CASE m[ob_size] # pm.mem[ob_size]
      <4>1. m[ob_size] = IF i + 1 > pm.mem[ob_size] THEN i + 1 ELSE pm.mem[ob_size]
        BY <2>4, <2>6, <3>2
      <4>2. Extended(pm.mem, r.mem, i, v)
        BY <2>7, <2>8, <4>1 DEF Extended
      <4>3. Written(pm, r, i, v)
        BY <2>1, <2>8, <4>2, IdleImages DEF Written
      <4> QED
        BY <2>1, <2>2, <2>8, <2>9, <2>11, <4>3, WrittenStep DEF Ends
    <3> QED
      BY <3>1, <3>2
  <2> QED
    BY <2>1, <2>10, <2>11
<1>9. ASSUME NEW n \in 0..MaxLength, SetLengthInterrupted(n)
      PROVE  Follows
  <2> DEFINE w == Shortened(pm, n)
  <2>1. /\ pm.stage = "NONE" /\ Running(pm) /\ Cut(pm) /\ pm.depth \in Nat
        /\ n <= pm.mem[allocated] /\ pm' = Die(w)
    BY <1>9, RunningLemma DEF SetLengthInterrupted, Interrupted, InPlace, Alive
  <2>2. Running(w) /\ w.depth > 0
    BY <2>1, ShortenedLemma
  <2>3. /\ w.mem[ob_size] = n /\ Kept(pm.mem, w.mem, n)
        /\ Holed(Rolled(pm), Rolled(w), n)
        /\ n >= pm.mem[ob_size] => Same(Rolled(pm), Rolled(w))
    BY <2>1, ShortenedImages
  <2> HIDE DEF w
  <2> QED
    BY <2>1, <2>2, <2>3, HalfStep
<1>10. CASE PopInterrupted
  <2> DEFINE n == pm.mem[ob_size] - 1
  <2> DEFINE w == Popping(pm)
  <2> DEFINE r == Shortened(w, n)
  <2>1. /\ pm.stage = "NONE" /\ Running(pm) /\ Sound(pm.mem) /\ pm.depth \in Nat
        /\ n >= 0 /\ n <= pm.mem[allocated] /\ pm' = Die(r)
    BY <1>10, RunningLemma DEF PopInterrupted, Interrupted, InPlace, Alive
  <2>2. pm.mem[ob_size] # 0 /\ ~(n >= pm.mem[ob_size])
    BY <2>1 DEF Sound
  <2>3. /\ n \in 0..MaxLength /\ Running(w) /\ w.depth = pm.depth + 1
        /\ w.mem[allocated] = pm.mem[allocated]
        /\ (\A i \in Slot : w.mem[i] = pm.mem[i]) /\ Rolled(w) = Rolled(pm)
    BY <2>1, <2>2, PopLemma, PoppingImages
  <2> HIDE DEF n, w
  <2>4. Running(r) /\ r.depth > 0
    BY <2>1, <2>3, ShortenedLemma
  <2>5. r.mem[ob_size] = n /\ Kept(w.mem, r.mem, n) /\ Holed(Rolled(pm), Rolled(r), n)
    BY <2>1, <2>3, ShortenedImages
  <2> HIDE DEF r
  <2>6. Kept(pm.mem, r.mem, n)
    BY <2>3, <2>5 DEF Kept, Content
  <2> QED
    BY <2>1, <2>2, <2>3, <2>4, <2>5, <2>6, HalfStep
<1>11. CASE TxBegin
  <2>1. /\ Running(pm) /\ Cut(pm) /\ pm.stage = "NONE" /\ pm' = tx_enter_context(pm)
        /\ Rolled(pm) = pm.mem /\ pm.depth \in Nat /\ ~(pm.depth > 0)
    BY <1>11, RunningLemma DEF TxBegin, Alive, tx_enter_context
  <2>2. /\ pm'.stage = "WORK" /\ pm'.mem = pm.mem /\ pm'.depth = pm.depth + 1
        /\ Rolled(pm') = Rolled(pm) /\ pm'.undo = pm.undo
    BY <2>1, EnterLemma, EnterImages
  <2>3. Cut(pm')
    BY <2>1, <2>2 DEF Cut
  <2>4. Array!Begin
    BY <2>1, <2>2 DEF Array!Begin, Alive, InTransaction
  <2> QED
    BY <2>3, <2>4 DEF Follows, Array!Next
<1>12. CASE TxCommit
  <2>1. Running(pm) /\ pm.stage = "WORK" /\ pm.depth = 1
    BY <1>12, RunningLemma DEF TxCommit, InTransaction, Alive, JInv, IInv
  <2>2. pm' = tx_exit_context(pm)
    BY <1>12, <2>1 DEF TxCommit, tx_exit_context
  <2>3. /\ pm'.stage = "NONE" /\ pm'.mem = pm.mem /\ Rolled(pm') = pm.mem
        /\ pm'.depth = 0
    BY <2>1, <2>2, ExitLemma, ExitImages
  <2>4. Array!Commit
    BY <2>1, <2>3 DEF Array!Commit, Alive, InTransaction
  <2> QED
    BY <2>3, <2>4 DEF Follows, Array!Next, InTransaction
<1>13. CASE TxAbort
  <2>1. /\ pm.stage = "WORK" /\ pm.depth = 1 /\ Good(pm, Loc, Word) /\ ~pm.orphan
        /\ pm' = tx_abort_context(pm)
    BY <1>13 DEF TxAbort, InTransaction, JInv, IInv, Consistent, tx_abort_context
  <2>2. /\ pm'.stage = "NONE" /\ pm'.mem = Rolled(pm) /\ Rolled(pm') = Rolled(pm)
        /\ pm'.depth = 0
    BY <2>1, AbortContextLemma
  <2>3. Array!Rollback
    BY <2>1, <2>2 DEF Array!Rollback, Alive, InTransaction
  <2> QED
    BY <2>2, <2>3 DEF Follows, Array!Next, InTransaction
<1>14. CASE Crash
  BY <1>14, StopStep DEF Crash
<1>15. CASE Restart
  <2> DEFINE q == NewProcess(pm)
  <2>1. ~Alive /\ pm' = pmemobj_open(q) /\ pm \in TxState(Loc, Word)
    BY <1>15, FieldsLemma DEF Restart, JInv, IInv
  <2>2. /\ q \in TxState(Loc, Word) /\ Shape(q) /\ q.stage = "NONE" /\ q.depth = 0
        /\ Rolled(q) = Rolled(pm)
    BY <2>1, NewProcessLemma
  <2> HIDE DEF q
  <2>3. pm'.stage = "NONE" /\ pm'.mem = Rolled(pm) /\ Rolled(pm') = Rolled(pm)
    BY <2>1, <2>2, OpenLemma
  <2>4. pm'.depth = 0
    BY <2>1, <2>2 DEF pmemobj_open, TxState
  <2>5. Array!Recover
    BY <2>1, <2>3, <2>4 DEF Array!Recover, Alive
  <2> QED
    BY <2>3, <2>5 DEF Follows, Array!Next, InTransaction
<1> QED
  BY <1>2, <1>3, <1>4, <1>5, <1>6, <1>7, <1>8, <1>9, <1>10, <1>11, <1>12, <1>13,
     <1>14, <1>15 DEF Next

LEMMA StartLemma == Init => JInv /\ Array!Init
<1> SUFFICES ASSUME Init
             PROVE  JInv /\ Array!Init
  OBVIOUS
<1>1. IInv
  BY InitLemma
<1>2. pm.stage = "NONE" /\ pm.mem = Created
  BY DEF Init, Idle
<1>3. Running(pm)
  BY <1>1, <1>2 DEF IInv, Running
<1>4. Rolled(pm) = pm.mem /\ Sound(pm.mem)
  BY <1>2, <1>3, IdleImages DEF Running, Consistent
<1>5. Image(pm.mem) = [items |-> [i \in Array!Slot |-> PPTR_NULL], size |-> 0]
  <2>1. /\ Created[ob_size] = 0 /\ Created[allocated] = 0
    BY LocLemma DEF Created
  <2>2. \A i \in Slot : Content(Created, i) = PPTR_NULL
    BY <2>1, LocLemma DEF Content
  <2> QED
    BY <1>2, <2>1, <2>2, ContentLemma, ImageSlot
<1>6. pm.depth = 0
  BY DEF Init, Idle
<1> QED
  BY <1>1, <1>2, <1>4, <1>5, <1>6 DEF JInv, Array!Init, Alive, InTransaction

\* ImplementsPArray: whatever calls, aborts and crashes resize(), setProperty()
\* and pop() meet, every item of an array of any length stays where it is, but for
\* the one a call sets, those from the new length on that a call may clear, and,
\* in what an abort or a crash brings back, those a truncation has cut off.
THEOREM Refinement == Spec => ImplementsPArray
<1>1. JInv /\ [Next]_vars => JInv' /\ [Array!Next]_(Array!vars)
  <2> SUFFICES ASSUME JInv, [Next]_vars
               PROVE  JInv' /\ [Array!Next]_(Array!vars)
    OBVIOUS
  <2>1. CASE Next
    BY <2>1, StepLemma, FollowLemma DEF JInv, Follows
  <2>2. CASE UNCHANGED vars
    <3>1. pm' = pm
      BY <2>2 DEF vars
    <3>2. IInv'
      BY <3>1 DEF JInv, IInv, Consistent, Whole
    <3>3. (InTransaction => Cut(pm))'
      BY <3>1 DEF JInv, InTransaction
    <3>4. UNCHANGED Array!vars
      BY <3>1 DEF Array!vars, Alive, InTransaction
    <3> QED
      BY <3>2, <3>3, <3>4 DEF JInv
  <2> QED
    BY <2>1, <2>2
<1> QED
  BY <1>1, StartLemma, PTL DEF Spec, ImplementsPArray, Array!Spec
=============================================================================
