---------------------------- MODULE PMDict_proofs ---------------------------
(***************************************************************************)
(* PMDict, for any names, hashes and values, and blocks of keys of up to   *)
(* MaxSize entries: the counters add up, what is listed is found, and the  *)
(* dictionary is the map that PropMap says it is, also after aborts and    *)
(* crashes.                                                                *)
(*                                                                         *)
(* The invariant of the table is Found: each entry is on the path of its   *)
(* key, which no free entry and no other entry of that key interrupts.  A  *)
(* deletion keeps the paths that lead over the entry because it leaves     *)
(* Dummy there; and that a path meets a free entry at all takes the two    *)
(* counters, and that a probe goes through the whole block                 *)
(* (Probing_proofs).                                                       *)
(***************************************************************************)
EXTENDS PMDict, PmemTx_proofs, Probing_proofs, FiniteSetTheorems

-----------------------------------------------------------------------------
(* Searching a block of keys. *)

Entries == {Null, Dummy} \cup {Full(k, v) : k \in Key, v \in Val}

\* The three kinds of entries.
LEMMA EntryLemma ==
    ASSUME NEW e \in Entries
    PROVE  /\ e \in Entry
           /\ e.me_key = PPTR_NULL <=> e = Null
           /\ e.me_key = PPTR_DUMMY <=> e = Dummy
           /\ e.me_value # PPTR_NULL <=> e.me_key \in Key
           /\ e.me_key \in Key \cup {PPTR_NULL, PPTR_DUMMY}
           /\ e.me_key \in Key => e.me_value \in Val
<1>1. CASE e = Null
  BY <1>1, NameAssumption DEF Null, Dummy, Entry
<1>2. CASE e = Dummy
  BY <1>2, NameAssumption DEF Null, Dummy, Entry
<1>3. CASE \E k \in Key, v \in Val : e = Full(k, v)
  BY <1>3, NameAssumption DEF Null, Dummy, Entry, Full
<1> QED
  BY <1>1, <1>2, <1>3 DEF Entries

LEMMA FullLemma ==
    ASSUME NEW k \in Key, NEW v \in Val
    PROVE  /\ Full(k, v) \in Entries /\ Full(k, v).me_key = k
           /\ Full(k, v).me_value = v /\ Full(k, v) # Dummy
           /\ k \notin {PPTR_NULL, PPTR_DUMMY}
<1>1. Full(k, v) \in Entries /\ Full(k, v).me_key = k /\ Full(k, v).me_value = v
  BY DEF Entries, Full
<1>2. k \notin {PPTR_NULL, PPTR_DUMMY}
  BY NameAssumption
<1>3. Dummy.me_key = PPTR_DUMMY
  BY DEF Dummy
<1> QED
  BY <1>1, <1>2, <1>3

\* A block of keys, and one with an entry that is free.
Block(m) == m[dk_size] \in Sizes /\ \A i \in Slots(m) : m[i] \in Entries

HasFree(m) == \E i \in Slots(m) : m[i].me_key = PPTR_NULL

\* A search stays inside the block, and would see all of it.
LEMMA BlockLemma ==
    ASSUME NEW m, Block(m), NEW k \in Key
    PROVE  LET idx == Probe[k][m[dk_size]]
           IN  /\ m[dk_size] \in Sizes /\ m[dk_size] \in Nat
               /\ Slots(m) = 0..m[dk_size] - 1
               /\ m[dk_size] + MaxPerturb \in Nat
               /\ DOMAIN idx = 0..m[dk_size] + MaxPerturb
               /\ \A i \in DOMAIN idx : idx[i] \in Slots(m)
               /\ \A t \in Slots(m) : \E i \in DOMAIN idx : idx[i] = t
<1>1. m[dk_size] \in Sizes /\ Slots(m) = 0..m[dk_size] - 1
  BY DEF Block, Slots
<1>2. Probe[k][m[dk_size]] = Visited(Hash[k], m[dk_size])
  BY <1>1 DEF Probe
<1>3. Fades(Hash[k])
  BY PerturbAssumption
<1> QED
  BY <1>1, <1>2, <1>3, VisitedLemma

\* A search for what includes the free entries ends, at the first of what it is for.
LEMMA ReachLemma ==
    ASSUME NEW m, Block(m), HasFree(m), NEW k \in Key, NEW keys, PPTR_NULL \in keys
    PROVE  LET idx == Probe[k][m[dk_size]]
               n == Reach(m, idx, keys)
           IN  /\ n \in DOMAIN idx /\ n \in Nat /\ idx[n] \in Slots(m)
               /\ m[idx[n]].me_key \in keys
               /\ \A j \in 0..n - 1 : m[idx[j]].me_key \notin keys
<1> DEFINE idx == Probe[k][m[dk_size]]
           n == Reach(m, idx, keys)
           S == {i \in DOMAIN idx : m[idx[i]].me_key \in keys}
           Ok(i) == /\ m[idx[i]].me_key \in keys
                    /\ \A j \in 0..i - 1 : m[idx[j]].me_key \notin keys
<1>1. m[dk_size] \in Nat /\ m[dk_size] + MaxPerturb \in Nat
  BY BlockLemma
<1>2. /\ DOMAIN idx = 0..m[dk_size] + MaxPerturb
      /\ \A i \in DOMAIN idx : idx[i] \in Slots(m)
      /\ \A t \in Slots(m) : \E i \in DOMAIN idx : idx[i] = t
  BY BlockLemma
<1> HIDE DEF idx
<1>3. S # {} /\ S \in SUBSET Nat
  BY <1>1, <1>2 DEF HasFree
<1>4. PICK i \in S : \A j \in S : i <= j
  <2> HIDE DEF S
  <2> QED
    BY <1>3, LeastNumber
<1>5. ASSUME NEW j \in 0..i - 1
      PROVE  m[idx[j]].me_key \notin keys
  <2>1. j \in DOMAIN idx /\ ~(i <= j)
    BY <1>1, <1>2, <1>4
  <2> QED
    BY <1>4, <2>1
<1>6. i \in DOMAIN idx /\ Ok(i)
  BY <1>4, <1>5
<1>7. n = CHOOSE x \in DOMAIN idx : Ok(x)
  BY DEF Reach
<1>8. n \in DOMAIN idx /\ Ok(n)
  <2> HIDE DEF n, Ok
  <2> QED
    BY <1>6, <1>7
<1> HIDE DEF n
<1>9. n \in Nat /\ idx[n] \in Slots(m)
  BY <1>1, <1>2, <1>8
<1> QED
  BY <1>8, <1>9 DEF idx, n

\* A search for k meets slot i before it meets a free entry or one of k's.
OnPath(m, k, i) ==
    LET idx == Probe[k][m[dk_size]]
    IN  \E n \in DOMAIN idx :
            /\ n \in Nat /\ idx[n] = i
            /\ \A j \in 0..n - 1 :
                  idx[j] # i /\ m[idx[j]].me_key \notin {PPTR_NULL, k}

\* The entry that lookup() finds for a key, if the key has one on its path; it is
\* the only one.
LEMMA LookupFinds ==
    ASSUME NEW m, Block(m), HasFree(m), NEW k \in Key,
           NEW i \in Slots(m), m[i].me_key = k, OnPath(m, k, i)
    PROVE  lookup(m, k) = i
<1> DEFINE idx == Probe[k][m[dk_size]]
           r == Reach(m, idx, {PPTR_NULL, k})
<1>1. /\ r \in DOMAIN idx /\ r \in Nat /\ m[idx[r]].me_key \in {PPTR_NULL, k}
      /\ \A j \in 0..r - 1 : m[idx[j]].me_key \notin {PPTR_NULL, k}
  BY ReachLemma
<1>2. PICK n \in DOMAIN idx :
         /\ n \in Nat /\ idx[n] = i
         /\ \A j \in 0..n - 1 : m[idx[j]].me_key \notin {PPTR_NULL, k}
  BY DEF OnPath
<1>3. lookup(m, k) = IF m[idx[r]].me_key = k THEN idx[r]
                     ELSE idx[Reach(m, idx, {PPTR_NULL, PPTR_DUMMY})]
  BY DEF lookup
<1> HIDE DEF r, idx
<1>4. ~(n < r) /\ ~(r < n)
  BY <1>1, <1>2
<1>5. n = r
  BY <1>1, <1>2, <1>4
<1> QED
  BY <1>2, <1>3, <1>5

\* When there is none, it is one that may be used for the key.
LEMMA LookupFree ==
    ASSUME NEW m, Block(m), HasFree(m), NEW k \in Key
    PROVE  LET ep == lookup(m, k)
           IN  /\ ep \in Slots(m) /\ OnPath(m, k, ep)
               /\ m[ep].me_key \in {k, PPTR_NULL, PPTR_DUMMY}
<1> DEFINE idx == Probe[k][m[dk_size]]
           r == Reach(m, idx, {PPTR_NULL, k})
           d == Reach(m, idx, {PPTR_NULL, PPTR_DUMMY})
           ep == lookup(m, k)
<1>1. /\ r \in DOMAIN idx /\ r \in Nat /\ idx[r] \in Slots(m)
      /\ m[idx[r]].me_key \in {PPTR_NULL, k}
      /\ \A j \in 0..r - 1 : m[idx[j]].me_key \notin {PPTR_NULL, k}
  BY ReachLemma
<1>2. /\ d \in DOMAIN idx /\ d \in Nat /\ idx[d] \in Slots(m)
      /\ m[idx[d]].me_key \in {PPTR_NULL, PPTR_DUMMY}
      /\ \A j \in 0..d - 1 : m[idx[j]].me_key \notin {PPTR_NULL, PPTR_DUMMY}
  BY ReachLemma
<1>3. ep = IF m[idx[r]].me_key = k THEN idx[r] ELSE idx[d]
  BY DEF lookup
<1>4. OnPath(m, k, ep) <=>
        \E n \in DOMAIN idx :
            /\ n \in Nat /\ idx[n] = ep
            /\ \A j \in 0..n - 1 :
                  idx[j] # ep /\ m[idx[j]].me_key \notin {PPTR_NULL, k}
  BY DEF OnPath
<1> HIDE DEF idx, r, d, ep
<1>5. CASE m[idx[r]].me_key = k
  <2>1. ep = idx[r]
    BY <1>3, <1>5
  <2>2. \A j \in 0..r - 1 : idx[j] # ep
    BY <1>1, <2>1
  <2> QED
    BY <1>1, <1>4, <1>5, <2>1, <2>2 DEF ep
<1>6. CASE m[idx[r]].me_key # k
  <2>1. ep = idx[d] /\ m[idx[r]].me_key = PPTR_NULL
    BY <1>1, <1>3, <1>6
  <2>2. ~(r < d)
    BY <1>1, <1>2, <2>1
  <2>3. \A j \in 0..d - 1 : j \in 0..r - 1
    BY <1>1, <1>2, <2>2
  <2>4. \A j \in 0..d - 1 : idx[j] # ep /\ m[idx[j]].me_key \notin {PPTR_NULL, k}
    BY <1>1, <1>2, <2>1, <2>3
  <2> QED
    BY <1>2, <1>4, <2>1, <2>4 DEF ep
<1> QED
  BY <1>5, <1>6

\* findEmptySlot() finds a free entry, on the path of a key that is not there.
LEMMA EmptySlotLemma ==
    ASSUME NEW m, Block(m), HasFree(m), NEW k \in Key,
           \A i \in Slots(m) : m[i].me_key # k
    PROVE  LET ep == findEmptySlot(m, k)
           IN  ep \in Slots(m) /\ OnPath(m, k, ep) /\ m[ep].me_key = PPTR_NULL
<1> DEFINE idx == Probe[k][m[dk_size]]
           r == Reach(m, idx, {PPTR_NULL})
           ep == findEmptySlot(m, k)
<1>1. /\ r \in DOMAIN idx /\ r \in Nat /\ idx[r] \in Slots(m)
      /\ m[idx[r]].me_key \in {PPTR_NULL}
      /\ \A j \in 0..r - 1 : m[idx[j]].me_key \notin {PPTR_NULL}
  BY ReachLemma
<1>2. ep = idx[r]
  BY DEF findEmptySlot
<1>3. /\ DOMAIN idx = 0..m[dk_size] + MaxPerturb /\ m[dk_size] + MaxPerturb \in Nat
      /\ \A j \in DOMAIN idx : idx[j] \in Slots(m)
  BY BlockLemma
<1>4. OnPath(m, k, ep) <=>
        \E n \in DOMAIN idx :
            /\ n \in Nat /\ idx[n] = ep
            /\ \A j \in 0..n - 1 :
                  idx[j] # ep /\ m[idx[j]].me_key \notin {PPTR_NULL, k}
  BY DEF OnPath
<1> HIDE DEF idx, r, ep
<1>5. \A j \in 0..r - 1 : j \in DOMAIN idx
  BY <1>1, <1>3
<1>6. \A j \in 0..r - 1 : idx[j] # ep /\ m[idx[j]].me_key \notin {PPTR_NULL, k}
  BY <1>1, <1>2, <1>3, <1>5
<1> QED
  BY <1>1, <1>2, <1>4, <1>6 DEF ep

\* Every entry is on the path of its key.
Found(m) == \A i \in FullSlots(m) : OnPath(m, m[i].me_key, i)

\* So an entry is the one of its key, and a key without one is nowhere.
LEMMA FoundLemma ==
    ASSUME NEW m, Block(m), HasFree(m), Found(m)
    PROVE  /\ \A i \in FullSlots(m) : lookup(m, m[i].me_key) = i
           /\ \A k \in Key : m[lookup(m, k)].me_key # k
                => \A i \in Slots(m) : m[i].me_key # k
<1>1. ASSUME NEW i \in FullSlots(m)
      PROVE  lookup(m, m[i].me_key) = i
  BY LookupFinds DEF Found, FullSlots
<1>2. ASSUME NEW k \in Key, NEW i \in Slots(m), m[i].me_key = k
      PROVE  m[lookup(m, k)].me_key = k
  <2>1. i \in FullSlots(m)
    BY <1>2 DEF FullSlots
  <2> QED
    BY <1>1, <1>2, <2>1
<1> QED
  BY <1>1, <1>2

\* A path stays one when an entry is stored that is neither free nor of the key
\* the path is for, or that is the one at its end.
LEMMA PathStays ==
    ASSUME NEW m, NEW w, Block(m), w[dk_size] = m[dk_size], NEW ep \in Slots(m),
           \A i \in Slots(m) \ {ep} : w[i] = m[i],
           NEW k \in Key, NEW i \in Slots(m), OnPath(m, k, i),
           w[ep].me_key \notin {PPTR_NULL, k} \/ i = ep
    PROVE  OnPath(w, k, i)
<1> DEFINE idx == Probe[k][m[dk_size]]
<1>1. PICK n \in DOMAIN idx :
         /\ n \in Nat /\ idx[n] = i
         /\ \A j \in 0..n - 1 :
               idx[j] # i /\ m[idx[j]].me_key \notin {PPTR_NULL, k}
  BY DEF OnPath
<1>2. /\ DOMAIN idx = 0..m[dk_size] + MaxPerturb /\ m[dk_size] + MaxPerturb \in Nat
      /\ \A j \in DOMAIN idx : idx[j] \in Slots(m)
  BY BlockLemma
<1>3. OnPath(w, k, i) <=>
        \E x \in DOMAIN idx :
            /\ x \in Nat /\ idx[x] = i
            /\ \A j \in 0..x - 1 :
                  idx[j] # i /\ w[idx[j]].me_key \notin {PPTR_NULL, k}
  BY DEF OnPath
<1> HIDE DEF idx
<1>4. ASSUME NEW j \in 0..n - 1
      PROVE  w[idx[j]].me_key \notin {PPTR_NULL, k}
  <2>1. j \in DOMAIN idx
    BY <1>1, <1>2
  <2>2. idx[j] \in Slots(m) /\ idx[j] # i
    BY <1>1, <1>2, <2>1
  <2>3. CASE idx[j] = ep
    BY <2>2, <2>3
  <2>4. CASE idx[j] # ep
    BY <1>1, <2>2, <2>4
  <2> QED
    BY <2>3, <2>4
<1> QED
  BY <1>1, <1>3, <1>4

-----------------------------------------------------------------------------
(* Storing an entry, and counting. *)

\* w is m with entry e at ep, as far as the block of keys goes.
Stored1(m, w, ep, e) ==
    /\ w[dk_size] = m[dk_size] /\ w[ep] = e
    /\ \A i \in Slots(m) \ {ep} : w[i] = m[i]

\* The entry of a key goes where its path leads, and there is no other one.
LEMMA StoreEntryLemma ==
    ASSUME NEW m, Block(m), Found(m), NEW ep \in Slots(m), NEW e \in Entries, e # Null,
           NEW w, Stored1(m, w, ep, e),
           e.me_key \in Key => /\ OnPath(m, e.me_key, ep)
                               /\ \A i \in Slots(m) \ {ep} : m[i].me_key # e.me_key
    PROVE  /\ Block(w) /\ Found(w)
           /\ e = Dummy => /\ FullSlots(w) = FullSlots(m) \ {ep}
                           /\ DummySlots(w) = DummySlots(m) \cup {ep}
           /\ e # Dummy => /\ FullSlots(w) = FullSlots(m) \cup {ep}
                           /\ DummySlots(w) = DummySlots(m) \ {ep}
<1>1. /\ w[dk_size] = m[dk_size] /\ w[ep] = e /\ Slots(w) = Slots(m)
      /\ \A i \in Slots(m) \ {ep} : w[i] = m[i]
  BY DEF Stored1, Slots
<1>2. e.me_key # PPTR_NULL /\ (e # Dummy => e.me_key \in Key)
  BY EntryLemma
<1>3. e = Dummy => e.me_key \notin Key
  BY NameAssumption DEF Dummy
<1>4. Block(w)
  BY <1>1 DEF Block
<1>5. FullSlots(w) = IF e = Dummy THEN FullSlots(m) \ {ep} ELSE FullSlots(m) \cup {ep}
  BY <1>1, <1>2, <1>3 DEF FullSlots
<1>6. DummySlots(w) = IF e = Dummy THEN DummySlots(m) \cup {ep} ELSE DummySlots(m) \ {ep}
  BY <1>1 DEF DummySlots
<1>7. ASSUME NEW i \in FullSlots(w)
      PROVE  OnPath(w, w[i].me_key, i)
  <2>1. i \in Slots(m) /\ w[i].me_key \in Key
    BY <1>1 DEF FullSlots
  <2>2. CASE i = ep
    <3>1. OnPath(m, e.me_key, ep) /\ e.me_key \in Key
      BY <1>1, <2>1, <2>2
    <3> QED
      BY <1>1, <2>2, <3>1, PathStays
  <2>3. CASE i # ep
    <3>1. w[i] = m[i] /\ i \in FullSlots(m) /\ m[i].me_key \in Key
      BY <1>1, <2>1, <2>3 DEF FullSlots
    <3>2. OnPath(m, m[i].me_key, i)
      BY <3>1 DEF Found
    <3>3. w[ep].me_key \notin {PPTR_NULL, m[i].me_key}
      BY <1>1, <1>2, <2>1, <2>3, <3>1
    <3>4. OnPath(w, m[i].me_key, i)
      BY <1>1, <2>1, <3>1, <3>2, <3>3, PathStays
    <3> QED
      BY <3>1, <3>4
  <2> QED
    BY <2>2, <2>3
<1> QED
  BY <1>4, <1>5, <1>6, <1>7 DEF Found

\* The numbers of entries.
LEMMA CountLemma ==
    ASSUME NEW m, Block(m)
    PROVE  /\ IsFiniteSet(FullSlots(m)) /\ IsFiniteSet(DummySlots(m))
           /\ Cardinality(FullSlots(m)) \in Nat /\ Cardinality(DummySlots(m)) \in Nat
           /\ Cardinality(FullSlots(m)) + Cardinality(DummySlots(m)) < m[dk_size]
                => HasFree(m)
<1>1. m[dk_size] \in Nat /\ Slots(m) = 0..m[dk_size] - 1
  BY SizesLemma DEF Block, Slots
<1>2. IsFiniteSet(Slots(m)) /\ Cardinality(Slots(m)) = m[dk_size]
  <2>1. 0 \in Int /\ m[dk_size] - 1 \in Int
    BY <1>1
  <2>2. /\ IsFiniteSet(0..m[dk_size] - 1)
        /\ Cardinality(0..m[dk_size] - 1)
             = IF 0 > m[dk_size] - 1 THEN 0 ELSE (m[dk_size] - 1) - 0 + 1
    BY <2>1, FS_Interval
  <2> QED
    BY <1>1, <2>2
<1>3. FullSlots(m) \in SUBSET Slots(m) /\ DummySlots(m) \in SUBSET Slots(m)
  BY DEF FullSlots, DummySlots
<1>4. IsFiniteSet(FullSlots(m)) /\ IsFiniteSet(DummySlots(m))
  BY <1>2, <1>3, FS_Subset
<1>5. Cardinality(FullSlots(m)) \in Nat /\ Cardinality(DummySlots(m)) \in Nat
  BY <1>4, FS_CardinalityType
<1>6. ASSUME ~HasFree(m)
      PROVE  Cardinality(FullSlots(m)) + Cardinality(DummySlots(m)) >= m[dk_size]
  <2>1. \A i \in Slots(m) : i \in FullSlots(m) \cup DummySlots(m)
    BY <1>6, EntryLemma DEF HasFree, Block, FullSlots, DummySlots
  <2>2. Slots(m) = FullSlots(m) \cup DummySlots(m)
    BY <1>3, <2>1
  <2>3. Cardinality(FullSlots(m) \cup DummySlots(m))
          = Cardinality(FullSlots(m)) + Cardinality(DummySlots(m))
              - Cardinality(FullSlots(m) \cap DummySlots(m))
    BY <1>4, FS_Union
  <2>4. Cardinality(FullSlots(m) \cap DummySlots(m)) \in Nat
    BY <1>4, FS_Intersection, FS_CardinalityType
  <2> QED
    BY <1>2, <1>5, <2>2, <2>3, <2>4
<1> QED
  BY <1>1, <1>4, <1>5, <1>6

\* One entry more, or less.
LEMMA OneMoreLemma ==
    ASSUME NEW S, IsFiniteSet(S), NEW x
    PROVE  /\ Cardinality(S) \in Nat
           /\ Cardinality(S \cup {x}) = IF x \in S THEN Cardinality(S) ELSE Cardinality(S) + 1
           /\ Cardinality(S \ {x}) = IF x \in S THEN Cardinality(S) - 1 ELSE Cardinality(S)
  BY FS_CardinalityType, FS_AddElement, FS_RemoveElement

LEMMA NewSizeLemma ==
    ASSUME NEW m, m[dk_size] \in Sizes, m[dk_size] <= MaxSize,
           m[ma_used] \in Nat, m[ma_used] <= usableFraction(m[dk_size])
    PROVE  /\ newsize(m) \in Sizes
           /\ m[ma_used] < usableFraction(newsize(m)) /\ m[ma_used] < newsize(m)
<1> DEFINE size == m[dk_size]
           u == m[ma_used]
           S == {s \in Sizes : s > growRate(m)}
<1>1. size \in Nat /\ size >= 8 /\ 2 * size \in Sizes
  BY SizeAssumption DEF Sizes, MIN_SIZE_COMBINED
<1>2. growRate(m) = 2 * u + size \div 2
  BY <1>1 DEF growRate
<1>3. 2 * size \in S
  BY <1>1, <1>2, UsableLemma
<1>4. S \in SUBSET Nat
  BY SizesLemma
<1>5. \E x \in S : \A y \in S : x <= y
  <2> HIDE DEF S
  <2> QED
    BY <1>3, <1>4, LeastNumber
<1>6. newsize(m) \in S
  <2>1. newsize(m) = CHOOSE x \in S : \A y \in S : x <= y
    BY DEF newsize, Min
  <2> HIDE DEF S
  <2> QED
    BY <1>5, <2>1
<1>7. newsize(m) \in Sizes /\ newsize(m) > 2 * u + size \div 2
  BY <1>2, <1>6
<1>8. size \div 2 \in Nat /\ size \div 2 >= 4 /\ newsize(m) \in Nat
  <2>1. newsize(m) \in Nat
    BY <1>7, SizesLemma
  <2> HIDE DEF size
  <2> QED
    BY <1>1, <2>1
<1>9. newsize(m) > 2 * u + 4 /\ newsize(m) > u
  BY <1>7, <1>8
<1> QED
  BY <1>7, <1>9, UsableLemma

-----------------------------------------------------------------------------
(* The dictionary in memory, and what the two handlers make of it. *)

\* A block of keys in which every entry is found and has been counted as used.
Laid(m) ==
    /\ m \in [Loc -> Word]
    /\ Block(m) /\ m[dk_size] <= MaxSize
    /\ \A i \in Slot : i >= m[dk_size] => m[i] = UNALLOCATED
    /\ Found(m)
    /\ m[ma_used] \in Nat /\ Cardinality(FullSlots(m)) <= m[ma_used]

\* And the counters add up.
Table(m) ==
    /\ Laid(m)
    /\ m[dk_usable] \in Nat
    /\ m[dk_usable] + m[ma_used] + Cardinality(DummySlots(m)) = usableFraction(m[dk_size])

\* The locations of the counters are no slots.
LEMMA LocLemma ==
    /\ MaxSize \in Nat /\ MaxSize >= 8
    /\ ma_used \in Loc /\ dk_size \in Loc /\ dk_usable \in Loc
    /\ ma_used # dk_size /\ ma_used # dk_usable /\ dk_size # dk_usable
    /\ Slot \subseteq Loc /\ {ma_used, dk_size, dk_usable} \cap Slot = {}
    /\ \A l \in Loc : l \notin {ma_used, dk_size, dk_usable} => l \in Slot
  BY SizeAssumption DEF MIN_SIZE_COMBINED, Loc, Slot, ma_used, dk_size, dk_usable

LEMMA LaidLemma ==
    ASSUME NEW m, Laid(m)
    PROVE  /\ Slots(m) \subseteq Slot /\ m[dk_size] \in Nat /\ m[dk_size] \in Sizes
           /\ Slots(m) = {i \in Slot : i < m[dk_size]}
           /\ DOMAIN m = Loc
           /\ m[ma_used] + Cardinality(DummySlots(m)) < m[dk_size] => HasFree(m)
<1>1. m[dk_size] \in Nat /\ m[dk_size] <= MaxSize /\ m[dk_size] \in Sizes
  BY SizesLemma DEF Laid, Block
<1>2. Slots(m) = {i \in Slot : i < m[dk_size]}
  BY <1>1, LocLemma DEF Slots, Slot
<1>3. m[ma_used] + Cardinality(DummySlots(m)) < m[dk_size] => HasFree(m)
  <2>1. /\ Block(m) /\ m[ma_used] \in Nat
        /\ Cardinality(FullSlots(m)) <= m[ma_used]
    BY DEF Laid
  <2> QED
    BY <1>1, <2>1, CountLemma
<1> QED
  BY <1>1, <1>2, <1>3 DEF Laid

\* A table has an entry that is free, and the next block has room for it.
LEMMA TableLemma ==
    ASSUME NEW m, Table(m)
    PROVE  /\ Block(m) /\ HasFree(m) /\ Found(m)
           /\ m[ma_used] <= usableFraction(m[dk_size])
           /\ newsize(m) \in Sizes
           /\ m[ma_used] < usableFraction(newsize(m)) /\ m[ma_used] < newsize(m)
<1>1. /\ Laid(m) /\ Block(m) /\ Found(m) /\ m[ma_used] \in Nat /\ m[dk_size] <= MaxSize
      /\ m[dk_usable] \in Nat
      /\ m[dk_usable] + m[ma_used] + Cardinality(DummySlots(m)) = usableFraction(m[dk_size])
  BY DEF Table, Laid
<1>2. Cardinality(DummySlots(m)) \in Nat
  BY <1>1, CountLemma
<1>3. m[dk_size] \in Nat /\ m[dk_size] \in Sizes
  BY <1>1, LaidLemma
<1>4. usableFraction(m[dk_size]) \in Nat /\ usableFraction(m[dk_size]) < m[dk_size]
  BY <1>3, UsableLemma
<1>5. HasFree(m)
  BY <1>1, <1>2, <1>3, <1>4, LaidLemma
<1>6. m[ma_used] <= usableFraction(m[dk_size])
  BY <1>1, <1>2, <1>4
<1> QED
  BY <1>1, <1>3, <1>5, <1>6, NewSizeLemma

\* Key k has the value v.
Holds(m, k, v) == \E i \in FullSlots(m) : m[i].me_key = k /\ m[i].me_value = v

\* The map of the dictionary: what a key holds, and nothing for the others.
LEMMA ViewLemma ==
    ASSUME NEW m, Table(m)
    PROVE  /\ View(m) \in [Key -> Val \cup {PPTR_EMPTY}]
           /\ \A k \in Key : \A v : Holds(m, k, v) => v \in Val /\ View(m)[k] = v
           /\ \A k \in Key : (\A v \in Val : ~Holds(m, k, v)) => View(m)[k] = PPTR_EMPTY
           /\ \A k \in Key, v \in Val : View(m)[k] = v => Holds(m, k, v)
<1>1. Block(m) /\ HasFree(m) /\ Found(m)
  BY TableLemma
<1>2. ASSUME NEW k \in Key
      PROVE  LET e == m[lookup(m, k)]
             IN  /\ View(m)[k] = IF e.me_key = k THEN e.me_value ELSE PPTR_EMPTY
                 /\ e.me_key = k => /\ lookup(m, k) \in FullSlots(m) /\ e.me_value \in Val
                                    /\ Holds(m, k, e.me_value)
  <2>1. View(m)[k] = IF m[lookup(m, k)].me_key = k THEN m[lookup(m, k)].me_value
                     ELSE PPTR_EMPTY
    BY DEF View
  <2>2. ASSUME m[lookup(m, k)].me_key = k
        PROVE  lookup(m, k) \in FullSlots(m) /\ m[lookup(m, k)].me_value \in Val
    <3>1. lookup(m, k) \in Slots(m)
      BY <1>1, LookupFree
    <3>2. m[lookup(m, k)] \in Entries
      BY <1>1, <3>1 DEF Block
    <3> QED
      BY <2>2, <3>1, <3>2, EntryLemma DEF FullSlots
  <2> QED
    BY <2>1, <2>2 DEF Holds
<1>3. ASSUME NEW k \in Key, NEW v, Holds(m, k, v)
      PROVE  v \in Val /\ View(m)[k] = v
  <2>1. PICK i \in FullSlots(m) : m[i].me_key = k /\ m[i].me_value = v
    BY <1>3 DEF Holds
  <2>2. lookup(m, k) = i
    BY <1>1, <2>1, FoundLemma
  <2> QED
    BY <1>2, <2>1, <2>2
<1>4. ASSUME NEW k \in Key
      PROVE  View(m)[k] \in Val \cup {PPTR_EMPTY}
  BY <1>2
<1>5. View(m) \in [Key -> Val \cup {PPTR_EMPTY}]
  <2>1. View(m) = [k \in Key |-> View(m)[k]]
    BY DEF View
  <2> QED
    BY <1>4, <2>1
<1>6. ASSUME NEW k \in Key, \A v \in Val : ~Holds(m, k, v)
      PROVE  View(m)[k] = PPTR_EMPTY
  BY <1>2, <1>6
<1>7. ASSUME NEW k \in Key, NEW v \in Val, View(m)[k] = v
      PROVE  Holds(m, k, v)
  <2>1. v # PPTR_EMPTY
    BY NameAssumption
  <2> QED
    BY <1>2, <1>7, <2>1
<1> QED
  BY <1>3, <1>5, <1>6, <1>7

\* What holds the same values for a key shows the same.
LEMMA SameKeyLemma ==
    ASSUME NEW m, NEW w, Table(m), Table(w), NEW k \in Key,
           \A v \in Val : Holds(w, k, v) <=> Holds(m, k, v)
    PROVE  View(w)[k] = View(m)[k]
<1>1. CASE \E v \in Val : Holds(m, k, v)
  BY <1>1, ViewLemma
<1>2. CASE \A v \in Val : ~Holds(m, k, v)
  BY <1>2, ViewLemma
<1> QED
  BY <1>1, <1>2

\* The entry of k is written: it was there, or is used from now on.
LEMMA WrittenLemma ==
    ASSUME NEW m, Table(m), NEW k \in Key, NEW v \in Val,
           NEW ep, ep = lookup(m, k), NEW w \in [Loc -> Word],
           w[dk_size] = m[dk_size], w[ep] = Full(k, v),
           \A i \in Slot \ {ep} : w[i] = m[i],
           w[ma_used] = IF m[ep].me_key = k THEN m[ma_used] ELSE m[ma_used] + 1,
           w[dk_usable] = IF m[ep].me_key = PPTR_NULL THEN m[dk_usable] - 1 ELSE m[dk_usable],
           m[ep].me_key = PPTR_NULL => m[dk_usable] > 0
    PROVE  Table(w) /\ View(w) = [View(m) EXCEPT ![k] = v]
<1> DEFINE e == Full(k, v)
           F == Cardinality(FullSlots(m))
           D == Cardinality(DummySlots(m))
<1>1. /\ Laid(m) /\ Block(m) /\ HasFree(m) /\ Found(m)
      /\ m[ma_used] \in Nat /\ m[dk_usable] \in Nat /\ F <= m[ma_used]
      /\ m[dk_usable] + m[ma_used] + D = usableFraction(m[dk_size])
  BY TableLemma DEF Table, Laid
<1>2. /\ ep \in Slots(m) /\ OnPath(m, k, ep) /\ m[ep] \in Entries
      /\ m[ep].me_key \in {k, PPTR_NULL, PPTR_DUMMY}
  BY <1>1, LookupFree DEF Block
<1>3. /\ e \in Entries /\ e.me_key = k /\ e.me_value = v /\ e # Dummy
      /\ e # Null /\ k \notin {PPTR_NULL, PPTR_DUMMY}
  BY FullLemma, EntryLemma
<1>4. \A i \in Slots(m) \ {ep} : m[i].me_key # k
  <2>1. ASSUME NEW i \in Slots(m), m[i].me_key = k
        PROVE  i = ep
    <3>1. i \in FullSlots(m)
      BY <2>1 DEF FullSlots
    <3> QED
      BY <1>1, <2>1, <3>1, FoundLemma
  <2> QED
    BY <2>1
<1>5. Slots(m) \subseteq Slot /\ m[dk_size] \in Nat /\ m[dk_size] \in Sizes
      /\ Slots(m) = {i \in Slot : i < m[dk_size]}
  BY <1>1, LaidLemma
<1>6. Stored1(m, w, ep, e)
  BY <1>5 DEF Stored1
<1> HIDE DEF e
<1>7. /\ Block(w) /\ Found(w)
      /\ FullSlots(w) = FullSlots(m) \cup {ep}
      /\ DummySlots(w) = DummySlots(m) \ {ep}
  BY <1>1, <1>2, <1>3, <1>4, <1>6, StoreEntryLemma
<1>8. /\ ep \in FullSlots(m) <=> m[ep].me_key = k
      /\ ep \in DummySlots(m) <=> m[ep].me_key = PPTR_DUMMY
  <2>1. ep \in FullSlots(m) <=> m[ep].me_key \in Key
    BY <1>2 DEF FullSlots
  <2>2. m[ep].me_key \in Key <=> m[ep].me_key = k
    BY <1>2, NameAssumption
  <2>3. ep \in DummySlots(m) <=> m[ep] = Dummy
    BY <1>2 DEF DummySlots
  <2>4. m[ep].me_key = PPTR_DUMMY <=> m[ep] = Dummy
    BY <1>2, EntryLemma
  <2> QED
    BY <2>1, <2>2, <2>3, <2>4
<1>9. /\ F \in Nat /\ D \in Nat
      /\ Cardinality(FullSlots(w)) = IF m[ep].me_key = k THEN F ELSE F + 1
      /\ Cardinality(DummySlots(w)) = IF m[ep].me_key = PPTR_DUMMY THEN D - 1 ELSE D
  <2>1. IsFiniteSet(FullSlots(m)) /\ IsFiniteSet(DummySlots(m))
    BY <1>1, CountLemma
  <2>2. F \in Nat /\ Cardinality(FullSlots(m) \cup {ep}) = IF ep \in FullSlots(m) THEN F ELSE F + 1
    BY <2>1, OneMoreLemma
  <2>3. D \in Nat /\ Cardinality(DummySlots(m) \ {ep}) = IF ep \in DummySlots(m) THEN D - 1 ELSE D
    BY <2>1, OneMoreLemma
  <2> QED
    BY <1>7, <1>8, <2>2, <2>3
<1> HIDE DEF F, D
<1>10. /\ w[ma_used] \in Nat /\ w[dk_usable] \in Nat
       /\ Cardinality(FullSlots(w)) <= w[ma_used]
       /\ w[dk_usable] + w[ma_used] + Cardinality(DummySlots(w))
             = usableFraction(m[dk_size])
  <2>1. CASE m[ep].me_key = k
    BY <1>1, <1>3, <1>9, <2>1
  <2>2. CASE m[ep].me_key = PPTR_NULL
    <3>1. m[ep].me_key # k /\ m[ep].me_key # PPTR_DUMMY
      BY <1>3, <2>2, NameAssumption
    <3> QED
      BY <1>1, <1>9, <2>2, <3>1
  <2>3. CASE m[ep].me_key = PPTR_DUMMY
    <3>1. m[ep].me_key # k /\ m[ep].me_key # PPTR_NULL
      BY <1>3, <2>3, NameAssumption
    <3> QED
      BY <1>1, <1>9, <2>3, <3>1
  <2> QED
    BY <1>2, <2>1, <2>2, <2>3
<1>11. Table(w)
  <2>1. \A i \in Slot : i >= w[dk_size] => w[i] = UNALLOCATED
    <3>1. ASSUME NEW i \in Slot, i >= m[dk_size]
          PROVE  w[i] = UNALLOCATED
      <4>1. ep < m[dk_size] /\ ~(i < m[dk_size])
        BY <1>2, <1>5, <3>1, LocLemma DEF Slot
      <4>2. i # ep
        BY <4>1
      <4> QED
        BY <1>1, <3>1, <4>2 DEF Laid
    <3> QED
      BY <3>1
  <2>2. w[dk_size] <= MaxSize
    BY <1>1 DEF Laid
  <2> QED
    BY <1>7, <1>10, <2>1, <2>2 DEF Table, Laid
<1>12. ASSUME NEW c \in Key
       PROVE  View(w)[c] = [View(m) EXCEPT ![k] = v][c]
  <2>0. View(m) \in [Key -> Val \cup {PPTR_EMPTY}]
    BY ViewLemma
  <2>1. CASE c = k
    <3>1. Holds(w, k, v)
      BY <1>3, <1>7 DEF Holds, e
    <3>2. View(w)[k] = v
      BY <1>11, <3>1, ViewLemma
    <3> QED
      BY <2>0, <2>1, <3>2
  <2>2. CASE c # k
    <3>1. ASSUME NEW i \in FullSlots(m), m[i].me_key = c
          PROVE  i \in FullSlots(w) /\ w[i] = m[i]
      <4>1. i # ep /\ i \in Slot
        BY <1>2, <1>3, <1>5, <1>8, <2>2, <3>1 DEF FullSlots
      <4> QED
        BY <1>7, <4>1
    <3>2. ASSUME NEW i \in FullSlots(w), w[i].me_key = c
          PROVE  i \in FullSlots(m) /\ w[i] = m[i]
      <4>1. i # ep
        BY <1>3, <2>2, <3>2 DEF e
      <4>2. i \in FullSlots(m) /\ i \in Slot
        BY <1>5, <1>7, <4>1 DEF FullSlots
      <4> QED
        BY <4>1, <4>2
    <3>3. \A x : Holds(w, c, x) <=> Holds(m, c, x)
      BY <3>1, <3>2 DEF Holds
    <3>4. View(w)[c] = View(m)[c]
      BY <1>11, <3>3, SameKeyLemma
    <3> QED
      BY <2>0, <2>2, <3>4
  <2> QED
    BY <2>1, <2>2
<1>13. View(w) = [View(m) EXCEPT ![k] = v]
  <2>1. View(w) \in [Key -> Val \cup {PPTR_EMPTY}] /\ View(m) \in [Key -> Val \cup {PPTR_EMPTY}]
    BY <1>11, ViewLemma
  <2> QED
    BY <1>12, <2>1
<1> QED
  BY <1>11, <1>13

\* The entry of k, which has one, is deleted.
LEMMA DelBodyLemma ==
    ASSUME NEW m, Table(m), NEW k \in Key, m[lookup(m, k)].me_value # PPTR_NULL
    PROVE  LET w == DelBody(m, k)
           IN  Table(w) /\ View(w) = [View(m) EXCEPT ![k] = PPTR_EMPTY]
<1> DEFINE ep == lookup(m, k)
           w == DelBody(m, k)
           F == Cardinality(FullSlots(m))
           D == Cardinality(DummySlots(m))
<1>1. /\ Laid(m) /\ Block(m) /\ HasFree(m) /\ Found(m) /\ m \in [Loc -> Word]
      /\ m[ma_used] \in Nat /\ m[dk_usable] \in Nat /\ F <= m[ma_used]
      /\ m[dk_usable] + m[ma_used] + D = usableFraction(m[dk_size])
  BY TableLemma DEF Table, Laid
<1>2. Slots(m) \subseteq Slot /\ m[dk_size] \in Nat /\ m[dk_size] \in Sizes
      /\ Slots(m) = {i \in Slot : i < m[dk_size]}
  BY <1>1, LaidLemma
<1>3. ep \in FullSlots(m) /\ m[ep].me_key = k /\ ep \in Slots(m) /\ m[ep] # Dummy
  <2>1. /\ ep \in Slots(m) /\ m[ep] \in Entries
        /\ m[ep].me_key \in {k, PPTR_NULL, PPTR_DUMMY}
    BY <1>1, LookupFree DEF Block
  <2> QED
    BY <2>1, EntryLemma, NameAssumption DEF FullSlots, Dummy
<1>4. ep \notin DummySlots(m)
  BY <1>3 DEF DummySlots
<1>5. Dummy \in Entries /\ Dummy # Null /\ Dummy.me_key \notin Key
  BY NameAssumption DEF Dummy, Null, Entries
<1>6. /\ w = [m EXCEPT ![ep] = Dummy, ![ma_used] = @ - 1]
      /\ DOMAIN m = Loc
  BY <1>1 DEF DelBody
<1> HIDE DEF w, ep
<1>7. /\ w[ep] = Dummy /\ w[ma_used] = m[ma_used] - 1
      /\ w[dk_size] = m[dk_size] /\ w[dk_usable] = m[dk_usable]
      /\ \A i \in Slot \ {ep} : w[i] = m[i]
      /\ DOMAIN w = Loc
  BY <1>2, <1>3, <1>6, LocLemma
<1>8. Stored1(m, w, ep, Dummy)
  BY <1>2, <1>7 DEF Stored1
<1>9. /\ Block(w) /\ Found(w)
      /\ FullSlots(w) = FullSlots(m) \ {ep}
      /\ DummySlots(w) = DummySlots(m) \cup {ep}
  BY <1>1, <1>3, <1>5, <1>8, StoreEntryLemma
<1>10. /\ F \in Nat /\ D \in Nat
       /\ Cardinality(FullSlots(w)) = F - 1 /\ Cardinality(FullSlots(w)) \in Nat
       /\ Cardinality(DummySlots(w)) = D + 1
  BY <1>1, <1>3, <1>4, <1>9, CountLemma, OneMoreLemma
<1> HIDE DEF F, D
<1>11. /\ w[ma_used] \in Nat /\ w[dk_usable] \in Nat
       /\ Cardinality(FullSlots(w)) <= w[ma_used]
       /\ w[dk_usable] + w[ma_used] + Cardinality(DummySlots(w))
             = usableFraction(m[dk_size])
  BY <1>1, <1>7, <1>10
<1>12. w \in [Loc -> Word]
  <2>1. Dummy \in Word
    BY <1>5, EntryLemma DEF Word
  <2>2. \A l \in Loc : w[l] \in Word
    BY <1>1, <1>6, <1>7, <1>11, <2>1, LocLemma DEF Word
  <2> QED
    BY <1>6, <2>2
<1>13. Table(w)
  <2>1. \A i \in Slot : i >= w[dk_size] => w[i] = UNALLOCATED
    <3>1. ASSUME NEW i \in Slot, i >= m[dk_size]
          PROVE  w[i] = UNALLOCATED
      <4>1. ep < m[dk_size] /\ ~(i < m[dk_size])
        BY <1>2, <1>3, <3>1, LocLemma DEF Slot
      <4>2. i # ep
        BY <4>1
      <4> QED
        BY <1>1, <1>7, <3>1, <4>2 DEF Laid
    <3> QED
      BY <1>7, <3>1
  <2>2. w[dk_size] <= MaxSize
    BY <1>1, <1>7 DEF Laid
  <2> QED
    BY <1>7, <1>9, <1>11, <1>12, <2>1, <2>2 DEF Table, Laid
<1>14. ASSUME NEW c \in Key
       PROVE  View(w)[c] = [View(m) EXCEPT ![k] = PPTR_EMPTY][c]
  <2>0. View(m) \in [Key -> Val \cup {PPTR_EMPTY}]
    BY ViewLemma
  <2>1. CASE c = k
    <3>1. \A i \in FullSlots(w) : w[i].me_key # k
      <4>1. ASSUME NEW i \in FullSlots(w), w[i].me_key = k
            PROVE  FALSE
        <5>1. i \in FullSlots(m) /\ i # ep /\ i \in Slot
          BY <1>2, <1>9 DEF FullSlots
        <5>2. m[i].me_key = k
          BY <1>7, <4>1, <5>1
        <5>3. lookup(m, k) = i
          BY <1>1, <5>1, <5>2, FoundLemma
        <5> QED
          BY <5>1, <5>3 DEF ep
      <4> QED
        BY <4>1
    <3>2. View(w)[k] = PPTR_EMPTY
      BY <1>13, <3>1, ViewLemma DEF Holds
    <3> QED
      BY <2>0, <2>1, <3>2
  <2>2. CASE c # k
    <3>1. ASSUME NEW i \in FullSlots(m), m[i].me_key = c
          PROVE  i \in FullSlots(w) /\ w[i] = m[i]
      <4>1. i # ep /\ i \in Slot
        BY <1>2, <1>3, <2>2, <3>1 DEF FullSlots
      <4> QED
        BY <1>7, <1>9, <4>1
    <3>2. ASSUME NEW i \in FullSlots(w)
          PROVE  i \in FullSlots(m) /\ w[i] = m[i]
      <4>1. i \in FullSlots(m) /\ i # ep /\ i \in Slot
        BY <1>2, <1>9 DEF FullSlots
      <4> QED
        BY <1>7, <4>1
    <3>3. \A x : Holds(w, c, x) <=> Holds(m, c, x)
      BY <3>1, <3>2 DEF Holds
    <3>4. View(w)[c] = View(m)[c]
      BY <1>13, <3>3, SameKeyLemma
    <3> QED
      BY <2>0, <2>2, <3>4
  <2> QED
    BY <2>1, <2>2
<1>15. View(w) = [View(m) EXCEPT ![k] = PPTR_EMPTY]
  <2>1. View(w) \in [Key -> Val \cup {PPTR_EMPTY}] /\ View(m) \in [Key -> Val \cup {PPTR_EMPTY}]
    BY <1>13, ViewLemma
  <2> QED
    BY <1>14, <2>1
<1> QED
  BY <1>13, <1>15 DEF w

-----------------------------------------------------------------------------
(* Moving to a new block of keys. *)

\* The loop of insertionResize(), entry by entry.
MoveOne(m, n, done) ==
    IF m[n - 1].me_value = PPTR_NULL THEN done
    ELSE [done EXCEPT ![findEmptySlot(done, m[n - 1].me_key)] = m[n - 1]]

\* The loop ends, and goes from one block to the next as MoveOne says.
LEMMA MovedLemma ==
    ASSUME NEW m, m[dk_size] \in Nat
    PROVE  /\ Moved(m)[0] = newKeysObject(m, newsize(m))
           /\ \A n \in 0..m[dk_size] - 1 : Moved(m)[n + 1] = MoveOne(m, n + 1, Moved(m)[n])
<1> DEFINE A == newKeysObject(m, newsize(m))
           size == m[dk_size]
           Builds(g, n) == g = [i \in 0..n |-> IF i = 0 THEN A ELSE MoveOne(m, i, g[i - 1])]
           S == {n \in Nat : \E g : Builds(g, n)}
<1> HIDE DEF A
<1>1. 0 \in S
  <2>1. \A g : g = [i \in 0..0 |-> A] => Builds(g, 0)
    OBVIOUS
  <2> QED
    BY <2>1
<1>2. ASSUME NEW n \in S
      PROVE  n + 1 \in S
  <2>1. PICK g : Builds(g, n)
    OBVIOUS
  <2>2. PICK x : x = MoveOne(m, n + 1, g[n])
    OBVIOUS
  <2>3. PICK h : h = [i \in 0..n + 1 |-> IF i = n + 1 THEN x ELSE g[i]]
    OBVIOUS
  <2>4. \A i \in 0..n : h[i] = g[i]
    BY <2>3
  <2>5. ASSUME NEW i \in 0..n + 1
        PROVE  h[i] = IF i = 0 THEN A ELSE MoveOne(m, i, h[i - 1])
    <3>1. CASE i = n + 1
      <4>1. h[i] = x /\ i - 1 = n /\ n \in 0..n /\ i # 0
        BY <2>3, <3>1
      <4>2. h[i - 1] = g[n]
        BY <2>4, <4>1
      <4> QED
        BY <2>2, <3>1, <4>1, <4>2
    <3>2. CASE i # n + 1
      <4>1. i \in 0..n /\ h[i] = g[i]
        BY <2>4, <3>2
      <4>2. i # 0 => i - 1 \in 0..n
        BY <4>1
      <4>3. i # 0 => h[i - 1] = g[i - 1]
        BY <2>4, <4>2
      <4>4. g[i] = IF i = 0 THEN A ELSE MoveOne(m, i, g[i - 1])
        BY <2>1, <4>1
      <4> QED
        BY <4>1, <4>3, <4>4
    <3> QED
      BY <3>1, <3>2
  <2>6. Builds(h, n + 1)
    BY <2>3, <2>5
  <2> QED
    BY <2>6
<1>3. \E g : Builds(g, size)
  <2>1. S = Nat
    <3>1. S \in SUBSET Nat
      OBVIOUS
    <3> HIDE DEF S
    <3> QED
      BY <1>1, <1>2, <3>1, SetInduction
  <2> QED
    BY <2>1
<1>4. Moved(m) = CHOOSE g : Builds(g, size)
  BY DEF Moved, MoveOne, A
<1>5. Builds(Moved(m), size)
  <2> HIDE DEF Builds
  <2> QED
    BY <1>3, <1>4
<1>6. Moved(m)[0] = A
  BY <1>5
<1>7. \A n \in 0..size - 1 : n + 1 \in 0..size /\ n + 1 # 0 /\ (n + 1) - 1 = n
  OBVIOUS
<1>8. \A n \in 0..size - 1 : Moved(m)[n + 1] = MoveOne(m, n + 1, Moved(m)[n])
  BY <1>5, <1>7
<1> QED
  BY <1>6, <1>8 DEF A

\* The new block of keys w when the first n entries of m have been seen: it is
\* laid out well, has no deleted entries, and holds what those n hold.
Moving(m, w, n) ==
    /\ Laid(w)
    /\ w[dk_size] = newsize(m) /\ w[ma_used] = m[ma_used]
    /\ w[dk_usable] = usableFraction(newsize(m))
    /\ DummySlots(w) = {}
    /\ Cardinality(FullSlots(w)) = Cardinality({j \in FullSlots(m) : j < n})
    /\ \A k \in Key : \A v : Holds(w, k, v) <=>
          \E j \in FullSlots(m) : j < n /\ m[j].me_key = k /\ m[j].me_value = v

\* A new block of keys is free from end to end.
LEMMA NewKeysLemma ==
    ASSUME NEW m, m[ma_used] \in Nat, NEW size \in Sizes, size <= MaxSize
    PROVE  LET w == newKeysObject(m, size)
           IN  /\ Laid(w) /\ w[dk_size] = size /\ w[ma_used] = m[ma_used]
               /\ w[dk_usable] = usableFraction(size)
               /\ FullSlots(w) = {} /\ DummySlots(w) = {}
<1> DEFINE w == newKeysObject(m, size)
<1>1. size \in Nat /\ usableFraction(size) \in Nat
  BY SizesLemma, UsableLemma
<1>2. w = [l \in Loc |->
            IF l = dk_size THEN size
            ELSE IF l = dk_usable THEN usableFraction(size)
            ELSE IF l = ma_used THEN m[ma_used]
            ELSE IF l < size THEN Null ELSE UNALLOCATED]
  <2>1. \A l \in Loc :
          (CASE l = dk_size -> size
            [] l = dk_usable -> usableFraction(size)
            [] l = ma_used -> m[ma_used]
            [] OTHER -> IF l < size THEN Null ELSE UNALLOCATED)
          = IF l = dk_size THEN size
            ELSE IF l = dk_usable THEN usableFraction(size)
            ELSE IF l = ma_used THEN m[ma_used]
            ELSE IF l < size THEN Null ELSE UNALLOCATED
    BY LocLemma
  <2> QED
    BY <2>1 DEF newKeysObject
<1>3. Null \in Entries /\ Null \in Entry /\ Null.me_key \notin Key /\ Null # Dummy
  BY NameAssumption, EntryLemma DEF Entries, Null, Dummy
<1> HIDE DEF w
<1>4. /\ w[dk_size] = size /\ w[dk_usable] = usableFraction(size)
      /\ w[ma_used] = m[ma_used]
      /\ \A i \in Slot : w[i] = IF i < size THEN Null ELSE UNALLOCATED
  <2>1. \A i \in Slot : i \in Loc /\ i \notin {ma_used, dk_size, dk_usable}
    BY LocLemma
  <2> QED
    BY <1>2, <2>1, LocLemma
<1>5. Slots(w) = {i \in Slot : i < size}
  BY <1>1, <1>4, LocLemma DEF Slots, Slot
<1>6. \A i \in Slots(w) : w[i] = Null
  BY <1>4, <1>5
<1>7. FullSlots(w) = {} /\ DummySlots(w) = {}
  BY <1>3, <1>6 DEF FullSlots, DummySlots
<1>8. w \in [Loc -> Word]
  BY <1>1, <1>2, <1>3 DEF Word
<1>9. \A i \in Slot : i >= w[dk_size] => w[i] = UNALLOCATED
  <2>1. \A i \in Slot : i >= size => ~(i < size)
    BY <1>1, LocLemma DEF Slot
  <2> QED
    BY <1>4, <2>1
<1>10. Block(w) /\ Found(w)
  BY <1>1, <1>3, <1>4, <1>6, <1>7 DEF Block, Found
<1>11. Cardinality({}) = 0
  BY FS_EmptySet
<1>12. Laid(w)
  BY <1>4, <1>7, <1>8, <1>9, <1>10, <1>11 DEF Laid
<1> QED
  BY <1>4, <1>7, <1>12 DEF w

LEMMA MovingStarts ==
    ASSUME NEW m, Table(m), newsize(m) <= MaxSize
    PROVE  Moving(m, newKeysObject(m, newsize(m)), 0)
<1> DEFINE w == newKeysObject(m, newsize(m))
<1>1. m[ma_used] \in Nat /\ newsize(m) \in Sizes
  BY TableLemma DEF Table, Laid
<1>2. /\ Laid(w) /\ w[dk_size] = newsize(m) /\ w[ma_used] = m[ma_used]
      /\ w[dk_usable] = usableFraction(newsize(m))
      /\ FullSlots(w) = {} /\ DummySlots(w) = {}
  BY <1>1, NewKeysLemma
<1> HIDE DEF w
<1>3. {j \in FullSlots(m) : j < 0} = {}
  <2>1. FullSlots(m) \subseteq Slot
    BY LaidLemma DEF Table, FullSlots
  <2>2. \A j \in Slot : ~(j < 0)
    BY LocLemma DEF Slot
  <2> QED
    BY <2>1, <2>2
<1>4. \A k \in Key : \A v : Holds(w, k, v) <=>
          \E j \in FullSlots(m) : j < 0 /\ m[j].me_key = k /\ m[j].me_value = v
  BY <1>2, <1>3 DEF Holds
<1> QED
  BY <1>2, <1>3, <1>4 DEF Moving, w

\* One round of the loop.
LEMMA MovingLemma ==
    ASSUME NEW m, Table(m), NEW n \in Nat, n < m[dk_size], NEW w, Moving(m, w, n)
    PROVE  Moving(m, MoveOne(m, n + 1, w), n + 1)
<1> DEFINE x == MoveOne(m, n + 1, w)
           e == m[n]
           Seen(i) == {j \in FullSlots(m) : j < i}
<1>1. /\ Laid(m) /\ Block(m) /\ HasFree(m) /\ Found(m) /\ m[dk_size] \in Nat
      /\ Slots(m) \subseteq Slot /\ FullSlots(m) \subseteq Nat
      /\ IsFiniteSet(FullSlots(m))
      /\ Cardinality(FullSlots(m)) <= m[ma_used]
      /\ m[ma_used] \in Nat /\ m[ma_used] < newsize(m)
  <2>1. Laid(m) /\ Block(m) /\ HasFree(m) /\ Found(m) /\ m[ma_used] < newsize(m)
    BY TableLemma DEF Table
  <2>2. m[dk_size] \in Nat /\ Slots(m) \subseteq Slot
    BY <2>1, LaidLemma
  <2>3. FullSlots(m) \subseteq Nat
    BY <2>2, LocLemma DEF FullSlots, Slot
  <2> QED
    BY <2>1, <2>2, <2>3, CountLemma DEF Laid
<1>2. /\ Laid(w) /\ Block(w) /\ Found(w) /\ DummySlots(w) = {}
      /\ w[dk_size] = newsize(m) /\ w[ma_used] = m[ma_used]
      /\ w[dk_usable] = usableFraction(newsize(m))
      /\ Cardinality(FullSlots(w)) = Cardinality(Seen(n))
      /\ w \in [Loc -> Word]
  BY DEF Moving, Laid
<1>3. \A k \in Key : \A v : Holds(w, k, v) <=>
         \E j \in Seen(n) : m[j].me_key = k /\ m[j].me_value = v
  BY DEF Moving
<1>4. n \in Slots(m) /\ e \in Entries
  <2>1. n \in 0..m[dk_size] - 1
    BY <1>1
  <2> QED
    BY <1>1, <2>1 DEF Slots, Block
<1>5. x = IF e.me_value = PPTR_NULL THEN w
          ELSE [w EXCEPT ![findEmptySlot(w, e.me_key)] = e]
  <2>1. (n + 1) - 1 = n
    OBVIOUS
  <2> QED
    BY <2>1 DEF MoveOne
<1> HIDE DEF x
<1>6. CASE e.me_value = PPTR_NULL
  <2>1. n \notin FullSlots(m)
    BY <1>4, <1>6, EntryLemma DEF FullSlots
  <2>2. Seen(n + 1) = Seen(n)
    <3>1. \A j \in FullSlots(m) : j < n + 1 <=> j < n \/ j = n
      BY <1>1
    <3> QED
      BY <2>1, <3>1
  <2>3. x = w
    BY <1>5, <1>6
  <2> QED
    BY <1>2, <1>3, <2>2, <2>3 DEF Moving, x
<1>7. CASE e.me_value # PPTR_NULL
  <2> DEFINE k == e.me_key
             ep == findEmptySlot(w, k)
  <2>1. k \in Key /\ n \in FullSlots(m) /\ e # Null /\ e # Dummy /\ e.me_value \in Val
    <3>1. k \in Key /\ e.me_value \in Val
      BY <1>4, <1>7, EntryLemma
    <3> QED
      BY <1>4, <3>1, NameAssumption DEF FullSlots, Null, Dummy
  <2>2. Seen(n + 1) = Seen(n) \cup {n} /\ n \notin Seen(n)
    <3>1. \A j \in FullSlots(m) : j < n + 1 <=> j < n \/ j = n
      BY <1>1
    <3>2. n \in Seen(n + 1) /\ n \notin Seen(n)
      BY <2>1
    <3> HIDE DEF k, ep, e
    <3> QED
      BY <3>1, <3>2
  <2>3. /\ Cardinality(Seen(n + 1)) = Cardinality(Seen(n)) + 1
        /\ Cardinality(Seen(n)) \in Nat
        /\ Cardinality(Seen(n + 1)) <= Cardinality(FullSlots(m))
    <3>1. /\ Seen(n) \in SUBSET FullSlots(m) /\ Seen(n + 1) \in SUBSET FullSlots(m)
      OBVIOUS
    <3> HIDE DEF Seen
    <3>2. IsFiniteSet(Seen(n)) /\ IsFiniteSet(Seen(n + 1))
      BY <1>1, <3>1, FS_Subset
    <3>3. Cardinality(Seen(n + 1)) <= Cardinality(FullSlots(m))
      BY <1>1, <3>1, FS_Subset
    <3> QED
      BY <2>2, <3>2, <3>3, OneMoreLemma
  <2>4. HasFree(w)
    <3>1. Cardinality(Seen(n)) < newsize(m)
      <4>1. newsize(m) \in Nat /\ Cardinality(FullSlots(m)) \in Nat
        BY <1>1, TableLemma, SizesLemma, CountLemma
      <4> HIDE DEF Seen
      <4> QED
        BY <1>1, <2>3, <4>1
    <3>2. Cardinality(DummySlots(w)) = 0
      BY <1>2, FS_EmptySet
    <3>3. Cardinality(FullSlots(w)) + Cardinality(DummySlots(w)) < w[dk_size]
      <4> HIDE DEF Seen
      <4> QED
        BY <1>2, <2>3, <3>1, <3>2
    <3> QED
      BY <1>2, <3>3, CountLemma
  <2>5. \A i \in Slots(w) : w[i].me_key # k
    <3>1. ASSUME NEW i \in Slots(w), w[i].me_key = k
          PROVE  FALSE
      <4>1. Holds(w, k, w[i].me_value)
        BY <2>1, <3>1 DEF Holds, FullSlots
      <4>2. \E j \in Seen(n) : m[j].me_key = k /\ m[j].me_value = w[i].me_value
        <5> HIDE DEF Seen, e, ep
        <5> QED
          BY <1>3, <2>1, <4>1
      <4>3. PICK j \in Seen(n) : m[j].me_key = k
        BY <4>2
      <4>4. lookup(m, k) = j /\ lookup(m, k) = n
        BY <1>1, <2>1, <4>3, FoundLemma
      <4> QED
        BY <2>2, <4>4
    <3> QED
      BY <3>1
  <2>6. ep \in Slots(w) /\ OnPath(w, k, ep) /\ w[ep].me_key = PPTR_NULL
    BY <1>2, <2>1, <2>4, <2>5, EmptySlotLemma
  <2>7. x = [w EXCEPT ![ep] = e]
    BY <1>5, <1>7
  <2> HIDE DEF ep
  <2>8. Slots(w) \subseteq Slot /\ Slots(w) = {i \in Slot : i < w[dk_size]}
    BY <1>2, LaidLemma
  <2>9. /\ DOMAIN x = Loc /\ x[ep] = e /\ \A l \in Loc \ {ep} : x[l] = w[l]
        /\ x[dk_size] = w[dk_size] /\ x[ma_used] = w[ma_used]
        /\ x[dk_usable] = w[dk_usable] /\ x \in [Loc -> Word]
    <3>1. ep \in Loc /\ ep \notin {dk_size, ma_used, dk_usable}
      BY <2>6, <2>8, LocLemma
    <3>2. e \in Word
      BY <1>4, EntryLemma DEF Word
    <3> HIDE DEF e
    <3> QED
      BY <1>2, <2>7, <3>1, <3>2, LocLemma
  <2>10. Stored1(w, x, ep, e)
    BY <2>8, <2>9, LocLemma DEF Stored1
  <2>11. /\ Block(x) /\ Found(x)
         /\ FullSlots(x) = FullSlots(w) \cup {ep}
         /\ DummySlots(x) = DummySlots(w) \ {ep}
    <3> HIDE DEF e
    <3> QED
      BY <1>2, <1>4, <2>1, <2>5, <2>6, <2>10, StoreEntryLemma DEF e
  <2>12. DummySlots(x) = {}
    BY <1>2, <2>11
  <2>13. Cardinality(FullSlots(x)) = Cardinality(Seen(n + 1))
    <3>1. IsFiniteSet(FullSlots(w))
      BY <1>2, CountLemma
    <3>2. ep \notin FullSlots(w)
      BY <2>6, NameAssumption DEF FullSlots
    <3>3. Cardinality(FullSlots(w) \cup {ep}) = Cardinality(FullSlots(w)) + 1
      BY <3>1, <3>2, OneMoreLemma
    <3> HIDE DEF Seen
    <3> QED
      BY <1>2, <2>3, <2>11, <3>3
  <2>14. Laid(x)
    <3>1. \A i \in Slot : i >= x[dk_size] => x[i] = UNALLOCATED
      <4>1. ASSUME NEW i \in Slot, i >= w[dk_size]
            PROVE  x[i] = UNALLOCATED
        <5>1. ep < w[dk_size] /\ ~(i < w[dk_size])
          BY <1>2, <2>6, <2>8, <4>1, LaidLemma, LocLemma DEF Slot
        <5>2. i # ep /\ i \in Loc
          BY <5>1, LocLemma
        <5> QED
          BY <1>2, <2>9, <4>1, <5>2 DEF Laid
      <4> QED
        BY <2>9, <4>1
    <3>2. Cardinality(FullSlots(x)) <= x[ma_used] /\ x[ma_used] \in Nat
      <4>1. Cardinality(FullSlots(m)) \in Nat /\ Cardinality(FullSlots(x)) \in Nat
        BY <1>1, <2>11, CountLemma
      <4> HIDE DEF Seen
      <4> QED
        BY <1>1, <1>2, <2>3, <2>9, <2>13, <4>1
    <3>3. x[dk_size] <= MaxSize
      BY <1>2, <2>9 DEF Laid
    <3> QED
      BY <2>9, <2>11, <3>1, <3>2, <3>3 DEF Laid
  <2>15. ASSUME NEW c \in Key, NEW v
         PROVE  Holds(x, c, v) <=>
                  \E j \in Seen(n + 1) : m[j].me_key = c /\ m[j].me_value = v
    <3>1. Holds(x, c, v) <=> Holds(w, c, v) \/ (e.me_key = c /\ e.me_value = v)
      <4>1. ep \notin FullSlots(w)
        BY <2>6, NameAssumption DEF FullSlots
      <4>2. \A i \in FullSlots(w) : x[i] = w[i]
        BY <2>8, <2>9, <4>1, LocLemma DEF FullSlots
      <4> HIDE DEF e
      <4> QED
        BY <2>9, <2>11, <4>2 DEF Holds
    <3>2. (\E j \in Seen(n + 1) : m[j].me_key = c /\ m[j].me_value = v)
            <=> \/ \E j \in Seen(n) : m[j].me_key = c /\ m[j].me_value = v
                \/ e.me_key = c /\ e.me_value = v
      <4> HIDE DEF Seen
      <4> QED
        BY <2>2
    <3> QED
      BY <1>3, <3>1, <3>2
  <2>16. \A c \in Key : \A v : Holds(x, c, v) <=>
          \E j \in FullSlots(m) : j < n + 1 /\ m[j].me_key = c /\ m[j].me_value = v
    BY <2>15
  <2> QED
    BY <1>2, <2>9, <2>12, <2>13, <2>14, <2>16 DEF Moving, x
<1> QED
  BY <1>6, <1>7

\* A dictionary that differs from m in its counters alone.
LEMMA CountersLemma ==
    ASSUME NEW m, NEW w \in [Loc -> Word], Laid(m), w[dk_size] = m[dk_size],
           \A i \in Slot : w[i] = m[i],
           w[ma_used] \in Nat, Cardinality(FullSlots(m)) <= w[ma_used]
    PROVE  /\ Laid(w) /\ FullSlots(w) = FullSlots(m) /\ DummySlots(w) = DummySlots(m)
           /\ \A k, v : Holds(w, k, v) <=> Holds(m, k, v)
<1>1. /\ Slots(w) = Slots(m) /\ Slots(m) \subseteq Slot
      /\ \A i \in Slots(m) : w[i] = m[i]
  <2>1. Slots(m) \subseteq Slot
    BY LaidLemma
  <2> QED
    BY <2>1 DEF Slots
<1>2. FullSlots(w) = FullSlots(m) /\ DummySlots(w) = DummySlots(m)
  BY <1>1 DEF FullSlots, DummySlots
<1>3. Block(w) /\ w[dk_size] <= MaxSize /\ \A i \in Slot : i >= w[dk_size] => w[i] = UNALLOCATED
  BY <1>1 DEF Laid, Block
<1>4. ASSUME NEW i \in FullSlots(m)
      PROVE  OnPath(w, m[i].me_key, i) /\ w[i] = m[i]
  <2>1. OnPath(m, m[i].me_key, i) /\ m[i].me_key \in Key /\ i \in Slots(m) /\ Block(m)
    BY DEF Laid, Found, FullSlots
  <2>2. w[i].me_key \notin {PPTR_NULL, m[i].me_key} \/ i = i
    OBVIOUS
  <2>3. OnPath(w, m[i].me_key, i)
    BY <1>1, <2>1, PathStays
  <2> QED
    BY <1>1, <2>1, <2>3
<1>5. Found(w)
  BY <1>2, <1>4 DEF Found
<1>6. \A k, v : Holds(w, k, v) <=> Holds(m, k, v)
  BY <1>2, <1>4 DEF Holds
<1> QED
  BY <1>2, <1>3, <1>5, <1>6 DEF Laid

\* A resize keeps every entry, and makes room for one more.
LEMMA ResizeLemma ==
    ASSUME NEW m, Table(m), newsize(m) <= MaxSize, NEW w,
           w = [insertionResize(m) EXCEPT ![dk_usable] = @ - 1, ![ma_used] = @ + 1]
    PROVE  Table(w) /\ View(w) = View(m)
<1> DEFINE size == m[dk_size]
           r == Moved(m)[size]
           T == {n \in Nat : n <= size => Moving(m, Moved(m)[n], n)}
<1>1. Laid(m) /\ size \in Nat /\ m[ma_used] \in Nat
  BY LaidLemma DEF Table, Laid
<1>2. T = Nat
  <2>1. 0 \in T
    BY <1>1, MovedLemma, MovingStarts
  <2>2. ASSUME NEW n \in T
        PROVE  n + 1 \in T
    <3>1. CASE n + 1 <= size
      <4>1. n < size /\ n \in 0..size - 1 /\ n <= size /\ n \in Nat
        BY <1>1, <3>1
      <4>2. Moving(m, Moved(m)[n], n)
        BY <4>1
      <4>3. Moving(m, MoveOne(m, n + 1, Moved(m)[n]), n + 1)
        BY <4>1, <4>2, MovingLemma
      <4>4. Moved(m)[n + 1] = MoveOne(m, n + 1, Moved(m)[n])
        BY <1>1, <4>1, MovedLemma
      <4> QED
        BY <4>3, <4>4
    <3>2. CASE ~(n + 1 <= size)
      BY <3>2
    <3> QED
      BY <3>1, <3>2
  <2>3. T \in SUBSET Nat
    OBVIOUS
  <2> HIDE DEF T
  <2> QED
    BY <2>1, <2>2, <2>3, SetInduction
<1>3. Moving(m, r, size)
  BY <1>1, <1>2
<1> HIDE DEF r
<1>4. /\ Laid(r) /\ r[dk_size] = newsize(m) /\ r[ma_used] = m[ma_used]
      /\ r[dk_usable] = usableFraction(newsize(m)) /\ DummySlots(r) = {}
      /\ r \in [Loc -> Word] /\ DOMAIN r = Loc
  BY <1>3 DEF Moving, Laid
<1>5. /\ w = [[r EXCEPT ![dk_usable] = @ - m[ma_used]] EXCEPT ![dk_usable] = @ - 1,
                                                              ![ma_used] = @ + 1]
  BY DEF insertionResize, r
<1>6. /\ m[ma_used] < usableFraction(newsize(m)) /\ newsize(m) \in Sizes
      /\ usableFraction(newsize(m)) \in Nat
  BY TableLemma, UsableLemma
<1>7. /\ w[dk_size] = r[dk_size]
      /\ w[dk_usable] = r[dk_usable] - m[ma_used] - 1
      /\ w[ma_used] = m[ma_used] + 1
      /\ \A i \in Slot : w[i] = r[i]
      /\ DOMAIN w = Loc /\ \A l \in Loc \ {dk_usable, ma_used} : w[l] = r[l]
  BY <1>4, <1>5, LocLemma
<1>8. w[dk_usable] \in Nat /\ w[ma_used] \in Nat
  BY <1>1, <1>4, <1>6, <1>7
<1>9. w \in [Loc -> Word]
  <2>1. \A l \in Loc : w[l] \in Word
    BY <1>4, <1>7, <1>8 DEF Word
  <2>2. w = [l \in Loc |-> w[l]]
    BY <1>5, <1>7
  <2> QED
    BY <2>1, <2>2
<1>10. Cardinality(FullSlots(r)) <= w[ma_used]
  <2>1. Cardinality(FullSlots(r)) <= r[ma_used] /\ Cardinality(FullSlots(r)) \in Nat
    BY <1>4, CountLemma DEF Laid
  <2> QED
    BY <1>1, <1>4, <1>7, <2>1
<1>11. /\ Laid(w) /\ DummySlots(w) = {}
       /\ \A k, v : Holds(w, k, v) <=> Holds(r, k, v)
  <2>1. /\ Laid(w) /\ FullSlots(w) = FullSlots(r) /\ DummySlots(w) = DummySlots(r)
        /\ \A k, v : Holds(w, k, v) <=> Holds(r, k, v)
    <3>1. w \in [Loc -> Word] /\ Laid(r) /\ w[dk_size] = r[dk_size]
      BY <1>4, <1>7, <1>9
    <3>2. (\A i \in Slot : w[i] = r[i]) /\ w[ma_used] \in Nat
      BY <1>7, <1>8
    <3> QED
      BY <1>10, <3>1, <3>2, CountersLemma
  <2> QED
    BY <1>4, <2>1
<1>12. Table(w)
  <2>1. Cardinality(DummySlots(w)) = 0
    BY <1>11, FS_EmptySet
  <2>2. w[dk_usable] + w[ma_used] + 0 = usableFraction(w[dk_size])
    BY <1>1, <1>4, <1>6, <1>7
  <2> QED
    BY <1>8, <1>11, <2>1, <2>2 DEF Table
<1>13. ASSUME NEW k \in Key
       PROVE  View(w)[k] = View(m)[k]
  <2>1. \A j \in FullSlots(m) : j < size
    BY <1>1, LaidLemma DEF FullSlots
  <2>2. \A v : Holds(r, k, v) <=> Holds(m, k, v)
    BY <1>3, <2>1 DEF Moving, Holds
  <2>3. \A v \in Val : Holds(w, k, v) <=> Holds(m, k, v)
    BY <1>11, <2>2
  <2> QED
    BY <1>12, <2>3, SameKeyLemma
<1>14. View(w) = View(m)
  BY <1>13 DEF View
<1> QED
  BY <1>12, <1>14

\* The setter: the key has the value, or the resize has lost it; the other keys
\* have the values they had.
LEMMA SetBodyLemma ==
    ASSUME NEW m, Table(m), NEW k \in Key, NEW v \in Val, Fits(m, k)
    PROVE  LET w == SetBody(m, k, v)
           IN  /\ Table(w)
               /\ View(w) = [View(m) EXCEPT ![k] = v] \/ View(w) = View(m)
<1> DEFINE ep == lookup(m, k)
           w == SetBody(m, k, v)
<1>1. /\ Laid(m) /\ Block(m) /\ HasFree(m) /\ m \in [Loc -> Word]
      /\ m[ma_used] \in Nat /\ m[dk_usable] \in Nat
  BY TableLemma DEF Table, Laid
<1>2. /\ ep \in Slots(m) /\ m[ep] \in Entries
      /\ m[ep].me_key \in {k, PPTR_NULL, PPTR_DUMMY}
  BY <1>1, LookupFree DEF Block
<1>3. k \notin {PPTR_NULL, PPTR_DUMMY} /\ PPTR_NULL # PPTR_DUMMY
  BY NameAssumption
<1>4. m[ep].me_value # PPTR_NULL <=> m[ep].me_key = k
  <2>1. m[ep].me_value # PPTR_NULL <=> m[ep].me_key \in Key
    <3> HIDE DEF ep
    <3> QED
      BY <1>2, EntryLemma
  <2>2. m[ep].me_key \in Key <=> m[ep].me_key = k
    BY <1>2, NameAssumption
  <2> QED
    BY <2>1, <2>2
<1>5. ep \in Loc /\ ep \in Slot /\ ep \notin {ma_used, dk_size, dk_usable}
  BY <1>1, <1>2, LaidLemma, LocLemma
<1>6. Full(k, v) \in Word
  BY FullLemma, EntryLemma DEF Word
<1>7. w = CASE m[ep].me_value # PPTR_NULL ->
                 [m EXCEPT ![ep] = Full(k, v)]
            [] m[ep].me_key = PPTR_DUMMY ->
                 [m EXCEPT ![ep] = Full(k, v), ![ma_used] = @ + 1]
            [] Grows(m, k) ->
                 [insertionResize(m) EXCEPT ![dk_usable] = @ - 1, ![ma_used] = @ + 1]
            [] OTHER ->
                 [m EXCEPT ![ep] = Full(k, v), ![dk_usable] = @ - 1, ![ma_used] = @ + 1]
  BY DEF SetBody
<1>8. Grows(m, k) <=> m[ep].me_key = PPTR_NULL /\ m[dk_usable] <= 0
  BY DEF Grows
<1> HIDE DEF w
<1>9. CASE m[ep].me_key = k
  <2>1. w = [m EXCEPT ![ep] = Full(k, v)]
    BY <1>3, <1>4, <1>7, <1>8, <1>9
  <2>2. /\ w \in [Loc -> Word] /\ w[ep] = Full(k, v) /\ w[dk_size] = m[dk_size]
        /\ w[ma_used] = m[ma_used] /\ w[dk_usable] = m[dk_usable]
        /\ \A i \in Slot \ {ep} : w[i] = m[i]
    BY <1>1, <1>5, <1>6, <2>1, LocLemma
  <2>3. Table(w) /\ View(w) = [View(m) EXCEPT ![k] = v]
    <3> HIDE DEF ep
    <3>1. m[ep].me_key # PPTR_NULL
      BY <1>3, <1>9
    <3> QED
      BY <1>9, <2>2, <3>1, WrittenLemma DEF ep
  <2> QED
    BY <2>3 DEF w
<1>10. CASE m[ep].me_key = PPTR_DUMMY
  <2>1. w = [m EXCEPT ![ep] = Full(k, v), ![ma_used] = @ + 1]
    BY <1>3, <1>4, <1>7, <1>8, <1>10
  <2>2. /\ w \in [Loc -> Word] /\ w[ep] = Full(k, v) /\ w[dk_size] = m[dk_size]
        /\ w[ma_used] = m[ma_used] + 1 /\ w[dk_usable] = m[dk_usable]
        /\ \A i \in Slot \ {ep} : w[i] = m[i]
    <3>1. m[ma_used] + 1 \in Word
      BY <1>1 DEF Word
    <3> HIDE DEF ep
    <3> QED
      BY <1>1, <1>5, <1>6, <2>1, <3>1, LocLemma
  <2>3. Table(w) /\ View(w) = [View(m) EXCEPT ![k] = v]
    <3> HIDE DEF ep
    <3>1. m[ep].me_key # PPTR_NULL /\ m[ep].me_key # k
      BY <1>3, <1>10
    <3> QED
      BY <2>2, <3>1, WrittenLemma DEF ep
  <2> QED
    BY <2>3 DEF w
<1>11. CASE Grows(m, k)
  <2>1. w = [insertionResize(m) EXCEPT ![dk_usable] = @ - 1, ![ma_used] = @ + 1]
    BY <1>3, <1>4, <1>7, <1>8, <1>11
  <2>2. newsize(m) <= MaxSize
    BY <1>11 DEF Fits
  <2>3. Table(w) /\ View(w) = View(m)
    BY <2>1, <2>2, ResizeLemma
  <2> QED
    BY <2>3 DEF w
<1>12. CASE m[ep].me_key = PPTR_NULL /\ ~Grows(m, k)
  <2>1. w = [m EXCEPT ![ep] = Full(k, v), ![dk_usable] = @ - 1, ![ma_used] = @ + 1]
    BY <1>3, <1>4, <1>7, <1>12
  <2>2. m[dk_usable] > 0 /\ m[dk_usable] - 1 \in Nat
    BY <1>1, <1>8, <1>12
  <2>3. /\ w \in [Loc -> Word] /\ w[ep] = Full(k, v) /\ w[dk_size] = m[dk_size]
        /\ w[ma_used] = m[ma_used] + 1 /\ w[dk_usable] = m[dk_usable] - 1
        /\ \A i \in Slot \ {ep} : w[i] = m[i]
    <3>1. m[ma_used] + 1 \in Word /\ m[dk_usable] - 1 \in Word
      BY <1>1, <2>2 DEF Word
    <3> HIDE DEF ep
    <3> QED
      BY <1>1, <1>5, <1>6, <2>1, <3>1, LocLemma
  <2>4. Table(w) /\ View(w) = [View(m) EXCEPT ![k] = v]
    <3> HIDE DEF ep
    <3>1. m[ep].me_key # k
      BY <1>3, <1>12
    <3> QED
      BY <1>12, <2>2, <2>3, <3>1, WrittenLemma DEF ep
  <2> QED
    BY <2>4 DEF w
<1> QED
  BY <1>2, <1>9, <1>10, <1>11, <1>12

-----------------------------------------------------------------------------
(* The dictionary of a new object. *)

\* PMDict(mm).
LEMMA EmptyLemma == Table(Empty)
<1>1. PICK z : z = [l \in Loc |-> IF l = ma_used THEN 0 ELSE UNALLOCATED]
  OBVIOUS
<1>2. z[ma_used] = 0 /\ Empty = newKeysObject(z, MIN_SIZE_COMBINED)
  BY <1>1, LocLemma DEF Empty
<1>3. MIN_SIZE_COMBINED \in Sizes /\ MIN_SIZE_COMBINED <= MaxSize
  BY SizeAssumption DEF Sizes, MIN_SIZE_COMBINED
<1>4. /\ Laid(Empty) /\ Empty[dk_size] = MIN_SIZE_COMBINED /\ Empty[ma_used] = 0
      /\ Empty[dk_usable] = usableFraction(MIN_SIZE_COMBINED)
      /\ DummySlots(Empty) = {}
  BY <1>2, <1>3, NewKeysLemma
<1>5. usableFraction(MIN_SIZE_COMBINED) \in Nat /\ Cardinality(DummySlots(Empty)) = 0
  BY <1>3, <1>4, UsableLemma, FS_EmptySet
<1> QED
  BY <1>4, <1>5 DEF Table

\* The properties of a new object, one after the other.
LEMMA CreatedLemma ==
    ASSUME NEW init \in [Key -> Val],
           \A n \in 1..Len(Props) : Fits(Created(init)[n - 1], Props[n])
    PROVE  Table(Created(init)[Len(Props)])
<1> DEFINE One(i, done) == SetBody(done, Props[i], init[Props[i]])
           size == Len(Props)
           Builds(g, n) == g = [i \in 0..n |-> IF i = 0 THEN Empty ELSE One(i, g[i - 1])]
           S == {n \in Nat : \E g : Builds(g, n)}
           made == Created(init)
<1>0. size \in Nat /\ \A i \in 1..size : Props[i] \in Key
  BY KeyAssumption
<1> HIDE DEF One, size
<1>1. 0 \in S
  <2>1. \A g : g = [i \in 0..0 |-> Empty] => Builds(g, 0)
    OBVIOUS
  <2> QED
    BY <2>1
<1>2. ASSUME NEW n \in S
      PROVE  n + 1 \in S
  <2>1. PICK g : Builds(g, n)
    OBVIOUS
  <2>2. PICK x : x = One(n + 1, g[n])
    OBVIOUS
  <2>3. PICK h : h = [i \in 0..n + 1 |-> IF i = n + 1 THEN x ELSE g[i]]
    OBVIOUS
  <2>4. \A i \in 0..n : h[i] = g[i]
    BY <2>3
  <2>5. ASSUME NEW i \in 0..n + 1
        PROVE  h[i] = IF i = 0 THEN Empty ELSE One(i, h[i - 1])
    <3>1. CASE i = n + 1
      <4>1. h[i] = x /\ i - 1 = n /\ n \in 0..n /\ i # 0
        BY <2>3, <3>1
      <4>2. h[i - 1] = g[n]
        BY <2>4, <4>1
      <4> QED
        BY <2>2, <3>1, <4>1, <4>2
    <3>2. CASE i # n + 1
      <4>1. i \in 0..n /\ h[i] = g[i]
        BY <2>4, <3>2
      <4>2. i # 0 => i - 1 \in 0..n
        BY <4>1
      <4>3. i # 0 => h[i - 1] = g[i - 1]
        BY <2>4, <4>2
      <4>4. g[i] = IF i = 0 THEN Empty ELSE One(i, g[i - 1])
        BY <2>1, <4>1
      <4> QED
        BY <4>1, <4>3, <4>4
    <3> QED
      BY <3>1, <3>2
  <2>6. Builds(h, n + 1)
    BY <2>3, <2>5
  <2> QED
    BY <2>6
<1>3. Builds(made, size)
  <2>1. S = Nat
    <3>1. S \in SUBSET Nat
      OBVIOUS
    <3> HIDE DEF S
    <3> QED
      BY <1>1, <1>2, <3>1, SetInduction
  <2>2. \E g : Builds(g, size)
    BY <1>0, <2>1
  <2>3. made = CHOOSE g : Builds(g, size)
    BY DEF Created, One, size
  <2> HIDE DEF Builds, made
  <2> QED
    BY <2>2, <2>3
<1>4. made[0] = Empty
  BY <1>0, <1>3
<1>5. \A n \in 0..size - 1 : made[n + 1] = One(n + 1, made[n])
  <2>1. \A n \in 0..size - 1 : n + 1 \in 0..size /\ n + 1 # 0 /\ (n + 1) - 1 = n
    BY <1>0
  <2> QED
    BY <1>3, <2>1
<1> HIDE DEF made
<1> DEFINE T == {n \in Nat : n <= size => Table(made[n])}
<1>6. 0 \in T
  BY <1>4, EmptyLemma
<1>7. ASSUME NEW n \in T
      PROVE  n + 1 \in T
  <2>1. CASE n + 1 <= size
    <3>1. n \in 0..size - 1 /\ n + 1 \in 1..size /\ (n + 1) - 1 = n /\ n <= size
      BY <1>0, <2>1
    <3>2. Table(made[n]) /\ Props[n + 1] \in Key
      BY <1>0, <3>1
    <3>3. Fits(made[n], Props[n + 1])
      BY <3>1 DEF made, size
    <3>4. init[Props[n + 1]] \in Val
      BY <3>2
    <3>5. Table(SetBody(made[n], Props[n + 1], init[Props[n + 1]]))
      BY <3>2, <3>3, <3>4, SetBodyLemma
    <3> QED
      BY <1>5, <3>1, <3>5 DEF One
  <2>2. CASE ~(n + 1 <= size)
    BY <2>2
  <2> QED
    BY <2>1, <2>2
<1>8. T = Nat
  <2>1. T \in SUBSET Nat
    OBVIOUS
  <2> HIDE DEF T
  <2> QED
    BY <1>6, <1>7, <2>1, SetInduction
<1> QED
  BY <1>0, <1>8 DEF made, size

-----------------------------------------------------------------------------
(* The dictionary and its transactions. *)

\* A call, a transaction and a crash leave a dictionary whose counters add up, in
\* memory and in what an abort or a recovery would bring back.
Sane(p) ==
    /\ Good(p, Loc, Word) /\ ~p.orphan
    /\ p.stage \in {"NONE", "WORK", "DEAD"}
    /\ p.stage = "WORK" => p.depth = 1
    /\ Table(p.mem) /\ Table(Rolled(p))

IInv == Sane(pm)

LEMMA SnapLemma == NoSnap \notin Word
  BY SnapAssumption

LEMMA IdleLemma ==
    ASSUME NEW m, Table(m)
    PROVE  Sane(Idle(m)) /\ Idle(m).stage = "NONE" /\ Idle(m).mem = m /\ Rolled(Idle(m)) = m
<1> DEFINE u == [l \in Loc |-> NoSnap]
           q == Idle(m)
<1>1. m \in [Loc -> Word] /\ DOMAIN m = Loc
  BY DEF Table, Laid
<1>2. q = [stage |-> "NONE", depth |-> 0, mem |-> m, undo |-> u, orphan |-> FALSE]
  BY <1>1 DEF Idle
<1>3. u \in [Loc -> Word \cup {NoSnap}]
  OBVIOUS
<1>4. q \in TxState(Loc, Word)
  <2> HIDE DEF u
  <2> QED
    BY <1>1, <1>2, <1>3 DEF TxState, Stages
<1>5. /\ q.stage = "NONE" /\ q.depth = 0 /\ q.mem = m /\ q.undo = u /\ q.orphan = FALSE
  <2> HIDE DEF u, q
  <2> QED
    BY <1>2
<1> HIDE DEF q
<1>6. NoUndo(q) = u /\ Rolled(q) = m
  BY <1>4, <1>5, FieldLemma
<1>7. Shape(q) /\ Clean(q)
  <2> HIDE DEF u
  <2> QED
    BY <1>5, <1>6 DEF Shape, Clean
<1> QED
  BY <1>4, <1>5, <1>6, <1>7 DEF Sane, Good, q

\* A handler that makes m of the memory, in a transaction of its own or in the
\* one that is open.
LEMMA HandlerLemma ==
    ASSUME NEW p, Sane(p), p.stage # "DEAD", NEW m, Table(m)
    PROVE  LET q == InTx(p, {l \in Loc : m[l] # p.mem[l]}, m)
           IN  /\ Sane(q) /\ q.stage = p.stage /\ q.mem = m
               /\ Rolled(q) = IF p.stage = "WORK" THEN Rolled(p) ELSE m
<1> DEFINE S == {l \in Loc : m[l] # p.mem[l]}
           q == InTx(p, S, m)
<1>1. /\ m \in [Loc -> Word] /\ p.mem \in [Loc -> Word] /\ S \in SUBSET Loc
      /\ Good(p, Loc, Word) /\ ~p.orphan /\ p.stage \in {"NONE", "WORK"}
  BY FieldLemma DEF Sane, Good, Table, Laid
<1>2. Put(p.mem, S, m, Loc) = m
  BY <1>1 DEF Put
<1> HIDE DEF S
<1>3. /\ Good(q, Loc, Word)
      /\ p.stage = "NONE" /\ ~p.orphan =>
           /\ q.stage = "NONE" /\ q.depth = 0 /\ ~q.orphan
           /\ q.mem = Put(p.mem, S, m, Loc) /\ Rolled(q) = q.mem
      /\ p.stage = "WORK" /\ ~p.orphan =>
           /\ q.stage = "WORK" /\ q.depth = p.depth /\ ~q.orphan
           /\ q.mem = Put(p.mem, S, m, Loc) /\ Rolled(q) = Rolled(p)
  BY <1>1, SnapLemma, InTxLemma
<1> HIDE DEF q
<1>4. /\ ~q.orphan /\ q.stage = p.stage /\ q.mem = m
      /\ Rolled(q) = IF p.stage = "WORK" THEN Rolled(p) ELSE m
      /\ p.stage = "WORK" => q.depth = p.depth
  BY <1>1, <1>2, <1>3
<1>5. Sane(q)
  BY <1>1, <1>3, <1>4 DEF Sane
<1> QED
  BY <1>4, <1>5 DEF q, S

\* The transactions of the client, the end of the process and the next one.
LEMMA TxLemma ==
    ASSUME NEW p, Sane(p)
    PROVE  /\ p.stage = "NONE" =>
                LET q == pmemobj_tx_begin(p)
                IN  /\ Sane(q) /\ q.stage = "WORK"
                    /\ q.mem = p.mem /\ Rolled(q) = Rolled(p)
           /\ p.stage = "WORK" =>
                LET q == pmemobj_tx_end(pmemobj_tx_commit(p))
                IN  /\ Sane(q) /\ q.stage = "NONE"
                    /\ q.mem = p.mem /\ Rolled(q) = p.mem
           /\ p.stage = "WORK" =>
                LET q == pmemobj_tx_end(pmemobj_tx_abort(p))
                IN  /\ Sane(q) /\ q.stage = "NONE"
                    /\ q.mem = Rolled(p) /\ Rolled(q) = Rolled(p)
           /\ Sane(Die(p)) /\ Die(p).stage = "DEAD" /\ Rolled(Die(p)) = Rolled(p)
           /\ LET q == pmemobj_open(NewProcess(p))
              IN  /\ Sane(q) /\ q.stage = "NONE"
                  /\ q.mem = Rolled(p) /\ Rolled(q) = Rolled(p)
<1>1. /\ Good(p, Loc, Word) /\ ~p.orphan /\ p \in TxState(Loc, Word)
      /\ Table(p.mem) /\ Table(Rolled(p)) /\ p.depth \in Nat
      /\ p.stage = "WORK" => p.depth = 1
      /\ p.stage = "NONE" => p.depth = 0
  BY FieldLemma DEF Sane, Good, Shape
<1>2. ASSUME p.stage = "NONE", NEW q, q = pmemobj_tx_begin(p)
      PROVE  /\ Sane(q) /\ q.stage = "WORK"
             /\ q.mem = p.mem /\ Rolled(q) = Rolled(p)
  <2>1. /\ Good(q, Loc, Word) /\ q.stage = "WORK" /\ q.depth = p.depth + 1 /\ ~q.orphan
        /\ q.mem = p.mem /\ Rolled(q) = Rolled(p)
    BY <1>1, <1>2, BeginLemma
  <2>2. q.depth = 1
    BY <1>1, <1>2, <2>1
  <2> QED
    BY <1>1, <2>1, <2>2 DEF Sane
<1>3. ASSUME p.stage = "WORK", NEW c, c = pmemobj_tx_commit(p), NEW q, q = pmemobj_tx_end(c)
      PROVE  /\ Sane(q) /\ q.stage = "NONE"
             /\ q.mem = p.mem /\ Rolled(q) = p.mem
  <2>1. /\ Good(c, Loc, Word) /\ c.stage = "ONCOMMIT" /\ c.depth = 1 /\ ~c.orphan
        /\ c.mem = p.mem /\ Rolled(c) = p.mem
    BY <1>1, <1>3, CommitLemma
  <2>2. /\ Good(q, Loc, Word) /\ ~q.orphan /\ Rolled(q) = p.mem
        /\ q.stage = "NONE" /\ q.mem = p.mem
    BY <1>3, <2>1, EndLemma
  <2> QED
    BY <1>1, <2>2 DEF Sane
<1>4. ASSUME p.stage = "WORK", NEW c, c = pmemobj_tx_abort(p), NEW q, q = pmemobj_tx_end(c)
      PROVE  /\ Sane(q) /\ q.stage = "NONE"
             /\ q.mem = Rolled(p) /\ Rolled(q) = Rolled(p)
  <2>1. /\ Good(c, Loc, Word) /\ c.stage = "ONABORT" /\ c.depth = 1 /\ ~c.orphan
        /\ c.mem = Rolled(p) /\ Rolled(c) = Rolled(p)
    BY <1>1, <1>4, AbortLemma
  <2>2. /\ Good(q, Loc, Word) /\ ~q.orphan /\ Rolled(q) = Rolled(p)
        /\ q.stage = "NONE" /\ q.mem = Rolled(p)
    BY <1>4, <2>1, EndLemma
  <2> QED
    BY <1>1, <2>2 DEF Sane
<1>5. Sane(Die(p)) /\ Die(p).stage = "DEAD" /\ Rolled(Die(p)) = Rolled(p)
  <2>1. /\ Good(Die(p), Loc, Word) /\ Die(p).stage = "DEAD" /\ Die(p).orphan = p.orphan
        /\ Die(p).mem = p.mem /\ Rolled(Die(p)) = Rolled(p)
    BY <1>1, DieLemma
  <2> QED
    BY <1>1, <2>1 DEF Sane
<1>6. ASSUME NEW n, n = NewProcess(p), NEW q, q = pmemobj_open(n)
      PROVE  /\ Sane(q) /\ q.stage = "NONE"
             /\ q.mem = Rolled(p) /\ Rolled(q) = Rolled(p)
  <2>1. n \in TxState(Loc, Word) /\ Shape(n) /\ n.stage = "NONE" /\ Rolled(n) = Rolled(p)
    BY <1>1, <1>6, NewProcessLemma
  <2>2. /\ Good(q, Loc, Word) /\ q.stage = "NONE"
        /\ q.mem = Rolled(p) /\ Rolled(q) = Rolled(p)
    BY <1>6, <2>1, OpenLemma
  <2>3. ~q.orphan
    <3>1. q.depth = 0 /\ (q.orphan => q.depth > 0)
      BY <2>2 DEF Good, Shape
    <3> QED
      BY <3>1
  <2> QED
    BY <1>1, <2>2, <2>3 DEF Sane
<1> QED
  BY <1>2, <1>3, <1>4, <1>5, <1>6

\* An exception.
LEMMA AbortContext ==
    ASSUME NEW p, Sane(p), p.stage # "DEAD"
    PROVE  LET q == tx_abort_context(p)
           IN  /\ Sane(q) /\ q.stage = "NONE"
               /\ q.mem = Rolled(p) /\ Rolled(q) = Rolled(p)
<1>1. CASE p.stage = "WORK"
  BY <1>1, TxLemma DEF tx_abort_context
<1>2. CASE p.stage = "NONE"
  <2>1. Rolled(p) = p.mem /\ tx_abort_context(p) = p
    BY <1>2, FieldLemma DEF tx_abort_context, Sane, Good, Clean, Settled
  <2> QED
    BY <1>2, <2>1
<1> QED
  BY <1>1, <1>2 DEF Sane

-----------------------------------------------------------------------------
(* The steps. *)

\* What a step does to the map: one of its actions, or nothing.
Refines == Map!Next \/ UNCHANGED Map!vars

\* The steps of the setter and the deleter.
LEMMA WriteStep ==
    ASSUME IInv, Alive, NEW m, Table(m), Stores(m),
           \/ View(m) = View(pm.mem)
           \/ \E k \in Key, v \in Val \cup {PPTR_EMPTY} :
                 View(m) = [View(pm.mem) EXCEPT ![k] = v]
    PROVE  IInv' /\ Refines
<1>1. Sane(pm) /\ pm.stage # "DEAD" /\ pm.stage \in {"NONE", "WORK"}
  BY DEF IInv, Alive, Sane
<1>2. pm' = InTx(pm, {l \in Loc : m[l] # pm.mem[l]}, m)
  BY DEF Stores, Changed
<1>3. /\ Sane(pm') /\ pm'.stage = pm.stage /\ pm'.mem = m
      /\ Rolled(pm') = IF pm.stage = "WORK" THEN Rolled(pm) ELSE m
  BY <1>1, <1>2, HandlerLemma
<1>4. pm.stage = "NONE" => Rolled(pm) = pm.mem
  BY <1>1, FieldLemma DEF Sane, Good, Clean, Settled
<1>5. CASE View(m) = View(pm.mem)
  <2>1. UNCHANGED Map!vars
    BY <1>1, <1>3, <1>4, <1>5 DEF Map!vars, Alive
  <2> QED
    BY <1>3, <2>1 DEF IInv, Refines
<1>6. CASE \E k \in Key, v \in Val \cup {PPTR_EMPTY} :
              View(m) = [View(pm.mem) EXCEPT ![k] = v]
  <2>1. Map!Write
    BY <1>1, <1>3, <1>6 DEF Map!Write, Map!OneKeyChanges, Alive
  <2> QED
    BY <1>3, <2>1 DEF IInv, Refines, Map!Next
<1> QED
  BY <1>5, <1>6

\* The ends of transactions and of processes.
LEMMA RollbackStep ==
    ASSUME IInv, Sane(pm'), pm'.stage # "WORK", Rolled(pm') = Rolled(pm),
           pm'.stage = "DEAD" \/ pm'.mem = Rolled(pm)
    PROVE  IInv' /\ Refines
<1>1. Map!Rollback
  BY DEF Map!Rollback, Alive
<1> QED
  BY <1>1 DEF IInv, Refines, Map!Next

LEMMA StepLemma == IInv /\ Next => IInv' /\ Refines
<1> SUFFICES ASSUME IInv, Next
             PROVE  IInv' /\ Refines
  OBVIOUS
<1>0. Sane(pm) /\ Table(pm.mem)
  BY DEF IInv, Sane
<1>1. ASSUME NEW k \in Key, NEW v \in Stored[k], SetProperty(k, v)
      PROVE  IInv' /\ Refines
  <2> DEFINE m == SetBody(pm.mem, k, v)
  <2>1. v \in Val /\ Fits(pm.mem, k) /\ Alive /\ Stores(m)
    BY <1>1, KeyAssumption DEF SetProperty, Calls
  <2>2. /\ Table(m)
        /\ View(m) = [View(pm.mem) EXCEPT ![k] = v] \/ View(m) = View(pm.mem)
    BY <1>0, <2>1, SetBodyLemma
  <2> HIDE DEF m
  <2> QED
    BY <2>1, <2>2, WriteStep
<1>2. ASSUME NEW k \in Key, DelProperty(k)
      PROVE  IInv' /\ Refines
  <2> DEFINE m == DelBody(pm.mem, k)
  <2>1. CASE pm.mem[lookup(pm.mem, k)].me_value = PPTR_NULL
    <3>1. pm' = pm
      BY <1>2, <2>1 DEF DelProperty
    <3> QED
      BY <3>1 DEF IInv, Refines, Map!vars, Alive
  <2>2. CASE pm.mem[lookup(pm.mem, k)].me_value # PPTR_NULL
    <3>1. Alive /\ Stores(m)
      BY <1>2, <2>2 DEF DelProperty, Calls
    <3>2. Table(m) /\ View(m) = [View(pm.mem) EXCEPT ![k] = PPTR_EMPTY]
      BY <1>0, <2>2, DelBodyLemma
    <3> HIDE DEF m
    <3> QED
      BY <3>1, <3>2, WriteStep
  <2> QED
    BY <2>1, <2>2
<1>3. ASSUME NEW k \in Key, GetProperty(k)
      PROVE  IInv' /\ Refines
  <2>1. Alive /\ pm.stage # "DEAD" /\ (pm' = tx_abort_context(pm) \/ pm' = Die(pm) \/ pm' = pm)
    BY <1>3 DEF GetProperty, Alive
  <2>2. CASE pm' = tx_abort_context(pm)
    BY <1>0, <2>1, <2>2, AbortContext, RollbackStep
  <2>3. CASE pm' = Die(pm)
    BY <1>0, <2>3, TxLemma, RollbackStep
  <2>4. CASE pm' = pm
    BY <2>4 DEF IInv, Refines, Map!vars, Alive
  <2> QED
    BY <2>1, <2>2, <2>3, <2>4
<1>4. CASE TxBegin
  <2>1. /\ pm.stage = "NONE" /\ Sane(pm') /\ pm'.stage = "WORK"
        /\ pm'.mem = pm.mem /\ Rolled(pm') = Rolled(pm)
    BY <1>0, <1>4, TxLemma DEF TxBegin
  <2>2. Map!Begin
    BY <2>1 DEF Map!Begin, Alive
  <2> QED
    BY <2>1, <2>2 DEF IInv, Refines, Map!Next
<1>5. CASE TxCommit
  <2>1. /\ pm.stage = "WORK" /\ Sane(pm') /\ pm'.stage = "NONE"
        /\ pm'.mem = pm.mem /\ Rolled(pm') = pm.mem
    BY <1>0, <1>5, TxLemma DEF TxCommit
  <2>2. Map!Commit
    BY <2>1 DEF Map!Commit, Alive
  <2> QED
    BY <2>1, <2>2 DEF IInv, Refines, Map!Next
<1>6. CASE TxAbort
  <2>1. /\ Sane(pm') /\ pm'.stage = "NONE"
        /\ pm'.mem = Rolled(pm) /\ Rolled(pm') = Rolled(pm)
    BY <1>0, <1>6, TxLemma DEF TxAbort
  <2> QED
    BY <2>1, RollbackStep
<1>7. CASE Crash
  BY <1>0, <1>7, TxLemma, RollbackStep DEF Crash
<1>8. CASE Restart
  <2>1. /\ Sane(pm') /\ pm'.stage = "NONE"
        /\ pm'.mem = Rolled(pm) /\ Rolled(pm') = Rolled(pm)
    BY <1>0, <1>8, TxLemma DEF Restart
  <2> QED
    BY <2>1, RollbackStep
<1> QED
  BY <1>1, <1>2, <1>3, <1>4, <1>5, <1>6, <1>7, <1>8 DEF Next

LEMMA StartLemma == Init => IInv /\ Map!Init
<1> SUFFICES ASSUME Init
             PROVE  IInv /\ Map!Init
  OBVIOUS
<1>1. PICK init \in [Key -> Val] :
         /\ \A n \in 1..Len(Props) : Fits(Created(init)[n - 1], Props[n])
         /\ pm = Idle(Created(init)[Len(Props)])
  BY DEF Init
<1>2. PICK m : m = Created(init)[Len(Props)]
  OBVIOUS
<1>3. Table(m) /\ pm = Idle(m)
  BY <1>1, <1>2, CreatedLemma
<1>4. Sane(pm) /\ pm.stage = "NONE" /\ pm.mem = m /\ Rolled(pm) = m
  BY <1>3, IdleLemma
<1>5. View(m) \in [Key -> Val \cup {PPTR_EMPTY}]
  BY <1>3, ViewLemma
<1> QED
  BY <1>4, <1>5 DEF IInv, Map!Init, Map!Maps, Alive

-----------------------------------------------------------------------------
(* The theorems. *)

\* IInv, the inductive invariant: the table is sound in memory and in the image
\* that an abort or a recovery would bring back.
THEOREM DictInvariance == Spec => []IInv
<1>1. IInv /\ [Next]_vars => IInv'
  BY StepLemma DEF vars, IInv
<1> QED
  BY <1>1, StartLemma, PTL DEF Spec

LEMMA TypeLemma == IInv => TypeOK
<1>1. ASSUME NEW image, Table(image)
      PROVE  /\ image[ma_used] \in Nat /\ image[dk_usable] \in Nat
             /\ image[dk_size] \in Sizes
             /\ \A i \in Slot : image[i] \in
                   IF i < image[dk_size] THEN Entry ELSE {UNALLOCATED}
  <2>1. Laid(image) /\ Block(image) /\ image[ma_used] \in Nat /\ image[dk_usable] \in Nat
    BY <1>1 DEF Table, Laid
  <2>2. Slots(image) = {i \in Slot : i < image[dk_size]} /\ image[dk_size] \in Nat
    BY <2>1, LaidLemma
  <2>3. ASSUME NEW i \in Slot
        PROVE  image[i] \in IF i < image[dk_size] THEN Entry ELSE {UNALLOCATED}
    <3>1. CASE i < image[dk_size]
      <4>1. image[i] \in Entries
        BY <2>1, <2>2, <3>1 DEF Block
      <4> QED
        BY <3>1, <4>1, EntryLemma
    <3>2. CASE ~(i < image[dk_size])
      <4>1. i >= image[dk_size]
        BY <2>2, <3>2, LocLemma DEF Slot
      <4> QED
        BY <2>1, <3>2, <4>1 DEF Laid
    <3> QED
      BY <3>1, <3>2
  <2> QED
    BY <2>1, <2>3 DEF Block
<1>2. IInv => pm.stage \in Stages /\ pm.depth \in Nat /\ Table(pm.mem) /\ Table(Rolled(pm))
  BY FieldLemma DEF IInv, Sane, Good
<1> QED
  BY <1>1, <1>2 DEF TypeOK

\* TypeOK: whatever happens to a dictionary, its counters stay numbers (dk_usable
\* never falls below zero: insertionResize() is called in time, and leaves room)
\* and its block of keys is one whole block of entries.
THEOREM DictTypeCorrect == Spec => []TypeOK
  BY DictInvariance, TypeLemma, PTL

\* Accounting: the free, deleted and used entries add up, also in what an abort or
\* a recovery brings back, for any keys and whatever their hashes.
THEOREM DictAccounting == Spec => []Accounting
<1>1. IInv => Accounting
  BY DEF IInv, Sane, Table, Laid, Accounting
<1> QED
  BY <1>1, DictInvariance, PTL

\* NamesAreFound: lookup() finds whatever getPropertyNames() lists, through any
\* collisions, deletions and resizes.
THEOREM DictNamesAreFound == Spec => []NamesAreFound
<1>1. IInv => NamesAreFound
  <2> SUFFICES ASSUME IInv
               PROVE  NamesAreFound
    OBVIOUS
  <2>1. Block(pm.mem) /\ HasFree(pm.mem) /\ Found(pm.mem)
    BY TableLemma DEF IInv, Sane
  <2> QED
    BY <2>1, FoundLemma DEF NamesAreFound
<1> QED
  BY <1>1, DictInvariance, PTL

\* ImplementsPropMap: a dictionary of any keys is a transactional map: setProperty()
\* and delProperty() change at most their own key, insertionResize() none, and
\* aborts and crashes bring back the map of the last commit.
THEOREM DictRefinement == Spec => ImplementsPropMap
<1>1. IInv /\ [Next]_vars => IInv' /\ [Map!Next]_(Map!vars)
  <2> SUFFICES ASSUME IInv, [Next]_vars
               PROVE  IInv' /\ [Map!Next]_(Map!vars)
    OBVIOUS
  <2>1. CASE Next
    BY <2>1, StepLemma DEF Refines
  <2>2. CASE UNCHANGED vars
    BY <2>2 DEF vars, IInv, Map!vars, Alive
  <2> QED
    BY <2>1, <2>2
<1> QED
  BY <1>1, StartLemma, PTL DEF Spec, ImplementsPropMap, Map!Spec
=============================================================================
