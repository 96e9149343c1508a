--------------------------- MODULE PMNumDict_proofs ---------------------------
(***************************************************************************)
(* The sparse table of PMNumDict, for any indexes and values: what each    *)
(* operation makes of a table that is sound.                               *)
(*                                                                         *)
(* A table is sound when every entry is on the path of its index, which no *)
(* free entry and no other entry of the index interrupts, and when the     *)
(* counters add up, which keeps an entry free on which a search ends.      *)
(* What a table holds is a relation of indexes and values, Holds, and what *)
(* an operation does is said of that relation.                             *)
(***************************************************************************)
EXTENDS PMNumDict, Probing_proofs, FiniteSetTheorems

-----------------------------------------------------------------------------
(* Searching a block of keys. *)

\* What an entry may be: a free one is Null, and a deleted one has no value.
Kept(e) ==
    /\ e \in Entry
    /\ e.me_state = "NULL" => e = Null
    /\ e.me_state = "DUMMY" => e.me_value = PPTR_NULL

\* A block of keys, and one with an entry that is free.
Block(d) ==
    /\ d.dk_size \in Sizes /\ d \in TablesOf(d.dk_size)
    /\ \A i \in Slots(d) : Kept(d.entries[i])

HasFree(d) == \E i \in Slots(d) : d.entries[i].me_state = "NULL"

\* The way to a key, in a block of some size.
Way(d, key) == Probe[key][d.dk_size]

\* The fields of a table.
LEMMA FieldsLemma ==
    ASSUME NEW d, Block(d)
    PROVE  /\ d.dk_size \in Sizes /\ d.dk_size \in Nat
           /\ d.ob_size \in Nat /\ d.ma_used \in Nat /\ d.dk_usable \in Nat
           /\ Slots(d) = 0..d.dk_size - 1
           /\ d.entries \in [Slots(d) -> Entry]
           /\ \A i \in Slots(d) : Kept(d.entries[i])
<1>1. d.dk_size \in Sizes /\ d \in TablesOf(d.dk_size)
  BY DEF Block
<1>2. d.dk_size \in Nat
  BY <1>1, SizesLemma
<1>3. /\ d.ob_size \in Nat /\ d.ma_used \in Nat /\ d.dk_usable \in Nat
      /\ d.entries \in [0..d.dk_size - 1 -> Entry]
  BY <1>1 DEF TablesOf
<1> QED
  BY <1>1, <1>2, <1>3 DEF Slots, Block

\* A search stays inside the block, and would see all of it.
LEMMA WayLemma ==
    ASSUME NEW d, Block(d), NEW key \in Index
    PROVE  LET idx == Way(d, key)
           IN  /\ d.dk_size + MaxPerturb \in Nat
               /\ DOMAIN idx = 0..d.dk_size + MaxPerturb
               /\ \A n \in DOMAIN idx : idx[n] \in Slots(d)
               /\ \A t \in Slots(d) : \E n \in DOMAIN idx : idx[n] = t
<1>1. d.dk_size \in Sizes /\ Slots(d) = 0..d.dk_size - 1
  BY FieldsLemma
<1>2. Way(d, key) = Visited(key, d.dk_size)
  BY <1>1 DEF Way, Probe
<1>3. Fades(key)
  BY PerturbAssumption
<1> QED
  BY <1>1, <1>2, <1>3, VisitedLemma

\* The first of some places there are on the way.
LEMMA FirstLemma ==
    ASSUME NEW d, Block(d), NEW key \in Index, NEW S \in SUBSET DOMAIN Way(d, key), S # {}
    PROVE  \E n \in S : n \in Nat /\ n \in DOMAIN Way(d, key) /\ \A j \in 0..n - 1 : j \notin S
<1>1. S \in SUBSET Nat
  BY WayLemma
<1>2. PICK n \in S : \A j \in S : n <= j
  BY <1>1, LeastNumber
<1>3. \A j \in 0..n - 1 : ~(n <= j)
  BY <1>1
<1> QED
  BY <1>1, <1>2, <1>3

\* A search for an entry in some state ends at the first there is.
LEMMA ReachLemma ==
    ASSUME NEW d, Block(d), NEW key \in Index, NEW state,
           NEW t \in DOMAIN Way(d, key), d.entries[Way(d, key)[t]].me_state = state
    PROVE  LET idx == Way(d, key)
               n == Reach(d, key, state)
           IN  /\ n \in DOMAIN idx /\ n \in Nat /\ idx[n] \in Slots(d)
               /\ d.entries[idx[n]].me_state = state
               /\ \A j \in 0..n - 1 : d.entries[idx[j]].me_state # state
<1> DEFINE idx == Way(d, key)
           n == Reach(d, key, state)
           S == {i \in DOMAIN idx : d.entries[idx[i]].me_state = state}
           Ok(i) == /\ d.entries[idx[i]].me_state = state
                    /\ \A j \in 0..i - 1 : d.entries[idx[j]].me_state # state
<1>1. /\ DOMAIN idx = 0..d.dk_size + MaxPerturb /\ d.dk_size + MaxPerturb \in Nat
      /\ \A i \in DOMAIN idx : idx[i] \in Slots(d)
  BY WayLemma
<1>2. PICK i \in S : i \in Nat /\ i \in DOMAIN idx /\ \A j \in 0..i - 1 : j \notin S
  BY FirstLemma
<1>3. n = CHOOSE x \in DOMAIN idx : Ok(x)
  BY DEF Reach, Way
<1> HIDE DEF idx
<1>4. ASSUME NEW j \in 0..i - 1
      PROVE  d.entries[idx[j]].me_state # state
  <2>1. j \in DOMAIN idx
    BY <1>1, <1>2
  <2> QED
    BY <1>2, <2>1
<1>5. Ok(i)
  BY <1>2, <1>4
<1>6. n \in DOMAIN idx /\ Ok(n)
  <2> HIDE DEF n, Ok
  <2> QED
    BY <1>2, <1>3, <1>5
<1> HIDE DEF n
<1>7. n \in Nat /\ idx[n] \in Slots(d)
  BY <1>1, <1>6
<1> QED
  BY <1>6, <1>7 DEF idx, n

\* lookup() stops, at the first place to stop at.
LEMMA LastLemma ==
    ASSUME NEW d, Block(d), HasFree(d), NEW key \in Index
    PROVE  LET idx == Way(d, key)
               n == Last(d, key)
           IN  /\ n \in DOMAIN idx /\ n \in Nat /\ idx[n] \in Slots(d)
               /\ Stops(d, key, n)
               /\ \A j \in 0..n - 1 : ~Stops(d, key, j)
<1> DEFINE idx == Way(d, key)
           n == Last(d, key)
           S == {i \in DOMAIN idx : Stops(d, key, i)}
           Ok(i) == Stops(d, key, i) /\ \A j \in 0..i - 1 : ~Stops(d, key, j)
<1>1. /\ DOMAIN idx = 0..d.dk_size + MaxPerturb /\ d.dk_size + MaxPerturb \in Nat
      /\ \A i \in DOMAIN idx : idx[i] \in Slots(d)
      /\ \A t \in Slots(d) : \E i \in DOMAIN idx : idx[i] = t
  BY WayLemma
<1>2. S # {}
  <2>1. PICK t \in Slots(d) : d.entries[t].me_state = "NULL"
    BY DEF HasFree
  <2>2. PICK i \in DOMAIN idx : idx[i] = t
    BY <1>1
  <2>3. Stops(d, key, i)
    BY <2>1, <2>2 DEF Stops, Way
  <2> QED
    BY <2>3
<1>3. PICK i \in S : i \in Nat /\ i \in DOMAIN idx /\ \A j \in 0..i - 1 : j \notin S
  <2>1. S \in SUBSET DOMAIN Way(d, key)
    OBVIOUS
  <2> HIDE DEF S
  <2> QED
    BY <1>2, <2>1, FirstLemma
<1>4. n = CHOOSE x \in DOMAIN idx : Ok(x)
  BY DEF Last, Way
<1> HIDE DEF idx
<1>5. ASSUME NEW j \in 0..i - 1
      PROVE  ~Stops(d, key, j)
  <2>1. j \in DOMAIN idx
    BY <1>1, <1>3
  <2> QED
    BY <1>3, <2>1
<1>6. Ok(i)
  BY <1>3, <1>5
<1>7. n \in DOMAIN idx /\ Ok(n)
  <2> HIDE DEF n, Ok
  <2> QED
    BY <1>3, <1>4, <1>6
<1> HIDE DEF n
<1>8. n \in Nat /\ idx[n] \in Slots(d)
  BY <1>1, <1>7
<1> QED
  BY <1>7, <1>8 DEF idx, n

\* A search for key meets slot i before it meets a free entry or another one of key.
OnPath(d, key, i) ==
    LET idx == Way(d, key)
    IN  \E n \in DOMAIN idx :
            /\ n \in Nat /\ idx[n] = i
            /\ \A j \in 0..n - 1 :
                  /\ idx[j] # i /\ d.entries[idx[j]].me_state # "NULL"
                  /\ d.entries[idx[j]].me_key # key

\* The entries that are in use, or have been.
Marked(d) == {i \in Slots(d) : d.entries[i].me_state # "NULL"}

\* What lookup() finds for an entry in use on the path of its key: that entry; and
\* for a deleted one, some deleted one.
LEMMA LookupFinds ==
    ASSUME NEW d, Block(d), HasFree(d), NEW key \in Index,
           NEW i \in Marked(d), d.entries[i].me_key = key, OnPath(d, key, i),
           \A t \in Marked(d) \ {i} : d.entries[t].me_key # key
    PROVE  /\ d.entries[i].me_state = "FULL" => lookup(d, key) = i
           /\ d.entries[i].me_state = "DUMMY" =>
                 d.entries[lookup(d, key)].me_state = "DUMMY"
<1> DEFINE idx == Way(d, key)
           r == Last(d, key)
           u == Reach(d, key, "DUMMY")
<1>1. /\ r \in DOMAIN idx /\ r \in Nat /\ Stops(d, key, r) /\ idx[r] \in Slots(d)
      /\ \A j \in 0..r - 1 : ~Stops(d, key, j)
  BY LastLemma
<1>2. PICK n \in DOMAIN idx :
         /\ n \in Nat /\ idx[n] = i
         /\ \A j \in 0..n - 1 : /\ d.entries[idx[j]].me_state # "NULL"
                                /\ d.entries[idx[j]].me_key # key
  BY DEF OnPath
<1>3. \A j : Stops(d, key, j) <=>
        \/ d.entries[idx[j]].me_state = "NULL"
        \/ d.entries[idx[j]].me_key = key
             /\ (j > 0 \/ d.entries[idx[j]].me_state = "FULL")
  BY DEF Stops, Way
<1>4. lookup(d, key) = IF /\ d.entries[idx[r]].me_state = "NULL"
                          /\ \E m \in 0..r : d.entries[idx[m]].me_state = "DUMMY"
                       THEN idx[u] ELSE idx[r]
  BY DEF lookup, Way
<1>5. \A t \in DOMAIN idx : d.entries[idx[t]].me_state = "DUMMY"
        => d.entries[idx[u]].me_state = "DUMMY"
  BY ReachLemma
<1>6. d.entries[i].me_state \in {"DUMMY", "FULL"}
  BY FieldsLemma DEF Marked, Kept, Entry
<1> HIDE DEF r, idx, u
<1>7. ~(r < n)
  BY <1>1, <1>2, <1>3
<1>8. CASE d.entries[i].me_state = "FULL"
  <2>1. Stops(d, key, n)
    BY <1>2, <1>3, <1>8
  <2>2. ~(n < r)
    BY <1>1, <1>2, <2>1
  <2>3. n = r
    BY <1>1, <1>2, <1>7, <2>2
  <2> QED
    BY <1>2, <1>4, <1>8, <2>3
<1>9. CASE d.entries[i].me_state = "DUMMY"
  <2>1. CASE n > 0
    <3>1. Stops(d, key, n)
      BY <1>2, <1>3, <2>1
    <3>2. n = r
      BY <1>1, <1>2, <1>7, <3>1
    <3> QED
      BY <1>2, <1>4, <1>9, <3>2
  <2>2. CASE n = 0
    <3>1. n \in 0..r /\ d.entries[idx[n]].me_state = "DUMMY"
      BY <1>1, <1>2, <1>9, <2>2
    <3>2. CASE d.entries[idx[r]].me_state = "NULL"
      BY <1>4, <1>5, <1>2, <3>1, <3>2
    <3>3. CASE d.entries[idx[r]].me_state # "NULL"
      <4>1. r # 0
        BY <1>1, <1>2, <1>3, <1>9, <2>2, <3>3
      <4>2. idx[r] \in Marked(d) /\ d.entries[idx[r]].me_key = key
        BY <1>1, <1>3, <3>3 DEF Marked
      <4>3. idx[r] = i
        BY <4>2
      <4> QED
        BY <1>4, <1>9, <3>3, <4>3
    <3> QED
      BY <3>2, <3>3
  <2> QED
    BY <1>2, <2>1, <2>2
<1> QED
  BY <1>6, <1>8, <1>9

\* What lookup() finds may be used for the key: a free entry, when there was none of
\* the key and no deleted one before it; or a deleted one; or the one of the key.
LEMMA LookupFree ==
    ASSUME NEW d, Block(d), HasFree(d), NEW key \in Index
    PROVE  LET ep == lookup(d, key)
           IN  /\ ep \in Slots(d)
               /\ d.entries[ep].me_state \in {"NULL", "DUMMY", "FULL"}
               /\ d.entries[ep].me_state = "DUMMY" => \E i \in Slots(d) : d.entries[i].me_state = "DUMMY"
               /\ d.entries[ep].me_state = "FULL" => d.entries[ep].me_key = key
<1> DEFINE idx == Way(d, key)
           r == Last(d, key)
           u == Reach(d, key, "DUMMY")
           ep == lookup(d, key)
<1>1. /\ r \in DOMAIN idx /\ r \in Nat /\ Stops(d, key, r) /\ idx[r] \in Slots(d)
  BY LastLemma
<1>2. Stops(d, key, r) =>
        \/ d.entries[idx[r]].me_state = "NULL"
        \/ d.entries[idx[r]].me_key = key
  BY DEF Stops, Way
<1>3. ep = IF /\ d.entries[idx[r]].me_state = "NULL"
              /\ \E m \in 0..r : d.entries[idx[m]].me_state = "DUMMY"
           THEN idx[u] ELSE idx[r]
  BY DEF lookup, Way
<1>4. \A t \in DOMAIN idx : d.entries[idx[t]].me_state = "DUMMY"
        => d.entries[idx[u]].me_state = "DUMMY" /\ idx[u] \in Slots(d)
  BY ReachLemma
<1>5. DOMAIN idx = 0..d.dk_size + MaxPerturb /\ d.dk_size + MaxPerturb \in Nat
  BY WayLemma
<1>6. \A i \in Slots(d) : d.entries[i].me_state \in {"NULL", "DUMMY", "FULL"}
  BY FieldsLemma DEF Kept, Entry
<1> HIDE DEF r, idx, u, ep
<1>7. \A m \in 0..r : m \in DOMAIN idx
  BY <1>1, <1>5
<1>8. CASE /\ d.entries[idx[r]].me_state = "NULL"
           /\ \E m \in 0..r : d.entries[idx[m]].me_state = "DUMMY"
  <2>1. ep = idx[u]
    BY <1>3, <1>8
  <2>2. d.entries[ep].me_state = "DUMMY" /\ ep \in Slots(d)
    BY <1>4, <1>7, <1>8, <2>1
  <2> QED
    BY <2>2 DEF ep
<1>9. CASE ~(/\ d.entries[idx[r]].me_state = "NULL"
             /\ \E m \in 0..r : d.entries[idx[m]].me_state = "DUMMY")
  <2>1. ep = idx[r]
    BY <1>3, <1>9
  <2>2. ep \in Slots(d) /\ (d.entries[ep].me_state = "FULL" => d.entries[ep].me_key = key)
    BY <1>1, <1>2, <2>1
  <2> QED
    BY <1>6, <2>2 DEF ep
<1> QED
  BY <1>8, <1>9

\* findEmptySlot() finds a free entry, on the path of an index without an entry.
LEMMA EmptySlotLemma ==
    ASSUME NEW d, Block(d), HasFree(d), NEW key \in Index,
           \A i \in Marked(d) : d.entries[i].me_key # key
    PROVE  LET ep == findEmptySlot(d, key)
           IN  ep \in Slots(d) /\ OnPath(d, key, ep) /\ d.entries[ep].me_state = "NULL"
<1> DEFINE idx == Way(d, key)
           r == Reach(d, key, "NULL")
           ep == findEmptySlot(d, key)
<1>1. /\ DOMAIN idx = 0..d.dk_size + MaxPerturb /\ d.dk_size + MaxPerturb \in Nat
      /\ \A j \in DOMAIN idx : idx[j] \in Slots(d)
      /\ \A t \in Slots(d) : \E j \in DOMAIN idx : idx[j] = t
  BY WayLemma
<1>2. PICK t \in DOMAIN idx : d.entries[idx[t]].me_state = "NULL"
  BY <1>1 DEF HasFree
<1>3. /\ r \in DOMAIN idx /\ r \in Nat /\ idx[r] \in Slots(d)
      /\ d.entries[idx[r]].me_state = "NULL"
      /\ \A j \in 0..r - 1 : d.entries[idx[j]].me_state # "NULL"
  BY <1>2, ReachLemma
<1>4. ep = idx[r]
  BY DEF findEmptySlot, Way
<1>5. OnPath(d, key, ep) <=>
        \E n \in DOMAIN idx :
            /\ n \in Nat /\ idx[n] = ep
            /\ \A j \in 0..n - 1 :
                  /\ idx[j] # ep /\ d.entries[idx[j]].me_state # "NULL"
                  /\ d.entries[idx[j]].me_key # key
  BY DEF OnPath
<1> HIDE DEF idx, r, ep
<1>6. ASSUME NEW j \in 0..r - 1
      PROVE  /\ idx[j] # ep /\ d.entries[idx[j]].me_state # "NULL"
             /\ d.entries[idx[j]].me_key # key
  <2>1. j \in DOMAIN idx
    BY <1>1, <1>3
  <2>2. idx[j] \in Marked(d)
    BY <1>1, <1>3, <2>1 DEF Marked
  <2> QED
    BY <1>3, <1>4, <2>2
<1> QED
  BY <1>3, <1>4, <1>5, <1>6 DEF ep

\* Every entry that is in use, or has been, is on the path of its key.
Reachable(d) == \A i \in Marked(d) : OnPath(d, d.entries[i].me_key, i)

\* So there are no two of the same key,
LEMMA UniqueLemma ==
    ASSUME NEW d, Block(d), Reachable(d), NEW i \in Marked(d), NEW t \in Marked(d),
           d.entries[t].me_key = d.entries[i].me_key
    PROVE  t = i
<1> DEFINE key == d.entries[i].me_key
           idx == Way(d, key)
<1>1. PICK n \in DOMAIN idx :
         /\ n \in Nat /\ idx[n] = i
         /\ \A j \in 0..n - 1 : d.entries[idx[j]].me_key # key
  BY DEF Reachable, OnPath
<1>2. PICK m \in DOMAIN idx :
         /\ m \in Nat /\ idx[m] = t
         /\ \A j \in 0..m - 1 : d.entries[idx[j]].me_key # key
  BY DEF Reachable, OnPath
<1> HIDE DEF idx
<1>3. ~(n < m) /\ ~(m < n)
  BY <1>1, <1>2
<1>4. n = m
  BY <1>1, <1>2, <1>3
<1> QED
  BY <1>1, <1>2, <1>4

\* an entry in use is the one of its key, and an index for which the search ends at a
\* free entry has none.
LEMMA FoundLemma ==
    ASSUME NEW d, Block(d), HasFree(d), Reachable(d)
    PROVE  /\ \A i \in SlotsIn(d, "FULL") :
                 d.entries[i].me_key \in Index /\ lookup(d, d.entries[i].me_key) = i
           /\ \A key \in Index : d.entries[lookup(d, key)].me_state = "NULL"
                => \A i \in Marked(d) : d.entries[i].me_key # key
<1>1. ASSUME NEW i \in Marked(d)
      PROVE  /\ d.entries[i].me_key \in Index
             /\ d.entries[i].me_state = "FULL" => lookup(d, d.entries[i].me_key) = i
             /\ d.entries[lookup(d, d.entries[i].me_key)].me_state # "NULL"
  <2> DEFINE key == d.entries[i].me_key
  <2>1. key \in Index /\ d.entries[i].me_state \in {"DUMMY", "FULL"}
    BY FieldsLemma DEF Marked, Kept, Entry
  <2>2. OnPath(d, key, i)
    BY DEF Reachable
  <2>3. \A t \in Marked(d) \ {i} : d.entries[t].me_key # key
    BY UniqueLemma
  <2>4. /\ d.entries[i].me_state = "FULL" => lookup(d, key) = i
        /\ d.entries[i].me_state = "DUMMY" => d.entries[lookup(d, key)].me_state = "DUMMY"
    <3> HIDE DEF key
    <3> QED
      BY <2>1, <2>2, <2>3, LookupFinds DEF key
  <2> QED
    BY <2>1, <2>4
<1>2. \A i \in SlotsIn(d, "FULL") : i \in Marked(d) /\ d.entries[i].me_state = "FULL"
  BY DEF Marked, SlotsIn
<1> QED
  BY <1>1, <1>2

-----------------------------------------------------------------------------
(* Storing an entry, and counting. *)

\* w is d with entry e at ep, as far as the block of keys goes.
Puts(d, w, ep, e) ==
    w.dk_size = d.dk_size /\ w.entries = [d.entries EXCEPT ![ep] = e]

\* A path stays one when an entry is stored that is not free, and not of the key the
\* path is for unless it is the one at its end.
LEMMA PathStays ==
    ASSUME NEW d, NEW w, Block(d), NEW ep \in Slots(d), NEW e, Puts(d, w, ep, e),
           e.me_state # "NULL",
           NEW key \in Index, NEW i \in Slots(d), OnPath(d, key, i),
           e.me_key # key \/ i = ep
    PROVE  OnPath(w, key, i)
<1> DEFINE idx == Way(d, key)
<1>1. PICK n \in DOMAIN idx :
         /\ n \in Nat /\ idx[n] = i
         /\ \A j \in 0..n - 1 :
               /\ idx[j] # i /\ d.entries[idx[j]].me_state # "NULL"
               /\ d.entries[idx[j]].me_key # key
  BY DEF OnPath
<1>2. /\ DOMAIN idx = 0..d.dk_size + MaxPerturb /\ d.dk_size + MaxPerturb \in Nat
      /\ \A j \in DOMAIN idx : idx[j] \in Slots(d)
  BY WayLemma
<1>3. Way(w, key) = idx
  BY DEF Way, Puts
<1>4. OnPath(w, key, i) <=>
        \E x \in DOMAIN idx :
            /\ x \in Nat /\ idx[x] = i
            /\ \A j \in 0..x - 1 :
                  /\ idx[j] # i /\ w.entries[idx[j]].me_state # "NULL"
                  /\ w.entries[idx[j]].me_key # key
  BY <1>3 DEF OnPath
<1>5. \A s \in Slots(d) : w.entries[s] = IF s = ep THEN e ELSE d.entries[s]
  BY FieldsLemma DEF Puts
<1> HIDE DEF idx
<1>6. ASSUME NEW j \in 0..n - 1
      PROVE  /\ idx[j] # i /\ w.entries[idx[j]].me_state # "NULL"
             /\ w.entries[idx[j]].me_key # key
  <2>1. j \in DOMAIN idx
    BY <1>1, <1>2
  <2>2. idx[j] \in Slots(d) /\ idx[j] # i
    BY <1>1, <1>2, <2>1
  <2>3. CASE idx[j] = ep
    BY <1>5, <2>2, <2>3
  <2>4. CASE idx[j] # ep
    BY <1>1, <1>5, <2>2, <2>4
  <2> QED
    BY <2>3, <2>4
<1> QED
  BY <1>1, <1>4, <1>6

\* x is the value of key.
Holds(d, key, x) ==
    /\ x # PPTR_NULL
    /\ \E i \in SlotsIn(d, "FULL") : d.entries[i].me_key = key /\ d.entries[i].me_value = x

\* An entry is stored where the path of its key leads, in place of a free one or of
\* the one that the key had.
LEMMA StoreEntryLemma ==
    ASSUME NEW d, Block(d), Reachable(d), NEW ep \in Slots(d),
           NEW e, Kept(e), e.me_state # "NULL",
           NEW w, w \in TablesOf(d.dk_size), Puts(d, w, ep, e),
           OnPath(d, e.me_key, ep),
           \A i \in Marked(d) \ {ep} : d.entries[i].me_key # e.me_key,
           ep \in Marked(d) => d.entries[ep].me_key = e.me_key
    PROVE  /\ Block(w) /\ Reachable(w)
           /\ Marked(w) = Marked(d) \cup {ep}
           /\ SlotsIn(w, "FULL") = IF e.me_state = "FULL" THEN SlotsIn(d, "FULL") \cup {ep}
                                   ELSE SlotsIn(d, "FULL") \ {ep}
           /\ SlotsIn(w, "DUMMY") = IF e.me_state = "DUMMY" THEN SlotsIn(d, "DUMMY") \cup {ep}
                                    ELSE SlotsIn(d, "DUMMY") \ {ep}
           /\ \A key \in Index : \A x : Holds(w, key, x) <=>
                 IF key = e.me_key THEN e.me_state = "FULL" /\ x = e.me_value /\ x # PPTR_NULL
                 ELSE Holds(d, key, x)
<1>1. /\ Slots(w) = Slots(d) /\ w.dk_size = d.dk_size
      /\ \A s \in Slots(d) : w.entries[s] = IF s = ep THEN e ELSE d.entries[s]
      /\ \A s \in Slots(d) : Kept(d.entries[s])
  BY FieldsLemma DEF Puts, Slots
<1>2. e.me_state \in {"DUMMY", "FULL"} /\ e.me_key \in Index
  BY DEF Kept, Entry
<1>3. Block(w)
  BY <1>1 DEF Block
<1>4. Marked(w) = Marked(d) \cup {ep}
  BY <1>1 DEF Marked
<1>5. /\ SlotsIn(w, "FULL") = IF e.me_state = "FULL" THEN SlotsIn(d, "FULL") \cup {ep}
                              ELSE SlotsIn(d, "FULL") \ {ep}
      /\ SlotsIn(w, "DUMMY") = IF e.me_state = "DUMMY" THEN SlotsIn(d, "DUMMY") \cup {ep}
                               ELSE SlotsIn(d, "DUMMY") \ {ep}
  BY <1>1 DEF SlotsIn
<1>6. ASSUME NEW i \in Marked(w)
      PROVE  OnPath(w, w.entries[i].me_key, i)
  <2>1. CASE i = ep
    <3>1. w.entries[i].me_key = e.me_key /\ OnPath(d, e.me_key, i)
      BY <1>1, <2>1
    <3> QED
      BY <1>2, <2>1, <3>1, PathStays
  <2>2. CASE i # ep
    <3>1. i \in Marked(d) /\ i \in Slots(d) /\ w.entries[i] = d.entries[i]
      BY <1>1, <1>4, <2>2 DEF Marked
    <3>2. OnPath(d, d.entries[i].me_key, i) /\ d.entries[i].me_key # e.me_key
      BY <2>2, <3>1 DEF Reachable
    <3>3. d.entries[i].me_key \in Index
      BY <1>1, <3>1 DEF Kept, Entry
    <3> QED
      BY <3>1, <3>2, <3>3, PathStays
  <2> QED
    BY <2>1, <2>2
<1>7. \A i \in SlotsIn(d, "FULL") : i \in Marked(d) /\ i \in Slots(d)
  BY DEF SlotsIn, Marked
<1>8. ASSUME NEW key \in Index, NEW x, key = e.me_key
      PROVE  Holds(w, key, x) <=> e.me_state = "FULL" /\ x = e.me_value /\ x # PPTR_NULL
  <2>1. ASSUME NEW i \in SlotsIn(w, "FULL"), w.entries[i].me_key = key
        PROVE  i = ep /\ e.me_state = "FULL"
    <3>1. i = ep
      BY <1>1, <1>5, <1>7, <1>8, <2>1
    <3> QED
      BY <1>5, <2>1, <3>1
  <2>2. e.me_state = "FULL" => ep \in SlotsIn(w, "FULL")
    BY <1>5
  <2> QED
    BY <1>1, <1>8, <2>1, <2>2 DEF Holds
<1>9. ASSUME NEW key \in Index, NEW x, key # e.me_key
      PROVE  Holds(w, key, x) <=> Holds(d, key, x)
  <2>1. ASSUME NEW i \in SlotsIn(w, "FULL"), w.entries[i].me_key = key
        PROVE  i \in SlotsIn(d, "FULL") /\ d.entries[i] = w.entries[i]
    <3>1. i \in Slots(d) /\ i # ep
      BY <1>1, <1>9, <2>1 DEF SlotsIn
    <3> QED
      BY <1>1, <1>5, <2>1, <3>1
  <2>2. ASSUME NEW i \in SlotsIn(d, "FULL"), d.entries[i].me_key = key
        PROVE  i \in SlotsIn(w, "FULL") /\ d.entries[i] = w.entries[i]
    <3>1. i # ep
      BY <1>7, <1>9, <2>2
    <3> QED
      BY <1>1, <1>5, <1>7, <3>1
  <2> QED
    BY <2>1, <2>2 DEF Holds
<1> QED
  BY <1>3, <1>4, <1>5, <1>6, <1>8, <1>9 DEF Reachable

\* The numbers of entries.
LEMMA CountLemma ==
    ASSUME NEW d, Block(d)
    PROVE  LET F == Cardinality(SlotsIn(d, "FULL"))
               D == Cardinality(SlotsIn(d, "DUMMY"))
           IN  /\ IsFiniteSet(SlotsIn(d, "FULL")) /\ IsFiniteSet(SlotsIn(d, "DUMMY"))
               /\ F \in Nat /\ D \in Nat
               /\ F + D < d.dk_size => HasFree(d)
<1> DEFINE full == SlotsIn(d, "FULL")
           dummy == SlotsIn(d, "DUMMY")
<1>1. d.dk_size \in Nat /\ Slots(d) = 0..d.dk_size - 1
  BY FieldsLemma
<1>2. IsFiniteSet(Slots(d)) /\ Cardinality(Slots(d)) = d.dk_size
  <2>1. 0 \in Int /\ d.dk_size - 1 \in Int
    BY <1>1
  <2>2. /\ IsFiniteSet(0..d.dk_size - 1)
        /\ Cardinality(0..d.dk_size - 1)
             = IF 0 > d.dk_size - 1 THEN 0 ELSE (d.dk_size - 1) - 0 + 1
    BY <2>1, FS_Interval
  <2> QED
    BY <1>1, <2>2
<1>3. full \in SUBSET Slots(d) /\ dummy \in SUBSET Slots(d)
  BY DEF SlotsIn
<1>4. ~HasFree(d) => Slots(d) = full \cup dummy
  <2>1. \A i \in Slots(d) : d.entries[i].me_state \in {"NULL", "DUMMY", "FULL"}
    BY FieldsLemma DEF Kept, Entry
  <2> QED
    BY <2>1 DEF HasFree, SlotsIn
<1> HIDE DEF full, dummy
<1>5. IsFiniteSet(full) /\ IsFiniteSet(dummy)
  BY <1>2, <1>3, FS_Subset
<1>6. Cardinality(full) \in Nat /\ Cardinality(dummy) \in Nat
  BY <1>5, FS_CardinalityType
<1>7. ASSUME ~HasFree(d)
      PROVE  Cardinality(full) + Cardinality(dummy) >= d.dk_size
  <2>1. Cardinality(full \cup dummy)
          = Cardinality(full) + Cardinality(dummy) - Cardinality(full \cap dummy)
    BY <1>5, FS_Union
  <2>2. Cardinality(full \cap dummy) \in Nat
    BY <1>5, FS_Intersection, FS_CardinalityType
  <2>3. Cardinality(full \cup dummy) = d.dk_size
    BY <1>2, <1>4, <1>7
  <2> QED
    BY <1>6, <2>1, <2>2, <2>3
<1>8. Cardinality(full) + Cardinality(dummy) < d.dk_size => HasFree(d)
  BY <1>1, <1>6, <1>7
<1> QED
  BY <1>5, <1>6, <1>8 DEF full, dummy

\* One entry more, or less.
LEMMA OneMoreLemma ==
    ASSUME NEW S, IsFiniteSet(S), NEW x
    PROVE  /\ Cardinality(S) \in Nat
           /\ Cardinality(S \cup {x}) = IF x \in S THEN Cardinality(S) ELSE Cardinality(S) + 1
           /\ Cardinality(S \ {x}) = IF x \in S THEN Cardinality(S) - 1 ELSE Cardinality(S)
  BY FS_CardinalityType, FS_AddElement, FS_RemoveElement

\* There is a next size, and room in it for one entry more than were used.
LEMMA NewSizeLemma ==
    ASSUME NEW d, d.dk_size \in Sizes, d.dk_size <= MaxSize,
           d.ma_used \in Nat, d.ma_used <= usableFraction(d.dk_size)
    PROVE  /\ newsize(d) \in Sizes
           /\ d.ma_used < usableFraction(newsize(d)) /\ d.ma_used < newsize(d)
<1> DEFINE size == d.dk_size
           u == d.ma_used
           S == {s \in Sizes : s > growRate(d)}
<1>1. size \in Nat /\ size >= 8 /\ 2 * size \in Sizes
  BY SizeAssumption DEF Sizes, MIN_SIZE_COMBINED
<1>2. growRate(d) = 2 * u + size \div 2
  BY <1>1 DEF growRate
<1>3. 2 * size \in S
  BY <1>1, <1>2, UsableLemma
<1>4. S \in SUBSET Nat
  BY SizesLemma
<1>5. \E x \in S : \A y \in S : x <= y
  <2> HIDE DEF S
  <2> QED
    BY <1>3, <1>4, LeastNumber
<1>6. newsize(d) \in S
  <2>1. newsize(d) = CHOOSE x \in S : \A y \in S : x <= y
    BY DEF newsize, Min
  <2> HIDE DEF S
  <2> QED
    BY <1>5, <2>1
<1>7. newsize(d) \in Sizes /\ newsize(d) > 2 * u + size \div 2
  BY <1>2, <1>6
<1>8. size \div 2 \in Nat /\ size \div 2 >= 4 /\ newsize(d) \in Nat
  <2>1. newsize(d) \in Nat
    BY <1>7, SizesLemma
  <2> HIDE DEF size
  <2> QED
    BY <1>1, <2>1
<1>9. newsize(d) > 2 * u + 4 /\ newsize(d) > u
  BY <1>7, <1>8
<1> QED
  BY <1>7, <1>9, UsableLemma

-----------------------------------------------------------------------------
(* A table, and what the operations make of it. *)

\* A block of keys in which every entry is reached and has been counted as used.
Laid(d) ==
    /\ Block(d) /\ d.dk_size <= MaxSize /\ d.ob_size <= MaxLength
    /\ Reachable(d)
    /\ Cardinality(SlotsIn(d, "FULL")) <= d.ma_used

\* And the counters add up.
Table(d) ==
    /\ Laid(d)
    /\ d.dk_usable + d.ma_used + Cardinality(SlotsIn(d, "DUMMY")) = usableFraction(d.dk_size)

\* The values are below the length.
Bounded(d) == \A key \in Index : \A x : Holds(d, key, x) => key < d.ob_size

\* A table has an entry that is free, and the next block has room for it.
LEMMA TableLemma ==
    ASSUME NEW d, Table(d)
    PROVE  /\ Block(d) /\ HasFree(d) /\ Reachable(d)
           /\ newsize(d) \in Sizes
           /\ d.ma_used < usableFraction(newsize(d)) /\ d.ma_used < newsize(d)
           /\ d.ma_used <= usableFraction(d.dk_size)
<1> DEFINE F == Cardinality(SlotsIn(d, "FULL"))
           D == Cardinality(SlotsIn(d, "DUMMY"))
<1>1. /\ Block(d) /\ Reachable(d) /\ d.dk_size <= MaxSize /\ F <= d.ma_used
      /\ d.dk_usable + d.ma_used + D = usableFraction(d.dk_size)
  BY DEF Table, Laid
<1>2. F \in Nat /\ D \in Nat /\ (F + D < d.dk_size => HasFree(d))
  BY <1>1, CountLemma
<1>3. /\ d.dk_size \in Nat /\ d.dk_size \in Sizes
      /\ d.ma_used \in Nat /\ d.dk_usable \in Nat
  BY <1>1, FieldsLemma
<1>4. usableFraction(d.dk_size) \in Nat /\ usableFraction(d.dk_size) < d.dk_size
  BY <1>3, UsableLemma
<1> HIDE DEF F, D
<1>5. F + D < d.dk_size /\ d.ma_used <= usableFraction(d.dk_size)
  BY <1>1, <1>2, <1>3, <1>4
<1> QED
  BY <1>1, <1>2, <1>3, <1>5, NewSizeLemma

\* A table, field by field.
Tab(o, u, size, a, E) ==
    [ob_size |-> o, ma_used |-> u, dk_size |-> size, dk_usable |-> a, entries |-> E]

\* Its fields.
LEMMA TabFields ==
    ASSUME NEW o, NEW u, NEW size, NEW a, NEW E
    PROVE  LET d == Tab(o, u, size, a, E)
           IN  /\ d.ob_size = o /\ d.ma_used = u /\ d.dk_size = size
               /\ d.dk_usable = a /\ d.entries = E
  BY DEF Tab

\* Such a record is a table of its size.
LEMMA TabLemma ==
    ASSUME NEW size, NEW o \in Nat, NEW u \in Nat, NEW a \in Nat,
           NEW E \in [0..size - 1 -> Entry]
    PROVE  Tab(o, u, size, a, E) \in TablesOf(size)
  BY DEF TablesOf, Tab

\* A table, with other fields.
Grown(d, E, a, u, o) ==
    [d EXCEPT !.entries = E, !.dk_usable = a, !.ma_used = u, !.ob_size = o]
Lessened(d, E, u, o) == [d EXCEPT !.entries = E, !.ma_used = u, !.ob_size = o]
Filled(d, E) == [d EXCEPT !.entries = E]
Allowed(d, a) == [d EXCEPT !.dk_usable = a]
Sized(d, o) == [d EXCEPT !.ob_size = o]

\* Changing fields of one gives another such record.
LEMMA TabExceptLemma ==
    ASSUME NEW o, NEW u, NEW size, NEW a, NEW E, NEW o2, NEW u2, NEW a2, NEW E2
    PROVE  LET d == Tab(o, u, size, a, E)
           IN  /\ Filled(d, E2) = Tab(o, u, size, a, E2)
               /\ Allowed(d, a2) = Tab(o, u, size, a2, E)
               /\ Sized(d, o2) = Tab(o2, u, size, a, E)
               /\ Grown(d, E2, a2, u2, o2) = Tab(o2, u2, size, a2, E2)
               /\ Lessened(d, E2, u2, o2) = Tab(o2, u2, size, a, E2)
<1> DEFINE d == Tab(o, u, size, a, E)
<1>1. [d EXCEPT !.entries = E2] = Tab(o, u, size, a, E2)
  BY DEF Tab
<1>2. [d EXCEPT !.dk_usable = a2] = Tab(o, u, size, a2, E)
  BY DEF Tab
<1>3. [d EXCEPT !.ob_size = o2] = Tab(o2, u, size, a, E)
  BY DEF Tab
<1>4. [Tab(o, u, size, a, E2) EXCEPT !.dk_usable = a2] = Tab(o, u, size, a2, E2)
  BY DEF Tab
<1>5. [Tab(o, u, size, a2, E2) EXCEPT !.ma_used = u2] = Tab(o, u2, size, a2, E2)
  BY DEF Tab
<1>6. [Tab(o, u, size, a, E2) EXCEPT !.ma_used = u2] = Tab(o, u2, size, a, E2)
  BY DEF Tab
<1>7. [Tab(o, u2, size, a2, E2) EXCEPT !.ob_size = o2] = Tab(o2, u2, size, a2, E2)
  BY DEF Tab
<1>8. [Tab(o, u2, size, a, E2) EXCEPT !.ob_size = o2] = Tab(o2, u2, size, a, E2)
  BY DEF Tab
<1> HIDE DEF d
<1>9. [d EXCEPT !.entries = E2, !.dk_usable = a2, !.ma_used = u2, !.ob_size = o2]
        = [[[[d EXCEPT !.entries = E2] EXCEPT !.dk_usable = a2]
               EXCEPT !.ma_used = u2] EXCEPT !.ob_size = o2]
  OBVIOUS
<1>10. [d EXCEPT !.entries = E2, !.ma_used = u2, !.ob_size = o2]
         = [[[d EXCEPT !.entries = E2] EXCEPT !.ma_used = u2] EXCEPT !.ob_size = o2]
  OBVIOUS
<1> QED
  BY <1>1, <1>2, <1>3, <1>4, <1>5, <1>6, <1>7, <1>8, <1>9, <1>10
     DEF d, Filled, Allowed, Sized, Grown, Lessened

\* Every table is such a record.
LEMMA RecordLemma ==
    ASSUME NEW d, Block(d)
    PROVE  d = Tab(d.ob_size, d.ma_used, d.dk_size, d.dk_usable, d.entries)
  BY DEF Block, TablesOf, Tab

\* An entry is given another value, or loses it.
LEMMA ChangedEntryLemma ==
    ASSUME NEW e \in Entry, NEW v
    PROVE  /\ [e EXCEPT !.me_value = v]
                 = [me_state |-> e.me_state, me_key |-> e.me_key, me_value |-> v]
           /\ [e EXCEPT !.me_state = "DUMMY", !.me_value = v]
                 = [me_state |-> "DUMMY", me_key |-> e.me_key, me_value |-> v]
<1>1. [e EXCEPT !.me_value = v]
        = [me_state |-> e.me_state, me_key |-> e.me_key, me_value |-> v]
  BY DEF Entry
<1>2. [e EXCEPT !.me_state = "DUMMY"]
        = [me_state |-> "DUMMY", me_key |-> e.me_key, me_value |-> e.me_value]
  BY DEF Entry
<1>3. [e EXCEPT !.me_state = "DUMMY", !.me_value = v]
        = [[e EXCEPT !.me_state = "DUMMY"] EXCEPT !.me_value = v]
  OBVIOUS
<1>4. PICK k, x : k = e.me_key /\ x = e.me_value
  OBVIOUS
<1>5. [[me_state |-> "DUMMY", me_key |-> k, me_value |-> x] EXCEPT !.me_value = v]
        = [me_state |-> "DUMMY", me_key |-> k, me_value |-> v]
  OBVIOUS
<1> QED
  BY <1>1, <1>2, <1>3, <1>4, <1>5

\* An entry in use.
LEMMA EntryLemma ==
    ASSUME NEW key \in Index, NEW v \in Item
    PROVE  /\ Kept(Full(key, v)) /\ Full(key, v) \in Entry
           /\ Full(key, v).me_state = "FULL"
           /\ Full(key, v).me_key = key /\ Full(key, v).me_value = v
  BY DEF Kept, Full, Entry

\* What setProperty() makes of the values: the one of the index changes.
Puts1(d, w, key, v) ==
    \A c \in Index : \A x : Holds(w, c, x) <=>
        IF c = key THEN x = v /\ x # PPTR_NULL ELSE Holds(d, c, x)

\* The new value of an entry that has one.
LEMMA ReplacedLemma ==
    ASSUME NEW d, Table(d), NEW key \in Index, NEW v \in Item,
           NEW ep \in SlotsIn(d, "FULL"), d.entries[ep].me_key = key
    PROVE  LET w == [d EXCEPT !.entries[ep].me_value = v]
           IN  Table(w) /\ w.ob_size = d.ob_size /\ Puts1(d, w, key, v)
<1> DEFINE w == [d EXCEPT !.entries[ep].me_value = v]
           e == Full(key, v)
           E == [d.entries EXCEPT ![ep] = e]
<1>1. Block(d) /\ Reachable(d) /\ d.dk_size \in Nat /\ d.entries \in [Slots(d) -> Entry]
      /\ Slots(d) = 0..d.dk_size - 1
      /\ d.ob_size \in Nat /\ d.ma_used \in Nat /\ d.dk_usable \in Nat
  BY TableLemma, FieldsLemma
<1>2. ep \in Slots(d) /\ ep \in Marked(d) /\ d.entries[ep].me_state = "FULL"
      /\ d.entries[ep] \in Entry
  BY <1>1 DEF SlotsIn, Marked
<1>3. [d.entries[ep] EXCEPT !.me_value = v] = e
  BY <1>2, ChangedEntryLemma DEF Full
<1>4. w = Tab(d.ob_size, d.ma_used, d.dk_size, d.dk_usable, E)
  <2>1. w = [d EXCEPT !.entries = [d.entries EXCEPT ![ep] = [d.entries[ep] EXCEPT !.me_value = v]]]
    OBVIOUS
  <2>2. w = [d EXCEPT !.entries = [d.entries EXCEPT ![ep] = e]]
    BY <1>3, <2>1
  <2> HIDE DEF E, w
  <2> QED
    BY <1>1, <2>2, RecordLemma DEF Tab, E
<1> HIDE DEF w
<1>5. /\ Kept(e) /\ e \in Entry /\ e.me_state = "FULL" /\ e.me_key = key /\ e.me_value = v
  BY EntryLemma
<1> HIDE DEF e
<1>6. E \in [0..d.dk_size - 1 -> Entry]
  BY <1>1, <1>5
<1> HIDE DEF E
<1>13. /\ w \in TablesOf(d.dk_size)
       /\ w.ob_size = d.ob_size /\ w.dk_size = d.dk_size
       /\ w.ma_used = d.ma_used /\ w.dk_usable = d.dk_usable /\ w.entries = E
  <2>1. PICK o, u, a : o = d.ob_size /\ u = d.ma_used /\ a = d.dk_usable
    OBVIOUS
  <2>2. o \in Nat /\ u \in Nat /\ a \in Nat /\ w = Tab(o, u, d.dk_size, a, E)
    BY <1>1, <1>4, <2>1
  <2>3. PICK size : size = d.dk_size
    OBVIOUS
  <2>4. w = Tab(o, u, size, a, E) /\ E \in [0..size - 1 -> Entry]
    BY <1>6, <2>2, <2>3
  <2>5. w \in TablesOf(size)
    BY <2>2, <2>4, TabLemma
  <2>6. /\ w.ob_size = o /\ w.dk_size = size
        /\ w.ma_used = u /\ w.dk_usable = a /\ w.entries = E
    BY <2>4, TabFields
  <2> QED
    BY <2>1, <2>3, <2>5, <2>6
<1>7. Puts(d, w, ep, e)
  BY <1>13 DEF Puts, E
<1>8. OnPath(d, e.me_key, ep) /\ \A i \in Marked(d) \ {ep} : d.entries[i].me_key # e.me_key
  BY <1>1, <1>2, <1>5, UniqueLemma DEF Reachable
<1>9. /\ Block(w) /\ Reachable(w) /\ Marked(w) = Marked(d) \cup {ep}
      /\ SlotsIn(w, "FULL") = SlotsIn(d, "FULL") \cup {ep}
      /\ SlotsIn(w, "DUMMY") = SlotsIn(d, "DUMMY") \ {ep}
      /\ Puts1(d, w, key, v)
  <2>1. e.me_state # "NULL" /\ e.me_state # "DUMMY"
        /\ (ep \in Marked(d) => d.entries[ep].me_key = e.me_key)
    BY <1>5
  <2>2. /\ Block(w) /\ Reachable(w) /\ Marked(w) = Marked(d) \cup {ep}
        /\ SlotsIn(w, "FULL") = SlotsIn(d, "FULL") \cup {ep}
        /\ SlotsIn(w, "DUMMY") = SlotsIn(d, "DUMMY") \ {ep}
        /\ \A c \in Index : \A x : Holds(w, c, x) <=>
              IF c = e.me_key THEN x = e.me_value /\ x # PPTR_NULL ELSE Holds(d, c, x)
    BY <1>1, <1>2, <1>5, <1>7, <1>8, <1>13, <2>1, StoreEntryLemma
  <2> QED
    BY <1>5, <2>2 DEF Puts1
<1>10. /\ SlotsIn(w, "FULL") = SlotsIn(d, "FULL") /\ SlotsIn(w, "DUMMY") = SlotsIn(d, "DUMMY")
       /\ Marked(w) = Marked(d)
  <2>1. ep \notin SlotsIn(d, "DUMMY")
    BY <1>2 DEF SlotsIn
  <2> QED
    BY <1>2, <1>9, <2>1
<1>11. Table(w)
  BY <1>9, <1>10, <1>13 DEF Table, Laid
<1> QED
  BY <1>9, <1>11, <1>13 DEF w

\* A new entry, in a block of keys that has room for it.
LEMMA InsertedLemma ==
    ASSUME NEW d, Table(d), d.dk_usable > 0, NEW key \in Index, NEW v \in Item,
           \A i \in Marked(d) : d.entries[i].me_key # key
    PROVE  LET w == Inserted(d, key, v) IN
           /\ Table(w) /\ w.ob_size >= d.ob_size /\ w.ob_size >= key + 1
           /\ w.ob_size \in {d.ob_size, key + 1}
           /\ Puts1(d, w, key, v)
           /\ SlotsIn(w, "DUMMY") = SlotsIn(d, "DUMMY")
           /\ \A i \in Marked(w) :
                 \/ w.entries[i].me_key = key
                 \/ i \in Marked(d) /\ w.entries[i].me_key = d.entries[i].me_key
<1> DEFINE w == Inserted(d, key, v)
           e == Full(key, v)
           ep == findEmptySlot(d, key)
           E == [d.entries EXCEPT ![ep] = e]
           F == Cardinality(SlotsIn(d, "FULL"))
           o == IF d.ob_size < key + 1 THEN key + 1 ELSE d.ob_size
<1>1. Block(d) /\ Reachable(d) /\ HasFree(d)
      /\ d.dk_size \in Nat /\ d.entries \in [Slots(d) -> Entry]
      /\ Slots(d) = 0..d.dk_size - 1
      /\ d.ob_size \in Nat /\ d.ma_used \in Nat /\ d.dk_usable \in Nat
  BY TableLemma, FieldsLemma
<1>2. ep \in Slots(d) /\ OnPath(d, key, ep) /\ d.entries[ep].me_state = "NULL"
  BY <1>1, EmptySlotLemma
<1>3. w = [d EXCEPT !.entries = [d.entries EXCEPT ![ep] = e],
                    !.dk_usable = d.dk_usable - 1, !.ma_used = d.ma_used + 1,
                    !.ob_size = o]
  BY DEF Inserted
<1>4. key \in Nat /\ key + 1 <= MaxLength /\ MaxLength \in Nat
  BY NumDictAssumption DEF Index
<1>5. /\ o \in Nat /\ o <= MaxLength /\ o >= d.ob_size /\ o >= key + 1
      /\ o \in {d.ob_size, key + 1}
  BY <1>1, <1>4 DEF Table, Laid
<1> HIDE DEF o, ep
<1>6. w = Tab(o, d.ma_used + 1, d.dk_size, d.dk_usable - 1, E)
  <2> HIDE DEF E
  <2> QED
    BY <1>1, <1>3, RecordLemma DEF E, Tab
<1> HIDE DEF w
<1>7. /\ Kept(e) /\ e \in Entry /\ e.me_state = "FULL" /\ e.me_key = key /\ e.me_value = v
  BY EntryLemma
<1> HIDE DEF e
<1>8. /\ w \in TablesOf(d.dk_size)
      /\ w.ob_size = o /\ w.dk_size = d.dk_size
      /\ w.ma_used = d.ma_used + 1 /\ w.dk_usable = d.dk_usable - 1 /\ w.entries = E
  <2>1. E \in [0..d.dk_size - 1 -> Entry]
    BY <1>1, <1>7
  <2>2. d.ma_used + 1 \in Nat /\ d.dk_usable - 1 \in Nat
    BY <1>1
  <2>3. o \in Nat
    BY <1>5
  <2>4. w = Tab(o, d.ma_used + 1, d.dk_size, d.dk_usable - 1, E)
    BY <1>6
  <2> HIDE DEF E, F
  <2>5. w \in TablesOf(d.dk_size)
    BY <2>1, <2>2, <2>3, <2>4, TabLemma
  <2> QED
    BY <2>4, <2>5, TabFields
<1>9. Puts(d, w, ep, e)
  BY <1>8 DEF Puts
<1>10. ep \notin Marked(d) /\ ep \notin SlotsIn(d, "FULL") /\ ep \notin SlotsIn(d, "DUMMY")
  BY <1>2 DEF Marked, SlotsIn
<1>11. /\ Block(w) /\ Reachable(w) /\ Marked(w) = Marked(d) \cup {ep}
       /\ SlotsIn(w, "FULL") = SlotsIn(d, "FULL") \cup {ep}
       /\ SlotsIn(w, "DUMMY") = SlotsIn(d, "DUMMY") \ {ep}
       /\ Puts1(d, w, key, v)
  <2>1. e.me_state # "NULL" /\ e.me_state # "DUMMY" /\ OnPath(d, e.me_key, ep)
        /\ \A i \in Marked(d) \ {ep} : d.entries[i].me_key # e.me_key
    BY <1>2, <1>7
  <2>2. /\ Block(w) /\ Reachable(w) /\ Marked(w) = Marked(d) \cup {ep}
        /\ SlotsIn(w, "FULL") = SlotsIn(d, "FULL") \cup {ep}
        /\ SlotsIn(w, "DUMMY") = SlotsIn(d, "DUMMY") \ {ep}
        /\ \A c \in Index : \A x : Holds(w, c, x) <=>
              IF c = e.me_key THEN x = e.me_value /\ x # PPTR_NULL ELSE Holds(d, c, x)
    <3>1. w \in TablesOf(d.dk_size) /\ ep \in Slots(d) /\ ep \notin Marked(d)
          /\ Kept(e) /\ e.me_state = "FULL"
      BY <1>2, <1>7, <1>8, <1>10
    <3> HIDE DEF E, F
    <3> QED
      BY <1>1, <1>9, <2>1, <3>1, StoreEntryLemma
  <2> QED
    BY <1>7, <2>2 DEF Puts1
<1>12. SlotsIn(w, "DUMMY") = SlotsIn(d, "DUMMY")
  BY <1>10, <1>11
<1>13. F \in Nat /\ Cardinality(SlotsIn(w, "FULL")) = F + 1
  BY <1>1, <1>10, <1>11, CountLemma, OneMoreLemma
<1>15. Table(w)
  <2> DEFINE D == Cardinality(SlotsIn(d, "DUMMY"))
             u == d.ma_used
             a == d.dk_usable
             f == usableFraction(d.dk_size)
  <2>1. D \in Nat /\ Cardinality(SlotsIn(w, "DUMMY")) = D
    BY <1>1, <1>12, CountLemma
  <2>2. F <= u /\ a + u + D = f /\ d.dk_size <= MaxSize
    BY DEF Table, Laid
  <2>3. f \in Nat /\ u \in Nat /\ a \in Nat
    BY <1>1, FieldsLemma, UsableLemma
  <2>4. w.ma_used = u + 1 /\ w.dk_usable = a - 1
    BY <1>8
  <2> HIDE DEF D, F, u, a
  <2>5. F + 1 <= u + 1 /\ (a - 1) + (u + 1) + D = f
    <3> HIDE DEF f
    <3> QED
      BY <1>13, <2>1, <2>2, <2>3
  <2> QED
    BY <1>5, <1>8, <1>11, <1>13, <2>1, <2>2, <2>4, <2>5 DEF Table, Laid
<1>16. \A i \in Marked(w) :
          \/ w.entries[i].me_key = key
          \/ i \in Marked(d) /\ w.entries[i].me_key = d.entries[i].me_key
  <2>1. \A i \in Slots(d) : w.entries[i] = IF i = ep THEN e ELSE d.entries[i]
    BY <1>1, <1>8
  <2>2. Marked(d) \subseteq Slots(d)
    BY DEF Marked
  <2> QED
    BY <1>2, <1>7, <1>11, <2>1, <2>2
<1> QED
  BY <1>5, <1>8, <1>11, <1>12, <1>15, <1>16 DEF w

\* The last entry is popped: it stays there, without a value.
LEMMA PoppedLemma ==
    ASSUME NEW d, Table(d), d.ob_size > 0, NEW ep \in SlotsIn(d, "FULL")
    PROVE  LET w == Popped(d, ep) IN
           /\ Table(w) /\ w.ob_size = d.ob_size - 1
           /\ d.entries[ep].me_key \in Index
           /\ Puts1(d, w, d.entries[ep].me_key, PPTR_NULL)
<1> DEFINE w == Popped(d, ep)
           key == d.entries[ep].me_key
           e == [me_state |-> "DUMMY", me_key |-> key, me_value |-> PPTR_NULL]
           E == [d.entries EXCEPT ![ep] = e]
           F == Cardinality(SlotsIn(d, "FULL"))
           D == Cardinality(SlotsIn(d, "DUMMY"))
<1>1. Block(d) /\ Reachable(d)
      /\ d.dk_size \in Nat /\ d.entries \in [Slots(d) -> Entry]
      /\ Slots(d) = 0..d.dk_size - 1
      /\ d.ob_size \in Nat /\ d.ma_used \in Nat /\ d.dk_usable \in Nat
  BY TableLemma, FieldsLemma
<1>2. ep \in Slots(d) /\ ep \in Marked(d) /\ d.entries[ep].me_state = "FULL"
      /\ d.entries[ep] \in Entry /\ key \in Index
  BY <1>1 DEF SlotsIn, Marked, Entry
<1>3. [d.entries[ep] EXCEPT !.me_state = "DUMMY", !.me_value = PPTR_NULL] = e
  BY <1>2, ChangedEntryLemma
<1>o. PICK o : o = d.ob_size - 1
  OBVIOUS
<1>u. PICK u : u = d.ma_used - 1
  OBVIOUS
<1>a. PICK a : a = d.dk_usable
  OBVIOUS
<1>f. PICK f : f = usableFraction(d.dk_size)
  OBVIOUS
<1>4. w = Tab(o, u, d.dk_size, a, E)
  <2>1. w = [d EXCEPT !.entries = [d.entries EXCEPT ![ep] =
                         [d.entries[ep] EXCEPT !.me_state = "DUMMY", !.me_value = PPTR_NULL]],
                      !.ma_used = d.ma_used - 1, !.ob_size = d.ob_size - 1]
    BY DEF Popped
  <2>2. w = [d EXCEPT !.entries = E, !.ma_used = u, !.ob_size = o]
    BY <1>3, <1>o, <1>u, <2>1
  <2>3. d = Tab(d.ob_size, d.ma_used, d.dk_size, a, d.entries)
    BY <1>1, <1>a, RecordLemma
  <2>4. PICK x, y, z, k : x = d.ob_size /\ y = d.ma_used /\ z = d.dk_size /\ k = d.entries
    OBVIOUS
  <2>5. d = Tab(x, y, z, a, k)
    BY <2>3, <2>4
  <2> HIDE DEF w, E, e, key, F, D
  <2>6. w = Lessened(Tab(x, y, z, a, k), E, u, o)
    BY <2>2, <2>5 DEF Lessened
  <2>7. Lessened(Tab(x, y, z, a, k), E, u, o) = Tab(o, u, z, a, E)
    BY TabExceptLemma
  <2>8. w = Tab(o, u, z, a, E)
    BY <2>6, <2>7
  <2> QED
    BY <2>4, <2>8
<1> HIDE DEF w
<1>5. Kept(e) /\ e \in Entry /\ e.me_state = "DUMMY" /\ e.me_key = key
  BY <1>2 DEF Kept, Entry, Item
<1> HIDE DEF e
<1>6. /\ Cardinality(SlotsIn(d, "FULL") \ {ep}) = F - 1 /\ F - 1 \in Nat
      /\ Cardinality(SlotsIn(d, "DUMMY") \cup {ep}) = D + 1
      /\ F \in Nat /\ D \in Nat
  <2>1. ep \notin SlotsIn(d, "DUMMY")
    BY <1>2 DEF SlotsIn
  <2>2. IsFiniteSet(SlotsIn(d, "FULL") \ {ep})
    BY <1>1, CountLemma, FS_RemoveElement
  <2>3. Cardinality(SlotsIn(d, "FULL") \ {ep}) \in Nat
    BY <2>2, FS_CardinalityType
  <2>4. Cardinality(SlotsIn(d, "FULL") \ {ep}) = F - 1 /\ F \in Nat
    BY <1>1, CountLemma, OneMoreLemma
  <2>5. Cardinality(SlotsIn(d, "DUMMY") \cup {ep}) = D + 1 /\ D \in Nat
    BY <1>1, <2>1, CountLemma, OneMoreLemma
  <2> QED
    BY <2>3, <2>4, <2>5
<1>12. /\ F <= d.ma_used /\ a + d.ma_used + D = f
       /\ d.dk_size <= MaxSize /\ d.ob_size <= MaxLength
  BY <1>a, <1>f DEF Table, Laid
<1>13. /\ o \in Nat /\ u \in Nat /\ o <= MaxLength
       /\ F - 1 <= u /\ a + u + (D + 1) = f /\ a \in Nat
  <2>1. f \in Nat /\ MaxLength \in Nat
    BY <1>1, <1>f, FieldsLemma, UsableLemma, NumDictAssumption
  <2>2. PICK m : m = d.ma_used
    OBVIOUS
  <2>3. PICK n : n = d.ob_size
    OBVIOUS
  <2>4. /\ m \in Nat /\ u = m - 1 /\ F <= m /\ a + m + D = f
        /\ n \in Nat /\ o = n - 1 /\ n <= MaxLength /\ n > 0 /\ a \in Nat
    BY <1>1, <1>12, <1>o, <1>u, <1>a, <2>2, <2>3
  <2>5. F \in Nat /\ D \in Nat /\ F - 1 \in Nat
    BY <1>6
  <2> HIDE DEF F, D
  <2>6. u \in Nat /\ F - 1 <= u /\ a + u + (D + 1) = f
    BY <2>1, <2>4, <2>5
  <2>7. o \in Nat /\ o <= MaxLength
    BY <2>1, <2>4
  <2> QED
    BY <2>4, <2>6, <2>7
<1> HIDE DEF F, D
<1>7. /\ w \in TablesOf(d.dk_size)
      /\ w.ob_size = o /\ w.dk_size = d.dk_size
      /\ w.ma_used = u /\ w.dk_usable = a /\ w.entries = E
  <2>1. E \in [0..d.dk_size - 1 -> Entry]
    BY <1>1, <1>5
  <2>2. o \in Nat /\ u \in Nat /\ a \in Nat
    BY <1>13
  <2> HIDE DEF E, key
  <2>3. PICK z : z = d.dk_size
    OBVIOUS
  <2>4. /\ w = Tab(o, u, z, a, E) /\ E \in [0..z - 1 -> Entry]
    BY <1>4, <2>1, <2>3
  <2>5. w \in TablesOf(z)
    BY <2>2, <2>4, TabLemma
  <2>6. /\ w.ob_size = o /\ w.dk_size = z
        /\ w.ma_used = u /\ w.dk_usable = a /\ w.entries = E
    BY <2>4, TabFields
  <2> QED
    BY <2>3, <2>5, <2>6
<1>8. Puts(d, w, ep, e)
  BY <1>7 DEF Puts
<1>9. OnPath(d, e.me_key, ep) /\ \A i \in Marked(d) \ {ep} : d.entries[i].me_key # e.me_key
  BY <1>1, <1>2, <1>5, UniqueLemma DEF Reachable
<1> HIDE DEF key, E
<1>10. /\ Block(w) /\ Reachable(w)
       /\ SlotsIn(w, "FULL") = SlotsIn(d, "FULL") \ {ep}
       /\ SlotsIn(w, "DUMMY") = SlotsIn(d, "DUMMY") \cup {ep}
       /\ Puts1(d, w, key, PPTR_NULL)
  <2>1. e.me_state # "NULL" /\ e.me_state # "FULL"
        /\ (ep \in Marked(d) => d.entries[ep].me_key = e.me_key)
    BY <1>5 DEF key
  <2>2. /\ Block(w) /\ Reachable(w)
        /\ SlotsIn(w, "FULL") = SlotsIn(d, "FULL") \ {ep}
        /\ SlotsIn(w, "DUMMY") = SlotsIn(d, "DUMMY") \cup {ep}
        /\ \A c \in Index : \A x : Holds(w, c, x) <=>
              IF c = e.me_key THEN FALSE ELSE Holds(d, c, x)
    BY <1>1, <1>2, <1>5, <1>7, <1>8, <1>9, <2>1, StoreEntryLemma
  <2> QED
    BY <1>5, <2>2 DEF Puts1
<1>11. /\ Cardinality(SlotsIn(w, "FULL")) = F - 1
       /\ Cardinality(SlotsIn(w, "DUMMY")) = D + 1
  BY <1>6, <1>10
<1>14. Table(w)
  <2>1. w.ma_used = u /\ w.dk_usable = a /\ w.dk_size = d.dk_size /\ w.ob_size = o
    BY <1>7
  <2>2. Laid(w)
    BY <1>10, <1>11, <1>12, <1>13, <2>1 DEF Laid
  <2> QED
    BY <1>f, <1>11, <1>13, <2>1, <2>2 DEF Table
<1> QED
  BY <1>2, <1>7, <1>10, <1>14, <1>o DEF key, w

-----------------------------------------------------------------------------
(* Moving to a new block of keys. *)

\* The loop of insertionResize(), entry by entry.
MoveOne(d, n, done) ==
    LET entry == d.entries[n - 1]
    IN  IF entry.me_value = PPTR_NULL THEN done
        ELSE [done EXCEPT !.entries[findEmptySlot(done, entry.me_key)] = entry]

\* The loop ends, and goes from one block to the next as MoveOne says.
LEMMA MovedLemma ==
    ASSUME NEW d, d.dk_size \in Nat
    PROVE  /\ Moved(d)[0] = newKeysObject(d, newsize(d))
           /\ \A n \in 0..d.dk_size - 1 : Moved(d)[n + 1] = MoveOne(d, n + 1, Moved(d)[n])
<1> DEFINE A == newKeysObject(d, newsize(d))
           size == d.dk_size
           Builds(g, n) == g = [i \in 0..n |-> IF i = 0 THEN A ELSE MoveOne(d, i, g[i - 1])]
           S == {n \in Nat : \E g : Builds(g, n)}
<1> HIDE DEF A
<1>1. 0 \in S
  <2>1. \A g : g = [i \in 0..0 |-> A] => Builds(g, 0)
    OBVIOUS
  <2> QED
    BY <2>1
<1>2. ASSUME NEW n \in S
      PROVE  n + 1 \in S
  <2>1. PICK g : Builds(g, n)
    OBVIOUS
  <2>2. PICK x : x = MoveOne(d, n + 1, g[n])
    OBVIOUS
  <2>3. PICK h : h = [i \in 0..n + 1 |-> IF i = n + 1 THEN x ELSE g[i]]
    OBVIOUS
  <2>4. \A i \in 0..n : h[i] = g[i]
    BY <2>3
  <2>5. ASSUME NEW i \in 0..n + 1
        PROVE  h[i] = IF i = 0 THEN A ELSE MoveOne(d, i, h[i - 1])
    <3>1. CASE i = n + 1
      <4>1. h[i] = x /\ i - 1 = n /\ n \in 0..n /\ i # 0
        BY <2>3, <3>1
      <4>2. h[i - 1] = g[n]
        BY <2>4, <4>1
      <4> QED
        BY <2>2, <3>1, <4>1, <4>2
    <3>2. CASE i # n + 1
      <4>1. i \in 0..n /\ h[i] = g[i]
        BY <2>4, <3>2
      <4>2. i # 0 => i - 1 \in 0..n
        BY <4>1
      <4>3. i # 0 => h[i - 1] = g[i - 1]
        BY <2>4, <4>2
      <4>4. g[i] = IF i = 0 THEN A ELSE MoveOne(d, i, g[i - 1])
        BY <2>1, <4>1
      <4> QED
        BY <4>1, <4>3, <4>4
    <3> QED
      BY <3>1, <3>2
  <2>6. Builds(h, n + 1)
    BY <2>3, <2>5
  <2> QED
    BY <2>6
<1>3. \E g : Builds(g, size)
  <2>1. S = Nat
    <3>1. S \in SUBSET Nat
      OBVIOUS
    <3> HIDE DEF S
    <3> QED
      BY <1>1, <1>2, <3>1, SetInduction
  <2> QED
    BY <2>1
<1>4. Moved(d) = CHOOSE g : Builds(g, size)
  BY DEF Moved, MoveOne, A
<1>5. Builds(Moved(d), size)
  <2> HIDE DEF Builds
  <2> QED
    BY <1>3, <1>4
<1>6. Moved(d)[0] = A
  BY <1>5
<1>7. \A n \in 0..size - 1 : n + 1 \in 0..size /\ n + 1 # 0 /\ (n + 1) - 1 = n
  OBVIOUS
<1>8. \A n \in 0..size - 1 : Moved(d)[n + 1] = MoveOne(d, n + 1, Moved(d)[n])
  BY <1>5, <1>7
<1> QED
  BY <1>6, <1>8 DEF A

\* A new block of keys, field by field.
LEMMA NewKeysTab ==
    ASSUME NEW o, NEW u, NEW size, NEW a, NEW E, NEW n
    PROVE  newKeysObject(Tab(o, u, size, a, E), n)
             = Tab(o, u, n, usableFraction(n), [i \in 0..n - 1 |-> Null])
<1> DEFINE d == Tab(o, u, size, a, E)
<1>1. PICK a2, E2 : a2 = usableFraction(n) /\ E2 = [i \in 0..n - 1 |-> Null]
  OBVIOUS
<1>2. [d EXCEPT !.dk_size = n] = Tab(o, u, n, a, E)
  BY DEF Tab
<1>3. [Tab(o, u, n, a, E) EXCEPT !.dk_usable = a2] = Tab(o, u, n, a2, E)
  BY DEF Tab
<1>4. [Tab(o, u, n, a2, E) EXCEPT !.entries = E2] = Tab(o, u, n, a2, E2)
  BY DEF Tab
<1> HIDE DEF d
<1>5. newKeysObject(d, n) = [[[d EXCEPT !.dk_size = n] EXCEPT !.dk_usable = a2] EXCEPT !.entries = E2]
  BY <1>1 DEF newKeysObject
<1> QED
  BY <1>1, <1>2, <1>3, <1>4, <1>5 DEF d

\* It is free from end to end.
LEMMA NewKeysLemma ==
    ASSUME NEW d, NEW o \in Nat, NEW u \in Nat, NEW size, NEW a, NEW E,
           d = Tab(o, u, size, a, E), o <= MaxLength,
           NEW n \in Sizes, n <= MaxSize
    PROVE  LET w == newKeysObject(d, n)
           IN  /\ Laid(w) /\ w.dk_size = n /\ w.ma_used = u /\ w.ob_size = o
               /\ w.dk_usable = usableFraction(n)
               /\ SlotsIn(w, "FULL") = {} /\ SlotsIn(w, "DUMMY") = {} /\ Marked(w) = {}
<1> DEFINE w == newKeysObject(d, n)
<1>1. n \in Nat /\ usableFraction(n) \in Nat
  BY SizesLemma, UsableLemma
<1>2. PICK a2, E2 : a2 = usableFraction(n) /\ E2 = [i \in 0..n - 1 |-> Null]
  OBVIOUS
<1>3. w = Tab(o, u, n, a2, E2)
  BY <1>2, NewKeysTab
<1>4. Null \in Entry /\ Kept(Null) /\ Null.me_state = "NULL"
  BY NumDictAssumption DEF Null, Entry, Kept, Item, Index
<1> HIDE DEF w
<1>5. a2 \in Nat /\ E2 \in [0..n - 1 -> Entry] /\ \A i \in 0..n - 1 : E2[i] = Null
  <2> HIDE DEF Null, Entry
  <2> QED
    BY <1>1, <1>2, <1>4
<1>6. /\ w \in TablesOf(n)
      /\ w.ob_size = o /\ w.ma_used = u /\ w.dk_size = n
      /\ w.dk_usable = a2 /\ w.entries = E2
  <2>1. a2 \in Nat /\ E2 \in [0..n - 1 -> Entry]
    BY <1>5
  <2> QED
    BY <1>3, <2>1, TabFields, TabLemma
<1>7. Slots(w) = 0..n - 1 /\ \A i \in Slots(w) : w.entries[i] = Null
  BY <1>5, <1>6 DEF Slots
<1>8. SlotsIn(w, "FULL") = {} /\ SlotsIn(w, "DUMMY") = {} /\ Marked(w) = {}
  BY <1>4, <1>7 DEF SlotsIn, Marked
<1>9. Block(w) /\ Reachable(w)
  BY <1>4, <1>6, <1>7, <1>8 DEF Block, Reachable
<1>10. Cardinality({}) = 0
  BY FS_EmptySet
<1>11. Laid(w)
  BY <1>6, <1>8, <1>9, <1>10 DEF Laid
<1> QED
  BY <1>2, <1>6, <1>8, <1>11 DEF w

\* The entries below n that have a value.
Seen(d, n) == {j \in SlotsIn(d, "FULL") : j < n /\ d.entries[j].me_value # PPTR_NULL}

\* The new block of keys w when the first n entries of d have been seen: it is
\* laid out well, has no deleted entries, and holds what those n hold.
Moving(d, w, n) ==
    /\ Laid(w)
    /\ w.dk_size = newsize(d) /\ w.ma_used = d.ma_used /\ w.ob_size = d.ob_size
    /\ w.dk_usable = usableFraction(newsize(d))
    /\ SlotsIn(w, "DUMMY") = {}
    /\ Cardinality(SlotsIn(w, "FULL")) = Cardinality(Seen(d, n))
    /\ \A i \in Marked(w) : w.entries[i].me_value # PPTR_NULL
    /\ \A key \in Index : \A x : Holds(w, key, x) <=>
          \E j \in Seen(d, n) : d.entries[j].me_key = key /\ d.entries[j].me_value = x

\* The loop starts with a free block.
LEMMA MovingStarts ==
    ASSUME NEW d, Table(d), newsize(d) <= MaxSize
    PROVE  Moving(d, newKeysObject(d, newsize(d)), 0)
<1> DEFINE w == newKeysObject(d, newsize(d))
<1>1. /\ Block(d) /\ newsize(d) \in Sizes /\ d.ob_size <= MaxLength
      /\ d.ob_size \in Nat /\ d.ma_used \in Nat
      /\ d = Tab(d.ob_size, d.ma_used, d.dk_size, d.dk_usable, d.entries)
  BY TableLemma, FieldsLemma, RecordLemma DEF Table, Laid
<1>2. /\ Laid(w) /\ w.dk_size = newsize(d) /\ w.ma_used = d.ma_used /\ w.ob_size = d.ob_size
      /\ w.dk_usable = usableFraction(newsize(d))
      /\ SlotsIn(w, "FULL") = {} /\ SlotsIn(w, "DUMMY") = {} /\ Marked(w) = {}
  <2>1. PICK o, u, size, a, E : /\ d = Tab(o, u, size, a, E)
                                /\ o = d.ob_size /\ u = d.ma_used
    BY <1>1
  <2>2. PICK n : n = newsize(d)
    OBVIOUS
  <2>3. o \in Nat /\ u \in Nat /\ o <= MaxLength /\ n \in Sizes /\ n <= MaxSize
    BY <1>1, <2>1, <2>2
  <2>4. LET x == newKeysObject(d, n)
        IN  /\ Laid(x) /\ x.dk_size = n /\ x.ma_used = u /\ x.ob_size = o
            /\ x.dk_usable = usableFraction(n)
            /\ SlotsIn(x, "FULL") = {} /\ SlotsIn(x, "DUMMY") = {} /\ Marked(x) = {}
    <3>1. d = Tab(o, u, size, a, E)
      BY <2>1
    <3> QED
      BY <3>1, <2>3, NewKeysLemma
  <2> QED
    BY <2>1, <2>2, <2>4
<1> HIDE DEF w
<1>3. Seen(d, 0) = {}
  <2>1. SlotsIn(d, "FULL") \subseteq Nat
    BY <1>1, FieldsLemma DEF SlotsIn
  <2>2. \A j \in Nat : ~(j < 0)
    OBVIOUS
  <2> QED
    BY <2>1, <2>2 DEF Seen
<1>4. \A key \in Index : \A x : Holds(w, key, x) <=>
          \E j \in Seen(d, 0) : d.entries[j].me_key = key /\ d.entries[j].me_value = x
  BY <1>2, <1>3 DEF Holds
<1> QED
  BY <1>2, <1>3, <1>4 DEF Moving, w

\* One entry more, which has a value, in the new block.
LEMMA MovesEntry ==
    ASSUME NEW w, Laid(w), HasFree(w), SlotsIn(w, "DUMMY") = {},
           NEW e, Kept(e), e.me_state = "FULL", e.me_value # PPTR_NULL,
           \A i \in Marked(w) : w.entries[i].me_key # e.me_key,
           Cardinality(SlotsIn(w, "FULL")) < w.ma_used
    PROVE  LET x == [w EXCEPT !.entries[findEmptySlot(w, e.me_key)] = e]
           IN  /\ Laid(x)
               /\ x.dk_size = w.dk_size /\ x.ma_used = w.ma_used /\ x.ob_size = w.ob_size
               /\ x.dk_usable = w.dk_usable
               /\ SlotsIn(x, "DUMMY") = {}
               /\ Cardinality(SlotsIn(x, "FULL")) = Cardinality(SlotsIn(w, "FULL")) + 1
               /\ \A i \in Marked(x) : \/ i \in Marked(w) /\ x.entries[i] = w.entries[i]
                                       \/ x.entries[i] = e
               /\ \A c \in Index : \A v : Holds(x, c, v) <=>
                     Holds(w, c, v) \/ (c = e.me_key /\ v = e.me_value)
<1> DEFINE k == e.me_key
           ep == findEmptySlot(w, k)
           x == [w EXCEPT !.entries[ep] = e]
           F == Cardinality(SlotsIn(w, "FULL"))
<1>1. /\ Block(w) /\ Reachable(w)
      /\ w.dk_size <= MaxSize /\ w.ob_size <= MaxLength
      /\ w.dk_size \in Nat /\ w.entries \in [Slots(w) -> Entry]
      /\ Slots(w) = 0..w.dk_size - 1
      /\ w.ob_size \in Nat /\ w.ma_used \in Nat /\ w.dk_usable \in Nat
      /\ w = Tab(w.ob_size, w.ma_used, w.dk_size, w.dk_usable, w.entries)
  BY FieldsLemma, RecordLemma DEF Laid
<1>2. k \in Index /\ e \in Entry
  BY DEF Kept, Entry
<1>3. ep \in Slots(w) /\ OnPath(w, k, ep) /\ w.entries[ep].me_state = "NULL"
  BY <1>1, <1>2, EmptySlotLemma
<1>4. PICK o, u, size, a : o = w.ob_size /\ u = w.ma_used /\ size = w.dk_size /\ a = w.dk_usable
  OBVIOUS
<1>5. PICK E : E = [w.entries EXCEPT ![ep] = e]
  OBVIOUS
<1>6. w = Tab(o, u, size, a, w.entries) /\ x = Filled(w, E)
  BY <1>1, <1>4, <1>5 DEF Filled
<1>7. PICK E1 : E1 = w.entries
  OBVIOUS
<1>8. x = Tab(o, u, size, a, E)
  <2>1. w = Tab(o, u, size, a, E1)
    BY <1>6, <1>7
  <2> HIDE DEF x
  <2>2. x = Filled(Tab(o, u, size, a, E1), E)
    BY <1>6, <2>1
  <2> QED
    BY <2>2, TabExceptLemma
<1> HIDE DEF x
<1>9. E \in [0..size - 1 -> Entry]
  BY <1>1, <1>2, <1>4, <1>5
<1>10. /\ x \in TablesOf(w.dk_size)
       /\ x.ob_size = o /\ x.ma_used = u /\ x.dk_size = size
       /\ x.dk_usable = a /\ x.entries = E
  <2>1. o \in Nat /\ u \in Nat /\ a \in Nat
    BY <1>1, <1>4
  <2>2. x \in TablesOf(size)
    BY <1>8, <1>9, <2>1, TabLemma
  <2> QED
    BY <1>4, <1>8, <2>2, TabFields
<1>11. Puts(w, x, ep, e)
  BY <1>4, <1>5, <1>10 DEF Puts
<1>12. ep \notin Marked(w) /\ ep \notin SlotsIn(w, "FULL")
  BY <1>3 DEF Marked, SlotsIn
<1>13. /\ Block(x) /\ Reachable(x) /\ Marked(x) = Marked(w) \cup {ep}
       /\ SlotsIn(x, "FULL") = SlotsIn(w, "FULL") \cup {ep}
       /\ SlotsIn(x, "DUMMY") = SlotsIn(w, "DUMMY") \ {ep}
       /\ \A c \in Index : \A v : Holds(x, c, v) <=>
             IF c = k THEN v = e.me_value /\ v # PPTR_NULL ELSE Holds(w, c, v)
  <2>1. /\ e.me_state # "NULL" /\ e.me_state # "DUMMY" /\ x \in TablesOf(w.dk_size)
        /\ \A i \in Marked(w) \ {ep} : w.entries[i].me_key # e.me_key
    BY <1>10
  <2> HIDE DEF ep
  <2> QED
    BY <1>1, <1>3, <1>11, <1>12, <2>1, StoreEntryLemma
<1>14. SlotsIn(x, "DUMMY") = {}
  BY <1>13
<1>15. F \in Nat /\ Cardinality(SlotsIn(x, "FULL")) = F + 1
  BY <1>1, <1>12, <1>13, CountLemma, OneMoreLemma
<1>16. Laid(x)
  <2>1. F < u /\ u \in Nat
    BY <1>1, <1>4
  <2> HIDE DEF F
  <2>2. F + 1 <= u
    BY <1>15, <2>1
  <2> QED
    BY <1>1, <1>4, <1>10, <1>13, <1>15, <2>2 DEF Laid
<1>17. \A i \in Marked(x) : (i \in Marked(w) /\ x.entries[i] = w.entries[i]) \/ x.entries[i] = e
  <2>1. \A i \in Slots(w) : E[i] = IF i = ep THEN e ELSE w.entries[i]
    BY <1>1, <1>5
  <2>2. Marked(w) \subseteq Slots(w)
    BY DEF Marked
  <2> HIDE DEF ep
  <2> QED
    BY <1>3, <1>10, <1>13, <2>1, <2>2
<1>18. \A v : ~Holds(w, k, v)
  <2>1. SlotsIn(w, "FULL") \subseteq Marked(w)
    BY DEF SlotsIn, Marked
  <2> QED
    BY <2>1 DEF Holds
<1>19. \A c \in Index : \A v : Holds(x, c, v) <=>
          Holds(w, c, v) \/ (c = k /\ v = e.me_value)
  BY <1>2, <1>13, <1>18
<1> QED
  BY <1>4, <1>10, <1>14, <1>15, <1>16, <1>17, <1>19 DEF x

\* One round of the loop.
LEMMA MovingLemma ==
    ASSUME NEW d, Table(d), NEW n \in Nat, n < d.dk_size, NEW w, Moving(d, w, n)
    PROVE  Moving(d, MoveOne(d, n + 1, w), n + 1)
<1> DEFINE x == MoveOne(d, n + 1, w)
           e == d.entries[n]
           F == Cardinality(SlotsIn(d, "FULL"))
<1>1. /\ Block(d) /\ HasFree(d) /\ Reachable(d)
      /\ d.dk_size \in Nat /\ Slots(d) = 0..d.dk_size - 1
      /\ SlotsIn(d, "FULL") \subseteq Nat
      /\ IsFiniteSet(SlotsIn(d, "FULL")) /\ F \in Nat
      /\ F <= d.ma_used /\ d.ma_used \in Nat
      /\ d.ma_used < newsize(d) /\ newsize(d) \in Nat
      /\ \A i \in Slots(d) : Kept(d.entries[i])
  <2>1. /\ Block(d) /\ HasFree(d) /\ Reachable(d) /\ d.ma_used < newsize(d)
        /\ newsize(d) \in Nat
    BY TableLemma, SizesLemma
  <2>2. d.dk_size \in Nat /\ Slots(d) = 0..d.dk_size - 1 /\ d.ma_used \in Nat
        /\ \A i \in Slots(d) : Kept(d.entries[i])
    BY <2>1, FieldsLemma
  <2>3. SlotsIn(d, "FULL") \subseteq Nat
    BY <2>2 DEF SlotsIn
  <2>4. IsFiniteSet(SlotsIn(d, "FULL")) /\ F \in Nat
    BY <2>1, CountLemma
  <2>5. F <= d.ma_used
    BY DEF Table, Laid
  <2> QED
    BY <2>1, <2>2, <2>3, <2>4, <2>5
<1>2. /\ Laid(w) /\ Block(w) /\ SlotsIn(w, "DUMMY") = {}
      /\ w.dk_size = newsize(d) /\ w.ma_used = d.ma_used /\ w.ob_size = d.ob_size
      /\ w.dk_usable = usableFraction(newsize(d))
      /\ Cardinality(SlotsIn(w, "FULL")) = Cardinality(Seen(d, n))
      /\ \A i \in Marked(w) : w.entries[i].me_value # PPTR_NULL
  BY DEF Moving, Laid
<1>3. \A key \in Index : \A v : Holds(w, key, v) <=>
         \E j \in Seen(d, n) : d.entries[j].me_key = key /\ d.entries[j].me_value = v
  BY DEF Moving
<1>4. n \in Slots(d) /\ Kept(e)
  <2>1. n \in 0..d.dk_size - 1
    BY <1>1
  <2> QED
    BY <1>1, <2>1
<1>5. x = IF e.me_value = PPTR_NULL THEN w
          ELSE [w EXCEPT !.entries[findEmptySlot(w, e.me_key)] = e]
  <2>1. (n + 1) - 1 = n
    OBVIOUS
  <2> QED
    BY <2>1 DEF MoveOne
<1> HIDE DEF x
<1>6. CASE e.me_value = PPTR_NULL
  <2>1. Seen(d, n + 1) = Seen(d, n)
    <3>1. \A j \in SlotsIn(d, "FULL") : j < n + 1 <=> j < n \/ j = n
      BY <1>1
    <3> QED
      BY <1>6, <3>1 DEF Seen
  <2>2. x = w
    BY <1>5, <1>6
  <2> QED
    BY <1>2, <1>3, <2>1, <2>2 DEF Moving, x
<1>7. CASE e.me_value # PPTR_NULL
  <2> DEFINE k == e.me_key
  <2>1. e.me_state = "FULL" /\ n \in SlotsIn(d, "FULL") /\ k \in Index
    <3>1. e.me_state \in {"NULL", "DUMMY", "FULL"} /\ k \in Index
      BY <1>4 DEF Kept, Entry
    <3>2. e.me_state = "FULL"
      <4>1. e.me_state # "DUMMY"
        BY <1>4, <1>7 DEF Kept
      <4>2. e.me_state # "NULL"
        BY <1>4, <1>7 DEF Kept, Null
      <4> QED
        BY <3>1, <4>1, <4>2
    <3> QED
      BY <1>4, <3>1, <3>2 DEF SlotsIn
  <2>2. Seen(d, n + 1) = Seen(d, n) \cup {n} /\ n \notin Seen(d, n)
    <3>1. \A j \in SlotsIn(d, "FULL") : j < n + 1 <=> j < n \/ j = n
      BY <1>1
    <3>2. n < n + 1 /\ ~(n < n)
      OBVIOUS
    <3> QED
      BY <1>7, <2>1, <3>1, <3>2 DEF Seen
  <2>3. /\ Cardinality(Seen(d, n + 1)) = Cardinality(Seen(d, n)) + 1
        /\ Cardinality(Seen(d, n)) \in Nat
        /\ Cardinality(Seen(d, n + 1)) <= F
    <3>1. /\ Seen(d, n) \in SUBSET SlotsIn(d, "FULL")
          /\ Seen(d, n + 1) \in SUBSET SlotsIn(d, "FULL")
      BY DEF Seen
    <3>2. IsFiniteSet(Seen(d, n)) /\ IsFiniteSet(Seen(d, n + 1))
      BY <1>1, <3>1, FS_Subset
    <3>3. Cardinality(Seen(d, n + 1)) <= F
      BY <1>1, <3>1, FS_Subset
    <3> QED
      BY <2>2, <3>2, <3>3, OneMoreLemma
  <2> HIDE DEF F
  <2>4. Cardinality(SlotsIn(w, "FULL")) < w.ma_used /\ HasFree(w)
    <3>1. PICK s, u : s = Cardinality(Seen(d, n)) /\ u = d.ma_used
      OBVIOUS
    <3>2. s \in Nat /\ s + 1 <= F /\ F \in Nat /\ F <= u /\ u \in Nat
          /\ u < newsize(d) /\ newsize(d) \in Nat
      BY <1>1, <2>3, <3>1
    <3>3. s < u /\ s + 0 < newsize(d)
      BY <3>2
    <3>4. Cardinality(SlotsIn(w, "DUMMY")) = 0
      BY <1>2, FS_EmptySet
    <3>5. Cardinality(SlotsIn(w, "FULL")) + Cardinality(SlotsIn(w, "DUMMY")) < w.dk_size
      BY <1>2, <3>1, <3>3, <3>4
    <3> QED
      BY <1>2, <3>1, <3>3, <3>5, CountLemma
  <2>5. \A i \in Marked(w) : w.entries[i].me_key # k
    <3>1. ASSUME NEW i \in Marked(w), w.entries[i].me_key = k
          PROVE  FALSE
      <4>1. i \in SlotsIn(w, "FULL")
        <5>1. Kept(w.entries[i]) /\ i \in Slots(w) /\ w.entries[i].me_state # "NULL"
          BY <1>2, FieldsLemma DEF Marked
        <5>2. i \notin SlotsIn(w, "DUMMY")
          BY <1>2
        <5> QED
          BY <5>1, <5>2 DEF SlotsIn, Kept, Entry
      <4>2. Holds(w, k, w.entries[i].me_value)
        BY <1>2, <3>1, <4>1 DEF Holds
      <4>3. PICK j \in Seen(d, n) : d.entries[j].me_key = k
        BY <1>3, <2>1, <4>2
      <4>4. j \in SlotsIn(d, "FULL")
        BY DEF Seen
      <4>5. lookup(d, k) = j /\ lookup(d, k) = n
        BY <1>1, <2>1, <4>3, <4>4, FoundLemma
      <4> QED
        BY <2>2, <4>5
    <3> QED
      BY <3>1
  <2>6. x = [w EXCEPT !.entries[findEmptySlot(w, k)] = e]
    BY <1>5, <1>7
  <2>7. /\ Laid(x)
        /\ x.dk_size = w.dk_size /\ x.ma_used = w.ma_used /\ x.ob_size = w.ob_size
        /\ x.dk_usable = w.dk_usable
        /\ SlotsIn(x, "DUMMY") = {}
        /\ Cardinality(SlotsIn(x, "FULL")) = Cardinality(SlotsIn(w, "FULL")) + 1
        /\ \A i \in Marked(x) : \/ i \in Marked(w) /\ x.entries[i] = w.entries[i]
                                \/ x.entries[i] = e
        /\ \A c \in Index : \A v : Holds(x, c, v) <=>
              Holds(w, c, v) \/ (c = k /\ v = e.me_value)
    <3> HIDE DEF e
    <3> QED
      BY <1>2, <1>4, <1>7, <2>1, <2>4, <2>5, <2>6, MovesEntry
  <2>8. Cardinality(SlotsIn(x, "FULL")) = Cardinality(Seen(d, n + 1))
    BY <1>2, <2>3, <2>7
  <2>9. \A i \in Marked(x) : x.entries[i].me_value # PPTR_NULL
    BY <1>2, <1>7, <2>7
  <2>10. \A c \in Index : \A v : Holds(x, c, v) <=>
          \E j \in Seen(d, n + 1) : d.entries[j].me_key = c /\ d.entries[j].me_value = v
    BY <1>3, <2>2, <2>7
  <2> QED
    BY <1>2, <2>7, <2>8, <2>9, <2>10 DEF Moving, x
<1> QED
  BY <1>6, <1>7

\* The fields that a resize sets last.
LEMMA AllowedLemma ==
    ASSUME NEW d, Laid(d), NEW a \in Nat
    PROVE  LET w == Allowed(d, a)
           IN  /\ Laid(w) /\ w.ob_size = d.ob_size /\ w.ma_used = d.ma_used
               /\ w.dk_size = d.dk_size /\ w.dk_usable = a /\ w.entries = d.entries
<1> DEFINE w == Allowed(d, a)
<1>1. /\ Block(d) /\ d = Tab(d.ob_size, d.ma_used, d.dk_size, d.dk_usable, d.entries)
      /\ d.ob_size \in Nat /\ d.ma_used \in Nat /\ d.entries \in [0..d.dk_size - 1 -> Entry]
  BY FieldsLemma, RecordLemma DEF Laid
<1>2. PICK o, u, size, b, E : /\ d = Tab(o, u, size, b, E)
                              /\ o = d.ob_size /\ u = d.ma_used /\ size = d.dk_size
                              /\ E = d.entries
  BY <1>1
<1>3. w = Tab(o, u, size, a, E)
  <2>1. d = Tab(o, u, size, b, E)
    BY <1>2
  <2> QED
    BY <2>1, TabExceptLemma
<1> HIDE DEF w
<1>4. /\ w.ob_size = o /\ w.ma_used = u /\ w.dk_size = size /\ w.dk_usable = a /\ w.entries = E
  BY <1>3, TabFields
<1>5. w \in TablesOf(size)
  <2>1. o \in Nat /\ u \in Nat /\ E \in [0..size - 1 -> Entry]
    BY <1>1, <1>2
  <2> QED
    BY <1>3, <2>1, TabLemma
<1>6. w.dk_size = d.dk_size /\ w.entries = d.entries /\ w.ob_size = d.ob_size /\ w.ma_used = d.ma_used
  BY <1>2, <1>4
<1>7. Slots(w) = Slots(d)
  BY <1>6 DEF Slots
<1>8. Block(w)
  BY <1>1, <1>2, <1>5, <1>6, <1>7 DEF Block
<1>9. SlotsIn(w, "FULL") = SlotsIn(d, "FULL") /\ Marked(w) = Marked(d)
  BY <1>6, <1>7 DEF SlotsIn, Marked
<1>10. \A key, i : OnPath(w, key, i) <=> OnPath(d, key, i)
  BY <1>6 DEF OnPath, Way
<1>11. Reachable(w)
  BY <1>6, <1>9, <1>10 DEF Reachable, Laid
<1>12. Laid(w)
  BY <1>6, <1>8, <1>9, <1>11 DEF Laid
<1> QED
  BY <1>4, <1>6, <1>12 DEF w

\* A resize keeps every value, forgets the indexes without one, and makes room.
LEMMA ResizeLemma ==
    ASSUME NEW d, Table(d), newsize(d) <= MaxSize
    PROVE  LET w == insertionResize(d)
           IN  /\ Table(w) /\ w.dk_usable > 0 /\ w.ob_size = d.ob_size
               /\ SlotsIn(w, "DUMMY") = {}
               /\ \A i \in Marked(w) : \E j \in Marked(d) :
                     w.entries[i].me_key = d.entries[j].me_key
               /\ \A c \in Index : \A x : Holds(w, c, x) <=> Holds(d, c, x)
<1> DEFINE size == d.dk_size
           r == Moved(d)[size]
           T == {n \in Nat : n <= size => Moving(d, Moved(d)[n], n)}
           w == insertionResize(d)
<1>1. /\ Block(d) /\ size \in Nat /\ d.ma_used \in Nat /\ Slots(d) = 0..size - 1
      /\ newsize(d) \in Sizes /\ d.ma_used < usableFraction(newsize(d))
      /\ usableFraction(newsize(d)) \in Nat
  BY TableLemma, FieldsLemma, UsableLemma
<1>2. T = Nat
  <2>1. 0 \in T
    BY <1>1, MovedLemma, MovingStarts
  <2>2. ASSUME NEW n \in T
        PROVE  n + 1 \in T
    <3>1. CASE n + 1 <= size
      <4>1. n < size /\ n \in 0..size - 1 /\ n <= size /\ n \in Nat
        BY <1>1, <3>1
      <4>2. Moving(d, Moved(d)[n], n)
        BY <4>1
      <4>3. Moving(d, MoveOne(d, n + 1, Moved(d)[n]), n + 1)
        BY <4>1, <4>2, MovingLemma
      <4>4. Moved(d)[n + 1] = MoveOne(d, n + 1, Moved(d)[n])
        BY <1>1, <4>1, MovedLemma
      <4> QED
        BY <4>3, <4>4
    <3>2. CASE ~(n + 1 <= size)
      BY <3>2
    <3> QED
      BY <3>1, <3>2
  <2>3. T \in SUBSET Nat
    OBVIOUS
  <2> HIDE DEF T
  <2> QED
    BY <2>1, <2>2, <2>3, SetInduction
<1>3. Moving(d, r, size)
  BY <1>1, <1>2
<1>4. w = [r EXCEPT !.dk_usable = r.dk_usable - d.ma_used]
  BY DEF insertionResize
<1> HIDE DEF r, w
<1>5. /\ Laid(r) /\ Block(r) /\ r.dk_size = newsize(d)
      /\ r.ma_used = d.ma_used /\ r.ob_size = d.ob_size
      /\ r.dk_usable = usableFraction(newsize(d))
      /\ SlotsIn(r, "DUMMY") = {}
      /\ \A i \in Marked(r) : r.entries[i].me_value # PPTR_NULL
      /\ \A key \in Index : \A x : Holds(r, key, x) <=>
            \E j \in Seen(d, size) : d.entries[j].me_key = key /\ d.entries[j].me_value = x
  BY <1>3 DEF Moving, Laid
<1>6. PICK a : a = usableFraction(newsize(d)) - d.ma_used
  OBVIOUS
<1>7. a \in Nat /\ a > 0 /\ a + d.ma_used = usableFraction(newsize(d)) /\ d.ma_used \in Nat
  <2>1. PICK f, u : f = usableFraction(newsize(d)) /\ u = d.ma_used
    OBVIOUS
  <2>2. f \in Nat /\ u \in Nat /\ u < f /\ a = f - u
    BY <1>1, <1>6, <2>1
  <2>3. a \in Nat /\ a > 0 /\ a + u = f
    BY <2>2
  <2> QED
    BY <1>1, <2>1, <2>3
<1>8. w = Allowed(r, a)
  BY <1>4, <1>5, <1>6 DEF Allowed
<1>9. /\ Laid(w) /\ w.ob_size = r.ob_size /\ w.ma_used = r.ma_used
      /\ w.dk_size = r.dk_size /\ w.dk_usable = a /\ w.entries = r.entries
  BY <1>5, <1>7, <1>8, AllowedLemma
<1>10. /\ SlotsIn(w, "DUMMY") = {} /\ SlotsIn(w, "FULL") = SlotsIn(r, "FULL")
       /\ Marked(w) = Marked(r)
  BY <1>5, <1>9 DEF SlotsIn, Slots, Marked
<1>11. Table(w)
  <2>1. Cardinality(SlotsIn(w, "DUMMY")) = 0
    BY <1>10, FS_EmptySet
  <2>2. w.dk_usable + w.ma_used + 0 = usableFraction(w.dk_size)
    BY <1>5, <1>7, <1>9
  <2> QED
    BY <1>9, <2>1, <2>2 DEF Table
<1>12. \A c, x : Holds(w, c, x) <=> Holds(r, c, x)
  BY <1>9, <1>10 DEF Holds
<1>13. \A j \in SlotsIn(d, "FULL") : j < size
  BY <1>1 DEF SlotsIn
<1>14. ASSUME NEW c \in Index, NEW x
       PROVE  Holds(w, c, x) <=> Holds(d, c, x)
  BY <1>5, <1>12, <1>13 DEF Holds, Seen
<1>15. ASSUME NEW i \in Marked(w)
       PROVE  \E j \in Marked(d) : w.entries[i].me_key = d.entries[j].me_key
  <2> DEFINE e == w.entries[i]
  <2>1. /\ i \in Marked(r) /\ r.entries[i] = e /\ e.me_value # PPTR_NULL
        /\ i \in Slots(r) /\ e.me_state # "NULL" /\ Kept(e)
    BY <1>5, <1>9, <1>10, FieldsLemma DEF Marked
  <2>2. e.me_state = "FULL" /\ e.me_key \in Index
    BY <2>1 DEF Kept, Entry
  <2>3. Holds(r, e.me_key, e.me_value)
    BY <2>1, <2>2 DEF Holds, SlotsIn
  <2>4. \E j \in Seen(d, size) : d.entries[j].me_key = e.me_key
    BY <1>5, <2>2, <2>3
  <2>5. Seen(d, size) \subseteq Marked(d)
    BY DEF Seen, SlotsIn, Marked
  <2> QED
    BY <2>4, <2>5
<1> QED
  BY <1>5, <1>7, <1>9, <1>10, <1>11, <1>14, <1>15 DEF w

\* Nothing has been deleted from the table, and its indexes are below n.
Fresh(d, n) ==
    /\ SlotsIn(d, "DUMMY") = {}
    /\ \A i \in Marked(d) : d.entries[i].me_key < n

\* What setProperty() makes of a table, when it is done.
Sets(d, w, key, v) ==
    /\ Table(w) /\ w.ob_size >= d.ob_size
    /\ Puts1(d, w, key, v)
    /\ (\E y : Holds(d, key, y)) \/ w.ob_size >= key + 1
    /\ w.ob_size \in {d.ob_size, key + 1}
    /\ Fresh(d, key) => Fresh(w, key + 1)

\* The ways in which an operation ends.
LEMMA EndsLemma ==
    ASSUME NEW d
    PROVE  /\ Done(d).dict = d /\ Done(d).ends = "done"
           /\ Throws(d).dict = d /\ Throws(d).ends = "throws"
           /\ Asserts(d).dict = d /\ Asserts(d).ends = "asserts"
           /\ Beyond(d).dict = d /\ Beyond(d).ends = "beyond"
  BY DEF Done, Throws, Asserts, Beyond

\* A new entry in d or in what a resize makes of it.
LEMMA SetsNew ==
    ASSUME NEW d, Table(d), NEW key \in Index, NEW v \in Item,
           \A i \in Marked(d) : d.entries[i].me_key # key,
           NEW b, Table(b), b.dk_usable > 0, b.ob_size = d.ob_size,
           SlotsIn(d, "DUMMY") = {} => SlotsIn(b, "DUMMY") = {},
           \A i \in Marked(b) : \E j \in Marked(d) : b.entries[i].me_key = d.entries[j].me_key,
           \A c \in Index : \A x : Holds(b, c, x) <=> Holds(d, c, x)
    PROVE  Sets(d, Inserted(b, key, v), key, v)
<1> DEFINE w == Inserted(b, key, v)
<1>1. \A i \in Marked(b) : b.entries[i].me_key # key
  OBVIOUS
<1>2. /\ Table(w) /\ w.ob_size >= b.ob_size /\ w.ob_size >= key + 1
      /\ w.ob_size \in {b.ob_size, key + 1}
      /\ Puts1(b, w, key, v)
      /\ SlotsIn(w, "DUMMY") = SlotsIn(b, "DUMMY")
      /\ \A i \in Marked(w) :
            \/ w.entries[i].me_key = key
            \/ i \in Marked(b) /\ w.entries[i].me_key = b.entries[i].me_key
  BY <1>1, InsertedLemma
<1> HIDE DEF w
<1>3. Puts1(d, w, key, v)
  BY <1>2 DEF Puts1
<1>4. Fresh(d, key) => Fresh(w, key + 1)
  <2> SUFFICES ASSUME Fresh(d, key)
               PROVE  Fresh(w, key + 1)
    OBVIOUS
  <2>1. ASSUME NEW i \in Marked(w)
        PROVE  w.entries[i].me_key < key + 1
    <3>1. key \in Nat /\ Index \subseteq Nat
      BY DEF Index
    <3>2. CASE w.entries[i].me_key = key
      BY <3>1, <3>2
    <3>3. CASE i \in Marked(b) /\ w.entries[i].me_key = b.entries[i].me_key
      <4>1. PICK j \in Marked(d) : w.entries[i].me_key = d.entries[j].me_key
        BY <3>3
      <4>2. d.entries[j].me_key < key
        BY DEF Fresh
      <4>3. d.entries[j].me_key \in Nat
        BY <3>1, TableLemma, FieldsLemma DEF Marked, Kept, Entry
      <4>4. PICK k : k = d.entries[j].me_key
        OBVIOUS
      <4>5. k < key + 1
        BY <3>1, <4>2, <4>3, <4>4
      <4> QED
        BY <4>1, <4>4, <4>5
    <3> QED
      BY <1>2, <3>2, <3>3
  <2>2. SlotsIn(w, "DUMMY") = {}
    BY <1>2 DEF Fresh
  <2> QED
    BY <2>1, <2>2 DEF Fresh
<1> QED
  BY <1>2, <1>3, <1>4 DEF Sets, w

\* setProperty() is done and sets its index alone, or leaves the table as it was; and
\* nothing but the bound is in the way of an index beyond those of a table that
\* nothing has been deleted from.
LEMMA SetPropertyLemma ==
    ASSUME NEW d, Table(d), NEW key \in Index, NEW v \in Item
    PROVE  LET r == setProperty(d, key, v)
           IN  /\ r.ends \in {"done", "throws", "asserts", "beyond"}
               /\ r.ends = "done" => Sets(d, r.dict, key, v)
               /\ r.ends # "done" => r.dict = d
               /\ Fresh(d, key) => r.ends \in {"done", "beyond"}
<1> DEFINE r == setProperty(d, key, v)
           ep == lookup(d, key)
           e == d.entries[ep]
<1>1. Block(d) /\ HasFree(d) /\ Reachable(d)
  BY TableLemma
<1>2. /\ ep \in Slots(d) /\ Kept(e)
      /\ e.me_state \in {"NULL", "DUMMY", "FULL"}
      /\ e.me_state = "DUMMY" => \E i \in Slots(d) : d.entries[i].me_state = "DUMMY"
      /\ e.me_state = "FULL" => e.me_key = key
  BY <1>1, LookupFree, FieldsLemma
<1>3. r = CASE e.me_value # PPTR_NULL -> Done([d EXCEPT !.entries[ep].me_value = v])
            [] e.me_state = "NULL" ->
                 IF d.dk_usable > 0 THEN Done(Inserted(d, key, v))
                 ELSE IF newsize(d) <= MaxSize THEN Done(Inserted(insertionResize(d), key, v))
                 ELSE Beyond(d)
            [] e.me_state = "DUMMY" -> Asserts(d)
            [] OTHER -> Throws(d)
  BY DEF setProperty
<1> HIDE DEF r, ep
<1>4. e.me_state # "FULL" => e.me_value = PPTR_NULL
  BY <1>2 DEF Kept, Null
<1>5. Fresh(d, key) => e.me_state = "NULL"
  <2> SUFFICES ASSUME Fresh(d, key), e.me_state # "NULL"
               PROVE  FALSE
    OBVIOUS
  <2>1. e.me_state = "FULL"
    BY <1>2 DEF Fresh, SlotsIn
  <2>2. ep \in Marked(d) /\ e.me_key = key
    BY <1>2, <2>1 DEF Marked
  <2>3. key < key /\ key \in Nat
    BY <2>2 DEF Fresh, Index
  <2> QED
    BY <2>3
<1>6. CASE e.me_value # PPTR_NULL
  <2> DEFINE w == [d EXCEPT !.entries[ep].me_value = v]
  <2>1. e.me_state = "FULL" /\ e.me_key = key
    BY <1>2, <1>4, <1>6
  <2>2. ep \in SlotsIn(d, "FULL")
    BY <1>2, <2>1 DEF SlotsIn
  <2>3. Table(w) /\ w.ob_size = d.ob_size /\ Puts1(d, w, key, v)
    BY <2>1, <2>2, ReplacedLemma
  <2>4. Holds(d, key, e.me_value)
    BY <1>6, <2>1, <2>2 DEF Holds
  <2>5. r = Done(w)
    <3>1. e.me_state # "NULL" /\ e.me_state # "DUMMY"
      BY <2>1
    <3> HIDE DEF e
    <3> QED
      BY <1>3, <1>6, <3>1
  <2>6. ~Fresh(d, key)
    BY <1>5, <2>1
  <2> HIDE DEF w
  <2>7. w.ob_size >= d.ob_size
    BY <1>1, <2>3, FieldsLemma
  <2> QED
    BY <2>3, <2>4, <2>5, <2>6, <2>7, EndsLemma DEF Sets, r
<1>7. CASE e.me_state = "NULL"
  <2>1. e.me_value = PPTR_NULL
    BY <1>4, <1>7
  <2>2. \A i \in Marked(d) : d.entries[i].me_key # key
    BY <1>1, <1>7, FoundLemma DEF ep
  <2>3. r = IF d.dk_usable > 0 THEN Done(Inserted(d, key, v))
            ELSE IF newsize(d) <= MaxSize THEN Done(Inserted(insertionResize(d), key, v))
            ELSE Beyond(d)
    <3> HIDE DEF e
    <3> QED
      BY <1>3, <1>7, <2>1
  <2> HIDE DEF e
  <2>4. CASE d.dk_usable > 0
    <3>1. Sets(d, Inserted(d, key, v), key, v)
      <4>1. PICK b : b = d
        OBVIOUS
      <4>2. Sets(d, Inserted(b, key, v), key, v)
        BY <2>2, <2>4, <4>1, SetsNew
      <4> QED
        BY <4>1, <4>2
    <3> QED
      BY <2>3, <2>4, <3>1, EndsLemma DEF r
  <2>5. CASE ~(d.dk_usable > 0) /\ newsize(d) <= MaxSize
    <3>1. PICK b : b = insertionResize(d)
      OBVIOUS
    <3>2. /\ Table(b) /\ b.dk_usable > 0 /\ b.ob_size = d.ob_size
          /\ SlotsIn(b, "DUMMY") = {}
          /\ \A i \in Marked(b) : \E j \in Marked(d) :
                b.entries[i].me_key = d.entries[j].me_key
          /\ \A c \in Index : \A x : Holds(b, c, x) <=> Holds(d, c, x)
      BY <2>5, <3>1, ResizeLemma
    <3>3. Sets(d, Inserted(b, key, v), key, v)
      BY <2>2, <3>2, SetsNew
    <3> QED
      BY <2>3, <2>5, <3>1, <3>3, EndsLemma DEF r
  <2>6. CASE ~(d.dk_usable > 0) /\ ~(newsize(d) <= MaxSize)
    BY <2>3, <2>6, EndsLemma DEF r
  <2> QED
    BY <2>4, <2>5, <2>6
<1>8. CASE e.me_value = PPTR_NULL /\ e.me_state # "NULL"
  <2>1. r = Asserts(d) \/ r = Throws(d)
    <3> HIDE DEF e
    <3> QED
      BY <1>3, <1>8
  <2>2. ~Fresh(d, key)
    BY <1>5, <1>8
  <2> QED
    BY <2>1, <2>2, EndsLemma DEF r
<1> QED
  BY <1>6, <1>7, <1>8

-----------------------------------------------------------------------------
(* One setProperty() after the other. *)

SetOne(values, n, r) ==
    IF n - 1 \in DOMAIN values /\ r.ends = "done"
    THEN setProperty(r.dict, n - 1, values[n - 1])
    ELSE r

\* The loop ends, and goes from one table to the next as SetOne says.
LEMMA SettingLemma ==
    ASSUME NEW d, NEW values
    PROVE  /\ Setting(d, values)[0] = Done(d)
           /\ \A n \in Index : Setting(d, values)[n + 1] = SetOne(values, n + 1, Setting(d, values)[n])
<1> DEFINE A == Done(d)
           Builds(g, n) == g = [i \in 0..n |-> IF i = 0 THEN A ELSE SetOne(values, i, g[i - 1])]
           S == {n \in Nat : \E g : Builds(g, n)}
<1> HIDE DEF A
<1>1. 0 \in S
  <2>1. \A g : g = [i \in 0..0 |-> A] => Builds(g, 0)
    OBVIOUS
  <2> QED
    BY <2>1
<1>2. ASSUME NEW n \in S
      PROVE  n + 1 \in S
  <2>1. PICK g : Builds(g, n)
    OBVIOUS
  <2>2. PICK x : x = SetOne(values, n + 1, g[n])
    OBVIOUS
  <2>3. PICK h : h = [i \in 0..n + 1 |-> IF i = n + 1 THEN x ELSE g[i]]
    OBVIOUS
  <2>4. \A i \in 0..n : h[i] = g[i]
    BY <2>3
  <2>5. ASSUME NEW i \in 0..n + 1
        PROVE  h[i] = IF i = 0 THEN A ELSE SetOne(values, i, h[i - 1])
    <3>1. CASE i = n + 1
      <4>1. h[i] = x /\ i - 1 = n /\ n \in 0..n /\ i # 0
        BY <2>3, <3>1
      <4>2. h[i - 1] = g[n]
        BY <2>4, <4>1
      <4> QED
        BY <2>2, <3>1, <4>1, <4>2
    <3>2. CASE i # n + 1
      <4>1. i \in 0..n /\ h[i] = g[i]
        BY <2>4, <3>2
      <4>2. i # 0 => i - 1 \in 0..n
        BY <4>1
      <4>3. i # 0 => h[i - 1] = g[i - 1]
        BY <2>4, <4>2
      <4>4. g[i] = IF i = 0 THEN A ELSE SetOne(values, i, g[i - 1])
        BY <2>1, <4>1
      <4> QED
        BY <4>1, <4>3, <4>4
    <3> QED
      BY <3>1, <3>2
  <2>6. Builds(h, n + 1)
    BY <2>3, <2>5
  <2> QED
    BY <2>6
<1>3. \E g : Builds(g, MaxLength)
  <2>1. S = Nat
    <3>1. S \in SUBSET Nat
      OBVIOUS
    <3> HIDE DEF S
    <3> QED
      BY <1>1, <1>2, <3>1, SetInduction
  <2>2. MaxLength \in Nat
    BY NumDictAssumption
  <2> QED
    BY <2>1, <2>2
<1>4. Setting(d, values) = CHOOSE g : Builds(g, MaxLength)
  BY DEF Setting, SetOne, A
<1>5. Builds(Setting(d, values), MaxLength)
  <2> HIDE DEF Builds
  <2> QED
    BY <1>3, <1>4
<1>6. MaxLength \in Nat
  BY NumDictAssumption
<1>7. Setting(d, values)[0] = A
  BY <1>5, <1>6
<1>8. \A n \in Index : n + 1 \in 0..MaxLength /\ n + 1 # 0 /\ (n + 1) - 1 = n
  BY <1>6 DEF Index
<1>9. \A n \in Index : Setting(d, values)[n + 1] = SetOne(values, n + 1, Setting(d, values)[n])
  BY <1>5, <1>8
<1> QED
  BY <1>7, <1>9 DEF A

\* What the indexes below n that have had their turn make of a table.
Upto(d, values, w, n) ==
    /\ Table(w) /\ w.ob_size >= d.ob_size
    /\ w.ob_size = d.ob_size \/ w.ob_size <= n
    /\ \A c \in Index : \A x : Holds(w, c, x) <=>
          IF c < n /\ c \in DOMAIN values THEN x = values[c] /\ x # PPTR_NULL
          ELSE Holds(d, c, x)

\* How it stands then; an exception leaves what those before it have made.
SetBelow(d, values, r, n) ==
    /\ r.ends \in {"done", "throws", "asserts", "beyond"}
    /\ r.ends = "throws" => \E m \in Nat : Upto(d, values, r.dict, m)
    /\ r.ends = "done" =>
          /\ Upto(d, values, r.dict, n)
          /\ \A c \in Index : c < n /\ c \in DOMAIN values
                => (\E y : Holds(d, c, y)) \/ r.dict.ob_size >= c + 1
          /\ Fresh(d, 0) => Fresh(r.dict, n)
    /\ Fresh(d, 0) => r.ends \in {"done", "beyond"}

\* One round of the loop.
LEMMA SetOneLemma ==
    ASSUME NEW d, Table(d), NEW values, \A i \in DOMAIN values : values[i] \in Item,
           NEW n \in Index, NEW r, SetBelow(d, values, r, n)
    PROVE  SetBelow(d, values, SetOne(values, n + 1, r), n + 1)
<1> DEFINE s == SetOne(values, n + 1, r)
<1>1. n \in Nat /\ Index \subseteq Nat
  BY DEF Index
<1>2. \A c \in Index : c < n + 1 <=> c < n \/ c = n
  BY <1>1
<1>3. s = IF n \in DOMAIN values /\ r.ends = "done"
          THEN setProperty(r.dict, n, values[n]) ELSE r
  <2>1. (n + 1) - 1 = n
    BY <1>1
  <2> QED
    BY <2>1 DEF SetOne
<1> HIDE DEF s
<1>4. CASE ~(r.ends = "done")
  <2>1. s = r
    BY <1>3, <1>4
  <2> QED
    BY <1>4, <2>1 DEF SetBelow, s
<1>5. CASE r.ends = "done" /\ n \notin DOMAIN values
  <2>1. s = r
    BY <1>3, <1>5
  <2>2. \A c \in Index : c < n + 1 /\ c \in DOMAIN values <=> c < n /\ c \in DOMAIN values
    BY <1>2, <1>5
  <2>3. Fresh(r.dict, n) => Fresh(r.dict, n + 1)
    <3> SUFFICES ASSUME Fresh(r.dict, n), NEW i \in Marked(r.dict)
                 PROVE  r.dict.entries[i].me_key < n + 1
      BY DEF Fresh
    <3>1. Table(r.dict)
      BY <1>5 DEF SetBelow, Upto
    <3>2. r.dict.entries[i].me_key \in Nat
      BY <1>1, <3>1, TableLemma, FieldsLemma DEF Marked, Kept, Entry
    <3>3. r.dict.entries[i].me_key < n
      BY DEF Fresh
    <3> QED
      BY <1>1, <3>2, <3>3
  <2>4. Upto(d, values, r.dict, n + 1)
    <3>1. PICK o, p : o = d.ob_size /\ p = r.dict.ob_size
      OBVIOUS
    <3>2. p = o \/ p <= n
      BY <1>5, <3>1 DEF SetBelow, Upto
    <3>3. o \in Nat /\ p \in Nat
      BY <1>5, <3>1, TableLemma, FieldsLemma DEF SetBelow, Upto
    <3>4. p = o \/ p <= n + 1
      BY <1>1, <3>2, <3>3
    <3> QED
      BY <1>5, <2>2, <3>1, <3>4 DEF SetBelow, Upto
  <2> QED
    BY <1>5, <2>1, <2>2, <2>3, <2>4 DEF SetBelow, s
<1>6. CASE r.ends = "done" /\ n \in DOMAIN values
  <2> DEFINE b == r.dict
             v == values[n]
             w == s.dict
  <2>1. s = setProperty(b, n, v)
    BY <1>3, <1>6
  <2>2. /\ Table(b) /\ b.ob_size >= d.ob_size
        /\ b.ob_size = d.ob_size \/ b.ob_size <= n
        /\ \A c \in Index : \A x : Holds(b, c, x) <=>
              IF c < n /\ c \in DOMAIN values THEN x = values[c] /\ x # PPTR_NULL
              ELSE Holds(d, c, x)
        /\ \A c \in Index : c < n /\ c \in DOMAIN values
              => (\E y : Holds(d, c, y)) \/ b.ob_size >= c + 1
        /\ Fresh(d, 0) => Fresh(b, n)
    BY <1>6 DEF SetBelow, Upto
  <2>3. v \in Item
    BY <1>6
  <2> HIDE DEF b, v
  <2>4. /\ s.ends \in {"done", "throws", "asserts", "beyond"}
        /\ s.ends = "done" => Sets(b, s.dict, n, v)
        /\ s.ends # "done" => s.dict = b
        /\ Fresh(b, n) => s.ends \in {"done", "beyond"}
    BY <2>1, <2>2, <2>3, SetPropertyLemma
  <2>5. ASSUME s.ends = "done"
        PROVE  /\ Table(w) /\ w.ob_size >= d.ob_size
               /\ w.ob_size = d.ob_size \/ w.ob_size <= n + 1
               /\ \A c \in Index : \A x : Holds(w, c, x) <=>
                     IF c < n + 1 /\ c \in DOMAIN values THEN x = values[c] /\ x # PPTR_NULL
                     ELSE Holds(d, c, x)
               /\ \A c \in Index : c < n + 1 /\ c \in DOMAIN values
                     => (\E y : Holds(d, c, y)) \/ w.ob_size >= c + 1
               /\ Fresh(d, 0) => Fresh(w, n + 1)
    <3>1. /\ Table(w) /\ w.ob_size >= b.ob_size /\ Puts1(b, w, n, v)
          /\ (\E y : Holds(b, n, y)) \/ w.ob_size >= n + 1
          /\ w.ob_size \in {b.ob_size, n + 1}
          /\ Fresh(b, n) => Fresh(w, n + 1)
      BY <2>4, <2>5 DEF Sets
    <3> HIDE DEF w
    <3>2. b.ob_size \in Nat /\ w.ob_size \in Nat
      BY <2>2, <3>1, TableLemma, FieldsLemma
    <3>3. ASSUME NEW c \in Index, NEW x
          PROVE  Holds(w, c, x) <=>
                   IF c < n + 1 /\ c \in DOMAIN values THEN x = values[c] /\ x # PPTR_NULL
                   ELSE Holds(d, c, x)
      <4>1. CASE c = n
        <5>1. c < n + 1 /\ c \in DOMAIN values /\ v = values[c]
          BY <1>1, <1>6, <4>1 DEF v
        <5> QED
          BY <3>1, <4>1, <5>1 DEF Puts1
      <4>2. CASE c # n
        <5>1. c < n + 1 <=> c < n
          BY <1>2, <4>2
        <5>2. Holds(w, c, x) <=> Holds(b, c, x)
          BY <3>1, <4>2 DEF Puts1
        <5> QED
          BY <2>2, <5>1, <5>2
      <4> QED
        BY <4>1, <4>2
    <3>4. ASSUME NEW c \in Index, c < n + 1, c \in DOMAIN values
          PROVE  (\E y : Holds(d, c, y)) \/ w.ob_size >= c + 1
      <4>1. CASE c = n
        <5>1. ~(n < n)
          BY <1>1
        <5>2. \A y : Holds(b, n, y) => Holds(d, n, y)
          BY <2>2, <5>1
        <5> QED
          BY <3>1, <4>1, <5>2
      <4>2. CASE c # n
        <5>1. c < n /\ c \in Nat
          BY <1>1, <1>2, <3>4, <4>2
        <5>2. (\E y : Holds(d, c, y)) \/ b.ob_size >= c + 1
          BY <2>2, <3>4, <5>1
        <5>3. b.ob_size >= c + 1 => w.ob_size >= c + 1
          <6>1. PICK p, q : p = b.ob_size /\ q = w.ob_size
            OBVIOUS
          <6>2. p \in Nat /\ q \in Nat /\ q >= p
            BY <3>1, <3>2, <6>1
          <6>3. p >= c + 1 => q >= c + 1
            BY <5>1, <6>2
          <6> QED
            BY <6>1, <6>3
        <5> QED
          BY <5>2, <5>3
      <4> QED
        BY <4>1, <4>2
    <3>5. w.ob_size >= d.ob_size
      <4>1. d.ob_size \in Nat
        BY TableLemma, FieldsLemma
      <4>2. PICK p, q, o : p = b.ob_size /\ q = w.ob_size /\ o = d.ob_size
        OBVIOUS
      <4>3. p \in Nat /\ q \in Nat /\ o \in Nat /\ q >= p /\ p >= o
        BY <2>2, <3>1, <3>2, <4>1, <4>2
      <4>4. q >= o
        BY <4>3
      <4> QED
        BY <4>2, <4>4
    <3>6. w.ob_size = d.ob_size \/ w.ob_size <= n + 1
      <4>1. PICK p, q, o : p = b.ob_size /\ q = w.ob_size /\ o = d.ob_size
        OBVIOUS
      <4>2. p \in Nat /\ q \in {p, n + 1} /\ (p = o \/ p <= n)
        BY <2>2, <3>1, <3>2, <4>1
      <4>3. q = o \/ q <= n + 1
        BY <1>1, <4>2
      <4> QED
        BY <4>1, <4>3
    <3> QED
      BY <2>2, <3>1, <3>3, <3>4, <3>5, <3>6
  <2>6. s.ends = "throws" => Upto(d, values, s.dict, n)
    BY <2>2, <2>4 DEF Upto
  <2>7. s.ends = "done" => Upto(d, values, s.dict, n + 1)
    BY <2>5 DEF Upto
  <2> HIDE DEF w
  <2> QED
    BY <1>1, <2>2, <2>4, <2>5, <2>6, <2>7 DEF SetBelow, s, w
<1> QED
  BY <1>4, <1>5, <1>6

\* The whole loop.
LEMMA SettingTable ==
    ASSUME NEW d, Table(d), NEW values, \A i \in DOMAIN values : values[i] \in Item
    PROVE  SetBelow(d, values, Setting(d, values)[MaxLength], MaxLength)
<1> DEFINE T == {n \in Nat : n <= MaxLength => SetBelow(d, values, Setting(d, values)[n], n)}
<1>0. MaxLength \in Nat
  BY NumDictAssumption
<1>1. 0 \in T
  <2> DEFINE r == Setting(d, values)[0]
  <2>1. r.ends = "done" /\ r.dict = d
    BY SettingLemma, EndsLemma
  <2> HIDE DEF r
  <2>2. \A c \in Index : ~(c < 0)
    BY DEF Index
  <2>3. d.ob_size >= d.ob_size
    BY TableLemma, FieldsLemma
  <2>4. SetBelow(d, values, r, 0)
    BY <2>1, <2>2, <2>3 DEF SetBelow, Upto
  <2> QED
    BY <2>4 DEF r
<1>2. ASSUME NEW n \in T
      PROVE  n + 1 \in T
  <2>1. CASE n + 1 <= MaxLength
    <3>1. n \in Index /\ n <= MaxLength
      BY <1>0, <2>1 DEF Index
    <3>2. SetBelow(d, values, Setting(d, values)[n], n)
      BY <3>1
    <3>3. SetBelow(d, values, SetOne(values, n + 1, Setting(d, values)[n]), n + 1)
      BY <3>1, <3>2, SetOneLemma
    <3>4. Setting(d, values)[n + 1] = SetOne(values, n + 1, Setting(d, values)[n])
      BY <3>1, SettingLemma
    <3> QED
      BY <3>3, <3>4
  <2>2. CASE ~(n + 1 <= MaxLength)
    BY <2>2
  <2> QED
    BY <2>1, <2>2
<1>3. T = Nat
  <2>1. T \in SUBSET Nat
    OBVIOUS
  <2> HIDE DEF T
  <2> QED
    BY <1>1, <1>2, <2>1, SetInduction
<1> QED
  BY <1>0, <1>3

-----------------------------------------------------------------------------
(* The operations on a sound table. *)

\* A table of another length.
LEMMA SizedLemma ==
    ASSUME NEW d, Table(d), NEW n \in Nat, n <= MaxLength
    PROVE  LET w == Sized(d, n)
           IN  /\ Table(w) /\ w.ob_size = n
               /\ \A c, x : Holds(w, c, x) <=> Holds(d, c, x)
<1> DEFINE w == Sized(d, n)
<1>1. /\ Block(d) /\ d = Tab(d.ob_size, d.ma_used, d.dk_size, d.dk_usable, d.entries)
      /\ d.dk_usable \in Nat /\ d.ma_used \in Nat /\ d.entries \in [0..d.dk_size - 1 -> Entry]
  BY FieldsLemma, RecordLemma DEF Table, Laid
<1>2. PICK o, u, size, b, E : /\ d = Tab(o, u, size, b, E)
                              /\ b = d.dk_usable /\ u = d.ma_used /\ size = d.dk_size
                              /\ E = d.entries
  BY <1>1
<1>3. w = Tab(n, u, size, b, E)
  <2>1. d = Tab(o, u, size, b, E)
    BY <1>2
  <2> QED
    BY <2>1, TabExceptLemma
<1> HIDE DEF w
<1>4. /\ w.ob_size = n /\ w.ma_used = u /\ w.dk_size = size /\ w.dk_usable = b /\ w.entries = E
  BY <1>3, TabFields
<1>5. w \in TablesOf(size)
  <2>1. b \in Nat /\ u \in Nat /\ E \in [0..size - 1 -> Entry]
    BY <1>1, <1>2
  <2> QED
    BY <1>3, <2>1, TabLemma
<1>6. /\ w.dk_size = d.dk_size /\ w.entries = d.entries /\ w.dk_usable = d.dk_usable
      /\ w.ma_used = d.ma_used
  BY <1>2, <1>4
<1>7. Slots(w) = Slots(d)
  BY <1>6 DEF Slots
<1>8. Block(w)
  BY <1>1, <1>2, <1>5, <1>6, <1>7 DEF Block
<1>9. /\ SlotsIn(w, "FULL") = SlotsIn(d, "FULL") /\ Marked(w) = Marked(d)
      /\ SlotsIn(w, "DUMMY") = SlotsIn(d, "DUMMY")
  BY <1>6, <1>7 DEF SlotsIn, Marked
<1>10. \A key, i : OnPath(w, key, i) <=> OnPath(d, key, i)
  BY <1>6 DEF OnPath, Way
<1>11. Reachable(w)
  BY <1>6, <1>9, <1>10 DEF Reachable, Laid, Table
<1>12. Laid(w)
  BY <1>4, <1>6, <1>8, <1>9, <1>11 DEF Laid, Table
<1>13. Table(w)
  BY <1>6, <1>9, <1>12 DEF Table
<1>14. \A c, x : Holds(w, c, x) <=> Holds(d, c, x)
  BY <1>6, <1>9 DEF Holds
<1> QED
  BY <1>4, <1>13, <1>14 DEF w

\* A new table is empty.
LEMMA NewNumDictLemma ==
    LET d == NewNumDict
    IN  /\ Table(d) /\ d.ob_size = 0 /\ Fresh(d, 0)
        /\ \A c, x : ~Holds(d, c, x)
<1>1. PICK n : n = MIN_SIZE_COMBINED
  OBVIOUS
<1>2. n \in Sizes /\ n <= MaxSize
  BY <1>1, SizeAssumption DEF Sizes, MIN_SIZE_COMBINED
<1>3. PICK b : b = Tab(0, 0, 0, 0, <<>>)
  OBVIOUS
<1>4. NewNumDict = newKeysObject(b, n)
  BY <1>1, <1>3 DEF NewNumDict, Tab
<1>5. 0 <= MaxLength
  BY NumDictAssumption
<1>6. PICK d : d = newKeysObject(b, n)
  OBVIOUS
<1>7. /\ Laid(d) /\ d.dk_size = n /\ d.ma_used = 0 /\ d.ob_size = 0
      /\ d.dk_usable = usableFraction(n)
      /\ SlotsIn(d, "FULL") = {} /\ SlotsIn(d, "DUMMY") = {} /\ Marked(d) = {}
  <2>1. 0 \in Nat
    OBVIOUS
  <2>2. LET w == newKeysObject(b, n)
        IN  /\ Laid(w) /\ w.dk_size = n /\ w.ma_used = 0 /\ w.ob_size = 0
            /\ w.dk_usable = usableFraction(n)
            /\ SlotsIn(w, "FULL") = {} /\ SlotsIn(w, "DUMMY") = {} /\ Marked(w) = {}
    BY <1>2, <1>3, <1>5, <2>1, NewKeysLemma
  <2> QED
    BY <1>6, <2>2
<1>8. Table(d)
  <2>1. Cardinality(SlotsIn(d, "DUMMY")) = 0
    BY <1>7, FS_EmptySet
  <2>2. usableFraction(n) \in Nat
    BY <1>2, UsableLemma
  <2>3. d.dk_usable + d.ma_used + 0 = usableFraction(d.dk_size)
    BY <1>7, <2>2
  <2> QED
    BY <1>7, <2>1, <2>3 DEF Table
<1>9. Fresh(d, 0) /\ \A c, x : ~Holds(d, c, x)
  BY <1>7 DEF Fresh, Holds
<1> QED
  BY <1>4, <1>6, <1>7, <1>8, <1>9

\* Reading finds the value of an index below the length, when it has one.
LEMMA GetPropertyLemma ==
    ASSUME NEW d, Table(d), NEW key \in Index, NEW x \in Val
    PROVE  getProperty(d, key) = x <=> key < d.ob_size /\ Holds(d, key, x)
<1> DEFINE ep == lookup(d, key)
           e == d.entries[ep]
<1>1. Block(d) /\ HasFree(d) /\ Reachable(d)
  BY TableLemma
<1>2. /\ ep \in Slots(d) /\ Kept(e)
      /\ e.me_state \in {"NULL", "DUMMY", "FULL"}
      /\ e.me_state = "FULL" => e.me_key = key
  BY <1>1, LookupFree, FieldsLemma
<1>3. x # PPTR_NULL /\ x # PPTR_UNDEFINED
  BY NumDictAssumption
<1>4. getProperty(d, key) = IF key >= d.ob_size \/ e.me_state = "NULL" THEN PPTR_UNDEFINED
                            ELSE e.me_value
  BY DEF getProperty
<1>5. key \in Nat /\ d.ob_size \in Nat
  BY <1>1, FieldsLemma DEF Index
<1> HIDE DEF ep
<1>6. ASSUME getProperty(d, key) = x
      PROVE  key < d.ob_size /\ Holds(d, key, x)
  <2>0. PICK o : o = d.ob_size
    OBVIOUS
  <2>1. e.me_value = x /\ e.me_state # "NULL" /\ ~(key >= o)
    BY <1>3, <1>4, <1>6, <2>0
  <2>2. e.me_state = "FULL"
    BY <1>2, <1>3, <2>1 DEF Kept
  <2> QED
    BY <1>2, <1>3, <1>5, <2>0, <2>1, <2>2 DEF Holds, SlotsIn
<1>7. ASSUME key < d.ob_size, Holds(d, key, x)
      PROVE  getProperty(d, key) = x
  <2>1. PICK i \in SlotsIn(d, "FULL") : d.entries[i].me_key = key /\ d.entries[i].me_value = x
    BY <1>7 DEF Holds
  <2>2. ep = i
    BY <1>1, <2>1, FoundLemma DEF ep
  <2>4. ~(key >= d.ob_size)
    BY <1>5, <1>7
  <2>5. e.me_state # "NULL" /\ e.me_value = x
    BY <2>1, <2>2 DEF SlotsIn
  <2> QED
    BY <1>4, <2>4, <2>5
<1> QED
  BY <1>6, <1>7

\* Setting an index keeps the values below the length.
LEMMA SetsBounded ==
    ASSUME NEW d, Table(d), Bounded(d), NEW key \in Index, NEW v, NEW w, Sets(d, w, key, v)
    PROVE  Bounded(w)
<1> SUFFICES ASSUME NEW c \in Index, NEW x, Holds(w, c, x)
             PROVE  c < w.ob_size
  BY DEF Bounded
<1>1. PICK o, p : o = d.ob_size /\ p = w.ob_size
  OBVIOUS
<1>2. o \in Nat /\ p \in Nat /\ c \in Nat /\ p >= o
  BY <1>1, TableLemma, FieldsLemma DEF Sets, Index
<1>3. CASE c = key
  <2>1. (\E y : Holds(d, key, y)) \/ p >= key + 1
    BY <1>1 DEF Sets
  <2>2. (\E y : Holds(d, key, y)) => key < o
    BY <1>1 DEF Bounded
  <2>3. c < o \/ p >= c + 1
    BY <1>3, <2>1, <2>2
  <2>4. c < p
    BY <1>2, <2>3
  <2> QED
    BY <1>1, <2>4
<1>4. CASE c # key
  <2>1. Holds(d, c, x)
    BY <1>4 DEF Sets, Puts1
  <2>2. c < o
    BY <1>1, <2>1 DEF Bounded
  <2>3. c < p
    BY <1>2, <2>2
  <2> QED
    BY <1>1, <2>3
<1> QED
  BY <1>3, <1>4

\* Setting the length takes the values from some index on out of the table.
LEMMA SetLengthLemma ==
    ASSUME NEW d, Table(d), Bounded(d), NEW n \in Index, setLength(d, n).ends = "done"
    PROVE  LET w == setLength(d, n).dict
           IN  /\ Table(w) /\ Bounded(w)
               /\ \A c \in Index : \A x : Holds(w, c, x) <=> c < n /\ Holds(d, c, x)
<1> DEFINE b == Sized(d, n)
           values == [i \in n..d.ob_size - 1 |-> PPTR_NULL]
           r == setLength(d, n)
           w == r.dict
<1>1. n \in Nat /\ n <= MaxLength /\ Index \subseteq Nat /\ MaxLength \in Nat
      /\ \A c \in Index : c < MaxLength
  BY NumDictAssumption DEF Index
<1>2. Table(b) /\ b.ob_size = n /\ \A c, x : Holds(b, c, x) <=> Holds(d, c, x)
  BY <1>1, SizedLemma
<1>3. r = Setting(b, values)[MaxLength]
  BY DEF setLength, Sized
<1>4. /\ DOMAIN values = n..d.ob_size - 1
      /\ \A i \in DOMAIN values : values[i] = PPTR_NULL /\ values[i] \in Item
  BY DEF Item
<1>5. d.ob_size \in Nat
  BY TableLemma, FieldsLemma
<1> HIDE DEF b, values, r
<1>6. SetBelow(b, values, r, MaxLength)
  BY <1>2, <1>3, <1>4, SettingTable
<1>7. /\ Table(w) /\ w.ob_size >= n
      /\ \A c \in Index : \A x : Holds(w, c, x) <=>
            IF c < MaxLength /\ c \in DOMAIN values THEN x = values[c] /\ x # PPTR_NULL
            ELSE Holds(b, c, x)
  BY <1>2, <1>6 DEF SetBelow, Upto, r
<1> HIDE DEF w
<1>8. ASSUME NEW c \in Index, NEW x
      PROVE  Holds(w, c, x) <=> c < n /\ Holds(d, c, x)
  <2>1. CASE c \in DOMAIN values
    <3>1. ~Holds(w, c, x)
      BY <1>1, <1>4, <1>7, <2>1
    <3>2. ~(c < n)
      BY <1>1, <1>4, <1>5, <2>1
    <3> QED
      BY <3>1, <3>2
  <2>2. CASE c \notin DOMAIN values
    <3>1. Holds(w, c, x) <=> Holds(d, c, x)
      BY <1>2, <1>7, <2>2
    <3>2. Holds(d, c, x) => c < d.ob_size
      BY DEF Bounded
    <3>3. c < d.ob_size => c < n
      BY <1>1, <1>4, <1>5, <2>2
    <3> QED
      BY <3>1, <3>2, <3>3
  <2> QED
    BY <2>1, <2>2
<1>9. ASSUME NEW c \in Index, c < n
      PROVE  c < w.ob_size
  <2>1. w.ob_size \in Nat
    BY <1>7, TableLemma, FieldsLemma
  <2>2. PICK p : p = w.ob_size
    OBVIOUS
  <2>3. p \in Nat /\ p >= n /\ c \in Nat
    BY <1>1, <1>7, <2>1, <2>2
  <2>4. c < p
    BY <1>1, <1>9, <2>3
  <2> QED
    BY <2>2, <2>4
<1>10. Bounded(w)
  BY <1>8, <1>9 DEF Bounded
<1> QED
  BY <1>7, <1>8, <1>10 DEF w, r

\* And so it does, for all that is read, when an exception is in the way of the rest.
LEMMA SetLengthThrown ==
    ASSUME NEW d, Table(d), Bounded(d), NEW n \in Index, setLength(d, n).ends = "throws"
    PROVE  LET w == setLength(d, n).dict
           IN  /\ Table(w)
               /\ \A c \in Index : \A x :
                     c < w.ob_size /\ Holds(w, c, x) <=> c < n /\ Holds(d, c, x)
<1> DEFINE b == Sized(d, n)
           values == [i \in n..d.ob_size - 1 |-> PPTR_NULL]
           r == setLength(d, n)
           w == r.dict
<1>1. n \in Nat /\ n <= MaxLength /\ Index \subseteq Nat
  BY NumDictAssumption DEF Index
<1>2. Table(b) /\ b.ob_size = n /\ \A c, x : Holds(b, c, x) <=> Holds(d, c, x)
  BY <1>1, SizedLemma
<1>3. r = Setting(b, values)[MaxLength]
  BY DEF setLength, Sized
<1>4. /\ DOMAIN values = n..d.ob_size - 1
      /\ \A i \in DOMAIN values : values[i] = PPTR_NULL /\ values[i] \in Item
  BY DEF Item
<1>5. d.ob_size \in Nat
  BY TableLemma, FieldsLemma
<1> HIDE DEF b, values, r
<1>6. SetBelow(b, values, r, MaxLength)
  BY <1>2, <1>3, <1>4, SettingTable
<1>7. PICK m \in Nat : Upto(b, values, w, m)
  BY <1>6 DEF SetBelow, r
<1>8. PICK p : p = w.ob_size
  OBVIOUS
<1>9. /\ Table(w) /\ p \in Nat /\ p >= n /\ (p = n \/ p <= m)
      /\ \A c \in Index : \A x : Holds(w, c, x) <=>
            IF c < m /\ c \in DOMAIN values THEN x = values[c] /\ x # PPTR_NULL
            ELSE Holds(b, c, x)
  BY <1>2, <1>7, <1>8, TableLemma, FieldsLemma DEF Upto
<1> HIDE DEF w
<1>10. ASSUME NEW c \in Index, NEW x
       PROVE  c < p /\ Holds(w, c, x) <=> c < n /\ Holds(d, c, x)
  <2>1. c \in Nat
    BY <1>1
  <2>2. CASE c < n
    <3>1. c < p /\ c \notin DOMAIN values
      BY <1>1, <1>4, <1>5, <1>9, <2>1, <2>2
    <3> QED
      BY <1>2, <1>9, <2>2, <3>1
  <2>3. CASE ~(c < n)
    <3> SUFFICES ASSUME c < p, Holds(w, c, x)
                 PROVE  FALSE
      BY <2>3
    <3>1. c < m
      BY <1>1, <1>9, <2>1, <2>3
    <3>2. c \notin DOMAIN values /\ Holds(d, c, x)
      BY <1>2, <1>4, <1>9, <3>1
    <3>3. c < d.ob_size
      BY <3>2 DEF Bounded
    <3> QED
      BY <1>1, <1>4, <1>5, <2>1, <2>3, <3>2, <3>3
  <2> QED
    BY <2>2, <2>3
<1> QED
  BY <1>8, <1>9, <1>10 DEF w, r

\* The last index loses its value, when it is there.
LEMMA PopLemma ==
    ASSUME NEW d, Table(d), Bounded(d), d.ob_size > 0,
           d.entries[lookup(d, d.ob_size - 1)].me_state # "DUMMY"
    PROVE  LET w == pop(d)
               last == d.ob_size - 1
           IN  /\ Table(w) /\ Bounded(w) /\ last \in Index
               /\ w = d \/ Puts1(d, w, last, PPTR_NULL)
<1> DEFINE last == d.ob_size - 1
           ep == lookup(d, last)
           w == pop(d)
<1>1. Block(d) /\ HasFree(d) /\ Reachable(d) /\ d.ob_size \in Nat /\ d.ob_size <= MaxLength
  BY TableLemma, FieldsLemma DEF Table, Laid
<1>2. last \in Index /\ MaxLength \in Nat
  BY <1>1, NumDictAssumption DEF Index
<1> HIDE DEF last
<1>3. /\ ep \in Slots(d) /\ d.entries[ep].me_state \in {"NULL", "DUMMY", "FULL"}
      /\ d.entries[ep].me_state = "FULL" => d.entries[ep].me_key = last
  BY <1>1, <1>2, LookupFree
<1>4. w = IF d.entries[ep].me_state = "NULL" THEN d ELSE Popped(d, ep)
  BY DEF pop, last
<1>5. d.entries[ep].me_state # "DUMMY"
  BY DEF last
<1> HIDE DEF ep, w
<1>6. CASE d.entries[ep].me_state = "NULL"
  BY <1>2, <1>4, <1>6 DEF w, last
<1>7. CASE d.entries[ep].me_state = "FULL"
  <2>1. ep \in SlotsIn(d, "FULL")
    BY <1>3, <1>7 DEF SlotsIn
  <2>2. w = Popped(d, ep)
    BY <1>4, <1>7
  <2>3. Table(w) /\ w.ob_size = last /\ Puts1(d, w, last, PPTR_NULL)
    BY <1>3, <1>7, <2>1, <2>2, PoppedLemma DEF last
  <2>4. Bounded(w)
    <3> SUFFICES ASSUME NEW c \in Index, NEW x, Holds(w, c, x)
                 PROVE  c < last
      BY <2>3 DEF Bounded
    <3>1. c # last /\ Holds(d, c, x)
      BY <2>3 DEF Puts1
    <3>2. c < d.ob_size
      BY <3>1 DEF Bounded
    <3>3. c \in Nat
      BY DEF Index
    <3> QED
      BY <1>1, <3>1, <3>2, <3>3 DEF last
  <2> QED
    BY <1>2, <2>3, <2>4 DEF w, last
<1> QED
  BY <1>3, <1>5, <1>6, <1>7
===============================================================================
