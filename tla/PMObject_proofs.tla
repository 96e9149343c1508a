--------------------------- MODULE PMObject_proofs ----------------------------
(***************************************************************************)
(* The indexed properties of an object, for any indexes and values and any *)
(* order of calls, conversions, exceptions, aborts and crashes: they are   *)
(* the map that IndexMap says they are.                                    *)
(*                                                                         *)
(* Both forms are read through one relation, Has, of indexes and values.   *)
(* A call is one store of sound elements that writes one index or cuts     *)
(* some off, after a conversion that keeps the relation, or it is undone;  *)
(* the transactions then do with those elements what PmemTx_proofs says.   *)
(***************************************************************************)
EXTENDS PMObject, PmemTx_proofs, PMNumDict_proofs

-----------------------------------------------------------------------------
(* The dense form. *)

\* An array, field by field.
Arr(o, n, items) == [ob_size |-> o, allocated |-> n, items |-> items]

\* The fields of such a record, and that it is an array.
LEMMA ArrLemma ==
    ASSUME NEW o, NEW n, NEW I
    PROVE  LET a == Arr(o, n, I)
           IN  /\ a.ob_size = o /\ a.allocated = n /\ a.items = I
               /\ o \in 0..n /\ I \in [0..n - 1 -> Item] => a \in ArraysOf(n)
  BY DEF Arr, ArraysOf

\* An array, with other fields.
Stored(a, i, v) == [a EXCEPT !.items[i] = v]
Measured(a, p) == [a EXCEPT !.ob_size = p]
Refilled(a, J) == [a EXCEPT !.items = J]

\* They are such records again.
LEMMA ArrExceptLemma ==
    ASSUME NEW o, NEW n, NEW I
    PROVE  LET a == Arr(o, n, I)
           IN  /\ \A i, v : Stored(a, i, v) = Arr(o, n, [I EXCEPT ![i] = v])
               /\ \A p : Measured(a, p) = Arr(p, n, I)
               /\ \A J : Refilled(a, J) = Arr(o, n, J)
  BY DEF Arr, Stored, Measured, Refilled

\* A dense array: what is allocated beyond the length has no values.
Array(a) ==
    /\ a.allocated \in 0..new_allocated(MaxLength) /\ a \in ArraysOf(a.allocated)
    /\ a.ob_size <= MaxLength
    /\ \A i \in 0..a.allocated - 1 : i >= a.ob_size => a.items[i] \notin Val

\* The value of an item.
At(a, i, x) == i < a.ob_size /\ a.items[i] = x

\* There is always more allocated than asked for, and more for a longer array.
LEMMA AllocatedLemma ==
    /\ \A n \in Nat : new_allocated(n) \in Nat /\ new_allocated(n) > n
    /\ \A m, n \in Nat : m <= n => new_allocated(m) <= new_allocated(n)
  BY DEF new_allocated

\* An array is such a record.
LEMMA ArrayFields ==
    ASSUME NEW a, Array(a)
    PROVE  /\ a = Arr(a.ob_size, a.allocated, a.items)
           /\ a.allocated \in Nat /\ a.ob_size \in Nat
           /\ a.ob_size <= a.allocated /\ a.ob_size <= MaxLength
           /\ a.items \in [0..a.allocated - 1 -> Item]
<1>1. PICK n : n = a.allocated
  OBVIOUS
<1>2. a \in [ob_size : 0..n, allocated : {n}, items : [0..n - 1 -> Item]] /\ n \in Nat
  BY <1>1, AllocatedLemma, NumDictAssumption DEF Array, ArraysOf
<1>3. a.ob_size \in 0..n /\ a.items \in [0..n - 1 -> Item]
  BY <1>2
<1>4. a = [ob_size |-> a.ob_size, allocated |-> a.allocated, items |-> a.items]
  BY <1>2
<1> QED
  BY <1>1, <1>2, <1>3, <1>4 DEF Array, Arr

\* Nothing has been set in a new array.
LEMMA NewArrayLemma ==
    LET a == NewSimpleArray
    IN  Array(a) /\ a.ob_size = 0 /\ a.allocated = 0
<1> DEFINE I == [i \in {} |-> PPTR_NULL]
<1>1. I \in [0..0 - 1 -> Item] /\ 0 \in 0..0
  OBVIOUS
<1>2. NewSimpleArray = Arr(0, 0, I)
  BY DEF NewSimpleArray, Arr
<1> HIDE DEF I
<1>3. /\ NewSimpleArray \in ArraysOf(0)
      /\ NewSimpleArray.ob_size = 0 /\ NewSimpleArray.allocated = 0
  <2>1. Arr(0, 0, I) \in ArraysOf(0)
    BY <1>1, ArrLemma
  <2>2. Arr(0, 0, I).ob_size = 0 /\ Arr(0, 0, I).allocated = 0
    BY ArrLemma
  <2> QED
    BY <1>2, <2>1, <2>2
<1>4. 0 \in 0..new_allocated(MaxLength) /\ 0 <= MaxLength
  BY AllocatedLemma, NumDictAssumption
<1> QED
  BY <1>3, <1>4 DEF Array

\* A longer block keeps the items.
LEMMA LongerLemma ==
    ASSUME NEW a, Array(a), NEW n \in Nat, n <= MaxLength, n > a.allocated
    PROVE  \E I \in [0..new_allocated(n) - 1 -> Item] :
              /\ resize(a, n) = Arr(n, new_allocated(n), I)
              /\ \A i \in 0..new_allocated(n) - 1 :
                    I[i] = IF i < a.allocated THEN a.items[i] ELSE PPTR_NULL
<1> DEFINE I == [i \in 0..new_allocated(n) - 1 |->
                   IF i < a.allocated THEN a.items[i] ELSE PPTR_NULL]
<1>1. ASSUME NEW i \in 0..new_allocated(n) - 1
      PROVE  (IF i < a.allocated THEN a.items[i] ELSE PPTR_NULL) \in Item
  <2>1. i < a.allocated => i \in 0..a.allocated - 1
    BY ArrayFields
  <2> QED
    BY <2>1, ArrayFields DEF Item
<1>2. I \in [0..new_allocated(n) - 1 -> Item]
  BY <1>1
<1>3. resize(a, n) = Arr(n, new_allocated(n), I)
  BY DEF resize, Arr
<1> QED
  BY <1>2, <1>3

\* Setting an item changes that one, and the length when it is beyond it.
LEMMA SetItemLemma ==
    ASSUME NEW a, Array(a), NEW i \in Index, NEW v \in Item
    PROVE  LET w == setItem(a, i, v)
           IN  /\ Array(w)
               /\ w.ob_size = IF a.ob_size < i + 1 THEN i + 1 ELSE a.ob_size
               /\ \A c \in Index, x \in Val :
                     At(w, c, x) <=> IF c = i THEN x = v ELSE At(a, c, x)
<1> DEFINE b == IF i + 1 > a.allocated THEN resize(a, i + 1) ELSE a
           w == setItem(a, i, v)
<1>0. /\ a = Arr(a.ob_size, a.allocated, a.items)
      /\ a.allocated \in Nat /\ a.ob_size \in Nat
      /\ a.ob_size <= a.allocated /\ a.ob_size <= MaxLength
      /\ a.items \in [0..a.allocated - 1 -> Item]
      /\ i \in Nat /\ i + 1 \in Nat /\ i + 1 <= MaxLength /\ MaxLength \in Nat
      /\ a.allocated <= new_allocated(MaxLength) /\ new_allocated(MaxLength) \in Nat
  <2>1. i \in Nat /\ i + 1 \in Nat /\ i + 1 <= MaxLength /\ MaxLength \in Nat
    BY NumDictAssumption DEF Index
  <2>2. new_allocated(MaxLength) \in Nat
    BY <2>1, AllocatedLemma
  <2>3. a.allocated <= new_allocated(MaxLength)
    BY <2>2 DEF Array
  <2> QED
    BY <2>1, <2>2, <2>3, ArrayFields
<1> DEFINE Enlarged(I, n, o) ==
         /\ n \in Nat /\ o \in Nat
         /\ b = Arr(o, n, I) /\ I \in [0..n - 1 -> Item] /\ i + 1 <= n
         /\ n <= new_allocated(MaxLength) /\ o \in {a.ob_size, i + 1}
         /\ o <= n /\ o >= a.ob_size
         /\ \A c \in 0..n - 1 : I[c] = IF c < a.allocated THEN a.items[c] ELSE PPTR_NULL
<1>1. \E I, n, o : Enlarged(I, n, o)
  <2>1. CASE i + 1 > a.allocated
    <3>1. PICK I \in [0..new_allocated(i + 1) - 1 -> Item] :
              /\ resize(a, i + 1) = Arr(i + 1, new_allocated(i + 1), I)
              /\ \A c \in 0..new_allocated(i + 1) - 1 :
                    I[c] = IF c < a.allocated THEN a.items[c] ELSE PPTR_NULL
      BY <1>0, <2>1, LongerLemma
    <3>2. /\ new_allocated(i + 1) \in Nat /\ i + 1 <= new_allocated(i + 1)
          /\ new_allocated(i + 1) <= new_allocated(MaxLength)
      BY <1>0, AllocatedLemma
    <3>3. i + 1 >= a.ob_size /\ b = resize(a, i + 1)
      BY <1>0, <2>1
    <3> HIDE DEF b
    <3>4. Enlarged(I, new_allocated(i + 1), i + 1)
      BY <1>0, <3>1, <3>2, <3>3
    <3> QED
      BY <3>4
  <2>2. CASE ~(i + 1 > a.allocated)
    <3>1. b = a /\ i + 1 <= a.allocated
      BY <1>0, <2>2
    <3>2. \A c \in 0..a.allocated - 1 : c < a.allocated
      BY <1>0
    <3>3. \A c \in 0..a.allocated - 1 :
             a.items[c] = IF c < a.allocated THEN a.items[c] ELSE PPTR_NULL
      BY <3>2
    <3> HIDE DEF b
    <3>4. Enlarged(a.items, a.allocated, a.ob_size)
      BY <1>0, <3>1, <3>3
    <3> QED
      BY <3>4
  <2> QED
    BY <2>1, <2>2
<1>2. PICK I, n, o : Enlarged(I, n, o)
  BY <1>1
<1>3. PICK J : J = [I EXCEPT ![i] = v]
  OBVIOUS
<1>4. PICK p : p = IF o < i + 1 THEN i + 1 ELSE o
  OBVIOUS
<1>5. w = Arr(p, n, J)
  <2>1. w = [b EXCEPT !.items[i] = v, !.ob_size = IF @ < i + 1 THEN i + 1 ELSE @]
    BY DEF setItem
  <2>2. w = [[b EXCEPT !.items[i] = v] EXCEPT !.ob_size = IF @ < i + 1 THEN i + 1 ELSE @]
    BY <2>1
  <2>6. b = Arr(o, n, I)
    BY <1>2
  <2> HIDE DEF w, b, Enlarged
  <2>7. Stored(Arr(o, n, I), i, v) = Arr(o, n, [I EXCEPT ![i] = v])
    BY ArrExceptLemma
  <2>8. Measured(Arr(o, n, J), p) = Arr(p, n, J)
    BY ArrExceptLemma
  <2>3. [b EXCEPT !.items[i] = v] = Arr(o, n, J)
    BY <1>3, <2>6, <2>7 DEF Stored
  <2>4. Arr(o, n, J).ob_size = o
    BY ArrLemma
  <2>5. w = Measured(Arr(o, n, J), p)
    BY <1>4, <2>2, <2>3, <2>4 DEF Measured
  <2> QED
    BY <2>5, <2>8
<1> HIDE DEF b, w
<1>6. p \in 0..n /\ p <= MaxLength /\ p = (IF a.ob_size < i + 1 THEN i + 1 ELSE a.ob_size)
  BY <1>0, <1>2, <1>4
<1>7. J \in [0..n - 1 -> Item] /\ J[i] = v /\ \A c \in 0..n - 1 : c # i => J[c] = I[c]
  <2>1. i \in 0..n - 1
    BY <1>0, <1>2
  <2> QED
    BY <1>2, <1>3, <2>1
<1>8. w \in ArraysOf(n) /\ w.ob_size = p /\ w.allocated = n /\ w.items = J
  BY <1>5, <1>6, <1>7, ArrLemma
<1>9. ASSUME NEW c \in 0..n - 1, c >= p
      PROVE  J[c] \notin Val
  <2>1. c # i /\ c >= a.ob_size
    BY <1>0, <1>2, <1>4, <1>6, <1>9
  <2>2. J[c] = IF c < a.allocated THEN a.items[c] ELSE PPTR_NULL
    BY <1>2, <1>7, <2>1
  <2>3. c < a.allocated => c \in 0..a.allocated - 1
    BY <1>0
  <2> QED
    BY <2>1, <2>2, <2>3, NumDictAssumption DEF Array
<1>10. Array(w)
  BY <1>2, <1>6, <1>8, <1>9 DEF Array
<1>11. ASSUME NEW c \in Index, NEW x \in Val
       PROVE  At(w, c, x) <=> IF c = i THEN x = v ELSE At(a, c, x)
  <2>0. c \in Nat
    BY NumDictAssumption DEF Index
  <2>1. CASE c = i
    <3>1. c < p
      BY <1>0, <1>6, <2>1
    <3> QED
      BY <1>7, <1>8, <2>1, <3>1 DEF At
  <2>2. CASE c # i
    <3>1. CASE c < a.ob_size
      <4>1. c < p /\ c \in 0..n - 1 /\ c < a.allocated
        BY <1>0, <1>2, <1>6, <2>0, <3>1
      <4>2. J[c] = a.items[c]
        BY <1>2, <1>7, <2>2, <4>1
      <4> QED
        BY <1>8, <2>2, <3>1, <4>1, <4>2 DEF At
    <3>2. CASE ~(c < a.ob_size)
      <4>1. ~At(a, c, x)
        BY <3>2 DEF At
      <4>2. c >= a.ob_size /\ (c < p => c \in 0..n - 1)
        BY <1>0, <1>2, <1>6, <2>0, <3>2
      <4>3. c < a.allocated => c \in 0..a.allocated - 1
        BY <1>0, <2>0
      <4>4. c < p => J[c] \notin Val
        <5> SUFFICES ASSUME c < p
                     PROVE  J[c] \notin Val
          OBVIOUS
        <5>1. J[c] = IF c < a.allocated THEN a.items[c] ELSE PPTR_NULL
          BY <1>2, <1>7, <2>2, <4>2
        <5> QED
          BY <4>2, <4>3, <5>1, NumDictAssumption DEF Array
      <4> QED
        BY <1>8, <2>2, <4>1, <4>4 DEF At
    <3> QED
      BY <3>1, <3>2
  <2> QED
    BY <2>1, <2>2
<1> QED
  BY <1>6, <1>8, <1>10, <1>11 DEF w

-----------------------------------------------------------------------------
(* From one form to the other. *)

\* The array becomes a table that holds the values of its items.
LEMMA ToNumDictLemma ==
    ASSUME NEW a, Array(a)
    PROVE  LET r == convertToNumDict(a)
               d == r.dict
           IN  /\ r.ends \in {"done", "beyond"}
               /\ r.ends = "done" =>
                     /\ Table(d) /\ Bounded(d)
                     /\ \A c \in Index, x \in Val : Holds(d, c, x) <=> At(a, c, x)
<1> DEFINE values == ItemsBelow(a, a.ob_size)
           r == convertToNumDict(a)
<1>0. /\ a.allocated \in Nat /\ a.ob_size \in Nat
      /\ a.ob_size <= a.allocated /\ a.ob_size <= MaxLength /\ MaxLength \in Nat
      /\ a.items \in [0..a.allocated - 1 -> Item]
  BY ArrayFields, NumDictAssumption
<1>1. /\ DOMAIN values = {i \in 0..a.ob_size - 1 : a.items[i] # PPTR_NULL}
      /\ \A i \in DOMAIN values : values[i] = a.items[i]
  BY DEF ItemsBelow
<1>2. r = Setting(NewNumDict, values)[MaxLength]
  BY DEF convertToNumDict
<1> HIDE DEF values, r
<1>3. \A i \in 0..a.ob_size - 1 : i \in 0..a.allocated - 1
  BY <1>0
<1>4. \A i \in DOMAIN values : values[i] \in Item
  BY <1>0, <1>1, <1>3
<1>5. /\ Table(NewNumDict) /\ Fresh(NewNumDict, 0)
      /\ \A c, x : ~Holds(NewNumDict, c, x)
  BY NewNumDictLemma
<1>6. SetBelow(NewNumDict, values, r, MaxLength)
  BY <1>2, <1>4, <1>5, SettingTable
<1>7. r.ends \in {"done", "beyond"}
  BY <1>5, <1>6 DEF SetBelow
<1>8. ASSUME r.ends = "done"
      PROVE  /\ Table(r.dict) /\ Bounded(r.dict)
             /\ \A c \in Index, x \in Val : Holds(r.dict, c, x) <=> At(a, c, x)
  <2>1. /\ Table(r.dict)
        /\ \A c \in Index : \A x : Holds(r.dict, c, x) <=>
              IF c < MaxLength /\ c \in DOMAIN values THEN x = values[c] /\ x # PPTR_NULL
              ELSE Holds(NewNumDict, c, x)
        /\ \A c \in Index : c < MaxLength /\ c \in DOMAIN values
              => (\E y : Holds(NewNumDict, c, y)) \/ r.dict.ob_size >= c + 1
    BY <1>6, <1>8 DEF SetBelow, Upto
  <2>2. \A c \in Index : c \in Nat /\ c < MaxLength
    BY <1>0 DEF Index
  <2>3. \A c \in Index : \A x : Holds(r.dict, c, x)
           <=> c \in DOMAIN values /\ x = values[c] /\ x # PPTR_NULL
    BY <1>5, <2>1, <2>2
  <2>4. \A c \in Index : c \in DOMAIN values => r.dict.ob_size >= c + 1
    BY <1>5, <2>1, <2>2
  <2>5. Bounded(r.dict)
    <3> SUFFICES ASSUME NEW c \in Index, NEW x, Holds(r.dict, c, x)
                 PROVE  c < r.dict.ob_size
      BY DEF Bounded
    <3>1. r.dict.ob_size >= c + 1 /\ c \in Nat
      BY <2>2, <2>3, <2>4
    <3>2. r.dict.ob_size \in Nat
      BY <2>1, TableLemma, FieldsLemma
    <3>3. PICK n : n = r.dict.ob_size
      OBVIOUS
    <3> QED
      BY <3>1, <3>2, <3>3
  <2>6. ASSUME NEW c \in Index, NEW x \in Val
        PROVE  Holds(r.dict, c, x) <=> At(a, c, x)
    <3>1. x # PPTR_NULL
      BY NumDictAssumption
    <3>2. c < a.ob_size <=> c \in 0..a.ob_size - 1
      BY <1>0, <2>2
    <3> QED
      BY <1>1, <2>3, <3>1, <3>2 DEF At
  <2> QED
    BY <2>1, <2>5, <2>6
<1> QED
  BY <1>7, <1>8 DEF r

\* The table becomes an array whose items have the values that it held.
LEMMA ToArrayLemma ==
    ASSUME NEW d, Table(d), Bounded(d), KeysFit(d), d.ob_size > 0
    PROVE  LET w == convertToSimpleArray(d)
           IN  /\ Array(w)
               /\ \A c \in Index, x \in Val : At(w, c, x) <=> Holds(d, c, x)
<1> DEFINE a == setItem(NewSimpleArray, d.ob_size - 1, PPTR_UNDEFINED)
           used == getValidIndex(d)
           value(i) == d.entries[CHOOSE s \in SlotsIn(d, "FULL") : d.entries[s].me_key = i].me_value
           J == [i \in DOMAIN a.items |-> IF i \in used THEN value(i) ELSE a.items[i]]
           w == convertToSimpleArray(d)
<1>0. /\ Block(d) /\ HasFree(d) /\ Reachable(d)
      /\ d.ob_size \in Nat /\ d.ob_size <= MaxLength /\ MaxLength \in Nat
  BY TableLemma, FieldsLemma, NumDictAssumption DEF Table, Laid
<1>1. /\ Array(a) /\ a.ob_size = d.ob_size
      /\ \A c \in Index, x \in Val : ~At(a, c, x)
  <2>1. /\ Array(NewSimpleArray) /\ NewSimpleArray.ob_size = 0
    BY NewArrayLemma
  <2>2. PICK i : i = d.ob_size - 1
    OBVIOUS
  <2>3. i \in Index /\ i + 1 = d.ob_size /\ 0 < i + 1
    <3>1. PICK n : n = d.ob_size
      OBVIOUS
    <3>2. n \in Nat /\ n > 0 /\ n <= MaxLength /\ i = n - 1
      BY <1>0, <2>2, <3>1
    <3> QED
      BY <1>0, <3>1, <3>2 DEF Index
  <2>4. PPTR_UNDEFINED \in Item /\ PPTR_UNDEFINED \notin Val
    BY NumDictAssumption DEF Item
  <2>5. a = setItem(NewSimpleArray, i, PPTR_UNDEFINED)
    BY <2>2
  <2> HIDE DEF a
  <2>6. /\ Array(a)
        /\ a.ob_size = IF NewSimpleArray.ob_size < i + 1 THEN i + 1 ELSE NewSimpleArray.ob_size
        /\ \A c \in Index, x \in Val :
              At(a, c, x) <=> IF c = i THEN x = PPTR_UNDEFINED ELSE At(NewSimpleArray, c, x)
    BY <2>1, <2>3, <2>4, <2>5, SetItemLemma
  <2>7. \A c \in Index : ~(c < 0)
    BY <1>0 DEF Index
  <2> QED
    BY <2>1, <2>3, <2>4, <2>6, <2>7 DEF At
<1>2. w = Refilled(a, J)
  BY DEF convertToSimpleArray, Refilled
<1> HIDE DEF a, w
<1>3. /\ a = Arr(a.ob_size, a.allocated, a.items)
      /\ a.allocated \in Nat /\ a.ob_size \in Nat
      /\ a.ob_size <= a.allocated /\ a.ob_size <= MaxLength
      /\ a.items \in [0..a.allocated - 1 -> Item]
  BY <1>1, ArrayFields
<1>4. \A i \in SlotsIn(d, "FULL") :
         /\ d.entries[i].me_key \in Index /\ d.entries[i].me_key \in used
         /\ lookup(d, d.entries[i].me_key) = i /\ d.entries[i].me_value \in Item
  <2>1. \A i \in SlotsIn(d, "FULL") : d.entries[i] \in Entry
    BY <1>0, FieldsLemma DEF SlotsIn
  <2> QED
    BY <1>0, <2>1, FoundLemma DEF getValidIndex, Entry
<1>5. ASSUME NEW c \in used
      PROVE  /\ value(c) \in Item /\ c < d.ob_size
             /\ \A i \in SlotsIn(d, "FULL") : d.entries[i].me_key = c => value(c) = d.entries[i].me_value
             /\ \E i \in SlotsIn(d, "FULL") : d.entries[i].me_key = c
  <2>1. PICK i \in SlotsIn(d, "FULL") : d.entries[i].me_key = c
    BY DEF getValidIndex
  <2>2. PICK s : s = CHOOSE t \in SlotsIn(d, "FULL") : d.entries[t].me_key = c
    OBVIOUS
  <2>3. s \in SlotsIn(d, "FULL") /\ d.entries[s].me_key = c
    BY <2>1, <2>2
  <2>4. value(c) = d.entries[s].me_value
    BY <2>2
  <2>5. \A t \in SlotsIn(d, "FULL") : d.entries[t].me_key = c => t = s
    BY <1>4, <2>3
  <2>6. c < d.ob_size
    BY DEF KeysFit
  <2> HIDE DEF value
  <2> QED
    BY <1>4, <2>1, <2>3, <2>4, <2>5, <2>6
<1> HIDE DEF used, value
<1>6. /\ J \in [0..a.allocated - 1 -> Item]
      /\ \A i \in 0..a.allocated - 1 : J[i] = IF i \in used THEN value(i) ELSE a.items[i]
  BY <1>3, <1>5
<1> HIDE DEF J
<1>7. w = Arr(a.ob_size, a.allocated, J)
  <2>1. PICK o, n, I : o = a.ob_size /\ n = a.allocated /\ I = a.items
    OBVIOUS
  <2>2. a = Arr(o, n, I)
    BY <1>3, <2>1
  <2>3. w = Refilled(Arr(o, n, I), J)
    BY <1>2, <2>2
  <2>4. w = Arr(o, n, J)
    BY <2>3, ArrExceptLemma
  <2> QED
    BY <2>1, <2>4
<1>8. /\ w.ob_size = a.ob_size /\ w.allocated = a.allocated /\ w.items = J
      /\ w \in ArraysOf(a.allocated)
  <2>1. a.ob_size \in 0..a.allocated
    BY <1>3
  <2> QED
    BY <1>6, <1>7, <2>1, ArrLemma
<1>9. ASSUME NEW i \in 0..a.allocated - 1
      PROVE  a.items[i] \notin Val
  <2>1. CASE i >= a.ob_size
    BY <1>1, <2>1 DEF Array
  <2>2. CASE ~(i >= a.ob_size)
    <3>1. i \in Index /\ i < a.ob_size
      BY <1>0, <1>3, <2>2 DEF Index
    <3> QED
      BY <1>1, <3>1 DEF At
  <2> QED
    BY <2>1, <2>2
<1>10. Array(w)
  <2>1. ASSUME NEW i \in 0..a.allocated - 1, i >= a.ob_size
        PROVE  J[i] \notin Val
    <3>1. i \notin used
      BY <1>0, <1>1, <1>5, <2>1
    <3> QED
      BY <1>6, <1>9, <3>1
  <2> QED
    BY <1>1, <1>3, <1>8, <2>1 DEF Array
<1>11. ASSUME NEW c \in Index, NEW x \in Val
       PROVE  At(w, c, x) <=> Holds(d, c, x)
  <2>0. x # PPTR_NULL /\ c \in Nat
    BY NumDictAssumption DEF Index
  <2>1. CASE c < d.ob_size
    <3>1. c \in 0..a.allocated - 1
      BY <1>0, <1>1, <1>3, <2>0, <2>1
    <3>2. At(w, c, x) <=> J[c] = x
      BY <1>1, <1>8, <2>1 DEF At
    <3>3. CASE c \in used
      <4>1. J[c] = value(c)
        BY <1>6, <3>1, <3>3
      <4>2. Holds(d, c, x) <=> value(c) = x
        BY <1>5, <2>0, <3>3 DEF Holds
      <4> QED
        BY <3>2, <4>1, <4>2
    <3>4. CASE c \notin used
      <4>1. J[c] # x
        BY <1>6, <1>9, <3>1, <3>4
      <4>2. ~Holds(d, c, x)
        BY <1>4, <3>4 DEF Holds
      <4> QED
        BY <3>2, <4>1, <4>2
    <3> QED
      BY <3>3, <3>4
  <2>2. CASE ~(c < d.ob_size)
    BY <1>1, <1>8, <2>2 DEF At, Bounded
  <2> QED
    BY <2>1, <2>2
<1> QED
  BY <1>10, <1>11 DEF w

-----------------------------------------------------------------------------
(* What the program reads of either form. *)

\* The elements in a form, field by field.
Form(type, body) == [ob_type |-> type, body |-> body]

\* x is the value of index c, which the length is beyond.
Has(e, c, x) ==
    IF IsDense(e) THEN At(e.body, c, x) ELSE c < e.body.ob_size /\ Holds(e.body, c, x)

\* The elements are in one of the two forms,
Formed(e) ==
    /\ e \in Word
    /\ e.ob_type \in {"ARRAY", "NUMDICT"}
    /\ IsDense(e) => Array(e.body)
    /\ ~IsDense(e) => Table(e.body)

\* and no value is out of reach.
Sound(e) == Formed(e) /\ (~IsDense(e) => Bounded(e.body))

\* The fields of such a record, and that storing a body in one makes one.
LEMMA FormLemma ==
    ASSUME NEW type, NEW body
    PROVE  LET e == Form(type, body)
           IN  /\ e.ob_type = type /\ e.body = body
               /\ \A b : [e EXCEPT !.body = b] = Form(type, b)
  BY DEF Form

\* The elements are such a record.
LEMMA SoundFields ==
    ASSUME NEW e, Formed(e)
    PROVE  /\ e = Form(e.ob_type, e.body)
           /\ \A b : [e EXCEPT !.body = b] = Form(e.ob_type, b)
<1>1. e = Form(e.ob_type, e.body)
  <2> DEFINE A == UNION {ArraysOf(n) : n \in 0..new_allocated(MaxLength)}
             B == UNION {TablesOf(size) : size \in Sizes}
  <2>1. e \in [ob_type : {"ARRAY"}, body : A] \cup [ob_type : {"NUMDICT"}, body : B]
    BY DEF Formed, Word
  <2> HIDE DEF A, B
  <2> QED
    BY <2>1 DEF Form
<1>2. PICK type, body : type = e.ob_type /\ body = e.body
  OBVIOUS
<1>3. e = Form(type, body)
  BY <1>1, <1>2
<1>4. \A b : [e EXCEPT !.body = b] = Form(type, b)
  BY <1>3, FormLemma
<1> QED
  BY <1>1, <1>2, <1>4

\* A dense array is sound,
LEMMA DenseSound ==
    ASSUME NEW a, Array(a)
    PROVE  LET e == Form("ARRAY", a)
           IN  Sound(e) /\ IsDense(e) /\ e.ob_type = "ARRAY" /\ e.body = a
<1> DEFINE A == UNION {ArraysOf(n) : n \in 0..new_allocated(MaxLength)}
           e == Form("ARRAY", a)
<1>1. a \in A
  BY DEF Array
<1> HIDE DEF A
<1>2. e \in [ob_type : {"ARRAY"}, body : A]
  BY <1>1 DEF Form
<1>3. e \in Word
  BY <1>2 DEF Word, A
<1> HIDE DEF e
<1>4. e.ob_type = "ARRAY" /\ e.body = a
  BY FormLemma DEF e
<1> QED
  BY <1>3, <1>4 DEF Sound, Formed, IsDense, e

\* and a table is well formed,
LEMMA SparseFormed ==
    ASSUME NEW d, Table(d)
    PROVE  LET e == Form("NUMDICT", d)
           IN  Formed(e) /\ ~IsDense(e) /\ e.ob_type = "NUMDICT" /\ e.body = d
<1> DEFINE B == UNION {TablesOf(size) : size \in Sizes}
           e == Form("NUMDICT", d)
<1>1. d \in B
  BY TableLemma DEF Block
<1> HIDE DEF B
<1>2. e \in [ob_type : {"NUMDICT"}, body : B]
  BY <1>1 DEF Form
<1>3. e \in Word
  BY <1>2 DEF Word, B
<1> HIDE DEF e
<1>4. e.ob_type = "NUMDICT" /\ e.body = d
  BY FormLemma DEF e
<1> QED
  BY <1>3, <1>4 DEF Formed, IsDense, e

\* and sound when its values are below the length.
LEMMA SparseSound ==
    ASSUME NEW d, Table(d), Bounded(d)
    PROVE  LET e == Form("NUMDICT", d)
           IN  Sound(e) /\ ~IsDense(e) /\ e.ob_type = "NUMDICT" /\ e.body = d
  BY SparseFormed DEF Sound

\* Then the length is no limit.
LEMMA HasLemma ==
    ASSUME NEW e, Sound(e), ~IsDense(e), NEW c \in Index, NEW x
    PROVE  Has(e, c, x) <=> Holds(e.body, c, x)
  BY DEF Sound, Bounded, Has

\* Reading finds the value of an index, when it has one.
LEMMA ReadLemma ==
    ASSUME NEW e, Formed(e), NEW c \in Index, NEW x \in Val
    PROVE  Read(e, c) = x <=> Has(e, c, x)
<1>1. CASE IsDense(e)
  <2>1. x # PPTR_UNDEFINED
    BY NumDictAssumption
  <2> QED
    BY <1>1, <2>1 DEF Read, getItem, Has, At
<1>2. CASE ~IsDense(e)
  BY <1>2, GetPropertyLemma DEF Read, Has, Formed
<1> QED
  BY <1>1, <1>2

\* One index, in what the program sees.
Shown(e, i) == LET v == Read(e, i) IN IF v \in Val THEN v ELSE PPTR_UNDEFINED

\* What it sees is one of the values, or none.
LEMMA ViewLemma ==
    ASSUME NEW image
    PROVE  LET e == image["elements"] IN
           /\ View(image) = [i \in Indexes |-> Shown(e, i)]
           /\ \A i \in Indexes : Shown(e, i) \in Val \cup {PPTR_UNDEFINED}
           /\ View(image) \in [Indexes -> Val \cup {PPTR_UNDEFINED}]
<1>1. View(image) = [i \in Indexes |-> Shown(image["elements"], i)]
  BY DEF View, Shown
<1>2. \A i \in Indexes : Shown(image["elements"], i) \in Val \cup {PPTR_UNDEFINED}
  BY DEF Shown
<1> QED
  BY <1>1, <1>2

\* What the program sees of an index depends on its value alone.
LEMMA SeenLemma ==
    ASSUME NEW e, Formed(e), NEW f, Formed(f), NEW c \in Index
    PROVE  /\ (\A x \in Val : Has(f, c, x) <=> Has(e, c, x)) => Shown(f, c) = Shown(e, c)
           /\ \A v : (\A x \in Val : Has(f, c, x) <=> x = v)
                => Shown(f, c) = IF v \in Val THEN v ELSE PPTR_UNDEFINED
<1>1. \A x \in Val : (Read(e, c) = x <=> Has(e, c, x)) /\ (Read(f, c) = x <=> Has(f, c, x))
  BY ReadLemma
<1> QED
  BY <1>1 DEF Shown

\* The same values.
Same(e, f) == \A c \in Index, x \in Val : Has(f, c, x) <=> Has(e, c, x)

\* The value of one index is another.
Written(e, f, key, v) ==
    \A c \in Index, x \in Val : Has(f, c, x) <=> IF c = key THEN x = v ELSE Has(e, c, x)

\* The values of the indexes from n on are gone.
Cut(e, f, n) == \A c \in Index, x \in Val : Has(f, c, x) <=> c < n /\ Has(e, c, x)

\* What that is in the map.
LEMMA SameView ==
    ASSUME NEW m, NEW n, Sound(m["elements"]), Sound(n["elements"]),
           Same(m["elements"], n["elements"])
    PROVE  View(n) = View(m)
<1>1. ASSUME NEW i \in Indexes
      PROVE  Shown(n["elements"], i) = Shown(m["elements"], i)
  <2>1. i \in Index
    BY IndexesAssumption
  <2> QED
    BY <2>1, SeenLemma DEF Same, Sound
<1> QED
  BY <1>1, ViewLemma

\* A call that writes one index, or none.
Wrote(m, n) ==
    \/ View(n) = View(m)
    \/ \E k \in Indexes, v \in Val \cup {PPTR_UNDEFINED} : View(n) = [View(m) EXCEPT ![k] = v]

\* Writing the elements at one index writes the map there, if it is one of the
\* client's.
LEMMA WrittenView ==
    ASSUME NEW m, NEW n, Sound(m["elements"]), Sound(n["elements"]),
           NEW key \in Index, NEW v, Written(m["elements"], n["elements"], key, v)
    PROVE  Wrote(m, n)
<1> DEFINE e == m["elements"]
           f == n["elements"]
           u == IF v \in Val THEN v ELSE PPTR_UNDEFINED
<1>0. u \in Val \cup {PPTR_UNDEFINED}
  OBVIOUS
<1> HIDE DEF e, f
<1>1. ASSUME NEW i \in Indexes
      PROVE  Shown(f, i) = IF i = key THEN u ELSE Shown(e, i)
  <2>1. i \in Index
    BY IndexesAssumption
  <2>2. Formed(e) /\ Formed(f)
    BY DEF Sound, e, f
  <2>3. \A x \in Val : Has(f, i, x) <=> IF i = key THEN x = v ELSE Has(e, i, x)
    BY <2>1 DEF Written, e, f
  <2>4. CASE i = key
    BY <2>1, <2>2, <2>3, <2>4, SeenLemma
  <2>5. CASE i # key
    BY <2>1, <2>2, <2>3, <2>5, SeenLemma
  <2> QED
    BY <2>4, <2>5
<1> HIDE DEF u
<1>2. /\ View(m) = [i \in Indexes |-> Shown(e, i)]
      /\ View(n) = [i \in Indexes |-> Shown(f, i)]
  BY ViewLemma DEF e, f
<1>3. CASE key \in Indexes
  <2>1. View(n) = [View(m) EXCEPT ![key] = u]
    BY <1>1, <1>2, <1>3
  <2> QED
    BY <1>0, <1>3, <2>1 DEF Wrote
<1>4. CASE key \notin Indexes
  BY <1>1, <1>2, <1>4 DEF Wrote
<1> QED
  BY <1>3, <1>4

\* A call that takes the indexes from some index of the client's on out of the map.
Shrunk(m, n) ==
    \/ View(n) = View(m)
    \/ \E k \in Indexes : View(n) = Map!Shortened(View(m), k)

\* Cutting the elements off shortens the map, at the first of its indexes beyond.
LEMMA CutView ==
    ASSUME NEW m, NEW n, Formed(m["elements"]), Formed(n["elements"]),
           NEW j \in Nat, Cut(m["elements"], n["elements"], j)
    PROVE  Shrunk(m, n)
<1> DEFINE e == m["elements"]
           f == n["elements"]
<1> HIDE DEF e, f
<1>0. \A i \in Indexes : i \in Index /\ i \in Nat
  BY IndexesAssumption, NumDictAssumption DEF Index
<1>1. ASSUME NEW i \in Indexes
      PROVE  Shown(f, i) = IF i < j THEN Shown(e, i) ELSE PPTR_UNDEFINED
  <2>1. Formed(e) /\ Formed(f) /\ i \in Index
    BY <1>0 DEF e, f
  <2>2. \A x \in Val : Has(f, i, x) <=> i < j /\ Has(e, i, x)
    BY <2>1 DEF Cut, e, f
  <2>3. CASE i < j
    BY <2>1, <2>2, <2>3, SeenLemma
  <2>4. CASE ~(i < j)
    <3>1. \A x \in Val : Has(f, i, x) <=> x = PPTR_UNDEFINED
      BY <2>2, <2>4, NumDictAssumption
    <3>2. PPTR_UNDEFINED \notin Val
      BY NumDictAssumption
    <3> QED
      BY <2>1, <2>4, <3>1, <3>2, SeenLemma
  <2> QED
    BY <2>3, <2>4
<1>2. /\ View(m) = [i \in Indexes |-> Shown(e, i)]
      /\ View(n) = [i \in Indexes |-> Shown(f, i)]
  BY ViewLemma DEF e, f
<1> DEFINE S == {i \in Indexes : i >= j}
<1>3. CASE S = {}
  <2>1. \A i \in Indexes : i < j
    BY <1>0, <1>3
  <2> QED
    BY <1>1, <1>2, <2>1 DEF Shrunk
<1>4. CASE S # {}
  <2>1. S \in SUBSET Nat
    BY <1>0
  <2>2. PICK k \in S : \A i \in S : k <= i
    <3> HIDE DEF S
    <3> QED
      BY <1>4, <2>1, LeastNumber
  <2>3. \A i \in Indexes : i < j <=> i < k
    BY <1>0, <2>2
  <2>4. View(n) = Map!Shortened(View(m), k)
    BY <1>1, <1>2, <2>3 DEF Map!Shortened
  <2> QED
    BY <2>2, <2>4 DEF Shrunk
<1> QED
  BY <1>3, <1>4

-----------------------------------------------------------------------------
(* The elements and their transactions. *)

\* The object's memory, and the elements in it.
Loc == {"elements"}
El(image) == image["elements"]

\* Calls, transactions and crashes leave elements that are sound, in memory and in
\* what an abort or a recovery would bring back; and after an exception, the latter,
\* or for as long as it has not been brought back, what setLength() had come to.
Sane(p) ==
    /\ Good(p, Loc, Word) /\ ~p.orphan
    /\ p.stage \in {"NONE", "WORK", "ONABORT", "DEAD"}
    /\ p.stage = "WORK" => p.depth = 1
    /\ p.stage = "ONABORT" => p.depth \in {1, 2} /\ (p.depth = 1 => p.mem = Rolled(p))
    /\ p.stage \in {"NONE", "WORK"} => Sound(El(p.mem))
    /\ Formed(El(p.mem)) /\ Sound(El(Rolled(p)))

\* The fields of such a state.
LEMMA SaneFields ==
    ASSUME NEW p, Sane(p)
    PROVE  /\ p \in TxState(Loc, Word) /\ p.depth \in Nat
           /\ p.mem \in [Loc -> Word] /\ Rolled(p) \in [Loc -> Word]
           /\ p.stage = "NONE" => p.depth = 0 /\ p.mem = Rolled(p) /\ Settled(p)
           /\ p.stage = "WORK" => ~Settled(p)
           /\ p.stage = "ONABORT" => (Settled(p) <=> p.depth = 1)
<1>1. /\ p \in TxState(Loc, Word) /\ p.depth \in Nat
      /\ p.mem \in [Loc -> Word] /\ Rolled(p) \in [Loc -> Word]
  BY FieldLemma DEF Sane, Good
<1>2. p.stage = "NONE" => p.depth = 0 /\ p.undo = NoUndo(p) /\ Settled(p)
  BY DEF Sane, Good, Shape, Clean, Settled
<1>3. p.stage = "NONE" => p.mem = Rolled(p)
  BY <1>1, <1>2, FieldLemma
<1>4. /\ p.stage = "WORK" => ~Settled(p)
      /\ p.stage = "ONABORT" => (Settled(p) <=> p.depth = 1)
  BY DEF Sane, Settled
<1> QED
  BY <1>1, <1>2, <1>3, <1>4

\* The process has ended, and q is what it leaves.
Ended(p, q) == Sane(q) /\ q.stage = "DEAD" /\ Rolled(q) = Rolled(p)

\* The end of the process.
LEMMA EndedLemma ==
    ASSUME NEW p, Sane(p)
    PROVE  LET q == Die(p) IN Ended(p, q) /\ q.mem = p.mem
<1>1. /\ Good(Die(p), Loc, Word) /\ Die(p).stage = "DEAD" /\ Die(p).orphan = p.orphan
      /\ Die(p).mem = p.mem /\ Rolled(Die(p)) = Rolled(p)
  BY DieLemma DEF Sane
<1> QED
  BY <1>1 DEF Ended, Sane

\* e has been stored to the elements.
Stores(p, q, e) ==
    /\ Sane(q) /\ p.stage \in {"NONE", "WORK"} /\ q.stage = p.stage
    /\ El(q.mem) = e
    /\ Rolled(q) = IF p.stage = "WORK" THEN Rolled(p) ELSE q.mem

\* A store takes effect in a transaction of its own or in the one that is open, or
\* it ends the process.
LEMMA StoresLemma ==
    ASSUME NEW p, Sane(p), NEW e, Sound(e)
    PROVE  LET q == StoreElements(p, e)
           IN  /\ p.stage \in {"NONE", "WORK"} => Stores(p, q, e)
               /\ p.stage \notin {"NONE", "WORK"} => Ended(p, q)
<1> DEFINE m == [p.mem EXCEPT !["elements"] = e]
           q == InTx(p, Loc, m)
<1>0. /\ Good(p, Loc, Word) /\ ~p.orphan /\ p.mem \in [Loc -> Word] /\ e \in Word
      /\ Loc \in SUBSET Loc /\ Formed(e)
  BY SaneFields DEF Sane, Sound, Formed
<1>1. m \in [Loc -> Word] /\ El(m) = e
  BY <1>0 DEF Loc, El
<1>2. q = StoreElements(p, e)
  BY DEF StoreElements, Loc
<1> HIDE DEF m
<1>3. Put(p.mem, Loc, m, Loc) = m
  BY <1>1 DEF Put
<1>4. /\ Good(q, Loc, Word)
      /\ p.stage = "NONE" /\ ~p.orphan =>
           /\ q.stage = "NONE" /\ q.depth = 0 /\ ~q.orphan
           /\ q.mem = Put(p.mem, Loc, m, Loc) /\ Rolled(q) = q.mem
      /\ p.stage = "WORK" /\ ~p.orphan =>
           /\ q.stage = "WORK" /\ q.depth = p.depth /\ ~q.orphan
           /\ q.mem = Put(p.mem, Loc, m, Loc) /\ Rolled(q) = Rolled(p)
      /\ p.stage \notin {"NONE", "WORK"} \/ p.orphan => q = Die(p)
  BY <1>0, <1>1, SnapAssumption, InTxLemma
<1> HIDE DEF q
<1>5. ASSUME p.stage = "NONE"
      PROVE  Stores(p, q, e)
  <2>1. q.stage = "NONE" /\ ~q.orphan /\ q.mem = m /\ Rolled(q) = m
    BY <1>0, <1>3, <1>4, <1>5
  <2>2. Sane(q)
    BY <1>0, <1>1, <1>4, <2>1 DEF Sane
  <2> QED
    BY <1>1, <1>5, <2>1, <2>2 DEF Stores
<1>6. ASSUME p.stage = "WORK"
      PROVE  Stores(p, q, e)
  <2>1. /\ q.stage = "WORK" /\ ~q.orphan /\ q.mem = m /\ Rolled(q) = Rolled(p)
        /\ q.depth = p.depth
    BY <1>0, <1>3, <1>4, <1>6
  <2>2. p.depth = 1 /\ Sound(El(Rolled(p)))
    BY <1>6 DEF Sane
  <2>3. Sane(q)
    BY <1>0, <1>1, <1>4, <2>1, <2>2 DEF Sane
  <2> QED
    BY <1>1, <1>6, <2>1, <2>3 DEF Stores
<1>7. ASSUME p.stage \notin {"NONE", "WORK"}
      PROVE  Ended(p, q)
  BY <1>4, <1>7, EndedLemma
<1> QED
  BY <1>2, <1>5, <1>6, <1>7

\* An exception has aborted what was open.
Undone(p, q) ==
    /\ Sane(q) /\ p.stage \in {"NONE", "WORK"}
    /\ q.stage \in {"NONE", "ONABORT"} /\ Settled(q)
    /\ q.mem = Rolled(p) /\ Rolled(q) = Rolled(p)

\* Or it has aborted the innermost of three, which leaves e for as long as the next
\* is not ended.
Leaves(p, q, e) ==
    /\ Sane(q) /\ p.stage = "WORK"
    /\ q.stage = "ONABORT" /\ ~Settled(q)
    /\ El(q.mem) = e /\ Rolled(q) = Rolled(p)

\* An exception does one of the two.
LEMMA ThrownLemma ==
    ASSUME NEW p, Sane(p), p.stage \in {"NONE", "WORK"}, NEW e, Formed(e), NEW n \in {1, 2}
    PROVE  LET q == Thrown(p, e, n)
           IN  Undone(p, q) \/ (n = 2 /\ Leaves(p, q, e))
<1> DEFINE m == [p.mem EXCEPT !["elements"] = e]
<1>0. /\ Good(p, Loc, Word) /\ ~p.orphan /\ p.depth \in Nat /\ n \in Nat /\ n # 0
      /\ p.mem \in [Loc -> Word] /\ e \in Word /\ Loc \in SUBSET Loc
  BY SaneFields DEF Sane, Formed
<1>1. m \in [Loc -> Word] /\ El(m) = e
  BY <1>0 DEF Loc, El
<1> HIDE DEF m
<1>2. Put(p.mem, Loc, m, Loc) = m
  BY <1>1 DEF Put
<1>3. ASSUME NEW b, b = EnterN(p, n), NEW c, c = tx_store(b, Loc, m),
             NEW q, q = tx_abort_context(c)
      PROVE  Undone(p, q) \/ (n = 2 /\ Leaves(p, q, e))
  <2>1. /\ Good(b, Loc, Word) /\ b.stage = "WORK" /\ b.depth = p.depth + n /\ ~b.orphan
        /\ b.mem = p.mem /\ Rolled(b) = Rolled(p)
    BY <1>0, <1>3, EnterNLemma
  <2>2. /\ Good(c, Loc, Word) /\ c.stage = "WORK" /\ c.depth = p.depth + n /\ ~c.orphan
        /\ c.mem = m /\ Rolled(c) = Rolled(p)
    BY <1>0, <1>1, <1>2, <1>3, <2>1, SnapAssumption, StoreLemma
  <2>3. /\ Good(q, Loc, Word) /\ Rolled(q) = Rolled(p)
        /\ q.depth = c.depth - 1 /\ ~q.orphan
        /\ q.stage = IF c.depth = 1 THEN "NONE" ELSE "ONABORT"
        /\ q.mem = IF c.depth \in {1, 2} THEN Rolled(p) ELSE m
    BY <1>3, <2>2, AbortContextLemma
  <2>4. Sound(El(Rolled(p))) /\ Formed(El(Rolled(p)))
    BY DEF Sane, Sound
  <2>5. CASE p.depth + n = 1
    <3>1. q.stage = "NONE" /\ q.mem = Rolled(p) /\ Settled(q)
      BY <2>2, <2>3, <2>5 DEF Settled
    <3> QED
      BY <2>3, <2>4, <3>1 DEF Undone, Sane
  <2>6. CASE p.depth + n = 2
    <3>1. q.stage = "ONABORT" /\ q.mem = Rolled(p) /\ Settled(q) /\ q.depth = 1
      BY <2>2, <2>3, <2>6 DEF Settled
    <3> QED
      BY <2>3, <2>4, <3>1 DEF Undone, Sane
  <2>7. CASE p.depth + n = 3
    <3>1. q.stage = "ONABORT" /\ q.mem = m /\ q.depth = 2 /\ ~Settled(q)
      BY <2>2, <2>3, <2>7 DEF Settled
    <3>2. p.stage = "WORK" /\ n = 2
      BY <1>0, <2>7, SaneFields DEF Sane
    <3>3. El(q.mem) = e
      BY <1>1, <3>1
    <3>4. Sane(q)
      <4>1. Formed(El(q.mem)) /\ Sound(El(Rolled(q)))
        BY <2>3, <2>4, <3>3
      <4>2. Good(q, Loc, Word) /\ ~q.orphan
        BY <2>3
      <4> QED
        BY <3>1, <4>1, <4>2 DEF Sane
    <3> QED
      BY <2>3, <3>1, <3>2, <3>3, <3>4 DEF Leaves
  <2>8. p.depth + n \in {1, 2, 3}
    <3>1. p.stage = "NONE" => p.depth = 0
      BY SaneFields
    <3>2. p.stage = "WORK" => p.depth = 1
      BY DEF Sane
    <3> QED
      BY <3>1, <3>2
  <2> QED
    BY <2>5, <2>6, <2>7, <2>8
<1>4. Thrown(p, e, n) = tx_abort_context(tx_store(EnterN(p, n), Loc, m))
  BY DEF Thrown, Loc, m
<1> QED
  BY <1>3, <1>4

\* What becomes of a call that ends in some way.
LEMMA ResultLemma ==
    ASSUME NEW p, Sane(p), p.stage \in {"NONE", "WORK"}, ~IsDense(El(p.mem)),
           NEW n \in {1, 2}, NEW r, r.ends \in {"done", "throws", "asserts"},
           r.ends # "asserts" => Table(r.dict), r.ends = "done" => Bounded(r.dict)
    PROVE  LET q == StoreResult(p, r, n)
               e == Form("NUMDICT", r.dict)
           IN  \/ Ended(p, q) \/ Undone(p, q)
               \/ r.ends = "throws" /\ n = 2 /\ Leaves(p, q, e)
               \/ r.ends = "done" /\ Stores(p, q, e)
<1> DEFINE q == StoreResult(p, r, n)
           e == Form("NUMDICT", r.dict)
<1>0. [El(p.mem) EXCEPT !.body = r.dict] = e
  <2>1. Formed(El(p.mem)) /\ El(p.mem).ob_type = "NUMDICT"
    BY DEF Sane, Formed, IsDense
  <2> QED
    BY <2>1, SoundFields
<1> HIDE DEF e
<1>1. CASE r.ends = "done"
  <2>1. q = StoreElements(p, e)
    BY <1>0, <1>1 DEF StoreResult, El
  <2>2. Sound(e)
    BY <1>1, SparseSound DEF e
  <2> QED
    BY <1>1, <2>1, <2>2, StoresLemma DEF e
<1>2. CASE r.ends = "throws"
  <2>1. q = Thrown(p, e, n)
    BY <1>0, <1>2 DEF StoreResult, El
  <2>2. Formed(e)
    BY <1>2, SparseFormed DEF e
  <2> QED
    BY <1>2, <2>1, <2>2, ThrownLemma DEF e
<1>3. CASE r.ends = "asserts"
  <2>1. q = Die(p)
    BY <1>3 DEF StoreResult
  <2> QED
    BY <2>1, EndedLemma
<1> QED
  BY <1>1, <1>2, <1>3

\* After an exception, and after its end, the process ends in the next call that
\* stores, at the begin of its transaction.
LEMMA StoppedLemma ==
    ASSUME NEW p, Sane(p), p.stage \notin {"NONE", "WORK"}
    PROVE  /\ \A e : StoreElements(p, e) = Die(p)
           /\ \A r : \A n \in {1, 2} : r.ends \in {"done", "throws", "asserts"}
                => StoreResult(p, r, n) = Die(p)
<1>1. Die(p) \in TxState(Loc, Word) /\ Die(p).stage = "DEAD"
  BY DieLemma DEF Sane, Good
<1>2. /\ tx_exit_context(Die(p)) = Die(p) /\ tx_abort_context(Die(p)) = Die(p)
      /\ \A S, f : tx_store(Die(p), S, f) = Die(p)
  BY <1>1, DeadLemma
<1>3. ASSUME NEW e
      PROVE  StoreElements(p, e) = Die(p)
  <2>1. tx_enter_context(p) = Die(p)
    BY DEF tx_enter_context, pmemobj_tx_begin
  <2> QED
    BY <1>2, <2>1 DEF StoreElements, InTx
<1>4. ASSUME NEW e, NEW n \in {1, 2}
      PROVE  Thrown(p, e, n) = Die(p)
  <2>1. EnterN(p, n) = Die(p)
    BY DEF EnterN
  <2> QED
    BY <1>2, <2>1 DEF Thrown
<1> QED
  BY <1>3, <1>4 DEF StoreResult

\* The process that is started next.
LEMMA RestartedLemma ==
    ASSUME NEW p, Sane(p)
    PROVE  LET q == Restarted(p)
           IN  /\ p.stage # "DEAD" => q = p
               /\ p.stage = "DEAD" => /\ Sane(q) /\ q.stage = "NONE"
                                      /\ q.mem = Rolled(p) /\ Rolled(q) = Rolled(p)
<1>1. ASSUME NEW n, n = NewProcess(p), NEW q, q = pmemobj_open(n)
      PROVE  /\ Sane(q) /\ q.stage = "NONE"
             /\ q.mem = Rolled(p) /\ Rolled(q) = Rolled(p)
  <2>1. /\ n \in TxState(Loc, Word) /\ Shape(n) /\ n.stage = "NONE" /\ Rolled(n) = Rolled(p)
    BY <1>1, SaneFields, NewProcessLemma
  <2>2. /\ Good(q, Loc, Word) /\ q.stage = "NONE"
        /\ q.mem = Rolled(p) /\ Rolled(q) = Rolled(p)
    BY <1>1, <2>1, OpenLemma
  <2>3. ~q.orphan
    <3>1. q.depth = 0 /\ (q.orphan => q.depth > 0)
      BY <2>2 DEF Good, Shape
    <3> QED
      BY <3>1
  <2>4. Sound(El(Rolled(p))) /\ Formed(El(Rolled(p)))
    BY DEF Sane, Sound
  <2> QED
    BY <2>2, <2>3, <2>4 DEF Sane
<1> QED
  BY <1>1 DEF Restarted

-----------------------------------------------------------------------------
(* The calls. *)

\* Setting an index after an exception.
LEMMA StoppedSet ==
    ASSUME NEW p, Sane(p), p.stage \notin {"NONE", "WORK"},
           NEW i \in Index, NEW v \in Item, Fits(p, i, v)
    PROVE  Set(p, i, v) = Die(p)
<1>1. CASE IsDense(El(p.mem))
  BY <1>1, StoppedLemma DEF Set, El
<1>2. CASE ~IsDense(El(p.mem))
  <2> DEFINE r == setProperty(El(p.mem).body, i, v)
  <2>1. Table(El(p.mem).body)
    BY <1>2 DEF Sane, Formed
  <2>2. r.ends \in {"done", "throws", "asserts", "beyond"} /\ r.ends # "beyond"
    BY <1>2, <2>1, SetPropertyLemma DEF Fits, El
  <2>3. Set(p, i, v) = StoreResult(p, r, 1)
    BY <1>2 DEF Set, El
  <2> HIDE DEF r
  <2> QED
    BY <2>2, <2>3, StoppedLemma
<1> QED
  BY <1>1, <1>2

\* A conversion keeps every value.
LEMMA ConvertedLemma ==
    ASSUME NEW p, Sane(p), p.stage \in {"NONE", "WORK"}, NEW i \in Index, ConversionFits(p, i)
    PROVE  LET q == Converted(p, i)
           IN  \/ q = p
               \/ Ended(p, q)
               \/ \E e : Stores(p, q, e) /\ Sound(e) /\ Same(El(p.mem), e)
<1> DEFINE e == El(p.mem)
           q == Converted(p, i)
<1>0. Sound(e)
  BY DEF Sane
<1>1. CASE IsDense(e) /\ shouldConvertToNumDict(e.body, i)
  <2> DEFINE r == convertToNumDict(e.body)
             f == Form("NUMDICT", r.dict)
  <2>1. Array(e.body)
    BY <1>0, <1>1 DEF Sound, Formed
  <2>2. r.ends # "beyond"
    BY <1>1 DEF ConversionFits, El
  <2>3. q = StoreElements(p, f)
    BY <1>1 DEF Converted, El, Form
  <2>4. /\ r.ends \in {"done", "beyond"}
        /\ r.ends = "done" =>
              /\ Table(r.dict) /\ Bounded(r.dict)
              /\ \A c \in Index, x \in Val : Holds(r.dict, c, x) <=> At(e.body, c, x)
    BY <2>1, ToNumDictLemma
  <2> HIDE DEF q, r, e
  <2>5. /\ Table(r.dict) /\ Bounded(r.dict)
        /\ \A c \in Index, x \in Val : Holds(r.dict, c, x) <=> At(e.body, c, x)
    BY <2>2, <2>4
  <2>6. Sound(f) /\ ~IsDense(f) /\ f.body = r.dict
    BY <2>5, SparseSound
  <2> HIDE DEF f
  <2>7. Same(e, f)
    <3>1. \A c \in Index : \A x : Has(f, c, x) <=> Holds(r.dict, c, x)
      BY <2>6, HasLemma
    <3> QED
      BY <1>1, <2>5, <3>1 DEF Same, Has
  <2>8. Stores(p, q, f) \/ Ended(p, q)
    BY <2>3, <2>6, StoresLemma
  <2> QED
    BY <2>6, <2>7, <2>8 DEF q, e
<1>2. CASE ~IsDense(e) /\ shouldConvertToSimpleArray(e.body, i)
  <2>1. CASE KeysFit(e.body) /\ e.body.ob_size > 0
    <3> DEFINE a == convertToSimpleArray(e.body)
               f == Form("ARRAY", a)
    <3>1. Table(e.body) /\ Bounded(e.body)
      BY <1>0, <1>2 DEF Sound, Formed
    <3>2. q = StoreElements(p, f)
      BY <1>2, <2>1 DEF Converted, El, Form
    <3>3. /\ Array(a)
          /\ \A c \in Index, x \in Val : At(a, c, x) <=> Holds(e.body, c, x)
      BY <2>1, <3>1, ToArrayLemma
    <3> HIDE DEF q, a, e
    <3>4. Sound(f) /\ IsDense(f) /\ f.body = a
      BY <3>3, DenseSound
    <3> HIDE DEF f
    <3>5. Same(e, f)
      <4>1. Sound(e) /\ \A c \in Index : \A x : Has(e, c, x) <=> Holds(e.body, c, x)
        BY <1>0, <1>2, HasLemma
      <4> QED
        BY <3>3, <3>4, <4>1 DEF Same, Has
    <3>6. Stores(p, q, f) \/ Ended(p, q)
      BY <3>2, <3>4, StoresLemma
    <3> QED
      BY <3>4, <3>5, <3>6 DEF q, e
  <2>2. CASE ~(KeysFit(e.body) /\ e.body.ob_size > 0)
    <3>1. q = Die(p)
      BY <1>2, <2>2 DEF Converted, El
    <3> QED
      BY <3>1, EndedLemma
  <2> QED
    BY <2>1, <2>2
<1>3. CASE /\ ~(IsDense(e) /\ shouldConvertToNumDict(e.body, i))
           /\ ~(~IsDense(e) /\ shouldConvertToSimpleArray(e.body, i))
  BY <1>3 DEF Converted, El
<1> QED
  BY <1>1, <1>2, <1>3

\* Setting an index writes that one, and keeps the form; or it leaves nothing.
LEMMA SetLemma ==
    ASSUME NEW p, Sane(p), p.stage \in {"NONE", "WORK"},
           NEW i \in Index, NEW v \in Item, Fits(p, i, v)
    PROVE  LET q == Set(p, i, v)
           IN  \/ Ended(p, q) \/ Undone(p, q)
               \/ \E e : /\ Stores(p, q, e) /\ Sound(e)
                         /\ e.ob_type = El(p.mem).ob_type
                         /\ Written(El(p.mem), e, i, v)
<1> DEFINE e == El(p.mem)
           q == Set(p, i, v)
<1>0. Sound(e) /\ e.ob_type \in {"ARRAY", "NUMDICT"}
  BY DEF Sane, Sound, Formed
<1>1. CASE IsDense(e)
  <2> DEFINE a == setItem(e.body, i, v)
             f == Form("ARRAY", a)
  <2>1. Array(e.body) /\ e.ob_type = "ARRAY" /\ Formed(e)
    BY <1>0, <1>1 DEF Sound, Formed, IsDense
  <2>2. [e EXCEPT !.body = a] = f
    BY <2>1, SoundFields
  <2>3. q = StoreElements(p, [e EXCEPT !.body = setItem(e.body, i, v)])
    BY <1>1 DEF Set, El
  <2>4. /\ Array(a)
        /\ \A c \in Index, x \in Val :
              At(a, c, x) <=> IF c = i THEN x = v ELSE At(e.body, c, x)
    BY <2>1, SetItemLemma
  <2> HIDE DEF q, a, e
  <2>5. q = StoreElements(p, f)
    BY <2>2, <2>3 DEF a
  <2>6. Sound(f) /\ IsDense(f) /\ f.body = a /\ f.ob_type = "ARRAY"
    BY <2>4, DenseSound
  <2> HIDE DEF f
  <2>7. Written(e, f, i, v)
    BY <1>1, <2>4, <2>6 DEF Written, Has
  <2>8. Stores(p, q, f) \/ Ended(p, q)
    BY <2>5, <2>6, StoresLemma
  <2> QED
    BY <2>1, <2>6, <2>7, <2>8 DEF q, e
<1>2. CASE ~IsDense(e)
  <2> DEFINE r == setProperty(e.body, i, v)
             f == Form("NUMDICT", r.dict)
  <2>1. Table(e.body) /\ Bounded(e.body) /\ e.ob_type = "NUMDICT"
    BY <1>0, <1>2 DEF Sound, Formed, IsDense
  <2>2. q = StoreResult(p, r, 1)
    BY <1>2 DEF Set, El
  <2>3. r.ends # "beyond"
    BY <1>2 DEF Fits, El
  <2>4. /\ r.ends \in {"done", "throws", "asserts", "beyond"}
        /\ r.ends = "done" => Sets(e.body, r.dict, i, v)
        /\ r.ends # "done" => r.dict = e.body
    BY <2>1, SetPropertyLemma
  <2>5. ~IsDense(El(p.mem))
    BY <1>2
  <2> HIDE DEF q, r, e
  <2>6. r.ends = "done" => /\ Table(r.dict) /\ Bounded(r.dict)
                           /\ Puts1(e.body, r.dict, i, v)
    BY <2>1, <2>4, SetsBounded DEF Sets
  <2>7. r.ends \in {"done", "throws", "asserts"}
    BY <2>3, <2>4
  <2>11. (r.ends # "asserts" => Table(r.dict)) /\ 1 \in {1, 2} /\ 1 # 2
    BY <2>1, <2>4, <2>6, <2>7
  <2>8. \/ Ended(p, q) \/ Undone(p, q)
        \/ r.ends = "done" /\ Stores(p, q, f)
    BY <2>2, <2>5, <2>6, <2>7, <2>11, ResultLemma
  <2>9. r.ends = "done" => Sound(f) /\ ~IsDense(f) /\ f.body = r.dict /\ f.ob_type = "NUMDICT"
    BY <2>6, SparseSound
  <2> HIDE DEF f
  <2>10. ASSUME r.ends = "done"
         PROVE  Written(e, f, i, v)
    <3>1. \A x \in Val : x # PPTR_NULL
      BY NumDictAssumption
    <3>2. Sound(e) /\ ~IsDense(e)
      BY <1>0, <1>2 DEF e
    <3>3. \A c \in Index : \A x : Has(e, c, x) <=> Holds(e.body, c, x)
      BY <3>2, HasLemma
    <3>4. \A c \in Index : \A x : Has(f, c, x) <=> Holds(r.dict, c, x)
      BY <2>9, <2>10, HasLemma
    <3> QED
      BY <2>6, <2>10, <3>1, <3>3, <3>4 DEF Written, Puts1
  <2> QED
    BY <2>1, <2>8, <2>9, <2>10 DEF q, e
<1> QED
  BY <1>1, <1>2

\* setLength() ends in one of these ways.
LEMMA SetLengthEnds ==
    ASSUME NEW d, Table(d), NEW n \in Index
    PROVE  setLength(d, n).ends \in {"done", "throws", "asserts", "beyond"}
<1> DEFINE values == [i \in n..d.ob_size - 1 |-> PPTR_NULL]
<1>1. Table(Sized(d, n))
  BY SizedLemma, NumDictAssumption DEF Index
<1>2. \A i \in DOMAIN values : values[i] \in Item
  BY DEF Item
<1>3. setLength(d, n) = Setting(Sized(d, n), values)[MaxLength]
  BY DEF setLength, Sized
<1> HIDE DEF values
<1>4. SetBelow(Sized(d, n), values, Setting(Sized(d, n), values)[MaxLength], MaxLength)
  BY <1>1, <1>2, SettingTable
<1> QED
  BY <1>3, <1>4 DEF SetBelow

-----------------------------------------------------------------------------
(* The steps. *)

\* The elements are sound, now and after an abort or a crash, and the handles that the
\* client goes on using lead to them.
IInv ==
    /\ Sane(pm) /\ pm.stage # "DEAD"
    /\ DOMAIN handle \subseteq Handle /\ HandlesLead
    /\ ops \in 0..MaxOps

\* What a step does to the map: one of its actions, or nothing.
Refines == Map!Next \/ Map!Shorten \/ UNCHANGED Map!vars

\* What a call has made of the library's state, in one of five ways: nothing, the end
\* of the process, what an abort leaves, a map that is written or shortened, or one
\* that is shortened for as long as the client does not end its transaction.
EndsCall(q) ==
    /\ q.stage = "DEAD" /\ Sane(q)
    /\ \/ View(Rolled(q)) = View(Rolled(pm))
       \/ pm.stage = "NONE" /\ (Wrote(pm.mem, Rolled(q)) \/ Shrunk(pm.mem, Rolled(q)))

UndoesCall(q) ==
    /\ Sane(q) /\ q.stage \in {"NONE", "ONABORT"} /\ Settled(q)
    /\ View(Rolled(q)) = View(Rolled(pm)) /\ q.mem = Rolled(q)

WritesCall(q) ==
    /\ Sane(q) /\ pm.stage \in {"NONE", "WORK"} /\ q.stage = pm.stage
    /\ Wrote(pm.mem, q.mem) \/ Shrunk(pm.mem, q.mem)
    /\ Rolled(q) = IF pm.stage = "WORK" THEN Rolled(pm) ELSE q.mem

LeavesCall(q) ==
    /\ Sane(q) /\ pm.stage = "WORK" /\ q.stage = "ONABORT" /\ ~Settled(q)
    /\ Shrunk(pm.mem, q.mem) /\ Rolled(q) = Rolled(pm)

\* The handles with which the client goes on lead to the elements that q has, if it
\* goes on with any.
Leading(q, kept) ==
    /\ DOMAIN kept \subseteq Handle
    /\ \/ q.stage = "DEAD" \/ (pm.stage = "WORK" /\ q.stage # "WORK")
       \/ \A g \in DOMAIN kept : kept[g] = El(q.mem).ob_type

\* The handles that there are do as long as the form stays the same.
LEMMA KeptLemma ==
    ASSUME IInv, NEW q, El(q.mem).ob_type = El(pm.mem).ob_type
    PROVE  Leading(q, handle)
  BY DEF IInv, HandlesLead, elements, El, Leading

\* Or when the client goes on with none.
LEMMA DroppedLemma ==
    ASSUME IInv, NEW q, q.stage = "DEAD" \/ (pm.stage = "WORK" /\ q.stage # "WORK")
    PROVE  Leading(q, handle)
  BY DEF IInv, Leading

\* A view is a map from the client's indexes.
LEMMA WroteLemma ==
    ASSUME NEW m, NEW n, Wrote(m, n) \/ Shrunk(m, n)
    PROVE  \/ View(n) = View(m)
           \/ Map!OneKeyChanges(View(m), View(n))
           \/ \E k \in Indexes : View(n) = Map!Shortened(View(m), k)
  BY DEF Wrote, Shrunk, Map!OneKeyChanges

\* The five ways are steps of the map.
LEMMA CallStep ==
    ASSUME IInv, NEW h, NEW q, NEW kept, Calls(h, q, kept), Leading(q, kept),
           q = pm \/ EndsCall(q) \/ UndoesCall(q) \/ WritesCall(q) \/ LeavesCall(q)
    PROVE  IInv' /\ Refines
<1>0. /\ Sane(pm) /\ pm.stage # "DEAD" /\ ops \in 0..MaxOps /\ MaxOps \in Nat
      /\ pm.stage \in {"NONE", "WORK", "ONABORT"}
      /\ pm.stage = "WORK" => ops < MaxOps
      /\ pm' = Restarted(q)
      /\ ops' = IF pm'.stage = "WORK" THEN ops + 1 ELSE 0
      /\ handle' = IF q.stage = "DEAD" \/ (pm.stage = "WORK" /\ q.stage # "WORK")
                   THEN NoHandles ELSE kept
      /\ elements = El(pm.mem) /\ elements' = El(pm'.mem)
  BY IndexesAssumption DEF IInv, Sane, Calls, InTransaction, elements, El
<1>1. Sane(q)
  BY <1>0 DEF EndsCall, UndoesCall, WritesCall, LeavesCall
<1>2. /\ q.stage # "DEAD" => pm' = q
      /\ q.stage = "DEAD" => /\ Sane(pm') /\ pm'.stage = "NONE"
                             /\ pm'.mem = Rolled(q) /\ Rolled(pm') = Rolled(q)
  BY <1>0, <1>1, RestartedLemma
<1>3. Sane(pm') /\ pm'.stage # "DEAD"
  BY <1>1, <1>2
<1>4. pm'.stage = "WORK" => pm.stage = "WORK"
  BY <1>0, <1>2 DEF EndsCall, UndoesCall, WritesCall, LeavesCall
<1>5. IInv'
  <2>1. ops' \in 0..MaxOps
    BY <1>0, <1>4
  <2>2. CASE q.stage = "DEAD" \/ (pm.stage = "WORK" /\ q.stage # "WORK")
    <3>1. handle' = NoHandles
      BY <1>0, <2>2
    <3> QED
      BY <1>3, <2>1, <3>1 DEF IInv, NoHandles, HandlesLead
  <2>3. CASE ~(q.stage = "DEAD" \/ (pm.stage = "WORK" /\ q.stage # "WORK"))
    <3>1. handle' = kept /\ pm' = q
      BY <1>0, <1>2, <2>3
    <3>2. DOMAIN kept \subseteq Handle /\ \A g \in DOMAIN kept : kept[g] = El(q.mem).ob_type
      BY <2>3 DEF Leading
    <3> QED
      BY <1>0, <1>3, <2>1, <3>1, <3>2 DEF IInv, HandlesLead
  <2> QED
    BY <2>2, <2>3
<1>7. /\ pm.stage = "NONE" => Settled(pm) /\ pm.mem = Rolled(pm)
      /\ pm.stage = "WORK" => ~Settled(pm)
      /\ pm'.stage = "NONE" => Settled(pm') /\ pm'.mem = Rolled(pm')
      /\ pm'.stage = "WORK" => ~Settled(pm')
  BY <1>0, <1>3, SaneFields
<1>8. Refines
  <2>1. CASE q = pm
    <3>1. pm' = pm
      BY <1>0, <1>2, <2>1
    <3> QED
      BY <3>1 DEF Refines, Map!vars
  <2>2. CASE EndsCall(q)
    <3>1. /\ pm'.stage = "NONE" /\ pm'.mem = Rolled(q) /\ Rolled(pm') = Rolled(q)
          /\ Settled(pm')
      BY <1>2, <1>7, <2>2 DEF EndsCall
    <3>2. CASE View(Rolled(q)) = View(Rolled(pm))
      <4>1. Map!Rollback
        BY <3>1, <3>2 DEF Map!Rollback
      <4> QED
        BY <4>1 DEF Refines, Map!Next
    <3>3. CASE pm.stage = "NONE" /\ (Wrote(pm.mem, Rolled(q)) \/ Shrunk(pm.mem, Rolled(q)))
      <4>1. \/ View(pm'.mem) = View(pm.mem)
            \/ Map!OneKeyChanges(View(pm.mem), View(pm'.mem))
            \/ \E k \in Indexes : View(pm'.mem) = Map!Shortened(View(pm.mem), k)
        BY <3>1, <3>3, WroteLemma
      <4>2. /\ Settled(pm) /\ View(pm.mem) = View(Rolled(pm))
            /\ View(Rolled(pm')) = View(pm'.mem)
        BY <1>7, <3>1, <3>3
      <4> QED
        BY <3>1, <4>1, <4>2 DEF Refines, Map!Next, Map!vars, Map!Write, Map!Shorten
    <3> QED
      BY <2>2, <3>2, <3>3 DEF EndsCall
  <2>3. CASE UndoesCall(q)
    <3>1. pm' = q
      BY <1>2, <2>3 DEF UndoesCall
    <3>2. Map!Rollback
      BY <2>3, <3>1 DEF Map!Rollback, UndoesCall
    <3> QED
      BY <3>2 DEF Refines, Map!Next
  <2>4. CASE WritesCall(q)
    <3>1. pm' = q /\ pm'.stage = pm.stage
      BY <1>0, <1>2, <2>4 DEF WritesCall
    <3>2. \/ View(pm'.mem) = View(pm.mem)
          \/ Map!OneKeyChanges(View(pm.mem), View(pm'.mem))
          \/ \E k \in Indexes : View(pm'.mem) = Map!Shortened(View(pm.mem), k)
      BY <2>4, <3>1, WroteLemma DEF WritesCall
    <3>3. CASE pm.stage = "NONE"
      <4>1. /\ Settled(pm) /\ Settled(pm') /\ View(pm.mem) = View(Rolled(pm))
            /\ View(Rolled(pm')) = View(pm'.mem)
        BY <1>7, <3>1, <3>3
      <4> QED
        BY <3>2, <4>1 DEF Refines, Map!Next, Map!vars, Map!Write, Map!Shorten
    <3>4. CASE pm.stage = "WORK"
      <4>1. /\ ~Settled(pm) /\ ~Settled(pm') /\ View(Rolled(pm')) = View(Rolled(pm))
        BY <1>7, <2>4, <3>1, <3>4 DEF WritesCall
      <4> QED
        BY <3>2, <4>1 DEF Refines, Map!Next, Map!vars, Map!Write, Map!Shorten
    <3> QED
      BY <2>4, <3>3, <3>4 DEF WritesCall
  <2>5. CASE LeavesCall(q)
    <3>1. pm' = q
      BY <1>2, <2>5 DEF LeavesCall
    <3>2. \/ View(pm'.mem) = View(pm.mem)
          \/ \E k \in Indexes : View(pm'.mem) = Map!Shortened(View(pm.mem), k)
      BY <2>5, <3>1 DEF LeavesCall, Shrunk
    <3>3. /\ ~Settled(pm) /\ ~Settled(pm') /\ View(Rolled(pm')) = View(Rolled(pm))
      BY <1>7, <2>5, <3>1 DEF LeavesCall
    <3> QED
      BY <3>2, <3>3 DEF Refines, Map!vars, Map!Shorten
  <2> QED
    BY <2>1, <2>2, <2>3, <2>4, <2>5
<1> QED
  BY <1>5, <1>8

\* A store that writes an index, in the form there is.
LEMMA StoredWrites ==
    ASSUME Sane(pm), NEW q, NEW e, Stores(pm, q, e), Sound(e),
           \/ Same(El(pm.mem), e)
           \/ \E i \in Index, v \in Item : Written(El(pm.mem), e, i, v)
           \/ \E n \in Nat : Cut(El(pm.mem), e, n)
    PROVE  WritesCall(q)
<1>1. /\ Sound(El(pm.mem)) /\ Sound(El(q.mem)) /\ El(q.mem) = e
      /\ Formed(El(pm.mem)) /\ Formed(El(q.mem))
  BY DEF Sane, Stores, Sound
<1>2. Wrote(pm.mem, q.mem) \/ Shrunk(pm.mem, q.mem)
  <2>1. CASE Same(El(pm.mem), e)
    BY <1>1, <2>1, SameView DEF El, Wrote
  <2>2. CASE \E i \in Index, v \in Item : Written(El(pm.mem), e, i, v)
    BY <1>1, <2>2, WrittenView DEF El
  <2>3. CASE \E n \in Nat : Cut(El(pm.mem), e, n)
    BY <1>1, <2>3, CutView DEF El
  <2> QED
    BY <2>1, <2>2, <2>3
<1> QED
  BY <1>2 DEF WritesCall, Stores

\* The process ends in a call that would have written.
LEMMA WrittenEnds ==
    ASSUME NEW p, WritesCall(p), NEW q, Ended(p, q)
    PROVE  EndsCall(q)
  BY DEF WritesCall, Ended, EndsCall

\* The process ends, or an exception is thrown, in a call that has written nothing.
LEMMA EndsLeavesCall ==
    ASSUME Sane(pm), NEW q
    PROVE  /\ Ended(pm, q) => EndsCall(q)
           /\ Undone(pm, q) => UndoesCall(q)
  BY DEF Ended, EndsCall, Undone, UndoesCall

\* The process ends in a call that comes to a store after an exception.
LEMMA StoppedStep ==
    ASSUME IInv, pm.stage \notin {"NONE", "WORK"}, NEW h, NEW q, q = pm \/ q = Die(pm),
           NEW kept, DOMAIN kept \subseteq Handle, kept = handle \/ q = Die(pm),
           Calls(h, q, kept)
    PROVE  IInv' /\ Refines
<1>1. CASE q = Die(pm)
  <2>1. EndsCall(q)
    BY <1>1, EndedLemma, EndsLeavesCall DEF IInv
  <2>2. Leading(q, kept)
    BY <2>1 DEF EndsCall, Leading
  <2> QED
    BY <2>1, <2>2, CallStep
<1>2. CASE q = pm /\ kept = handle
  BY <1>2, KeptLemma, CallStep
<1> QED
  BY <1>1, <1>2

\* What a conversion leaves: nothing has changed, or the form has, or it has failed.
Converts(p) ==
    \/ p = pm
    \/ Ended(pm, p)
    \/ \E e : Stores(pm, p, e) /\ Sound(e) /\ Same(El(pm.mem), e)

\* After it the map is what it was.
LEMMA ConvertsLemma ==
    ASSUME Sane(pm), pm.stage \in {"NONE", "WORK"}, NEW p, Converts(p)
    PROVE  /\ Sane(p) /\ View(Rolled(p)) = View(Rolled(pm))
           /\ p.stage \in {"NONE", "WORK"} =>
                /\ pm.stage = p.stage
                /\ p.stage = "WORK" => Rolled(p) = Rolled(pm)
                /\ p.stage = "NONE" => p.mem = Rolled(p)
                /\ Same(El(pm.mem), El(p.mem))
<1>1. CASE p = pm
  BY <1>1, SaneFields DEF Same
<1>2. CASE Ended(pm, p)
  BY <1>2 DEF Ended
<1>3. CASE \E e : Stores(pm, p, e) /\ Sound(e) /\ Same(El(pm.mem), e)
  <2>1. PICK e : Stores(pm, p, e) /\ Sound(e) /\ Same(El(pm.mem), e)
    BY <1>3
  <2>2. Sane(p) /\ El(p.mem) = e /\ pm.stage = p.stage /\ pm.stage \in {"NONE", "WORK"}
    BY <2>1 DEF Stores
  <2>3. CASE pm.stage = "WORK"
    BY <2>1, <2>2, <2>3 DEF Stores
  <2>4. CASE pm.stage = "NONE"
    <3>1. Rolled(p) = p.mem /\ pm.mem = Rolled(pm)
      BY <2>1, <2>4, SaneFields DEF Stores
    <3>2. View(p.mem) = View(pm.mem)
      <4>1. Sound(El(pm.mem)) /\ Sound(El(p.mem)) /\ Same(El(pm.mem), El(p.mem))
        BY <2>1, <2>2 DEF Sane
      <4> QED
        BY <4>1, SameView DEF El
    <3> QED
      BY <2>1, <2>2, <2>4, <3>1, <3>2
  <2> QED
    BY <2>2, <2>3, <2>4
<1> QED
  BY <1>1, <1>2, <1>3 DEF Converts

\* An index is set, after a conversion or without one; the form is the one there was
\* then, unless the process or the transaction has ended.
LEMMA SetCall ==
    ASSUME IInv, pm.stage \in {"NONE", "WORK"}, NEW p, Converts(p),
           NEW i \in Index, NEW v \in Item, Fits(p, i, v), NEW q, q = Set(p, i, v)
    PROVE  /\ EndsCall(q) \/ UndoesCall(q) \/ WritesCall(q)
           /\ \/ q.stage = "DEAD" \/ (pm.stage = "WORK" /\ q.stage # "WORK")
              \/ El(p.mem).ob_type = El(q.mem).ob_type
<1>0. /\ Sane(pm) /\ Sane(p) /\ View(Rolled(p)) = View(Rolled(pm))
      /\ p.stage \in {"NONE", "WORK"} =>
           /\ pm.stage = p.stage
           /\ p.stage = "WORK" => Rolled(p) = Rolled(pm)
           /\ p.stage = "NONE" => p.mem = Rolled(p)
           /\ Same(El(pm.mem), El(p.mem))
  BY ConvertsLemma DEF IInv
<1>1. CASE p.stage \notin {"NONE", "WORK"}
  <2>1. q = Die(p)
    BY <1>0, <1>1, StoppedSet
  <2>2. Ended(p, q)
    BY <1>0, <2>1, EndedLemma
  <2> QED
    BY <1>0, <2>2 DEF Ended, EndsCall
<1>2. CASE p.stage \in {"NONE", "WORK"}
  <2>0. \/ Ended(p, q) \/ Undone(p, q)
        \/ \E e : /\ Stores(p, q, e) /\ Sound(e)
                  /\ e.ob_type = El(p.mem).ob_type
                  /\ Written(El(p.mem), e, i, v)
    BY <1>0, <1>2, SetLemma
  <2>1. CASE Ended(p, q)
    BY <1>0, <2>1 DEF Ended, EndsCall
  <2>2. CASE Undone(p, q)
    <3>1. UndoesCall(q)
      BY <1>0, <2>2 DEF Undone, UndoesCall
    <3>2. p.stage = "NONE" => q.mem = p.mem
      BY <1>0, <2>2 DEF Undone
    <3>3. p.stage = "WORK" => pm.stage = "WORK" /\ q.stage # "WORK"
      BY <1>0, <2>2 DEF Undone
    <3> QED
      BY <1>2, <3>1, <3>2, <3>3
  <2>3. CASE \E e : /\ Stores(p, q, e) /\ Sound(e)
                    /\ e.ob_type = El(p.mem).ob_type
                    /\ Written(El(p.mem), e, i, v)
    <3>1. PICK e : /\ Stores(p, q, e) /\ Sound(e)
                   /\ e.ob_type = El(p.mem).ob_type
                   /\ Written(El(p.mem), e, i, v)
      BY <2>3
    <3>2. Stores(pm, q, e)
      BY <1>0, <3>1 DEF Stores
    <3>3. Written(El(pm.mem), e, i, v)
      BY <1>0, <3>1 DEF Stores, Written, Same
    <3>4. WritesCall(q)
      BY <1>0, <3>1, <3>2, <3>3, StoredWrites
    <3> QED
      BY <3>1, <3>4 DEF Stores
  <2> QED
    BY <2>0, <2>1, <2>2, <2>3
<1> QED
  BY <1>1, <1>2

\* setItem, with the conversion that comes first.
LEMMA SetItemStep ==
    ASSUME IInv, NEW h \in Handle, NEW i \in Indexes, NEW v \in Val, SetItem(h, i, v)
    PROVE  IInv' /\ Refines
<1> DEFINE p == Converted(pm, i)
           q == Set(p, i, v)
           kept == [g \in {h} |-> El(p.mem).ob_type]
<1>0. i \in Index /\ v \in Item /\ Sane(pm) /\ pm.stage # "DEAD"
  BY IndexesAssumption DEF IInv, Item
<1>1. ConversionFits(pm, i) /\ Fits(p, i, v) /\ Calls(h, q, kept)
  BY DEF SetItem, El
<1>2. DOMAIN kept \subseteq Handle /\ \A g \in DOMAIN kept : kept[g] = El(p.mem).ob_type
  OBVIOUS
<1> HIDE DEF kept
<1>3. CASE pm.stage \in {"NONE", "WORK"}
  <2> HIDE DEF p
  <2>1. Converts(p)
    BY <1>0, <1>1, <1>3, ConvertedLemma DEF p, Converts
  <2> HIDE DEF q
  <2>2. /\ EndsCall(q) \/ UndoesCall(q) \/ WritesCall(q)
        /\ \/ q.stage = "DEAD" \/ (pm.stage = "WORK" /\ q.stage # "WORK")
           \/ El(p.mem).ob_type = El(q.mem).ob_type
    BY <1>0, <1>1, <1>3, <2>1, SetCall DEF q
  <2>3. Leading(q, kept)
    BY <1>2, <2>2 DEF Leading
  <2> QED
    BY <1>1, <2>2, <2>3, CallStep
<1>4. CASE pm.stage \notin {"NONE", "WORK"}
  <2>1. p = pm \/ p = Die(pm)
    BY <1>0, <1>4, StoppedLemma DEF Converted
  <2>2. Sane(p) /\ p.stage \notin {"NONE", "WORK"} /\ Die(p) = Die(pm)
    BY <1>0, <1>4, <2>1, EndedLemma DEF Ended, Die
  <2> HIDE DEF p
  <2>3. q = Die(pm)
    BY <1>0, <1>1, <2>2, StoppedSet
  <2> HIDE DEF q
  <2> QED
    BY <1>1, <1>2, <1>4, <2>3, StoppedStep
<1> QED
  BY <1>3, <1>4

\* The process stops between a conversion and what it was for.
LEMMA InterruptedStep ==
    ASSUME IInv, NEW h, NEW i \in Indexes, SetItemInterrupted(h, i)
    PROVE  IInv' /\ Refines
<1> DEFINE p == Converted(pm, i)
           q == Die(p)
<1>0. i \in Index /\ Sane(pm) /\ pm.stage \in {"NONE", "WORK"}
  BY IndexesAssumption DEF IInv, SetItemInterrupted
<1>1. ConversionFits(pm, i) /\ Calls(h, q, handle)
  BY DEF SetItemInterrupted
<1> HIDE DEF p
<1>2. Converts(p)
  BY <1>0, <1>1, ConvertedLemma DEF p, Converts
<1>3. Sane(p) /\ View(Rolled(p)) = View(Rolled(pm))
  BY <1>0, <1>2, ConvertsLemma
<1>4. Ended(p, q)
  BY <1>3, EndedLemma
<1> HIDE DEF q
<1>5. EndsCall(q) /\ q.stage = "DEAD"
  BY <1>3, <1>4 DEF Ended, EndsCall
<1> QED
  BY <1>1, <1>5, DroppedLemma, CallStep

\* An index is set without a conversion.
LEMMA PlainSetStep ==
    ASSUME IInv, NEW h, NEW i \in Index, NEW v \in Item, Fits(pm, i, v),
           Calls(h, Set(pm, i, v), handle)
    PROVE  IInv' /\ Refines
<1> DEFINE q == Set(pm, i, v)
<1>1. Converts(pm) /\ Calls(h, q, handle) /\ Sane(pm)
  BY DEF Converts, IInv
<1>2. CASE pm.stage \in {"NONE", "WORK"}
  <2> HIDE DEF q
  <2>1. /\ EndsCall(q) \/ UndoesCall(q) \/ WritesCall(q)
        /\ \/ q.stage = "DEAD" \/ (pm.stage = "WORK" /\ q.stage # "WORK")
           \/ El(pm.mem).ob_type = El(q.mem).ob_type
    BY <1>1, <1>2, SetCall DEF q
  <2>2. Leading(q, handle)
    BY <2>1, KeptLemma, DroppedLemma
  <2> QED
    BY <1>1, <2>1, <2>2, CallStep
<1>3. CASE pm.stage \notin {"NONE", "WORK"}
  <2>1. q = Die(pm)
    BY <1>1, <1>3, StoppedSet
  <2>2. DOMAIN handle \subseteq Handle
    BY DEF IInv
  <2> HIDE DEF q
  <2> QED
    BY <1>1, <1>3, <2>1, <2>2, StoppedStep
<1> QED
  BY <1>2, <1>3

\* A call that leaves all as it is.
LEMMA IdleCall ==
    ASSUME IInv, NEW h, Calls(h, pm, handle)
    PROVE  IInv' /\ Refines
  BY KeptLemma, CallStep

\* A call that ends the process.
LEMMA FatalCall ==
    ASSUME IInv, NEW h, NEW q, Calls(h, q, handle), EndsCall(q)
    PROVE  IInv' /\ Refines
<1>1. q.stage = "DEAD"
  BY DEF EndsCall
<1> QED
  BY <1>1, DroppedLemma, CallStep

\* push().
LEMMA PushStep ==
    ASSUME IInv, NEW h, NEW v \in Val, Push(h, v)
    PROVE  IInv' /\ Refines
<1> DEFINE i == LengthOf(elements)
<1>1. /\ i \in Indexes /\ Fits(pm, i, v) /\ Calls(h, Set(pm, i, v), handle)
  BY DEF Push
<1>2. i \in Index /\ v \in Item
  BY <1>1, IndexesAssumption DEF Item
<1> HIDE DEF i
<1> QED
  BY <1>1, <1>2, PlainSetStep

\* Deleting an index, which sets it to what the form has for that.
LEMMA DelItemStep ==
    ASSUME IInv, NEW h, NEW i \in Indexes, DelItem(h, i)
    PROVE  IInv' /\ Refines
<1>0. i \in Index /\ PPTR_NULL \in Item /\ PPTR_UNDEFINED \in Item
  BY IndexesAssumption DEF Item
<1>1. CASE ~IsDense(elements)
  <2>1. Calls(h, Set(pm, i, PPTR_NULL), handle)
    <3>1. Calls(h, StoreResult(pm, delProperty(elements.body, i), 1), handle)
      BY <1>1 DEF DelItem
    <3>2. Set(pm, i, PPTR_NULL) = StoreResult(pm, delProperty(elements.body, i), 1)
      BY <1>1 DEF Set, delProperty, elements
    <3> QED
      BY <3>1, <3>2
  <2>2. Fits(pm, i, PPTR_NULL)
    BY DEF DelItem
  <2> QED
    BY <1>0, <2>1, <2>2, PlainSetStep
<1>2. CASE IsDense(elements) /\ i < LengthOf(elements)
  <2>1. Calls(h, Set(pm, i, PPTR_UNDEFINED), handle)
    BY <1>2 DEF DelItem
  <2>2. Fits(pm, i, PPTR_UNDEFINED)
    BY <1>2 DEF Fits, elements
  <2> QED
    BY <1>0, <2>1, <2>2, PlainSetStep
<1>3. CASE IsDense(elements) /\ ~(i < LengthOf(elements))
  <2>1. Calls(h, pm, handle)
    BY <1>3 DEF DelItem
  <2> QED
    BY <2>1, IdleCall
<1> QED
  BY <1>1, <1>2, <1>3

\* Reading an index, which ends the process when there is nothing to resurrect.
LEMMA GetItemStep ==
    ASSUME IInv, NEW h, NEW i \in Indexes, GetItem(h, i)
    PROVE  IInv' /\ Refines
<1>1. Calls(h, pm, handle) \/ Calls(h, Die(pm), handle)
  BY DEF GetItem, resurrect
<1>2. CASE Calls(h, pm, handle)
  BY <1>2, IdleCall
<1>3. CASE Calls(h, Die(pm), handle)
  <2>1. EndsCall(Die(pm))
    BY EndedLemma, EndsLeavesCall DEF IInv
  <2> QED
    BY <1>3, <2>1, FatalCall
<1> QED
  BY <1>1, <1>2, <1>3

\* A client that does not pop an index that is not there any more.
LEMMA PopStep ==
    ASSUME IInv, "pops" \notin Client, NEW h, Pop(h)
    PROVE  IInv' /\ Refines
<1> DEFINE d == elements.body
           w == pop(d)
           last == d.ob_size - 1
           f == Form("NUMDICT", w)
           p == IF w = d THEN pm ELSE StoreElements(pm, f)
<1>0. Sane(pm) /\ elements = El(pm.mem) /\ Formed(elements) /\ DOMAIN handle \subseteq Handle
  BY DEF IInv, Sane, elements, El
<1>1. /\ ~IsDense(elements) /\ d.ob_size > 0
      /\ d.entries[lookup(d, d.ob_size - 1)].me_state # "DUMMY"
      /\ Calls(h, resurrect(IF w = d THEN pm
                            ELSE StoreElements(pm, [elements EXCEPT !.body = w]),
                            PopReturns(d)), handle)
  BY DEF Pop, LengthOf
<1>2. Table(d) /\ elements.ob_type = "NUMDICT"
  BY <1>0, <1>1 DEF Formed, IsDense
<1>3. [elements EXCEPT !.body = w] = f
  BY <1>0, <1>2, SoundFields
<1>4. PICK q : Calls(h, q, handle) /\ (q = p \/ q = Die(p))
  BY <1>1, <1>3 DEF resurrect
<1>5. CASE pm.stage \notin {"NONE", "WORK"}
  <2>1. p = pm \/ p = Die(pm)
    BY <1>0, <1>5, StoppedLemma
  <2>2. Die(Die(pm)) = Die(pm)
    BY <1>0, EndedLemma DEF Ended, Die
  <2> HIDE DEF p
  <2>3. q = pm \/ q = Die(pm)
    BY <1>4, <2>1, <2>2
  <2> QED
    BY <1>0, <1>4, <1>5, <2>3, StoppedStep
<1>6. CASE pm.stage \in {"NONE", "WORK"}
  <2>0. Sound(elements) /\ Bounded(d)
    BY <1>0, <1>1, <1>6 DEF Sane, Sound
  <2>1. /\ Table(w) /\ Bounded(w) /\ last \in Index
        /\ w = d \/ Puts1(d, w, last, PPTR_NULL)
    BY <1>1, <1>2, <2>0, PopLemma
  <2>2. Sound(f) /\ ~IsDense(f) /\ f.ob_type = "NUMDICT" /\ f.body = w
    BY <2>1, SparseSound
  <2>3. p = pm \/ (w # d /\ p = StoreElements(pm, f))
    OBVIOUS
  <2> HIDE DEF d, w, last, p, f
  <2>4. w # d => Written(elements, f, last, PPTR_NULL)
    <3> SUFFICES ASSUME w # d
                 PROVE  Written(elements, f, last, PPTR_NULL)
      OBVIOUS
    <3>1. \A x \in Val : x # PPTR_NULL
      BY NumDictAssumption
    <3>2. \A c \in Index : \A x : Has(elements, c, x) <=> Holds(d, c, x)
      BY <1>1, <2>0, HasLemma DEF d
    <3>3. \A c \in Index : \A x : Has(f, c, x) <=> Holds(w, c, x)
      BY <2>2, HasLemma
    <3> QED
      BY <2>1, <3>1, <3>2, <3>3 DEF Written, Puts1
  <2>5. p = pm \/ Ended(pm, p) \/ (WritesCall(p) /\ El(p.mem).ob_type = El(pm.mem).ob_type)
    <3>1. ASSUME w # d, Stores(pm, p, f)
          PROVE  WritesCall(p) /\ El(p.mem).ob_type = El(pm.mem).ob_type
      <4>1. PPTR_NULL \in Item
        BY DEF Item
      <4>2. WritesCall(p)
        BY <1>0, <2>1, <2>2, <2>4, <3>1, <4>1, StoredWrites
      <4> QED
        BY <1>0, <1>2, <2>2, <3>1, <4>2 DEF Stores
    <3>2. w # d /\ p = StoreElements(pm, f) => Stores(pm, p, f)
      BY <1>0, <1>6, <2>2, StoresLemma
    <3> QED
      BY <2>3, <3>1, <3>2
  <2>6. CASE q = p
    <3>1. CASE p = pm
      BY <1>4, <2>6, <3>1, IdleCall
    <3>2. CASE Ended(pm, p)
      BY <1>0, <1>4, <2>6, <3>2, EndsLeavesCall, FatalCall
    <3>3. CASE WritesCall(p) /\ El(p.mem).ob_type = El(pm.mem).ob_type
      <4>1. Leading(p, handle)
        BY <3>3, KeptLemma
      <4> QED
        BY <1>4, <2>6, <3>3, <4>1, CallStep
    <3> QED
      BY <2>5, <3>1, <3>2, <3>3
  <2>7. CASE q = Die(p)
    <3>1. CASE p = pm
      BY <1>0, <1>4, <2>7, <3>1, EndedLemma, EndsLeavesCall, FatalCall
    <3>2. CASE Ended(pm, p)
      <4>1. Ended(p, Die(p))
        BY <3>2, EndedLemma DEF Ended
      <4>2. Ended(pm, q)
        BY <2>7, <3>2, <4>1 DEF Ended
      <4> QED
        BY <1>0, <1>4, <4>2, EndsLeavesCall, FatalCall
    <3>3. CASE WritesCall(p)
      <4>1. Ended(p, q)
        BY <2>7, <3>3, EndedLemma DEF WritesCall
      <4>2. EndsCall(q)
        BY <3>3, <4>1, WrittenEnds
      <4> QED
        BY <1>4, <4>2, FatalCall
    <3> QED
      BY <2>5, <3>1, <3>2, <3>3
  <2> QED
    BY <1>4, <2>6, <2>7
<1> QED
  BY <1>5, <1>6

\* setLength(), done, thrown out of, or ended by an assertion.
LEMMA SetLengthStep ==
    ASSUME IInv, NEW h, NEW n \in Lengths, SetLength(h, n)
    PROVE  IInv' /\ Refines
<1> DEFINE d == elements.body
           r == setLength(d, n)
           q == StoreResult(pm, r, 2)
           f == Form("NUMDICT", r.dict)
<1>0. /\ Sane(pm) /\ elements = El(pm.mem) /\ Formed(elements)
      /\ DOMAIN handle \subseteq Handle /\ n \in Index /\ n \in Nat
  BY IndexesAssumption, NumDictAssumption DEF IInv, Sane, elements, El, Index
<1>1. ~IsDense(elements) /\ r.ends # "beyond" /\ Calls(h, q, handle)
  BY DEF SetLength
<1>2. Table(d) /\ elements.ob_type = "NUMDICT"
  BY <1>0, <1>1 DEF Formed, IsDense
<1>3. r.ends \in {"done", "throws", "asserts"}
  BY <1>0, <1>1, <1>2, SetLengthEnds
<1>4. CASE pm.stage \notin {"NONE", "WORK"}
  <2> HIDE DEF r
  <2>1. q = Die(pm)
    BY <1>0, <1>3, <1>4, StoppedLemma
  <2> HIDE DEF q
  <2> QED
    BY <1>0, <1>1, <1>4, <2>1, StoppedStep
<1>5. CASE pm.stage \in {"NONE", "WORK"}
  <2>0. Sound(elements) /\ Bounded(d)
    BY <1>0, <1>1, <1>5 DEF Sane, Sound
  <2>1. r.ends = "done" =>
           /\ Table(r.dict) /\ Bounded(r.dict)
           /\ \A c \in Index : \A x : Holds(r.dict, c, x) <=> c < n /\ Holds(d, c, x)
    BY <1>0, <1>2, <2>0, SetLengthLemma
  <2>2. r.ends = "throws" =>
           /\ Table(r.dict)
           /\ \A c \in Index : \A x :
                 c < r.dict.ob_size /\ Holds(r.dict, c, x) <=> c < n /\ Holds(d, c, x)
    BY <1>0, <1>2, <2>0, SetLengthThrown
  <2> HIDE DEF r
  <2>3. r.ends # "asserts" => Table(r.dict)
    BY <1>3, <2>1, <2>2
  <2>4. ~IsDense(El(pm.mem)) /\ 2 \in {1, 2}
    BY <1>0, <1>1
  <2>5. \/ Ended(pm, q) \/ Undone(pm, q)
        \/ r.ends = "throws" /\ Leaves(pm, q, f)
        \/ r.ends = "done" /\ Stores(pm, q, f)
    BY <1>0, <1>3, <1>5, <2>1, <2>3, <2>4, ResultLemma
  <2>6. \A c \in Index : \A x : Has(elements, c, x) <=> Holds(d, c, x)
    BY <1>1, <2>0, HasLemma
  <2>7. r.ends # "asserts" => Formed(f) /\ ~IsDense(f) /\ f.ob_type = "NUMDICT" /\ f.body = r.dict
    BY <2>3, SparseFormed
  <2>8. r.ends = "done" => Sound(f)
    BY <2>1, SparseSound
  <2> HIDE DEF q, f, d
  <2>9. r.ends # "asserts" => Cut(elements, f, n)
    <3>1. CASE r.ends = "done"
      <4>1. \A c \in Index : \A x : Has(f, c, x) <=> Holds(r.dict, c, x)
        BY <2>7, <2>8, <3>1, HasLemma
      <4> QED
        BY <2>1, <2>6, <3>1, <4>1 DEF Cut
    <3>2. CASE r.ends = "throws"
      <4>1. \A c \in Index : \A x : Has(f, c, x) <=> c < r.dict.ob_size /\ Holds(r.dict, c, x)
        BY <2>7, <3>2 DEF Has
      <4> QED
        BY <2>2, <2>6, <3>2, <4>1 DEF Cut
    <3> QED
      BY <1>3, <3>1, <3>2
  <2>10. CASE Ended(pm, q)
    BY <1>0, <1>1, <2>10, EndsLeavesCall, FatalCall
  <2>11. CASE Undone(pm, q)
    <3>1. UndoesCall(q)
      BY <1>0, <2>11, EndsLeavesCall
    <3>2. CASE pm.stage = "NONE"
      <4>1. q.mem = pm.mem
        BY <1>0, <2>11, <3>2, SaneFields DEF Undone
      <4>2. Leading(q, handle)
        BY <4>1, KeptLemma
      <4> QED
        BY <1>1, <3>1, <4>2, CallStep
    <3>3. CASE pm.stage = "WORK"
      <4>1. q.stage # "WORK"
        BY <2>11 DEF Undone
      <4>2. Leading(q, handle)
        BY <3>3, <4>1, DroppedLemma
      <4> QED
        BY <1>1, <3>1, <4>2, CallStep
    <3> QED
      BY <1>5, <3>2, <3>3
  <2>12. CASE r.ends = "throws" /\ Leaves(pm, q, f)
    <3>1. Sane(q) /\ pm.stage = "WORK" /\ q.stage = "ONABORT" /\ ~Settled(q)
          /\ El(q.mem) = f /\ Rolled(q) = Rolled(pm)
      BY <2>12 DEF Leaves
    <3>2. Cut(El(pm.mem), El(q.mem), n) /\ Formed(El(pm.mem)) /\ Formed(El(q.mem))
      BY <1>0, <2>7, <2>9, <2>12, <3>1
    <3>3. Shrunk(pm.mem, q.mem)
      BY <1>0, <3>2, CutView DEF El
    <3>4. LeavesCall(q)
      BY <3>1, <3>3 DEF LeavesCall
    <3>5. Leading(q, handle)
      BY <3>1, DroppedLemma
    <3> QED
      BY <1>1, <3>4, <3>5, CallStep
  <2>13. CASE r.ends = "done" /\ Stores(pm, q, f)
    <3>1. Cut(El(pm.mem), f, n) /\ Sound(f)
      BY <1>0, <2>8, <2>9, <2>13
    <3>2. WritesCall(q)
      BY <1>0, <2>13, <3>1, StoredWrites
    <3>3. El(q.mem).ob_type = El(pm.mem).ob_type
      BY <1>0, <1>2, <2>7, <2>13 DEF Stores
    <3>4. Leading(q, handle)
      BY <3>3, KeptLemma
    <3> QED
      BY <1>1, <3>2, <3>4, CallStep
  <2> QED
    BY <2>5, <2>10, <2>11, <2>12, <2>13
<1> QED
  BY <1>4, <1>5

\* The client's transactions.
LEMMA TxStep ==
    ASSUME IInv, TxBegin \/ TxCommit \/ TxAbort \/ TxEnd
    PROVE  IInv' /\ Refines
<1>0. /\ Sane(pm) /\ Good(pm, Loc, Word) /\ ~pm.orphan /\ 0 \in 0..MaxOps
      /\ DOMAIN handle \subseteq Handle /\ \A h \in DOMAIN handle : handle[h] = elements.ob_type
      /\ elements = El(pm.mem) /\ elements' = El(pm'.mem)
  BY IndexesAssumption DEF IInv, Sane, HandlesLead, elements, El
<1>1. CASE TxBegin
  <2>1. /\ Good(pm', Loc, Word)
        /\ pm'.stage = "WORK" /\ pm'.depth = pm.depth + 1 /\ ~pm'.orphan
        /\ pm'.mem = pm.mem /\ Rolled(pm') = Rolled(pm)
    BY <1>0, <1>1, BeginLemma DEF TxBegin
  <2>2. pm.depth = 0 /\ pm.mem = Rolled(pm) /\ Settled(pm)
    BY <1>0, <1>1, SaneFields DEF TxBegin
  <2>3. Sane(pm')
    BY <1>0, <1>1, <2>1, <2>2 DEF Sane, TxBegin
  <2>4. ~Settled(pm')
    BY <2>1, <2>3, SaneFields
  <2>5. Map!Begin
    BY <2>1, <2>2, <2>4 DEF Map!Begin
  <2>6. handle' = handle /\ ops' = 0
    BY <1>1 DEF TxBegin
  <2>7. IInv'
    BY <1>0, <2>1, <2>3, <2>6 DEF IInv, HandlesLead
  <2> QED
    BY <2>5, <2>7 DEF Refines, Map!Next
<1>2. CASE TxCommit
  <2>1. pm.stage = "WORK" /\ pm.depth = 1 /\ ~Settled(pm)
    BY <1>0, <1>2, SaneFields DEF TxCommit, InTransaction, Sane
  <2>2. PICK c : c = pmemobj_tx_commit(pm)
    OBVIOUS
  <2>3. /\ Good(c, Loc, Word) /\ c.stage = "ONCOMMIT" /\ c.depth = 1 /\ ~c.orphan
        /\ c.mem = pm.mem /\ Rolled(c) = pm.mem
    BY <1>0, <2>1, <2>2, CommitLemma
  <2>4. pm' = pmemobj_tx_end(c) /\ handle' = handle /\ ops' = 0
    BY <1>2, <2>2 DEF TxCommit
  <2>5. /\ Good(pm', Loc, Word) /\ ~pm'.orphan /\ Rolled(pm') = pm.mem
        /\ pm'.stage = "NONE" /\ pm'.mem = pm.mem
    BY <2>3, <2>4, EndLemma
  <2>6. Sane(pm')
    BY <1>0, <2>1, <2>5 DEF Sane
  <2>7. Settled(pm')
    BY <2>5, <2>6, SaneFields
  <2>8. Map!Commit
    BY <2>1, <2>5, <2>7 DEF Map!Commit
  <2>9. IInv'
    BY <1>0, <2>4, <2>5, <2>6 DEF IInv, HandlesLead
  <2> QED
    BY <2>8, <2>9 DEF Refines, Map!Next
<1>3. CASE TxAbort
  <2>1. pm.stage = "WORK" /\ pm.depth = 1
    BY <1>0, <1>3 DEF TxAbort, InTransaction, Sane
  <2>2. PICK c : c = pmemobj_tx_abort(pm)
    OBVIOUS
  <2>3. /\ Good(c, Loc, Word) /\ c.stage = "ONABORT" /\ c.depth = 1 /\ ~c.orphan
        /\ c.mem = Rolled(pm) /\ Rolled(c) = Rolled(pm)
    BY <1>0, <2>1, <2>2, AbortLemma
  <2>4. pm' = pmemobj_tx_end(c) /\ handle' = NoHandles /\ ops' = 0
    BY <1>3, <2>2 DEF TxAbort
  <2>5. /\ Good(pm', Loc, Word) /\ ~pm'.orphan /\ Rolled(pm') = Rolled(pm)
        /\ pm'.stage = "NONE" /\ pm'.mem = Rolled(pm)
    BY <2>3, <2>4, EndLemma
  <2>6. Sane(pm')
    <3>1. Sound(El(Rolled(pm))) /\ Formed(El(Rolled(pm)))
      BY <1>0 DEF Sane, Sound
    <3> QED
      BY <2>5, <3>1 DEF Sane
  <2>7. Settled(pm')
    BY <2>5, <2>6, SaneFields
  <2>8. Map!Rollback
    BY <2>5, <2>7 DEF Map!Rollback
  <2>9. IInv'
    BY <1>0, <2>4, <2>5, <2>6 DEF IInv, HandlesLead, NoHandles
  <2> QED
    BY <2>8, <2>9 DEF Refines, Map!Next
<1>4. CASE TxEnd
  <2>1. /\ pm.stage = "ONABORT" /\ pm.depth \in {1, 2}
        /\ pm.depth = 1 => pm.mem = Rolled(pm)
        /\ pm' = pmemobj_tx_end(pm) /\ handle' = NoHandles /\ ops' = 0
    BY <1>0, <1>4 DEF TxEnd, Sane
  <2>2. /\ Good(pm', Loc, Word) /\ ~pm'.orphan
        /\ pm'.depth = pm.depth - 1 /\ Rolled(pm') = Rolled(pm)
        /\ pm'.stage = IF pm.depth = 1 THEN "NONE" ELSE "ONABORT"
        /\ pm'.mem = Rolled(pm)
    <3>1. /\ Good(pm', Loc, Word) /\ ~pm'.orphan
          /\ pm'.depth = pm.depth - 1 /\ Rolled(pm') = Rolled(pm)
          /\ pm'.stage = IF pm.depth = 1 THEN "NONE"
                         ELSE IF pm.stage = "ONABORT" THEN "ONABORT" ELSE "WORK"
          /\ pm'.mem = IF pm.stage = "ONABORT" /\ pm.depth = 2 THEN Rolled(pm)
                       ELSE pm.mem
      BY <1>0, <2>1, EndLemma
    <3> QED
      BY <2>1, <3>1
  <2>3. pm'.stage \in {"NONE", "ONABORT"} /\ (pm'.stage = "ONABORT" => pm'.depth = 1)
    BY <2>1, <2>2
  <2>4. Sane(pm')
    <3>1. Sound(El(Rolled(pm))) /\ Formed(El(Rolled(pm)))
      BY <1>0 DEF Sane, Sound
    <3> QED
      BY <2>2, <2>3, <3>1 DEF Sane
  <2>5. Settled(pm')
    BY <2>3, <2>4, SaneFields
  <2>6. Map!Rollback
    BY <2>2, <2>5 DEF Map!Rollback
  <2>7. IInv'
    BY <1>0, <2>1, <2>3, <2>4 DEF IInv, HandlesLead, NoHandles
  <2> QED
    BY <2>6, <2>7 DEF Refines, Map!Next
<1> QED
  BY <1>1, <1>2, <1>3, <1>4

\* A new handle.
LEMMA HandleStep ==
    ASSUME IInv, NEW h \in Handle, GetHandle(h)
    PROVE  IInv' /\ Refines
<1>1. /\ pm' = pm /\ ops' = ops /\ elements' = elements
      /\ handle' = [g \in DOMAIN handle \cup {h} |->
                      IF g = h THEN elements.ob_type ELSE handle[g]]
  BY DEF GetHandle, elements
<1>2. /\ DOMAIN handle' \subseteq Handle
      /\ \A g \in DOMAIN handle' : handle'[g] = elements.ob_type
  BY <1>1 DEF IInv, HandlesLead
<1>3. IInv'
  BY <1>1, <1>2 DEF IInv, HandlesLead
<1> QED
  BY <1>1, <1>3 DEF Refines, Map!vars

\* The end of the process between two calls.
LEMMA CrashStep ==
    ASSUME IInv, Crash
    PROVE  IInv' /\ Refines
<1>1. pm' = Restarted(Die(pm)) /\ handle' = NoHandles /\ ops' = 0 /\ 0 \in 0..MaxOps
  BY IndexesAssumption DEF Crash
<1>2. Sane(pm) /\ Ended(pm, Die(pm))
  BY EndedLemma DEF IInv
<1>3. /\ Sane(pm') /\ pm'.stage = "NONE"
      /\ pm'.mem = Rolled(pm) /\ Rolled(pm') = Rolled(pm)
  BY <1>1, <1>2, RestartedLemma DEF Ended
<1>4. Settled(pm')
  BY <1>3, SaneFields
<1>5. Map!Rollback
  BY <1>3, <1>4 DEF Map!Rollback
<1>6. IInv'
  BY <1>1, <1>3 DEF IInv, HandlesLead, NoHandles
<1> QED
  BY <1>5, <1>6 DEF Refines, Map!Next

\* Every step keeps the invariant, and is one of the map.
LEMMA StepLemma ==
    IInv /\ "pops" \notin Client /\ Next => IInv' /\ Refines
<1> SUFFICES ASSUME IInv, "pops" \notin Client, Next
             PROVE  IInv' /\ Refines
  OBVIOUS
<1>1. ASSUME NEW h \in Handle, NEW i \in Indexes, NEW v \in Val, SetItem(h, i, v)
      PROVE  IInv' /\ Refines
  BY <1>1, SetItemStep
<1>2. ASSUME NEW h \in Handle, NEW i \in Indexes,
             SetItemInterrupted(h, i) \/ DelItem(h, i) \/ GetItem(h, i)
      PROVE  IInv' /\ Refines
  BY <1>2, InterruptedStep, DelItemStep, GetItemStep
<1>3. ASSUME NEW h \in Handle, NEW v \in Val, Push(h, v)
      PROVE  IInv' /\ Refines
  BY <1>3, PushStep
<1>4. ASSUME NEW h \in Handle, NEW n \in Lengths, SetLength(h, n)
      PROVE  IInv' /\ Refines
  BY <1>4, SetLengthStep
<1>5. ASSUME NEW h \in Handle, Pop(h) \/ GetHandle(h)
      PROVE  IInv' /\ Refines
  BY <1>5, PopStep, HandleStep
<1>6. CASE TxBegin \/ TxCommit \/ TxAbort \/ TxEnd
  BY <1>6, TxStep
<1>7. CASE Crash
  BY <1>7, CrashStep
<1> QED
  BY <1>1, <1>2, <1>3, <1>4, <1>5, <1>6, <1>7 DEF Next

\* An object without indexed properties.
LEMMA StartLemma == Init => IInv /\ Map!Init
<1> SUFFICES ASSUME Init
             PROVE  IInv /\ Map!Init
  OBVIOUS
<1> DEFINE e == Form("ARRAY", NewSimpleArray)
           m == [l \in {"elements"} |-> e]
           u == [l \in Loc |-> NoSnap]
<1>1. Sound(e) /\ e.ob_type = "ARRAY"
  BY NewArrayLemma, DenseSound
<1>2. pm = Idle(m) /\ handle = NoHandles /\ ops = 0
  BY DEF Init, Form
<1> HIDE DEF e
<1>3. m \in [Loc -> Word] /\ DOMAIN m = Loc /\ El(m) = e
  BY <1>1 DEF Sound, Formed, Loc, El
<1> HIDE DEF m
<1>4. pm = [stage |-> "NONE", depth |-> 0, mem |-> m, undo |-> u, orphan |-> FALSE]
  BY <1>2, <1>3 DEF Idle
<1>5. u \in [Loc -> Word \cup {NoSnap}]
  OBVIOUS
<1> HIDE DEF u
<1>6. pm \in TxState(Loc, Word)
  BY <1>3, <1>4, <1>5 DEF TxState, Stages
<1>7. /\ pm.stage = "NONE" /\ pm.depth = 0 /\ pm.mem = m /\ pm.undo = u
      /\ pm.orphan = FALSE
  BY <1>4
<1>8. NoUndo(pm) = u /\ Rolled(pm) = m
  <2>1. NoUndo(pm) = u
    BY <1>6, FieldLemma DEF u
  <2> QED
    BY <1>6, <1>7, <2>1, FieldLemma
<1>9. Shape(pm) /\ Clean(pm)
  BY <1>7, <1>8 DEF Shape, Clean
<1>10. Sane(pm) /\ Settled(pm)
  BY <1>1, <1>3, <1>6, <1>7, <1>8, <1>9 DEF Sane, Sound, Good, Settled
<1>12. 0 \in 0..MaxOps
  BY IndexesAssumption
<1>13. View(m) \in [Indexes -> Val \cup {PPTR_UNDEFINED}]
  BY ViewLemma
<1> QED
  BY <1>2, <1>7, <1>8, <1>10, <1>12, <1>13 DEF IInv, HandlesLead, NoHandles, Map!Init, Map!Maps

-----------------------------------------------------------------------------
(* The theorems. *)

\* (All of them are of a client that never pops a table whose last index leads to an
\* entry that has already been popped; with one that does, Accounting fails.)

\* IInv, the inductive invariant: whichever form the elements are in, they are
\* sound in memory and in the image that an abort or a recovery would bring back.
THEOREM ElementsInvariance == "pops" \notin Client => (Spec => []IInv)
<1> SUFFICES ASSUME "pops" \notin Client
             PROVE  Spec => []IInv
  OBVIOUS
<1>1. IInv /\ [Next]_vars => IInv'
  <2>1. IInv /\ UNCHANGED vars => IInv'
    BY DEF vars, IInv, HandlesLead, elements
  <2> QED
    BY <2>1, StepLemma
<1> QED
  BY <1>1, StartLemma, PTL DEF Spec

\* What is found is well formed, and sound but for what an exception has left.
LEMMA TablesLemma ==
    ASSUME IInv
    PROVE  /\ \A e \in Found : Formed(e)
           /\ \A d \in Tables : Table(d)
           /\ \A d \in TablesIn({Rolled(pm)["elements"]}) : Bounded(d)
           /\ pm.stage # "ONABORT" => \A d \in Tables : Bounded(d)
<1>1. /\ Formed(El(pm.mem)) /\ Sound(El(Rolled(pm))) /\ Formed(El(Rolled(pm)))
      /\ pm.stage # "ONABORT" => Sound(El(pm.mem))
  BY DEF IInv, Sane, Sound
<1>2. \A e \in Found : Formed(e)
  BY <1>1 DEF Found, El
<1>3. \A d \in Tables : Table(d)
  BY <1>2 DEF Tables, TablesIn, Formed
<1>4. \A d \in TablesIn({Rolled(pm)["elements"]}) : Bounded(d)
  BY <1>1 DEF TablesIn, Sound, El
<1>5. pm.stage # "ONABORT" => \A d \in Tables : Bounded(d)
  BY <1>1 DEF Tables, TablesIn, Found, Sound, El
<1> QED
  BY <1>2, <1>3, <1>4, <1>5

\* TypeOK: an array has the items that were allocated and a table the entries of its
\* block of keys, and their counters stay numbers, whatever is converted, grown,
\* thrown or recovered.
THEOREM ElementsTypeCorrect == "pops" \notin Client => (Spec => []TypeOK)
<1> SUFFICES ASSUME "pops" \notin Client
             PROVE  Spec => []TypeOK
  OBVIOUS
<1>1. IInv => TypeOK
  <2> SUFFICES ASSUME IInv
               PROVE  TypeOK
    OBVIOUS
  <2>1. pm.stage \in Stages /\ pm.depth \in Nat
    BY SaneFields DEF IInv, Sane, Stages
  <2>2. \A e \in Found : IsDense(e) =>
           e.body.allocated \in Nat /\ e.body \in ArraysOf(e.body.allocated)
    BY TablesLemma, ArrayFields DEF Formed, Array
  <2>4. /\ DOMAIN handle \subseteq Handle
        /\ \A h \in DOMAIN handle : handle[h] \in {"ARRAY", "NUMDICT"}
    BY DEF IInv, HandlesLead, Sane, Formed, elements, El
  <2>3. \A d \in Tables : d.dk_size \in Sizes /\ d \in TablesOf(d.dk_size)
    BY TablesLemma, TableLemma DEF Block
  <2> QED
    BY <2>1, <2>2, <2>3, <2>4 DEF TypeOK, IInv
<1> QED
  BY <1>1, ElementsInvariance, PTL

\* Accounting: the usable, used and deleted entries of a table add up, also in what an
\* abort or a recovery brings back.
THEOREM ElementsAccounting == "pops" \notin Client => (Spec => []Accounting)
<1> SUFFICES ASSUME "pops" \notin Client
             PROVE  Spec => []Accounting
  OBVIOUS
<1>1. IInv => Accounting
  <2> SUFFICES ASSUME IInv, NEW d \in Tables
               PROVE  /\ d.dk_usable >= 0
                      /\ d.dk_usable + d.ma_used + Cardinality(SlotsIn(d, "DUMMY"))
                            = usableFraction(d.dk_size)
                      /\ Cardinality(SlotsIn(d, "FULL")) <= d.ma_used
    BY DEF Accounting
  <2>1. Table(d)
    BY TablesLemma
  <2>2. d.dk_usable \in Nat
    BY <2>1, TableLemma, FieldsLemma
  <2>3. d.dk_usable >= 0
    <3>1. PICK a : a = d.dk_usable
      OBVIOUS
    <3> QED
      BY <2>2, <3>1
  <2> QED
    BY <2>1, <2>3 DEF Table, Laid
<1> QED
  BY <1>1, ElementsInvariance, PTL

\* IndexesAreFound: lookup() finds the entry that getValidIndex() lists, through any
\* collisions, deletions, pops and resizes.
THEOREM IndexesFound == "pops" \notin Client => (Spec => []IndexesAreFound)
<1> SUFFICES ASSUME "pops" \notin Client
             PROVE  Spec => []IndexesAreFound
  OBVIOUS
<1>1. IInv => IndexesAreFound
  <2> SUFFICES ASSUME IInv, NEW d \in Tables, NEW s \in SlotsIn(d, "FULL")
               PROVE  lookup(d, d.entries[s].me_key) = s
    BY DEF IndexesAreFound
  <2>1. Block(d) /\ HasFree(d) /\ Reachable(d)
    BY TablesLemma, TableLemma
  <2> QED
    BY <2>1, FoundLemma
<1> QED
  BY <1>1, ElementsInvariance, PTL

\* ValuesBelowLength: the length of a table is beyond every index that has a value, so
\* that reading reaches it and a conversion has room for it; but for what setLength()
\* has left when an exception got in its way, until that is rolled back.
THEOREM ValuesWithinLength == "pops" \notin Client => (Spec => []ValuesBelowLength)
<1> SUFFICES ASSUME "pops" \notin Client
             PROVE  Spec => []ValuesBelowLength
  OBVIOUS
<1>1. IInv => ValuesBelowLength
  <2> SUFFICES ASSUME IInv,
                      NEW d \in TablesIn(IF pm.stage = "ONABORT"
                                         THEN {Rolled(pm)["elements"]} ELSE Found),
                      NEW s \in SlotsIn(d, "FULL"),
                      d.entries[s].me_value # PPTR_NULL
               PROVE  d.entries[s].me_key < d.ob_size
    BY DEF ValuesBelowLength
  <2>1. d \in Tables
    BY DEF Tables, TablesIn, Found
  <2>2. Table(d) /\ Bounded(d)
    BY <2>1, TablesLemma DEF Tables
  <2>3. d.entries[s].me_key \in Index
    BY <2>2, TableLemma, FoundLemma
  <2>4. Holds(d, d.entries[s].me_key, d.entries[s].me_value)
    BY DEF Holds
  <2> QED
    BY <2>2, <2>3, <2>4 DEF Bounded
<1> QED
  BY <1>1, ElementsInvariance, PTL

\* ImplementsIndexMap: the indexed properties of an object are a transactional map,
\* whichever form they are in and however often they are converted: setting, deleting
\* and popping change at most one index, the length takes away those from it on, and
\* exceptions, aborts and crashes bring back the map of the last commit.
THEOREM ElementsRefinement == "pops" \notin Client => (Spec => ImplementsIndexMap)
<1> SUFFICES ASSUME "pops" \notin Client
             PROVE  Spec => ImplementsIndexMap
  OBVIOUS
<1>1. IInv /\ [Next]_vars => IInv' /\ [Map!Next \/ Map!Shorten]_(Map!vars)
  <2> SUFFICES ASSUME IInv, [Next]_vars
               PROVE  IInv' /\ [Map!Next \/ Map!Shorten]_(Map!vars)
    OBVIOUS
  <2>1. CASE Next
    BY <2>1, StepLemma DEF Refines
  <2>2. CASE UNCHANGED vars
    BY <2>2 DEF vars, IInv, HandlesLead, elements, Map!vars
  <2> QED
    BY <2>1, <2>2
<1> QED
  BY <1>1, StartLemma, PTL DEF Spec, ImplementsIndexMap, Map!SpecOfIndexes

\* HandlesLead: a client that gets its objects anew after a rollback, and that goes on
\* with the handle through which it has set an index, never calls through one whose
\* elements have been converted or taken back.
THEOREM HandlesLeadToElements == "pops" \notin Client => (Spec => []HandlesLead)
<1> SUFFICES ASSUME "pops" \notin Client
             PROVE  Spec => []HandlesLead
  OBVIOUS
<1>1. IInv => HandlesLead
  BY DEF IInv
<1> QED
  BY <1>1, ElementsInvariance, PTL
===============================================================================
