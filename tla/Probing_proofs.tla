--------------------------- MODULE Probing_proofs ---------------------------
(***************************************************************************)
(* The facts about numbers on which searching a hash table rests: least    *)
(* elements and induction, the existence of what is defined step by step,  *)
(* and that i -> 5i + 1 goes through all the slots of a block whose size   *)
(* is a power of two.                                                      *)
(*                                                                         *)
(* Induction is stated of a set of numbers, the ones that have the         *)
(* property, so that a proof gives a set and not an operator.              *)
(***************************************************************************)
EXTENDS Probing, TLAPS, WellFoundedInduction

\* A set of numbers that has an element has a least one.
LEMMA LeastNumber ==
    ASSUME NEW T \in SUBSET Nat, T # {}
    PROVE  \E n \in T : \A j \in T : n <= j
<1>1. \E n \in T : \A j \in T : ~(<<j, n>> \in OpToRel(<, Nat))
  BY NatLessThanWellFounded, WFMin
<1>2. \A j, n \in Nat : j < n => <<j, n>> \in OpToRel(<, Nat)
  BY DEF OpToRel
<1>3. \A j, n \in T : ~(j < n) => n <= j
  OBVIOUS
<1> QED
  BY <1>1, <1>2, <1>3

\* A set of numbers with 0, and with the successors of its elements, is Nat.
LEMMA SetInduction ==
    ASSUME NEW T \in SUBSET Nat, 0 \in T, \A n \in T : n + 1 \in T
    PROVE  T = Nat
<1> SUFFICES ASSUME Nat \ T # {}
             PROVE  FALSE
  OBVIOUS
<1>1. PICK n \in Nat \ T : \A j \in Nat \ T : n <= j
  BY LeastNumber
<1>2. n # 0 /\ n - 1 \in Nat
  BY <1>1
<1>3. n - 1 \in T
  BY <1>1, <1>2
<1> QED
  BY <1>1, <1>3

\* Step by step, up to n: g starts with a, and T gives the value at i + 1.
Iterates(g, a, T, n) ==
    /\ DOMAIN g = 0..n
    /\ g[0] = a
    /\ \A i \in 0..n - 1 : g[i + 1] = T[i][g[i]]

\* There is one way, at most, to go on like that.
LEMMA IteratesOnce ==
    ASSUME NEW a, NEW T, NEW n \in Nat, NEW m \in Nat, NEW g, NEW h,
           Iterates(g, a, T, n), Iterates(h, a, T, m)
    PROVE  \A i \in Nat : i <= n /\ i <= m => g[i] = h[i]
<1> DEFINE S == {i \in Nat : i <= n /\ i <= m => g[i] = h[i]}
<1>1. 0 \in S
  BY DEF Iterates
<1>2. ASSUME NEW i \in S
      PROVE  i + 1 \in S
  <2> SUFFICES ASSUME i + 1 <= n, i + 1 <= m
               PROVE  g[i + 1] = h[i + 1]
    OBVIOUS
  <2>1. i \in 0..n - 1 /\ i \in 0..m - 1
    OBVIOUS
  <2>2. g[i] = h[i]
    BY <2>1
  <2>3. g[i + 1] = T[i][g[i]] /\ h[i + 1] = T[i][h[i]]
    BY <2>1 DEF Iterates
  <2> QED
    BY <2>2, <2>3
<1> HIDE DEF S
<1>3. S = Nat
  <2>1. S \in SUBSET Nat
    BY DEF S
  <2> QED
    BY <1>1, <1>2, <2>1, SetInduction
<1> QED
  BY <1>3 DEF S

\* Step by step, without end.
Generates(f, D, a, T) ==
    f \in [Nat -> D] /\ f[0] = a /\ \A n \in Nat : f[n + 1] = T[n][f[n]]

\* And there is one way: a function that gives all the values.
LEMMA Iteration ==
    ASSUME NEW D, NEW a \in D, NEW T \in [Nat -> [D -> D]]
    PROVE  \E f : Generates(f, D, a, T)
<1> DEFINE Ok(g, n) == Iterates(g, a, T, n) /\ g \in [0..n -> D]
           S == {n \in Nat : \E g : Ok(g, n)}
<1>1. 0 \in S
  <2> DEFINE g == [i \in 0..0 |-> a]
  <2>1. Ok(g, 0)
    BY DEF Iterates
  <2> QED
    BY <2>1
<1>2. ASSUME NEW n \in S
      PROVE  n + 1 \in S
  <2>1. PICK g : Ok(g, n)
    OBVIOUS
  <2> DEFINE h == [i \in 0..n + 1 |-> IF i <= n THEN g[i] ELSE T[n][g[n]]]
  <2>2. g[n] \in D /\ T[n] \in [D -> D]
    BY <2>1
  <2>3. h \in [0..n + 1 -> D]
    BY <2>1, <2>2
  <2>4. h[0] = a
    BY <2>1 DEF Iterates
  <2>5. ASSUME NEW i \in 0..(n + 1) - 1
        PROVE  h[i + 1] = T[i][h[i]]
    <3>1. CASE i = n
      BY <3>1
    <3>2. CASE i # n
      BY <2>1, <3>2 DEF Iterates
    <3> QED
      BY <3>1, <3>2
  <2>6. Ok(h, n + 1)
    BY <2>3, <2>4, <2>5 DEF Iterates
  <2> HIDE DEF h, Ok
  <2>7. \E x : Ok(x, n + 1)
    BY <2>6
  <2> QED
    BY <2>7
<1>3. S = Nat
  <2>1. S \in SUBSET Nat
    OBVIOUS
  <2> HIDE DEF S
  <2> QED
    BY <1>1, <1>2, <2>1, SetInduction
<1> DEFINE G(n) == CHOOSE g : Ok(g, n)
<1>4. \A n \in Nat : Ok(G(n), n)
  BY <1>3
<1> DEFINE f == [n \in Nat |-> G(n)[n]]
<1> HIDE DEF G
<1>5. f \in [Nat -> D]
  BY <1>4
<1>6. f[0] = a
  BY <1>4 DEF Iterates
<1>7. ASSUME NEW n \in Nat
      PROVE  f[n + 1] = T[n][f[n]]
  <2>1. Ok(G(n), n) /\ Ok(G(n + 1), n + 1)
    BY <1>4
  <2>2. G(n)[n] = G(n + 1)[n]
    <3>1. n + 1 \in Nat /\ n <= n /\ n <= n + 1
      OBVIOUS
    <3> QED
      BY <2>1, <3>1, IteratesOnce
  <2>3. G(n + 1)[n + 1] = T[n][G(n + 1)[n]]
    BY <2>1 DEF Iterates
  <2> QED
    BY <2>2, <2>3
<1> QED
  BY <1>5, <1>6, <1>7 DEF Generates

-----------------------------------------------------------------------------
(* The orbit of i -> 5i + 1, in the numbers, seen modulo a power of two. *)

\* From each value the orbit f advances, in n steps, by n times an odd number that
\* itself depends on the value.
Advances(f, n) ==
    \E d \in Nat : \A i \in Nat :
        f[i + n] = f[i] + n * ((2 * d + 1) * (4 * f[i] + 1))

\* Modulo n the first n values of the orbit are all there are.
Covers(f, n) ==
    \A t \in 0..n - 1 : \E i \in 0..n - 1, q \in Nat : f[i] = q * n + t

LEMMA AdvancesTwice ==
    ASSUME NEW f \in [Nat -> Nat], NEW n \in Nat, Advances(f, n)
    PROVE  Advances(f, 2 * n)
<1>1. PICK d \in Nat : \A i \in Nat :
         f[i + n] = f[i] + n * ((2 * d + 1) * (4 * f[i] + 1))
  BY DEF Advances
<1> DEFINE c == 2 * d + 1
           e == d + n * (c * c)
<1>2. e \in Nat
  OBVIOUS
<1>3. ASSUME NEW i \in Nat
      PROVE  f[i + 2 * n] = f[i] + (2 * n) * ((2 * e + 1) * (4 * f[i] + 1))
  <2> DEFINE x == f[i]
             y == f[i + n]
  <2>1. x \in Nat /\ y = x + n * (c * (4 * x + 1))
    BY <1>1
  <2>2. (i + n) + n = i + 2 * n /\ i + n \in Nat
    OBVIOUS
  <2>3. f[i + 2 * n] = y + n * (c * (4 * y + 1))
    BY <1>1, <2>2
  <2>4. c \in Nat /\ 2 * e + 1 = c + 2 * (n * (c * c))
    OBVIOUS
  <2> HIDE DEF x, y, c, e
  <2>5. y + n * (c * (4 * y + 1))
          = x + (2 * n) * ((c + 2 * (n * (c * c))) * (4 * x + 1))
    BY <2>1, <2>4
  <2> QED
    BY <2>3, <2>4, <2>5 DEF x
<1> HIDE DEF e
<1> QED
  BY <1>2, <1>3 DEF Advances

LEMMA CoversTwice ==
    ASSUME NEW f \in [Nat -> Nat], NEW n \in Nat \ {0}, Advances(f, n), Covers(f, n)
    PROVE  Covers(f, 2 * n)
<1> SUFFICES ASSUME NEW t \in 0..2 * n - 1
             PROVE  \E i \in 0..2 * n - 1, q \in Nat : f[i] = q * (2 * n) + t
  BY DEF Covers
<1>1. PICK r \in 0..n - 1, b \in {0, 1} : t = b * n + r
  <2>1. CASE t < n
    BY <2>1
  <2>2. CASE t >= n
    <3>1. t - n \in 0..n - 1 /\ t = 1 * n + (t - n)
      BY <2>2
    <3> QED
      BY <3>1
  <2> QED
    BY <2>1, <2>2
<1>2. PICK i \in 0..n - 1, q \in Nat : f[i] = q * n + r
  BY DEF Covers
<1>3. PICK h \in Nat, a \in {0, 1} : q = 2 * h + a
  <2>1. q = 2 * (q \div 2) \/ q = 2 * (q \div 2) + 1
    OBVIOUS
  <2> QED
    BY <2>1
<1>4. CASE a = b
  <2>1. f[i] = h * (2 * n) + t
    BY <1>1, <1>2, <1>3, <1>4
  <2>2. i \in 0..2 * n - 1
    OBVIOUS
  <2> QED
    BY <2>1, <2>2
<1>5. CASE a # b
  <2>1. PICK d \in Nat : f[i + n] = f[i] + n * ((2 * d + 1) * (4 * f[i] + 1))
    BY DEF Advances
  <2> DEFINE s == d * (4 * f[i] + 1) + 2 * f[i]
  <2>2. s \in Nat /\ (2 * d + 1) * (4 * f[i] + 1) = 2 * s + 1
    <3>1. f[i] \in Nat
      OBVIOUS
    <3> QED
      BY <3>1
  <2> HIDE DEF s
  <2>3. f[i + n] = (2 * h + a) * n + r + n * (2 * s + 1)
    BY <1>2, <1>3, <2>1, <2>2
  <2>4. (2 * h + a) * n + r + n * (2 * s + 1) = (h + s) * (2 * n) + (a + 1) * n + r
    BY <1>3, <2>2
  <2>5. \/ a = 0 /\ b = 1 /\ f[i + n] = (h + s) * (2 * n) + t
        \/ a = 1 /\ b = 0 /\ f[i + n] = (h + s + 1) * (2 * n) + t
    BY <1>1, <1>3, <1>5, <2>2, <2>3, <2>4
  <2>6. i + n \in 0..2 * n - 1
    OBVIOUS
  <2>7. h + s \in Nat /\ h + s + 1 \in Nat
    BY <2>2
  <2>8. \E p \in Nat : f[i + n] = p * (2 * n) + t
    BY <2>5, <2>7
  <2> QED
    BY <2>6, <2>8
<1> QED
  BY <1>4, <1>5

IsOrbit(f) == f \in [Nat -> Nat] /\ \A i \in Nat : f[i + 1] = 5 * f[i] + 1

\* The orbit of x.
LEMMA OrbitExists ==
    ASSUME NEW x \in Nat
    PROVE  \E f : IsOrbit(f) /\ f[0] = x
<1>1. PICK D : D = Nat
  OBVIOUS
<1>2. PICK T : T = [n \in Nat |-> [y \in D |-> 5 * y + 1]]
  OBVIOUS
<1>3. T \in [Nat -> [D -> D]]
  BY <1>1, <1>2
<1>4. PICK a \in D : a = x
  BY <1>1
<1>5. PICK f : Generates(f, D, a, T)
  BY <1>3, Iteration
<1>6. f \in [Nat -> Nat] /\ f[0] = x
  BY <1>1, <1>4, <1>5 DEF Generates
<1>7. \A n \in Nat : f[n + 1] = 5 * f[n] + 1
  BY <1>1, <1>2, <1>5 DEF Generates
<1> QED
  BY <1>6, <1>7 DEF IsOrbit

PowersOfTwo == {8, 16, 32, 64, 128, 256, 512, 1024}

\* In as many steps as there are slots, it has been to all of them.
LEMMA OrbitCovers ==
    ASSUME NEW f, IsOrbit(f), NEW n \in PowersOfTwo
    PROVE  Covers(f, n)
<1>0. f \in [Nat -> Nat] /\ \A i \in Nat : f[i + 1] = 5 * f[i] + 1
  BY DEF IsOrbit
<1> DEFINE Both(m) == Advances(f, m) /\ Covers(f, m)
<1>1. Both(1)
  <2>1. \A i \in Nat : f[i + 1] = f[i] + 1 * ((2 * 0 + 1) * (4 * f[i] + 1))
    BY <1>0
  <2>2. Advances(f, 1)
    BY <2>1 DEF Advances
  <2>3. (\A t \in 0..1 - 1 : t = 0 /\ f[0] = f[0] * 1 + t) /\ f[0] \in Nat /\ 0 \in 0..1 - 1
    BY <1>0
  <2>4. Covers(f, 1)
    BY <2>3 DEF Covers
  <2> QED
    BY <2>2, <2>4
<1>2. \A m \in Nat \ {0} : Both(m) => Both(2 * m)
  BY <1>0, AdvancesTwice, CoversTwice
<1> HIDE DEF Both
<1>3. Both(8)
  <2>1. Both(2 * 1)
    BY <1>1, <1>2
  <2>2. Both(2 * 2)
    BY <2>1, <1>2
  <2>3. Both(2 * 4)
    BY <2>2, <1>2
  <2> QED
    BY <2>3
<1>4. Both(2 * 8) /\ Both(2 * 16)
  BY <1>2, <1>3
<1>5. Both(2 * 32) /\ Both(2 * 64)
  BY <1>2, <1>4
<1>6. Both(2 * 128) /\ Both(2 * 256)
  BY <1>2, <1>5
<1>7. Both(2 * 512)
  BY <1>2, <1>6
<1>8. Both(n)
  BY <1>3, <1>4, <1>5, <1>6, <1>7 DEF PowersOfTwo
<1> QED
  BY <1>8 DEF Both

\* A size modulo which remainders can be taken at each step.
IsModulus(n) ==
    /\ n \in Nat \ {0}
    /\ \A x \in Nat : x % n \in 0..n - 1
    /\ \A x \in 0..n - 1 : x % n = x
    /\ \A x \in Nat : (5 * (x % n) + 1) % n = (5 * x + 1) % n
    /\ \A x, q \in Nat : \A t \in 0..n - 1 : x = q * n + t => x % n = t

LEMMA Remainders ==
    ASSUME NEW n \in PowersOfTwo
    PROVE  IsModulus(n)
<1>1. IsModulus(8)
  <2>1. \A x \in Nat : x % 8 \in 0..8 - 1
    OBVIOUS
  <2>2. \A x \in Nat : (5 * (x % 8) + 1) % 8 = (5 * x + 1) % 8
    OBVIOUS
  <2>3. \A x, q \in Nat : \A t \in 0..8 - 1 : x = q * 8 + t => x % 8 = t
    OBVIOUS
  <2>4. \A x \in 0..8 - 1 : x % 8 = x
    OBVIOUS
  <2> QED
    BY <2>1, <2>2, <2>3, <2>4 DEF IsModulus
<1>2. IsModulus(16)
  <2>1. \A x \in Nat : x % 16 \in 0..16 - 1
    OBVIOUS
  <2>2. \A x \in Nat : (5 * (x % 16) + 1) % 16 = (5 * x + 1) % 16
    OBVIOUS
  <2>3. \A x, q \in Nat : \A t \in 0..16 - 1 : x = q * 16 + t => x % 16 = t
    OBVIOUS
  <2>4. \A x \in 0..16 - 1 : x % 16 = x
    OBVIOUS
  <2> QED
    BY <2>1, <2>2, <2>3, <2>4 DEF IsModulus
<1>3. IsModulus(32)
  <2>1. \A x \in Nat : x % 32 \in 0..32 - 1
    OBVIOUS
  <2>2. \A x \in Nat : (5 * (x % 32) + 1) % 32 = (5 * x + 1) % 32
    OBVIOUS
  <2>3. \A x, q \in Nat : \A t \in 0..32 - 1 : x = q * 32 + t => x % 32 = t
    OBVIOUS
  <2>4. \A x \in 0..32 - 1 : x % 32 = x
    OBVIOUS
  <2> QED
    BY <2>1, <2>2, <2>3, <2>4 DEF IsModulus
<1>4. IsModulus(64)
  <2>1. \A x \in Nat : x % 64 \in 0..64 - 1
    OBVIOUS
  <2>2. \A x \in Nat : (5 * (x % 64) + 1) % 64 = (5 * x + 1) % 64
    OBVIOUS
  <2>3. \A x, q \in Nat : \A t \in 0..64 - 1 : x = q * 64 + t => x % 64 = t
    OBVIOUS
  <2>4. \A x \in 0..64 - 1 : x % 64 = x
    OBVIOUS
  <2> QED
    BY <2>1, <2>2, <2>3, <2>4 DEF IsModulus
<1>5. IsModulus(128)
  <2>1. \A x \in Nat : x % 128 \in 0..128 - 1
    OBVIOUS
  <2>2. \A x \in Nat : (5 * (x % 128) + 1) % 128 = (5 * x + 1) % 128
    OBVIOUS
  <2>3. \A x, q \in Nat : \A t \in 0..128 - 1 : x = q * 128 + t => x % 128 = t
    OBVIOUS
  <2>4. \A x \in 0..128 - 1 : x % 128 = x
    OBVIOUS
  <2> QED
    BY <2>1, <2>2, <2>3, <2>4 DEF IsModulus
<1>6. IsModulus(256)
  <2>1. \A x \in Nat : x % 256 \in 0..256 - 1
    OBVIOUS
  <2>2. \A x \in Nat : (5 * (x % 256) + 1) % 256 = (5 * x + 1) % 256
    OBVIOUS
  <2>3. \A x, q \in Nat : \A t \in 0..256 - 1 : x = q * 256 + t => x % 256 = t
    OBVIOUS
  <2>4. \A x \in 0..256 - 1 : x % 256 = x
    OBVIOUS
  <2> QED
    BY <2>1, <2>2, <2>3, <2>4 DEF IsModulus
<1>7. IsModulus(512)
  <2>1. \A x \in Nat : x % 512 \in 0..512 - 1
    OBVIOUS
  <2>2. \A x \in Nat : (5 * (x % 512) + 1) % 512 = (5 * x + 1) % 512
    OBVIOUS
  <2>3. \A x, q \in Nat : \A t \in 0..512 - 1 : x = q * 512 + t => x % 512 = t
    OBVIOUS
  <2>4. \A x \in 0..512 - 1 : x % 512 = x
    OBVIOUS
  <2> QED
    BY <2>1, <2>2, <2>3, <2>4 DEF IsModulus
<1>8. IsModulus(1024)
  <2>1. \A x \in Nat : x % 1024 \in 0..1024 - 1
    OBVIOUS
  <2>2. \A x \in Nat : (5 * (x % 1024) + 1) % 1024 = (5 * x + 1) % 1024
    OBVIOUS
  <2>3. \A x, q \in Nat : \A t \in 0..1024 - 1 : x = q * 1024 + t => x % 1024 = t
    OBVIOUS
  <2>4. \A x \in 0..1024 - 1 : x % 1024 = x
    OBVIOUS
  <2> QED
    BY <2>1, <2>2, <2>3, <2>4 DEF IsModulus
<1> QED
  BY <1>1, <1>2, <1>3, <1>4, <1>5, <1>6, <1>7, <1>8 DEF PowersOfTwo

\* From b on idx goes on like the orbit, modulo n.
Follows(idx, b, n) == \A i \in Nat : i >= b => idx[i + 1] = (5 * idx[i] + 1) % n

LEMMA FollowsOrbit ==
    ASSUME NEW n, IsModulus(n), NEW b \in Nat, NEW idx \in [Nat -> Nat],
           idx[b] \in 0..n - 1, Follows(idx, b, n),
           NEW f, IsOrbit(f), f[0] = idx[b]
    PROVE  \A i \in Nat : idx[b + i] = f[i] % n
<1>0. f \in [Nat -> Nat] /\ \A i \in Nat : f[i + 1] = 5 * f[i] + 1
  BY DEF IsOrbit
<1> DEFINE S == {i \in Nat : idx[b + i] = f[i] % n}
<1>1. 0 \in S
  <2>1. f[0] % n = f[0]
    BY DEF IsModulus
  <2>2. b + 0 = b
    OBVIOUS
  <2> QED
    BY <2>1, <2>2
<1>2. ASSUME NEW i \in S
      PROVE  i + 1 \in S
  <2>1. idx[b + i] = f[i] % n /\ b + i >= b /\ b + i \in Nat /\ f[i] \in Nat
    BY <1>0
  <2>2. idx[(b + i) + 1] = (5 * (f[i] % n) + 1) % n
    BY <2>1 DEF Follows
  <2>3. idx[(b + i) + 1] = f[i + 1] % n
    BY <1>0, <2>1, <2>2 DEF IsModulus
  <2>4. (b + i) + 1 = b + (i + 1)
    OBVIOUS
  <2> QED
    BY <2>3, <2>4
<1>3. S \in SUBSET Nat
  OBVIOUS
<1>4. S = Nat
  <2> HIDE DEF S
  <2> QED
    BY <1>1, <1>2, <1>3, SetInduction
<1> QED
  BY <1>4

\* A search whose perturbation is over after b slots has been to every slot of a
\* block of n after n more.
LEMMA SearchCovers ==
    ASSUME NEW n \in PowersOfTwo, NEW b \in Nat,
           NEW idx \in [Nat -> Nat], idx[b] \in 0..n - 1, Follows(idx, b, n)
    PROVE  \A t \in 0..n - 1 : \E i \in 0..n + b : idx[i] = t
<1>1. PICK x \in Nat : x = idx[b]
  OBVIOUS
<1>2. PICK f : IsOrbit(f) /\ f[0] = x
  BY OrbitExists
<1>3. IsModulus(n) /\ Covers(f, n)
  BY <1>2, OrbitCovers, Remainders
<1>4. \A i \in Nat : idx[b + i] = f[i] % n
  <2>1. IsModulus(n) /\ IsOrbit(f) /\ f[0] = idx[b] /\ Follows(idx, b, n)
    BY <1>1, <1>2, <1>3
  <2> QED
    BY <2>1, FollowsOrbit
<1>5. n \in Nat
  BY <1>3 DEF IsModulus
<1>6. ASSUME NEW t \in 0..n - 1
      PROVE  \E i \in 0..n - 1 : idx[b + i] = t
  <2>1. PICK i \in 0..n - 1, q \in Nat : f[i] = q * n + t
    BY <1>3 DEF Covers
  <2>2. f[i] \in Nat /\ i \in Nat
    BY <1>2, <1>5 DEF IsOrbit
  <2>3. f[i] % n = t
    BY <1>3, <2>1, <2>2 DEF IsModulus
  <2> QED
    BY <1>4, <2>2, <2>3
<1>7. \A i \in 0..n - 1 : b + i \in 0..n + b
  BY <1>5
<1> QED
  BY <1>6, <1>7

-----------------------------------------------------------------------------
(* The probe sequences. *)

\* A perturbation is a number at each step, and 0 from MaxPerturb on.
LEMMA PerturbLemma ==
    ASSUME NEW hash, Fades(hash)
    PROVE  /\ Perturb(hash) \in [Nat -> Nat]
           /\ \A n \in Nat : n >= MaxPerturb => Perturb(hash)[n] = 0
<1> DEFINE Def(p) == p = [n \in Nat |-> IF n = 0 THEN hash
                                        ELSE p[n - 1] \div 2 ^ PERTURB_SHIFT]
           p == Perturb(hash)
<1>1. 2 ^ PERTURB_SHIFT = 32
  BY DEF PERTURB_SHIFT
<1>2. hash \in Nat
  BY DEF Fades
<1>3. \E f : Def(f)
  <2>1. PICK D : D = Nat
    OBVIOUS
  <2>2. PICK T : T = [n \in Nat |-> [y \in D |-> y \div 32]]
    OBVIOUS
  <2>3. T \in [Nat -> [D -> D]] /\ hash \in D
    BY <1>2, <2>1, <2>2
  <2>4. PICK f : Generates(f, D, hash, T)
    BY <2>3, Iteration
  <2>5. f \in [Nat -> Nat] /\ f[0] = hash
    BY <2>1, <2>4 DEF Generates
  <2>6. \A n \in Nat : n # 0 => f[n] = f[n - 1] \div 32
    <3>1. \A n \in Nat : f[n + 1] = f[n] \div 32
      BY <2>1, <2>2, <2>4, <2>5 DEF Generates
    <3> QED
      BY <3>1
  <2>7. f = [n \in Nat |-> IF n = 0 THEN hash ELSE f[n - 1] \div 32]
    BY <2>5, <2>6
  <2> QED
    BY <1>1, <2>7
<1>4. Def(p)
  BY <1>3 DEF Perturb
<1>5. p[0] = hash /\ \A n \in Nat : p[n + 1] = p[n] \div 32
  BY <1>1, <1>4
<1> DEFINE S == {n \in Nat : p[n] \in Nat}
<1>6. S = Nat
  <2>1. 0 \in S /\ S \in SUBSET Nat
    BY <1>2, <1>5
  <2>2. ASSUME NEW n \in S
        PROVE  n + 1 \in S
    <3>1. n + 1 \in Nat /\ p[n] \in Nat /\ p[n + 1] = p[n] \div 32
      BY <1>5
    <3> HIDE DEF p
    <3> QED
      BY <3>1
  <2> HIDE DEF S
  <2> QED
    BY <2>1, <2>2, SetInduction
<1>7. p \in [Nat -> Nat]
  BY <1>4, <1>6
<1> DEFINE Z == {n \in Nat : n >= MaxPerturb => p[n] = 0}
<1>8. Z = Nat
  <2>0. MaxPerturb \in Nat /\ p[MaxPerturb] = 0
    BY DEF Fades
  <2> HIDE DEF p
  <2>1. 0 \in Z /\ Z \in SUBSET Nat
    BY <2>0
  <2>2. ASSUME NEW n \in Z
        PROVE  n + 1 \in Z
    <3>1. CASE n + 1 = MaxPerturb
      BY <2>0, <3>1
    <3>2. CASE n + 1 # MaxPerturb
      BY <1>5, <2>0, <3>2
    <3> QED
      BY <3>1, <3>2
  <2> HIDE DEF Z
  <2> QED
    BY <2>1, <2>2, SetInduction
<1> HIDE DEF p
<1> QED
  BY <1>7, <1>8 DEF p

\* Blocks are of sizes modulo which the orbit can be followed.
LEMMA SizesLemma ==
    /\ Sizes \subseteq PowersOfTwo /\ Sizes \subseteq Nat \ {0}
    /\ \A size \in Sizes : IsModulus(size)
<1>1. Sizes \subseteq PowersOfTwo
  BY DEF Sizes, PowersOfTwo
<1>2. PowersOfTwo \subseteq Nat \ {0}
  BY DEF PowersOfTwo
<1> QED
  BY <1>1, <1>2, Remainders

\* A walk stays inside the block, and follows the orbit when the perturbation is over.
LEMMA WalkLemma ==
    ASSUME NEW hash, Fades(hash), NEW size \in Sizes
    PROVE  LET w == Walk(hash, size)
           IN  /\ w \in [Nat -> 0..size - 1]
               /\ Follows(w, MaxPerturb, size)
<1> DEFINE p == Perturb(hash)
           Def(w) == w = [n \in Nat |-> IF n = 0 THEN hash % size
                                        ELSE (5 * w[n - 1] + Perturb(hash)[n - 1] + 1) % size]
           w == Walk(hash, size)
<1>1. /\ p \in [Nat -> Nat]
      /\ \A n \in Nat : n >= MaxPerturb => p[n] = 0
  BY PerturbLemma
<1>2. hash \in Nat
  BY DEF Fades
<1>3. /\ size \in Nat \ {0}
      /\ \A x \in Nat : x % size \in 0..size - 1
  BY SizesLemma DEF IsModulus
<1>4. \A y, q \in Nat : (5 * y + q + 1) % size \in 0..size - 1
  <2>1. \A y, q \in Nat : 5 * y + q + 1 \in Nat
    OBVIOUS
  <2> QED
    BY <1>3, <2>1
<1>5. \E f : Def(f)
  <2>1. PICK D : D = 0..size - 1
    OBVIOUS
  <2>2. PICK T : T = [n \in Nat |-> [y \in D |-> (5 * y + p[n] + 1) % size]]
    OBVIOUS
  <2>3. D \subseteq Nat
    BY <1>3, <2>1
  <2> HIDE DEF p
  <2>4. \A n \in Nat, y \in D : p[n] \in Nat /\ T[n][y] = (5 * y + p[n] + 1) % size
    BY <1>1, <2>2
  <2>5. ASSUME NEW n \in Nat, NEW y \in D
        PROVE  T[n][y] \in D
    <3>1. p[n] \in Nat /\ y \in Nat /\ T[n][y] = (5 * y + p[n] + 1) % size
      BY <2>3, <2>4
    <3>2. (5 * y + p[n] + 1) % size \in 0..size - 1
      BY <1>4, <3>1
    <3> QED
      BY <2>1, <3>1, <3>2
  <2>6. T \in [Nat -> [D -> D]]
    BY <2>2, <2>5
  <2>7. PICK a : a = hash % size
    OBVIOUS
  <2>8. a \in D
    BY <1>2, <1>3, <2>1, <2>7
  <2>9. PICK f : Generates(f, D, a, T)
    BY <2>6, <2>8, Iteration
  <2>10. f \in [Nat -> D] /\ f[0] = hash % size
    BY <2>7, <2>9 DEF Generates
  <2>11. \A n \in Nat : n # 0 => f[n] = (5 * f[n - 1] + p[n - 1] + 1) % size
    <3>1. \A n \in Nat : f[n + 1] = (5 * f[n] + p[n] + 1) % size
      BY <2>4, <2>9, <2>10 DEF Generates
    <3>2. \A n \in Nat : n # 0 => n - 1 \in Nat /\ (n - 1) + 1 = n
      OBVIOUS
    <3> QED
      BY <3>1, <3>2
  <2>12. f = [n \in Nat |-> IF n = 0 THEN hash % size
                           ELSE (5 * f[n - 1] + p[n - 1] + 1) % size]
    BY <2>10, <2>11
  <2> QED
    BY <2>12 DEF p
<1>6. Def(w)
  BY <1>5 DEF Walk
<1> HIDE DEF p
<1>7. w = [n \in Nat |-> IF n = 0 THEN hash % size
                         ELSE (5 * w[n - 1] + p[n - 1] + 1) % size]
  BY <1>6 DEF p
<1> HIDE DEF w
<1>8. /\ w[0] = hash % size
      /\ \A n \in Nat : w[n + 1] = (5 * w[n] + p[n] + 1) % size
  <2>1. \A n \in Nat : n + 1 \in Nat /\ n + 1 # 0 /\ (n + 1) - 1 = n
    OBVIOUS
  <2> QED
    BY <1>7, <2>1
<1> DEFINE S == {n \in Nat : w[n] \in 0..size - 1}
<1>9. S = Nat
  <2>1. 0 \in S /\ S \in SUBSET Nat
    BY <1>2, <1>3, <1>8
  <2>2. ASSUME NEW n \in S
        PROVE  n + 1 \in S
    <3>1. n \in Nat /\ w[n] \in Nat /\ p[n] \in Nat
      BY <1>1, <1>3
    <3>2. w[n + 1] \in 0..size - 1
      BY <1>4, <1>8, <3>1
    <3> QED
      BY <3>1, <3>2
  <2> HIDE DEF S
  <2> QED
    BY <2>1, <2>2, SetInduction
<1>10. w \in [Nat -> 0..size - 1]
  BY <1>7, <1>9
<1>11. Follows(w, MaxPerturb, size)
  <2> SUFFICES ASSUME NEW n \in Nat, n >= MaxPerturb
               PROVE  w[n + 1] = (5 * w[n] + 1) % size
    BY DEF Follows
  <2>1. p[n] = 0 /\ w[n] \in Nat
    BY <1>1, <1>3, <1>10
  <2>2. 5 * w[n] + p[n] + 1 = 5 * w[n] + 1
    BY <2>1
  <2> QED
    BY <1>8, <2>2
<1> QED
  BY <1>10, <1>11 DEF w

\* A search stays inside the block, and has been to all of it before it ends.
LEMMA VisitedLemma ==
    ASSUME NEW hash, Fades(hash), NEW size \in Sizes
    PROVE  LET idx == Visited(hash, size)
           IN  /\ DOMAIN idx = 0..size + MaxPerturb
               /\ size \in Nat /\ size + MaxPerturb \in Nat
               /\ \A n \in DOMAIN idx : idx[n] \in 0..size - 1
               /\ \A t \in 0..size - 1 : \E n \in DOMAIN idx : idx[n] = t
<1>1. PICK w : w = Walk(hash, size)
  OBVIOUS
<1>2. w \in [Nat -> 0..size - 1] /\ Follows(w, MaxPerturb, size)
  BY <1>1, WalkLemma
<1>3. MaxPerturb \in Nat /\ size \in Nat /\ size \in PowersOfTwo
  BY SizesLemma DEF Fades
<1>4. Visited(hash, size) = [n \in 0..size + MaxPerturb |-> w[n]]
  BY <1>1 DEF Visited
<1>5. w \in [Nat -> Nat] /\ w[MaxPerturb] \in 0..size - 1
  BY <1>2, <1>3
<1>6. \A t \in 0..size - 1 : \E n \in 0..size + MaxPerturb : w[n] = t
  BY <1>2, <1>3, <1>5, SearchCovers
<1>7. 0..size + MaxPerturb \subseteq Nat /\ size + MaxPerturb \in Nat
  BY <1>3
<1> QED
  BY <1>2, <1>3, <1>4, <1>6, <1>7

\* What may be used of a block is not all of it; and the next block has room for
\* what is in use, and for one more.
LEMMA UsableLemma ==
    ASSUME NEW size \in Sizes
    PROVE  /\ usableFraction(size) \in Nat /\ usableFraction(size) < size
           /\ usableFraction(size) > 0
           /\ \A u \in Nat : u <= usableFraction(size) => 2 * u + size \div 2 < 2 * size
           /\ \A u \in Nat : size > 2 * u + 4 => u < usableFraction(size)
<1>1. size \in Nat /\ size >= 8 /\ size % 2 = 0
  BY DEF Sizes
<1>2. size \div 2 \in Nat /\ size = 2 * (size \div 2)
  BY <1>1
<1> DEFINE u == usableFraction(size)
<1>3. u \in Nat /\ 3 * u <= 2 * size + 1 /\ 2 * size + 1 < 3 * u + 3
  BY <1>1 DEF usableFraction
<1> HIDE DEF u
<1> QED
  BY <1>1, <1>2, <1>3 DEF u
=============================================================================
