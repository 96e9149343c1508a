------------------------------ MODULE Probing -------------------------------
(***************************************************************************)
(* What the two hash tables, PMDict and PMNumDict, have in common: the     *)
(* sizes of a block of keys, and the slots that a search visits in it.     *)
(* Both follow CPython's dictionaries: the next slot is 5 times this one   *)
(* plus 1, and some bits of the hash for as long as there are any left.    *)
(***************************************************************************)
EXTENDS Integers

CONSTANTS
    MaxSize,        \* bound: the largest block of keys
    MaxPerturb      \* bound: after so many shifts every hash is 0

MIN_SIZE_COMBINED == 8
PERTURB_SHIFT == 5

ASSUME SizeAssumption == MaxSize \in MIN_SIZE_COMBINED..512

\* Blocks double in size from the smallest one, MIN_SIZE_COMBINED.  (A block of at
\* most MaxSize is followed by one of at most twice that.)
Sizes == {8, 16, 32, 64, 128, 256, 512, 1024} \cap 0..2 * MaxSize

\* How much of a block may be used.
usableFraction(size) == (2 * size + 1) \div 3

\* The perturbation of a search for a hash, after n shifts.
Perturb(hash) ==
    LET perturb[n \in Nat] ==
          IF n = 0 THEN hash ELSE perturb[n - 1] \div 2 ^ PERTURB_SHIFT
    IN  perturb

\* It dies out.
Fades(hash) == hash \in Nat /\ MaxPerturb \in Nat /\ Perturb(hash)[MaxPerturb] = 0

\* The slots that a search looks at, one after the other, in a block of some size.
Walk(hash, size) ==
    LET idx[n \in Nat] ==
          IF n = 0 THEN hash % size
          ELSE (5 * idx[n - 1] + Perturb(hash)[n - 1] + 1) % size
    IN  idx

\* As many as it takes: once the perturbation has died out they are all its slots.
Visited(hash, size) == [n \in 0..size + MaxPerturb |-> Walk(hash, size)[n]]
=============================================================================
