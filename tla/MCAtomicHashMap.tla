-------------------------- MODULE MCAtomicHashMap --------------------------
(* AtomicHashMap with two keys, in one bucket together or in one each.      *)
EXTENDS AtomicHashMapProperties, TLC

CONSTANTS k1, k2

(* With one bucket the keys share it; with two they have one each.         *)
Hashes == k1 :> 0 @@ k2 :> 1

Symmetry == Permutations(Threads) \cup Permutations(Items)
=============================================================================
