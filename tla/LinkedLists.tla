---------------------------- MODULE LinkedLists ----------------------------
(***************************************************************************)
(* What a walk along the next pointers meets, for the lists of AtomicVec    *)
(* and AtomicHashMap.  next is a function on the items; a pointer that is    *)
(* not in its domain leads nowhere.                                        *)
(***************************************************************************)
EXTENDS Integers, Sequences, FiniteSets

(* The pointers from p on, as many as tell a list from a cycle: the last one  *)
(* leads nowhere unless the walk has met an item twice.                     *)
Chain(p, next) ==
  LET at[i \in 0 .. Cardinality(DOMAIN next)] ==
        IF i = 0 THEN p
        ELSE LET q == at[i - 1] IN IF q \in DOMAIN next THEN next[q] ELSE q
  IN  at

(* The items among them, in order.                                          *)
Walk(p, next) ==
  LET at == Chain(p, next)
      count == Cardinality({i \in DOMAIN at : at[i] \in DOMAIN next})
  IN  [i \in 1 .. count |-> at[i - 1]]
=============================================================================
