--------------------------- MODULE ArwProperties ---------------------------
(* What must hold of Arw and WeakArw.                                      *)
EXTENDS Arw

Kinds == {"none", "strong", "raw", "weak", "unwrap", "unwrapped", "last", "implicit",
          "abortStrong", "abortWeak"}
Borrows == {"none", "probe", "unique", "shared", "read", "write"}

(* Every variable has its type; the counts, of type usize, are in range.    *)
TypeOK ==
  /\ strong \in 0..UMax /\ weak \in 0..UMax
  /\ alloc \in BOOLEAN
  /\ value \in {"there", "dropped"}
  /\ copies \in Nat
  /\ pc \in [Handles -> Kinds]
  /\ borrow \in [Handles -> Borrows]
  /\ forgotten \in [{"strong", "weak"} -> Nat]

StrongHandles == {h \in Handles : pc[h] \in {"strong", "raw", "unwrap", "abortStrong"}}
WeakHandles == {h \in Handles : pc[h] \in {"weak", "abortWeak"}}
Dying == {h \in Handles : pc[h] \in {"unwrapped", "last", "implicit"}}
Probing == {h \in Handles : borrow[h] \in {"probe", "unique", "shared"}}

(* strong counts the strong handles, those forgotten too.  weak counts the    *)
(* weak handles and the one weak reference that the strong handles, or the    *)
(* last of them on its way out, own together; or it is usize::MAX, which      *)
(* happens exactly while is_unique keeps it locked, never by counting up:     *)
(* past MAX_REFCOUNT clone aborts, and downgrade and upgrade panic.           *)
CountsExact ==
  /\ strong = Cardinality(StrongHandles) + forgotten.strong
  /\ weak = IF Probing # {} THEN UMax
            ELSE Cardinality(WeakHandles) + forgotten.weak
                 + (IF strong > 0 \/ Dying # {} THEN 1 ELSE 0)
  /\ (weak = UMax) <=> Probing # {}
  /\ Probing # {} => /\ Cardinality(Probing) = 1
                     /\ WeakHandles = {} /\ forgotten.weak = 0

(* The allocation lasts exactly as long as a reference to it of either kind: *)
(* no handle outlives it, and nobody leaks it.                               *)
FreedWithLast ==
  alloc <=> \/ \E h \in Handles : pc[h] # "none"
            \/ forgotten.strong + forgotten.weak > 0

(* The value lasts as long as anybody can reach it: whoever has a strong      *)
(* handle finds it there, one handle at most drops it, and it is dropped,     *)
(* or given out by try_unwrap, by the time only weak handles are left.       *)
ValueWithStrong ==
  /\ strong > 0 => value = "there" /\ Dying = {}
  /\ Cardinality(Dying) <= 1
  /\ strong = 0 /\ Dying = {} => value = "dropped" \/ copies > 0

(* A guard on the value excludes what its lock excludes, if one handle at most *)
(* is a reader; and whoever reads, try_unwrap and drop take no value that a    *)
(* guard still uses.                                                         *)
GuardsExclude ==
  \A g, h \in Handles :
    /\ g # h /\ borrow[g] = "write" => borrow[h] \notin {"read", "write"}
    /\ borrow[g] \in {"read", "write"} => Dying = {} /\ value = "there"

(* No resurrection: once strong is 0 no upgrade brings it back.              *)
NoResurrection == [][strong = 0 => strong' = 0]_vars

(* is_unique answers true only if, when it loads strong, its handle is the    *)
(* only one of either kind: the locked weak count keeps weak handles, and so   *)
(* upgrades, away, and the load rules strong ones out.                       *)
UniqueMeansAlone ==
  [][\A h \in Handles : borrow[h] = "probe" /\ borrow'[h] = "unique" =>
       /\ \A g \in Handles \ {h} : pc[g] = "none"
       /\ forgotten.strong + forgotten.weak = 0]_vars

(* The value is destroyed once: a value try_unwrap gave its caller is not      *)
(* also dropped inside ("try_unwrap for unique value recovery",               *)
(* README.md:33; a value is dropped once, test/arw.rs test_drop).             *)
DestroyedOnce == ~(copies > 0 /\ value = "dropped")

(* The last strong reference, dropped or unwrapped, disposes of the value and   *)
(* gives up the weak reference the strong ones owned.                        *)
LastFinishes ==
  (strong = 0) ~> (Dying = {} /\ (value = "dropped" \/ copies > 0))
=============================================================================
