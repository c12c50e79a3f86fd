----------------------------- MODULE ArwProofs -----------------------------
(***************************************************************************)
(* Theorems about Arw and WeakArw, for any number of handles and any        *)
(* MAX_REFCOUNT.                                                           *)
(***************************************************************************)
EXTENDS ArwProperties, FiniteSetTheorems, TLAPS

StrongKinds == {"strong", "raw", "unwrap", "abortStrong"}
WeakKinds == {"weak", "abortWeak"}
DyingKinds == {"unwrapped", "last", "implicit"}

(* The handles of some kinds, and how many they are.                       *)
Of(f, K) == {h \in Handles : f[h] \in K}
NStrong == Cardinality(Of(pc, StrongKinds))
NWeak == Cardinality(Of(pc, WeakKinds))
NDying == Cardinality(Of(pc, DyingKinds))
AbortedStrong == Cardinality(Of(pc, {"abortStrong"}))
AbortedWeak == Cardinality(Of(pc, {"abortWeak"}))

(* Every variable has its type, but for the range of the counts; only a      *)
(* strong handle is borrowed.                                              *)
Shape ==
  /\ strong \in Int /\ weak \in Int
  /\ alloc \in BOOLEAN /\ value \in {"there", "dropped"} /\ copies \in Nat
  /\ pc \in [Handles -> Kinds] /\ borrow \in [Handles -> Borrows]
  /\ forgotten \in [{"strong", "weak"} -> Nat]
  /\ \A h \in Handles : borrow[h] # "none" => pc[h] = "strong"

(* What weak counts when it is not locked.                                 *)
WeakOwned == NWeak + forgotten["weak"] + (IF strong > 0 \/ NDying > 0 THEN 1 ELSE 0)

CountInv ==
  /\ strong = NStrong + forgotten["strong"]
  /\ strong <= MaxRefcount + 1 + AbortedStrong
  /\ WeakOwned <= MaxRefcount + 1 + AbortedWeak
  /\ Probing = {} => weak = WeakOwned
  /\ Probing # {} => weak = UMax /\ NWeak = 0 /\ forgotten["weak"] = 0
  /\ \A g, h \in Probing : g = h

LifeInv ==
  /\ NDying <= 1
  /\ strong > 0 => NDying = 0 /\ value = "there"
  /\ \A h \in Handles : pc[h] = "implicit" => value = "dropped"
  /\ strong = 0 /\ NDying = 0 => value = "dropped" \/ copies > 0
  /\ alloc <=> strong > 0 \/ NDying > 0 \/ NWeak > 0 \/ forgotten["weak"] > 0

(* What the lock excludes, when one handle at most is a reader.             *)
GuardInv ==
  OneReader =>
    \A g, h \in Handles :
      g # h /\ borrow[g] = "write" => borrow[h] \notin {"read", "write"}

IInv == Shape /\ CountInv /\ LifeInv /\ GuardInv

---------------------------------------------------------------------------
(* Counting.                                                               *)
LEMMA OfFinite ==
  ASSUME NEW f, NEW K
  PROVE  /\ IsFiniteSet(Of(f, K)) /\ Cardinality(Of(f, K)) \in Nat
         /\ Cardinality(Of(f, K)) = 0 <=> Of(f, K) = {}
         /\ Cardinality(Of(f, K)) <= Cardinality(Handles)
<1>1. Of(f, K) \subseteq Handles
  BY DEF Of
<1> QED
  BY <1>1, HandlesAssumption, FS_Subset, FS_CardinalityType, FS_EmptySet

(* A handle of some kind is counted; if the count is 1 it is the only one.   *)
LEMMA OfMember ==
  ASSUME NEW f, NEW K, NEW h \in Handles, f[h] \in K
  PROVE  /\ Cardinality(Of(f, K)) > 0
         /\ Cardinality(Of(f, K)) = 1 => Of(f, K) = {h}
<1>1. h \in Of(f, K)
  BY DEF Of
<1>2. Cardinality(Of(f, K)) > 0
  BY <1>1, OfFinite
<1>3. ASSUME Cardinality(Of(f, K)) = 1 PROVE Of(f, K) = {h}
  <2>1. PICK x : Of(f, K) = {x}
    BY <1>3, OfFinite, FS_Singleton
  <2> QED
    BY <1>1, <2>1
<1> QED
  BY <1>2, <1>3

Counted(k, K) == IF k \in K THEN 1 ELSE 0

(* A handle that becomes another kind is counted there.                    *)
LEMMA OfMove ==
  ASSUME NEW g \in Handles, NEW f, NEW e, \A h \in Handles \ {g} : e[h] = f[h], NEW K
  PROVE  Cardinality(Of(e, K)) = Cardinality(Of(f, K)) + Counted(e[g], K) - Counted(f[g], K)
<1> DEFINE before == Of(f, K)
           after == Of(e, K)
<1>0. IsFiniteSet(before) /\ Cardinality(before) \in Nat
  BY OfFinite
<1>1. CASE e[g] \in K /\ f[g] \notin K
  <2>1. after = before \cup {g} /\ g \notin before
    BY <1>1 DEF Of
  <2>2. Cardinality(after) = Cardinality(before) + 1
    BY <1>0, <2>1, FS_AddElement
  <2>3. Counted(e[g], K) = 1 /\ Counted(f[g], K) = 0
    BY <1>1 DEF Counted
  <2> QED
    BY <1>0, <2>2, <2>3
<1>2. CASE e[g] \notin K /\ f[g] \in K
  <2>1. after = before \ {g} /\ g \in before
    BY <1>2 DEF Of
  <2>2. Cardinality(after) = Cardinality(before) - 1
    BY <1>0, <2>1, FS_RemoveElement
  <2>3. Counted(e[g], K) = 0 /\ Counted(f[g], K) = 1
    BY <1>2 DEF Counted
  <2> QED
    BY <1>0, <2>2, <2>3
<1>3. CASE e[g] \in K <=> f[g] \in K
  <2>1. after = before
    BY <1>3 DEF Of
  <2>2. Counted(e[g], K) = Counted(f[g], K) /\ Counted(e[g], K) \in Nat
    BY <1>3 DEF Counted
  <2> QED
    BY <1>0, <2>1, <2>2
<1> QED
  BY <1>1, <1>2, <1>3

(* The five counts together.                                               *)
LEMMA Move ==
  ASSUME NEW g \in Handles, \A h \in Handles \ {g} : pc'[h] = pc[h]
  PROVE  /\ NStrong' = NStrong + Counted(pc'[g], StrongKinds) - Counted(pc[g], StrongKinds)
         /\ NWeak' = NWeak + Counted(pc'[g], WeakKinds) - Counted(pc[g], WeakKinds)
         /\ NDying' = NDying + Counted(pc'[g], DyingKinds) - Counted(pc[g], DyingKinds)
         /\ AbortedStrong' = AbortedStrong + Counted(pc'[g], {"abortStrong"})
                                           - Counted(pc[g], {"abortStrong"})
         /\ AbortedWeak' = AbortedWeak + Counted(pc'[g], {"abortWeak"})
                                       - Counted(pc[g], {"abortWeak"})
<1> DEFINE e == pc'
           f == pc
<1>1. \A h \in Handles \ {g} : e[h] = f[h]
  OBVIOUS
<1> HIDE DEF e, f
<1>2. ASSUME NEW K
      PROVE  Cardinality(Of(e, K)) = Cardinality(Of(f, K)) + Counted(e[g], K) - Counted(f[g], K)
  <2>1. g \in Handles
    OBVIOUS
  <2> QED
    BY ONLY <1>1, <2>1, OfMove
<1>3. NStrong' = NStrong + Counted(pc'[g], StrongKinds) - Counted(pc[g], StrongKinds)
  BY <1>2 DEF NStrong, e, f
<1>4. NWeak' = NWeak + Counted(pc'[g], WeakKinds) - Counted(pc[g], WeakKinds)
  BY <1>2 DEF NWeak, e, f
<1>5. NDying' = NDying + Counted(pc'[g], DyingKinds) - Counted(pc[g], DyingKinds)
  BY <1>2 DEF NDying, e, f
<1>6. AbortedStrong' = AbortedStrong + Counted(pc'[g], {"abortStrong"})
                                     - Counted(pc[g], {"abortStrong"})
  BY <1>2 DEF AbortedStrong, e, f
<1>7. AbortedWeak' = AbortedWeak + Counted(pc'[g], {"abortWeak"})
                                 - Counted(pc[g], {"abortWeak"})
  BY <1>2 DEF AbortedWeak, e, f
<1> QED
  BY <1>3, <1>4, <1>5, <1>6, <1>7

(* The counts are natural numbers, no larger than the number of handles.    *)
LEMMA CountsNat ==
  /\ NStrong \in Nat /\ NWeak \in Nat /\ NDying \in Nat
  /\ AbortedStrong \in Nat /\ AbortedWeak \in Nat
  /\ AbortedStrong <= Cardinality(Handles) /\ AbortedWeak <= Cardinality(Handles)
  /\ Cardinality(Handles) \in Nat
  /\ NStrong' \in Nat /\ NWeak' \in Nat
BY OfFinite, HandlesAssumption, FS_CardinalityType
DEF NStrong, NWeak, NDying, AbortedStrong, AbortedWeak

(* A handle that exists is in the count of its kind.                       *)
LEMMA KindsCounted ==
  ASSUME NEW h \in Handles
  PROVE  /\ pc[h] \in StrongKinds => NStrong > 0
         /\ pc[h] \in WeakKinds => NWeak > 0
         /\ pc[h] \in DyingKinds => NDying > 0
         /\ pc'[h] \in StrongKinds => NStrong' > 0
         /\ pc'[h] \in WeakKinds => NWeak' > 0
         /\ pc'[h] \in DyingKinds => NDying' > 0
BY OfMember DEF NStrong, NWeak, NDying

(* What the invariant says of the ranges of the counts.                     *)
LEMMA CountsInRange ==
  ASSUME IInv
  PROVE  /\ WeakOwned \in Nat /\ WeakOwned < UMax
         /\ strong \in 0..UMax /\ weak \in 0..UMax
BY CountsNat, CountsAssumption DEF IInv, Shape, CountInv, WeakOwned
---------------------------------------------------------------------------
(* The steps that make a handle of a kind.                                 *)
(* Arw::clone, aborted or not: the count is incremented first.             *)
LEMMA CloneStrongStep ==
  ASSUME IInv, NEW h \in Handles, NEW g \in Handles, CloneStrong(h, g)
  PROVE  IInv'
<1> USE DEF IInv, Shape, Goto, Kinds, memory
<1>1. /\ pc[h] = "strong" /\ pc[g] = "none" /\ borrow[g] = "none" /\ strong' = strong + 1
      /\ pc' = [pc EXCEPT ![g] = IF strong > AbortAbove THEN "abortStrong" ELSE "strong"]
      /\ UNCHANGED <<weak, alloc, value, copies, borrow, forgotten>>
  BY DEF CloneStrong
<1>2. /\ NStrong' = NStrong + 1 /\ NWeak' = NWeak /\ NDying' = NDying
      /\ AbortedWeak' = AbortedWeak
      /\ AbortedStrong' = IF strong > AbortAbove THEN AbortedStrong + 1 ELSE AbortedStrong
  BY <1>1, Move, CountsNat DEF Counted, StrongKinds, WeakKinds, DyingKinds
<1>3. NStrong > 0 /\ strong > 0
  BY <1>1, KindsCounted, CountsNat DEF StrongKinds, CountInv
<1>4. Shape'
  BY <1>1
<1>5. CountInv'
  <2>1. WeakOwned' = WeakOwned /\ Probing' = Probing
    BY <1>1, <1>2, <1>3 DEF WeakOwned, Probing
  <2> QED
    BY <1>1, <1>2, <2>1, CountsNat, CountsAssumption, AbortAssumption DEF CountInv
<1>6. LifeInv'
  BY <1>1, <1>2, <1>3 DEF LifeInv
<1>7. GuardInv'
  BY <1>1 DEF GuardInv
<1> QED
  BY <1>4, <1>5, <1>6, <1>7

(* WeakArw::clone: the weak count is not locked, as there is a weak handle.  *)
LEMMA CloneWeakStep ==
  ASSUME IInv, NEW h \in Handles, NEW g \in Handles, CloneWeak(h, g)
  PROVE  IInv'
<1> USE DEF IInv, Shape, Goto, Kinds, memory
<1>1. /\ pc[h] = "weak" /\ pc[g] = "none" /\ borrow[g] = "none" /\ weak' = weak + 1
      /\ pc' = [pc EXCEPT ![g] = IF weak > MaxRefcount THEN "abortWeak" ELSE "weak"]
      /\ UNCHANGED <<strong, alloc, value, copies, borrow, forgotten>>
  BY DEF CloneWeak
<1>2. NStrong' = NStrong /\ NWeak' = NWeak + 1 /\ NDying' = NDying
      /\ AbortedStrong' = AbortedStrong
      /\ AbortedWeak' = IF weak > MaxRefcount THEN AbortedWeak + 1 ELSE AbortedWeak
  BY <1>1, Move, CountsNat DEF Counted, StrongKinds, WeakKinds, DyingKinds
<1>3. NWeak > 0 /\ Probing = {} /\ weak = WeakOwned
  BY <1>1, KindsCounted DEF WeakKinds, CountInv
<1>4. Shape'
  BY <1>1
<1>5. CountInv'
  <2>1. WeakOwned' = WeakOwned + 1 /\ Probing' = Probing
    BY <1>1, <1>2, CountsNat DEF WeakOwned, Probing
  <2> QED
    BY <1>1, <1>2, <1>3, <2>1, CountsNat, CountsAssumption DEF CountInv
<1>6. LifeInv'
  BY <1>1, <1>2, <1>3, CountsNat DEF LifeInv
<1>7. GuardInv'
  BY <1>1 DEF GuardInv
<1> QED
  BY <1>4, <1>5, <1>6, <1>7

(* downgrade: it has waited for the weak count to be unlocked.              *)
LEMMA DowngradeStep ==
  ASSUME IInv, NEW h \in Handles, NEW g \in Handles, Downgrade(h, g)
  PROVE  IInv'
<1> USE DEF IInv, Shape, Goto, Kinds, memory
<1>1. /\ pc[h] = "strong" /\ pc[g] = "none" /\ borrow[g] = "none" /\ weak' = weak + 1
      /\ weak # UMax /\ weak <= MaxRefcount
      /\ pc' = [pc EXCEPT ![g] = "weak"]
      /\ UNCHANGED <<strong, alloc, value, copies, borrow, forgotten>>
  BY DEF Downgrade
<1>2. NStrong' = NStrong /\ NWeak' = NWeak + 1 /\ NDying' = NDying
      /\ AbortedStrong' = AbortedStrong /\ AbortedWeak' = AbortedWeak
  BY <1>1, Move, CountsNat DEF Counted, StrongKinds, WeakKinds, DyingKinds
<1>3. strong > 0 /\ Probing = {} /\ weak = WeakOwned
  BY <1>1, KindsCounted, CountsNat DEF StrongKinds, CountInv
<1>4. Shape'
  BY <1>1
<1>5. CountInv'
  <2>1. WeakOwned' = WeakOwned + 1 /\ Probing' = Probing
    BY <1>1, <1>2, CountsNat DEF WeakOwned, Probing
  <2> QED
    BY <1>1, <1>2, <1>3, <2>1, CountsNat, CountsAssumption DEF CountInv
<1>6. LifeInv'
  BY <1>1, <1>2, <1>3, CountsNat DEF LifeInv
<1>7. GuardInv'
  BY <1>1 DEF GuardInv
<1> QED
  BY <1>4, <1>5, <1>6, <1>7

(* upgrade: strong is above zero, so the strong handles own a weak reference. *)
LEMMA UpgradeStep ==
  ASSUME IInv, NEW h \in Handles, NEW g \in Handles, Upgrade(h, g)
  PROVE  IInv'
<1> USE DEF IInv, Shape, Goto, Kinds, memory
<1>1. /\ pc[h] = "weak" /\ pc[g] = "none" /\ borrow[g] = "none" /\ strong' = strong + 1
      /\ strong # 0 /\ strong <= MaxRefcount
      /\ pc' = [pc EXCEPT ![g] = "strong"]
      /\ UNCHANGED <<weak, alloc, value, copies, borrow, forgotten>>
  BY DEF Upgrade
<1>2. NStrong' = NStrong + 1 /\ NWeak' = NWeak /\ NDying' = NDying
      /\ AbortedStrong' = AbortedStrong /\ AbortedWeak' = AbortedWeak
  BY <1>1, Move, CountsNat DEF Counted, StrongKinds, WeakKinds, DyingKinds
<1>3. strong > 0
  BY <1>1, CountsNat DEF CountInv
<1>4. Shape'
  BY <1>1
<1>5. CountInv'
  <2>1. WeakOwned' = WeakOwned /\ Probing' = Probing
    BY <1>1, <1>2, <1>3 DEF WeakOwned, Probing
  <2> QED
    BY <1>1, <1>2, <1>3, <2>1, CountsNat, CountsAssumption DEF CountInv
<1>6. LifeInv'
  BY <1>1, <1>2, <1>3, CountsNat DEF LifeInv
<1>7. GuardInv'
  BY <1>1 DEF GuardInv
<1> QED
  BY <1>4, <1>5, <1>6, <1>7

---------------------------------------------------------------------------
(* The steps that take a handle away.                                      *)

(* mem::forget: the handle goes, and its count with the forgotten.          *)
LEMMA ForgetStep ==
  ASSUME IInv, NEW h \in Handles, Forget(h)
  PROVE  IInv'
<1> USE DEF IInv, Shape, Goto, Kinds, memory, counts
<1>1. PICK kind \in {"strong", "weak"} :
        /\ pc[h] = kind /\ borrow[h] = "none" /\ pc' = [pc EXCEPT ![h] = "none"]
        /\ forgotten' = [forgotten EXCEPT ![kind] = @ + 1]
        /\ UNCHANGED <<strong, weak, alloc, value, copies, borrow>>
  BY DEF Forget
<1>2. /\ NDying' = NDying /\ AbortedWeak' = AbortedWeak /\ AbortedStrong' = AbortedStrong
      /\ NStrong' + forgotten'["strong"] = NStrong + forgotten["strong"]
      /\ NWeak' + forgotten'["weak"] = NWeak + forgotten["weak"]
  BY <1>1, Move, CountsNat DEF Counted, StrongKinds, WeakKinds, DyingKinds
<1>3. Shape'
  BY <1>1
<1>4. WeakOwned' = WeakOwned /\ Probing' = Probing
  BY <1>1, <1>2, CountsNat DEF WeakOwned, Probing
<1>5. \/ /\ kind = "strong" /\ NWeak' = NWeak /\ forgotten'["weak"] = forgotten["weak"]
      \/ /\ kind = "weak" /\ NWeak > 0 /\ forgotten'["weak"] = forgotten["weak"] + 1
         /\ Probing = {}
  <2>1. CASE kind = "strong"
    <3>1. NWeak' = NWeak
      BY <1>1, <2>1, Move, CountsNat DEF Counted, WeakKinds
    <3> QED
      BY <1>1, <2>1, <3>1
  <2>2. CASE kind = "weak"
    <3>1. NWeak > 0 /\ Probing = {}
      BY <1>1, <2>2, KindsCounted DEF WeakKinds, CountInv
    <3> QED
      BY <1>1, <2>2, <3>1
  <2> QED
    BY <1>1, <2>1, <2>2
<1>6. CountInv'
  <2>1. strong' = NStrong' + forgotten'["strong"]
    BY <1>1, <1>2 DEF CountInv
  <2>2. strong' <= MaxRefcount + 1 + AbortedStrong' /\ WeakOwned' <= MaxRefcount + 1 + AbortedWeak'
    BY <1>1, <1>2, <1>4 DEF CountInv
  <2>3. Probing' # {} => weak' = UMax /\ NWeak' = 0 /\ forgotten'["weak"] = 0
    BY <1>1, <1>4, <1>5 DEF CountInv
  <2> QED
    BY <1>1, <1>4, <2>1, <2>2, <2>3 DEF CountInv
<1>7. LifeInv'
  <2>1. NWeak' > 0 \/ forgotten'["weak"] > 0 <=> NWeak > 0 \/ forgotten["weak"] > 0
    BY <1>1, <1>5, CountsNat
  <2> QED
    BY <1>1, <1>2, <2>1 DEF LifeInv
<1>8. GuardInv'
  BY <1>1 DEF GuardInv
<1> QED
  BY <1>3, <1>6, <1>7, <1>8

(* A strong handle that becomes another form of itself counts as before.     *)
LEMMA FormStep ==
  ASSUME IInv, NEW h \in Handles, borrow[h] = "none",
         NEW from \in {"strong", "raw", "unwrap"}, NEW to \in {"strong", "raw", "unwrap"},
         Goto(h, from, to), UNCHANGED <<counts, memory, borrow, forgotten>>
  PROVE  IInv'
<1> USE DEF IInv, Shape, Goto, Kinds, memory, counts
<1>1. /\ pc[h] = from /\ pc' = [pc EXCEPT ![h] = to]
      /\ UNCHANGED <<strong, weak, alloc, value, copies, borrow, forgotten>>
  OBVIOUS
<1>2. /\ NStrong' = NStrong /\ NWeak' = NWeak /\ NDying' = NDying
      /\ AbortedWeak' = AbortedWeak /\ AbortedStrong' = AbortedStrong
  BY <1>1, Move, CountsNat DEF Counted, StrongKinds, WeakKinds, DyingKinds
<1>3. Shape'
  BY <1>1
<1>4. WeakOwned' = WeakOwned /\ Probing' = Probing
  BY <1>1, <1>2 DEF WeakOwned, Probing
<1>5. CountInv'
  BY <1>1, <1>2, <1>4 DEF CountInv
<1>6. LifeInv'
  BY <1>1, <1>2 DEF LifeInv
<1>7. GuardInv'
  BY <1>1 DEF GuardInv
<1> QED
  BY <1>3, <1>5, <1>6, <1>7

(* Arw::drop and the compare_exchange of try_unwrap: the strong count goes    *)
(* down with the handle, and the last one is on its way out.                *)
LEMMA LeaveStep ==
  ASSUME IInv, NEW h \in Handles, borrow[h] = "none",
         NEW from \in {"strong", "unwrap"}, NEW out \in {"last", "unwrapped"},
         Goto(h, from, IF strong = 1 THEN out ELSE "none"), strong' = strong - 1,
         UNCHANGED <<weak, memory, borrow, forgotten>>
  PROVE  IInv'
<1> USE DEF IInv, Shape, Goto, Kinds, memory
<1>1. /\ pc[h] = from /\ pc' = [pc EXCEPT ![h] = IF strong = 1 THEN out ELSE "none"]
      /\ UNCHANGED <<weak, alloc, value, copies, borrow, forgotten>>
  OBVIOUS
<1>2. NStrong > 0 /\ strong > 0 /\ NDying = 0
  BY <1>1, KindsCounted, CountsNat DEF StrongKinds, CountInv, LifeInv
<1>3. /\ NStrong' = NStrong - 1 /\ NWeak' = NWeak
      /\ AbortedWeak' = AbortedWeak /\ AbortedStrong' = AbortedStrong
      /\ NDying' = IF strong = 1 THEN 1 ELSE 0
  BY <1>1, <1>2, Move, CountsNat DEF Counted, StrongKinds, WeakKinds, DyingKinds
<1>4. Shape'
  BY <1>1
<1>5. WeakOwned' = WeakOwned /\ Probing' = Probing
  BY <1>1, <1>2, <1>3 DEF WeakOwned, Probing
<1>6. CountInv'
  <2>1. strong' = NStrong' + forgotten'["strong"]
    BY <1>1, <1>3, CountsNat DEF CountInv
  <2>2. strong' <= MaxRefcount + 1 + AbortedStrong' /\ WeakOwned' <= MaxRefcount + 1 + AbortedWeak'
    BY <1>1, <1>3, <1>5, CountsNat, CountsAssumption DEF CountInv
  <2> QED
    BY <1>1, <1>3, <1>5, <2>1, <2>2 DEF CountInv
<1>7. LifeInv'
  BY <1>1, <1>2, <1>3 DEF LifeInv
<1>8. GuardInv'
  BY <1>1 DEF GuardInv
<1> QED
  BY <1>4, <1>6, <1>7, <1>8

(* While a handle is on its way out nobody holds a strong one, so nobody      *)
(* probes or guards anything.                                              *)
LEMMA LastAlone ==
  ASSUME IInv, NDying > 0
  PROVE  /\ strong = 0 /\ NDying = 1 /\ Probing = {}
         /\ \A h \in Handles : borrow[h] = "none"
<1>1. strong = 0 /\ NDying = 1
  BY CountsNat DEF IInv, Shape, CountInv, LifeInv
<1>2. \A h \in Handles : pc[h] # "strong"
  BY <1>1, KindsCounted, CountsNat DEF IInv, Shape, CountInv, StrongKinds
<1>3. \A h \in Handles : borrow[h] = "none"
  BY <1>2 DEF IInv, Shape
<1> QED
  BY <1>1, <1>3 DEF Probing

(* The steps of the last strong handle on its way out, before the last one.  *)
LEMMA OutStep ==
  ASSUME IInv, NEW h \in Handles, DropValue(h) \/ UnwrapRead(h)
  PROVE  IInv'
<1> USE DEF IInv, Shape, Goto, Kinds, memory, counts
<1>1. /\ pc[h] \in DyingKinds /\ UNCHANGED <<strong, weak, alloc, borrow, forgotten>>
      /\ \/ pc' = [pc EXCEPT ![h] = "implicit"] /\ value' = "dropped" /\ copies' = copies
         \/ pc' = [pc EXCEPT ![h] = "last"] /\ value' = value /\ copies' = copies + 1
  BY DEF DropValue, UnwrapRead, DyingKinds
<1>2. /\ NStrong' = NStrong /\ NWeak' = NWeak /\ NDying' = NDying
      /\ AbortedWeak' = AbortedWeak /\ AbortedStrong' = AbortedStrong
  BY <1>1, Move, CountsNat DEF Counted, StrongKinds, WeakKinds, DyingKinds
<1>3. /\ NDying = 1 /\ strong = 0
      /\ \A g \in Handles : borrow[g] = "none"
  BY <1>1, LastAlone, KindsCounted
<1>4. Shape'
  BY <1>1, <1>3
<1>5. WeakOwned' = WeakOwned /\ Probing' = Probing
  BY <1>1, <1>2 DEF WeakOwned, Probing
<1>6. CountInv'
  BY <1>1, <1>2, <1>5 DEF CountInv
<1>7. LifeInv'
  BY <1>1, <1>2, <1>3 DEF LifeInv
<1>8. GuardInv'
  BY <1>1 DEF GuardInv
<1> QED
  BY <1>4, <1>6, <1>7, <1>8

(* WeakArw::drop of a weak handle, and of the one the strong handles owned:  *)
(* in both cases nobody has the weak count locked.                          *)
LEMMA DropWeakStep ==
  ASSUME IInv, NEW h \in Handles, NEW from \in {"weak", "implicit"}, DropWeak(h, from)
  PROVE  IInv'
<1> USE DEF IInv, Shape, Goto, Kinds
<1>1. /\ pc[h] = from /\ pc' = [pc EXCEPT ![h] = "none"] /\ weak' = weak - 1
      /\ alloc' = IF weak = 1 THEN FALSE ELSE alloc
      /\ UNCHANGED <<strong, value, copies, borrow, forgotten>>
  BY DEF DropWeak
<1>2. Shape'
  <2>1. alloc' \in BOOLEAN
    BY <1>1
  <2>2. weak' \in Int
    BY <1>1
  <2>3. pc' \in [Handles -> Kinds] /\ \A g \in Handles : borrow'[g] # "none" => pc'[g] = "strong"
    BY <1>1
  <2> QED
    BY <1>1, <2>1, <2>2, <2>3
<1>3. Probing' = Probing /\ AbortedStrong' = AbortedStrong /\ AbortedWeak' = AbortedWeak
      /\ NStrong' = NStrong
  BY <1>1, Move, CountsNat DEF Probing, Counted, StrongKinds
<1>4. GuardInv'
  BY <1>1 DEF GuardInv
<1>5. CASE from = "weak"
  <2>1. NWeak > 0 /\ Probing = {} /\ weak = WeakOwned
    BY <1>1, <1>5, KindsCounted DEF WeakKinds, CountInv
  <2>2. NWeak' = NWeak - 1 /\ NDying' = NDying
    BY <1>1, <1>5, Move, CountsNat DEF Counted, WeakKinds, DyingKinds
  <2>3. WeakOwned' = WeakOwned - 1
    BY <1>1, <2>2, CountsNat DEF WeakOwned
  <2>4. CountInv'
    BY <1>1, <1>3, <2>1, <2>2, <2>3, CountsNat, CountsAssumption DEF CountInv
  <2>5. LifeInv'
    BY <1>1, <2>1, <2>2, CountsNat DEF LifeInv, WeakOwned
  <2> QED
    BY <1>2, <1>4, <2>4, <2>5
<1>6. CASE from = "implicit"
  <2>1. /\ NDying = 1 /\ strong = 0 /\ Probing = {} /\ weak = WeakOwned /\ value = "dropped"
    BY <1>1, <1>6, KindsCounted, LastAlone DEF DyingKinds, CountInv, LifeInv
  <2>2. NWeak' = NWeak /\ NDying' = 0
    BY <1>1, <1>6, <2>1, Move, CountsNat DEF Counted, WeakKinds, DyingKinds
  <2>3. WeakOwned' = WeakOwned - 1
    BY <1>1, <2>1, <2>2, CountsNat DEF WeakOwned
  <2>4. CountInv'
    BY <1>1, <1>3, <2>1, <2>2, <2>3, CountsNat, CountsAssumption DEF CountInv
  <2>5. LifeInv'
    BY <1>1, <2>1, <2>2, CountsNat DEF LifeInv, WeakOwned
  <2> QED
    BY <1>2, <1>4, <2>4, <2>5
<1> QED
  BY <1>5, <1>6

---------------------------------------------------------------------------
(* The steps of a borrow.                                                  *)

(* What no kind changes, no count does.                                    *)
LEMMA SameCounts ==
  ASSUME pc' = pc
  PROVE  /\ NStrong' = NStrong /\ NWeak' = NWeak /\ NDying' = NDying
         /\ AbortedWeak' = AbortedWeak /\ AbortedStrong' = AbortedStrong
BY DEF NStrong, NWeak, NDying, AbortedStrong, AbortedWeak, Of

(* is_unique locks the weak count: at 1 it counts no weak handle.            *)
LEMMA UniqueLockStep ==
  ASSUME IInv, NEW h \in Handles, UniqueLock(h)
  PROVE  IInv'
<1> USE DEF IInv, Shape, memory
<1>1. /\ pc[h] = "strong" /\ weak = 1 /\ weak' = UMax
      /\ borrow' = [borrow EXCEPT ![h] = "probe"] /\ borrow[h] = "none"
      /\ UNCHANGED <<strong, alloc, value, copies, pc, forgotten>>
  BY DEF UniqueLock, Owned
<1>2. /\ NStrong' = NStrong /\ NWeak' = NWeak /\ NDying' = NDying
      /\ AbortedWeak' = AbortedWeak /\ AbortedStrong' = AbortedStrong
  BY <1>1, SameCounts
<1>3. strong > 0
  BY <1>1, KindsCounted, CountsNat DEF StrongKinds, CountInv
<1>4. Probing = {} /\ weak = WeakOwned
  BY <1>1, CountsAssumption, CountsNat DEF CountInv
<1>5. NWeak = 0 /\ forgotten["weak"] = 0
  BY <1>1, <1>3, <1>4, CountsNat DEF WeakOwned
<1>6. WeakOwned' = WeakOwned /\ Probing' = {h}
  <2>1. WeakOwned' = WeakOwned
    BY <1>1, <1>2 DEF WeakOwned
  <2> QED
    BY <1>1, <1>4, <2>1 DEF Probing
<1>7. Shape'
  BY <1>1, CountsAssumption DEF Borrows
<1>8. CountInv'
  BY <1>1, <1>2, <1>5, <1>6 DEF CountInv
<1>9. LifeInv' /\ GuardInv'
  BY <1>1, <1>2 DEF LifeInv, GuardInv
<1> QED
  BY <1>7, <1>8, <1>9

(* is_unique unlocks it, and it is 1 again.                                *)
LEMMA UniqueStoreStep ==
  ASSUME IInv, NEW h \in Handles, UniqueStore(h)
  PROVE  IInv'
<1> USE DEF IInv, Shape, memory
<1>1. /\ h \in Probing /\ pc[h] = "strong" /\ weak' = 1
      /\ borrow' = [borrow EXCEPT ![h] = "none"]
      /\ UNCHANGED <<strong, alloc, value, copies, pc, forgotten>>
  BY DEF UniqueStore, Probing
<1>2. /\ NStrong' = NStrong /\ NWeak' = NWeak /\ NDying' = NDying
      /\ AbortedWeak' = AbortedWeak /\ AbortedStrong' = AbortedStrong
  BY <1>1, SameCounts
<1>3. strong > 0 /\ NWeak = 0 /\ forgotten["weak"] = 0
  BY <1>1, KindsCounted, CountsNat DEF StrongKinds, CountInv
<1>4. WeakOwned' = 1 /\ WeakOwned = 1
  BY <1>1, <1>2, <1>3 DEF WeakOwned
<1>5. Probing' = {}
  <2>1. \A g \in Handles \ {h} : g \notin Probing
    BY <1>1 DEF CountInv
  <2> QED
    BY <1>1, <2>1 DEF Probing
<1>6. Shape'
  BY <1>1 DEF Borrows
<1>7. CountInv'
  BY <1>1, <1>2, <1>4, <1>5 DEF CountInv
<1>8. LifeInv' /\ GuardInv'
  BY <1>1, <1>2 DEF LifeInv, GuardInv
<1> QED
  BY <1>6, <1>7, <1>8

(* The other steps of a borrow change nothing but the borrow.               *)
LEMMA BorrowStep ==
  ASSUME IInv, NEW h \in Handles,
         UniqueLoad(h) \/ AsRef(h) \/ AsMut(h) \/ DropGuard(h)
  PROVE  IInv'
<1> USE DEF IInv, Shape, memory, counts
<1>1. /\ pc[h] = "strong" /\ borrow' \in [Handles -> Borrows]
      /\ \A g \in Handles \ {h} : borrow'[g] = borrow[g]
      /\ h \in Probing <=> borrow'[h] \in {"probe", "unique", "shared"}
      /\ UNCHANGED <<strong, weak, alloc, value, copies, pc, forgotten>>
  BY DEF UniqueLoad, AsRef, AsMut, DropGuard, Owned, Borrows, Probing
<1>2. /\ NStrong' = NStrong /\ NWeak' = NWeak /\ NDying' = NDying
      /\ AbortedWeak' = AbortedWeak /\ AbortedStrong' = AbortedStrong
  BY <1>1, SameCounts
<1>3. WeakOwned' = WeakOwned
  BY <1>1, <1>2 DEF WeakOwned
<1>4. Probing' = Probing
  BY <1>1 DEF Probing
<1>5. Shape'
  BY <1>1
<1>6. CountInv'
  BY <1>1, <1>2, <1>3, <1>4 DEF CountInv
<1>7. LifeInv'
  BY <1>1, <1>2 DEF LifeInv
<1>8. GuardInv'
  BY DEF GuardInv, OneReader, GroupFree, ExclusiveFree, UniqueLoad, AsRef, AsMut,
         DropGuard, Owned
<1> QED
  BY <1>5, <1>6, <1>7, <1>8

---------------------------------------------------------------------------
(* The invariant.                                                          *)
LEMMA Start == Init => IInv
<1> SUFFICES ASSUME Init PROVE IInv
  OBVIOUS
<1>1. PICK h \in Handles : pc = [g \in Handles |-> IF g = h THEN "strong" ELSE "none"]
  BY DEF Init
<1>2. /\ Of(pc, StrongKinds) = {h} /\ Of(pc, WeakKinds) = {} /\ Of(pc, DyingKinds) = {}
      /\ Of(pc, {"abortStrong"}) = {} /\ Of(pc, {"abortWeak"}) = {}
  BY <1>1 DEF Of, StrongKinds, WeakKinds, DyingKinds
<1>3. NStrong = 1 /\ NWeak = 0 /\ NDying = 0 /\ AbortedStrong = 0 /\ AbortedWeak = 0
  BY <1>2, FS_EmptySet, FS_Singleton
  DEF NStrong, NWeak, NDying, AbortedStrong, AbortedWeak
<1>4. Shape
  BY <1>1 DEF Init, Shape, Kinds, Borrows
<1>5. Probing = {} /\ WeakOwned = 1
  BY <1>3 DEF Init, Probing, WeakOwned
<1>6. CountInv
  BY <1>3, <1>5, CountsAssumption DEF Init, CountInv
<1>7. LifeInv
  BY <1>1, <1>3 DEF Init, LifeInv
<1>8. GuardInv
  BY DEF Init, GuardInv
<1> QED
  BY <1>4, <1>6, <1>7, <1>8 DEF IInv

(* Every step keeps it.                                                    *)
LEMMA Step == IInv /\ [Next]_vars => IInv'
<1> SUFFICES ASSUME IInv, [Next]_vars PROVE IInv'
  OBVIOUS
<1>1. CASE UNCHANGED vars
  BY <1>1, SameCounts DEF vars, counts, memory, IInv, Shape, CountInv, LifeInv, GuardInv,
                          WeakOwned, Probing
<1>2. ASSUME NEW h \in Handles, Finish(h) PROVE IInv'
  <2>1. CASE UniqueLoad(h)
    BY <2>1, BorrowStep
  <2>2. CASE UniqueStore(h)
    BY <2>2, UniqueStoreStep
  <2>3. CASE DropValue(h) \/ UnwrapRead(h)
    BY <2>3, OutStep
  <2>4. CASE DropWeak(h, "implicit")
    BY <2>4, DropWeakStep
  <2>5. CASE UnwrapCas(h)
    <3>1. borrow[h] = "none" /\ strong \in Int
      BY <2>5 DEF UnwrapCas, Goto, IInv, Shape
    <3>2. CASE strong = 1
      <4>1. Goto(h, "unwrap", IF strong = 1 THEN "unwrapped" ELSE "none") /\ strong' = strong - 1
        BY <2>5, <3>2 DEF UnwrapCas
      <4> QED
        BY <2>5, <3>1, <4>1, LeaveStep DEF UnwrapCas
    <3>3. CASE strong # 1
      <4>1. Goto(h, "unwrap", "strong") /\ UNCHANGED <<counts, memory, borrow, forgotten>>
        BY <2>5, <3>3 DEF UnwrapCas, counts
      <4> QED
        BY <3>1, <4>1, FormStep
    <3> QED
      BY <3>2, <3>3
  <2> QED
    BY <1>2, <2>1, <2>2, <2>3, <2>4, <2>5 DEF Finish
<1>3. ASSUME NEW h \in Handles, Call(h) PROVE IInv'
  <2>1. ASSUME NEW g \in Handles,
               CloneStrong(h, g) \/ CloneWeak(h, g) \/ Downgrade(h, g) \/ Upgrade(h, g)
        PROVE  IInv'
    BY <2>1, CloneStrongStep, CloneWeakStep, DowngradeStep, UpgradeStep
  <2>2. CASE Forget(h)
    BY <2>2, ForgetStep
  <2>3. CASE IntoRaw(h)
    BY <2>3, FormStep DEF IntoRaw, Owned
  <2>4. CASE FromRaw(h)
    <3>1. borrow[h] = "none"
      BY <2>4 DEF FromRaw, Goto, IInv, Shape
    <3> QED
      BY <2>4, <3>1, FormStep DEF FromRaw
  <2>5. CASE UniqueLock(h)
    BY <2>5, UniqueLockStep
  <2>6. CASE AsRef(h) \/ AsMut(h) \/ DropGuard(h)
    BY <2>6, BorrowStep
  <2>7. CASE DropStrong(h)
    BY <2>7, LeaveStep DEF DropStrong, Owned
  <2>8. CASE DropWeak(h, "weak")
    BY <2>8, DropWeakStep
  <2>9. CASE UnwrapLock(h)
    BY <2>9, FormStep DEF UnwrapLock, Owned
  <2> QED
    BY <1>3, <2>1, <2>2, <2>3, <2>4, <2>5, <2>6, <2>7, <2>8, <2>9 DEF Call
<1> QED
  BY <1>1, <1>2, <1>3 DEF Next, Gone

(* The inductive invariant holds in every behaviour.                        *)
LEMMA Inductive == Spec => []IInv
BY Start, Step, PTL DEF Spec

(* Every variable has its type: no count overflows, nor goes below zero.     *)
THEOREM TypeCorrect == Spec => []TypeOK
<1>1. IInv => TypeOK
  BY CountsInRange DEF IInv, Shape, TypeOK
<1> QED
  BY <1>1, Inductive, PTL

(* The counts count the handles, and weak is usize::MAX only while locked.   *)
THEOREM CountsCorrect == Spec => []CountsExact
<1>1. IInv => CountsExact
  <2> SUFFICES ASSUME IInv PROVE CountsExact
    OBVIOUS
  <2> USE DEF IInv
  <2>1. /\ StrongHandles = Of(pc, StrongKinds) /\ WeakHandles = Of(pc, WeakKinds)
        /\ Dying = Of(pc, DyingKinds)
    BY DEF StrongHandles, WeakHandles, Dying, Of, StrongKinds, WeakKinds, DyingKinds
  <2>2. /\ NStrong = Cardinality(StrongHandles) /\ NWeak = Cardinality(WeakHandles)
        /\ (NDying > 0 <=> Dying # {}) /\ (NWeak = 0 <=> WeakHandles = {})
    BY <2>1, OfFinite DEF NStrong, NWeak, NDying
  <2>3. weak = IF Probing # {} THEN UMax
               ELSE Cardinality(WeakHandles) + forgotten.weak
                    + (IF strong > 0 \/ Dying # {} THEN 1 ELSE 0)
    BY <2>2 DEF CountInv, WeakOwned
  <2>4. weak = UMax <=> Probing # {}
    BY CountsInRange DEF CountInv
  <2>5. Probing # {} => Cardinality(Probing) = 1
    <3>1. SUFFICES ASSUME NEW h \in Probing PROVE Cardinality(Probing) = 1
      OBVIOUS
    <3>2. Probing = {h}
      BY DEF CountInv
    <3> QED
      BY <3>2, FS_Singleton
  <2> QED
    BY <2>2, <2>3, <2>4, <2>5 DEF CountsExact, CountInv
<1> QED
  BY <1>1, Inductive, PTL

(* The allocation is there exactly as long as a reference to it.            *)
THEOREM FreeCorrect == Spec => []FreedWithLast
<1>1. IInv => FreedWithLast
  <2> SUFFICES ASSUME IInv PROVE FreedWithLast
    OBVIOUS
  <2> USE DEF IInv, Shape
  <2>1. (\E h \in Handles : pc[h] # "none") <=> NStrong > 0 \/ NWeak > 0 \/ NDying > 0
    <3>1. ASSUME NEW h \in Handles, pc[h] # "none"
          PROVE  NStrong > 0 \/ NWeak > 0 \/ NDying > 0
      BY <3>1, KindsCounted DEF Kinds, StrongKinds, WeakKinds, DyingKinds
    <3>2. ASSUME \A h \in Handles : pc[h] = "none"
          PROVE  NStrong = 0 /\ NWeak = 0 /\ NDying = 0
      <4>1. /\ Of(pc, StrongKinds) = {} /\ Of(pc, WeakKinds) = {} /\ Of(pc, DyingKinds) = {}
        BY <3>2 DEF Of, StrongKinds, WeakKinds, DyingKinds
      <4> QED
        BY <4>1, OfFinite DEF NStrong, NWeak, NDying
    <3> QED
      BY <3>1, <3>2
  <2>2. strong > 0 <=> NStrong > 0 \/ forgotten["strong"] > 0
    BY CountsNat DEF CountInv
  <2>3. forgotten.strong + forgotten.weak > 0 <=> forgotten["strong"] > 0 \/ forgotten["weak"] > 0
    OBVIOUS
  <2> QED
    BY <2>1, <2>2, <2>3 DEF FreedWithLast, LifeInv
<1> QED
  BY <1>1, Inductive, PTL

(* The value is there as long as anybody can reach it.                      *)
THEOREM ValueCorrect == Spec => []ValueWithStrong
<1>1. IInv => ValueWithStrong
  <2> SUFFICES ASSUME IInv PROVE ValueWithStrong
    OBVIOUS
  <2>1. Dying = Of(pc, DyingKinds)
    BY DEF Dying, Of, DyingKinds
  <2>2. Cardinality(Dying) <= 1 /\ (NDying = 0 <=> Dying = {})
    BY <2>1, OfFinite DEF NDying, IInv, LifeInv
  <2> QED
    BY <2>2 DEF ValueWithStrong, IInv, LifeInv
<1> QED
  BY <1>1, Inductive, PTL

(* If one handle at most is a reader, so that Mutex keeps the promise of       *)
(* GroupLock, guards exclude what their lock excludes, and the value outlives   *)
(* them.  With two readers the first part fails, as Mutex does                  *)
(* (run mutex_exclusion).                                                    *)
THEOREM GuardsCorrect ==
  ASSUME OneReader
  PROVE  Spec => []GuardsExclude
<1>1. IInv => GuardsExclude
  <2> SUFFICES ASSUME IInv PROVE GuardsExclude
    OBVIOUS
  <2>1. ASSUME NEW g \in Handles, borrow[g] \in {"read", "write"}
        PROVE  Dying = {} /\ value = "there"
    <3>1. strong > 0
      BY <2>1, KindsCounted, CountsNat DEF IInv, Shape, CountInv, StrongKinds
    <3>2. NDying = 0 /\ value = "there"
      BY <3>1 DEF IInv, LifeInv
    <3>3. Dying = Of(pc, DyingKinds)
      BY DEF Dying, Of, DyingKinds
    <3> QED
      BY <3>2, <3>3, OfFinite DEF NDying
  <2> QED
    BY <2>1, OneReader DEF GuardsExclude, IInv, GuardInv
<1> QED
  BY <1>1, Inductive, PTL

(* No step takes strong away from zero.                                    *)
THEOREM NeverResurrected == Spec => NoResurrection
<1>1. IInv /\ [Next]_vars => [strong = 0 => strong' = 0]_vars
  <2> SUFFICES ASSUME IInv, [Next]_vars, strong = 0 PROVE strong' = 0
    OBVIOUS
  <2>1. \A h \in Handles : pc[h] \notin StrongKinds
    BY KindsCounted, CountsNat DEF IInv, Shape, CountInv
  <2>2. CASE UNCHANGED vars
    BY <2>2 DEF vars, counts
  <2>3. ASSUME NEW h \in Handles, Finish(h) \/ Call(h) PROVE strong' = 0
    BY <2>1, <2>3
    DEF Finish, Call, CloneStrong, CloneWeak, Downgrade, Upgrade, Forget, IntoRaw, FromRaw,
        UniqueLock, UniqueLoad, UniqueStore, AsRef, AsMut, DropGuard, DropStrong, DropValue,
        DropWeak, UnwrapLock, UnwrapCas, UnwrapRead, Owned, Goto, counts, StrongKinds
  <2> QED
    BY <2>2, <2>3 DEF Next, Gone
<1> QED
  BY <1>1, Inductive, PTL DEF Spec, NoResurrection

(* is_unique answers true only for the only handle.                         *)
THEOREM UniqueIsAlone == Spec => UniqueMeansAlone
<1> DEFINE alone(h) == /\ \A g \in Handles \ {h} : pc[g] = "none"
                       /\ forgotten.strong + forgotten.weak = 0
<1>1. ASSUME IInv, [Next]_vars, NEW h \in Handles, borrow[h] = "probe", borrow'[h] = "unique"
      PROVE  alone(h)
  <2> USE DEF IInv, Shape
  <2>1. UniqueLoad(h)
    <3>1. CASE UNCHANGED vars
      BY <1>1, <3>1 DEF vars
    <3>2. ASSUME NEW k \in Handles, Finish(k) \/ Call(k) PROVE UniqueLoad(h)
      BY <1>1, <3>2
      DEF Finish, Call, CloneStrong, CloneWeak, Downgrade, Upgrade, Forget, IntoRaw, FromRaw,
          UniqueLock, UniqueLoad, UniqueStore, AsRef, AsMut, DropGuard, DropStrong, DropValue,
          DropWeak, UnwrapLock, UnwrapCas, UnwrapRead, Owned
    <3> QED
      BY <1>1, <3>1, <3>2 DEF Next, Gone
  <2>2. strong = 1 /\ pc[h] = "strong" /\ h \in Probing
    BY <1>1, <2>1 DEF UniqueLoad, Probing
  <2>3. NWeak = 0 /\ forgotten["weak"] = 0 /\ NDying = 0
    BY <1>1, <2>2 DEF CountInv, LifeInv
  <2>4. NStrong = 1 /\ forgotten["strong"] = 0
    BY <1>1, <2>2, KindsCounted, CountsNat DEF CountInv, StrongKinds
  <2>5. Of(pc, StrongKinds) = {h}
    BY <1>1, <2>2, <2>4, OfMember DEF NStrong, StrongKinds
  <2>6. ASSUME NEW g \in Handles \ {h} PROVE pc[g] = "none"
    <3>1. pc[g] \notin StrongKinds
      BY <2>5 DEF Of
    <3>2. pc[g] \notin WeakKinds /\ pc[g] \notin DyingKinds
      BY <1>1, <2>3, KindsCounted
    <3> QED
      BY <1>1, <3>1, <3>2 DEF Kinds, StrongKinds, WeakKinds, DyingKinds
  <2> QED
    BY <2>3, <2>4, <2>6
<1>2. IInv /\ [Next]_vars
        => [\A h \in Handles : borrow[h] = "probe" /\ borrow'[h] = "unique" => alone(h)]_vars
  BY <1>1
<1> QED
  BY <1>2, Inductive, PTL DEF Spec, UniqueMeansAlone
=============================================================================
