-------------------------------- MODULE Arw --------------------------------
(***************************************************************************)
(* Arw and WeakArw, src/src/arw/: a value with a strong and a weak count.   *)
(* The actors are the handles: a handle is a strong or a weak reference, is *)
(* in the middle of its drop, or does not exist.  A strong handle can be    *)
(* shared by reference, so a borrow of it (is_unique, or a guard on the     *)
(* value) goes on beside other calls through the same handle; only what     *)
(* consumes the handle waits for the borrow to end.                         *)
(*                                                                         *)
(* The lock inside is a Mutex.  It keeps the promise of GroupLock when one   *)
(* thread at most uses its group lock, so it does here when one handle at     *)
(* most is a reader, whose owner calls as_ref.  Any handle may be one; with    *)
(* several, Mutex does not exclude (run mutex_exclusion), and the lock keeps   *)
(* nobody out here.                                                         *)
(*                                                                         *)
(* The compare_exchange loops of downgrade and upgrade are the iteration     *)
(* that succeeds.                                                          *)
(***************************************************************************)
EXTENDS Integers, FiniteSets

CONSTANTS Handles,
          Readers,       \* the handles whose owners call as_ref
          MaxRefcount,   \* MAX_REFCOUNT
          AbortAbove,    \* the largest old count at which clone goes on
          UMax           \* usize::MAX

ASSUME HandlesAssumption == IsFiniteSet(Handles)
ASSUME ReadersAssumption == Readers \subseteq Handles
(* usize::MAX is out of reach of as many clones as there are handles at once *)
(* once the count has passed MAX_REFCOUNT, which is isize::MAX.              *)
ASSUME CountsAssumption ==
  /\ MaxRefcount \in Nat \ {0} /\ UMax \in Nat
  /\ MaxRefcount + Cardinality(Handles) + 1 < UMax
(* Arw::clone aborts at strong >= MAX_REFCOUNT, AnyRef::clone above it.      *)
ASSUME AbortAssumption == AbortAbove \in {MaxRefcount - 1, MaxRefcount}

VARIABLES
  strong, weak,   \* ArwInner; weak = UMax while is_unique has it locked
  alloc,          \* ArwInner is allocated
  value,          \* the value inside: "there", or "dropped" in place
  copies,         \* the number of values try_unwrap has given out
  pc,             \* what each handle is
  borrow,         \* the borrow of each strong handle
  forgotten       \* how many handles of each kind mem::forget has taken away

counts == <<strong, weak>>
memory == <<alloc, value, copies>>
vars == <<counts, memory, pc, borrow, forgotten>>

(* new(): one strong handle, and the weak count the strong ones own.       *)
Init ==
  /\ strong = 1 /\ weak = 1
  /\ alloc = TRUE
  /\ value = "there"
  /\ copies = 0
  /\ \E h \in Handles : pc = [g \in Handles |-> IF g = h THEN "strong" ELSE "none"]
  /\ borrow = [h \in Handles |-> "none"]
  /\ forgotten = [strong |-> 0, weak |-> 0]

Goto(h, from, to) == pc[h] = from /\ pc' = [pc EXCEPT ![h] = to]
Owned(h) == pc[h] = "strong" /\ borrow[h] = "none"

(* When lock_group and lock_exclusive let a thread in.                     *)
OneReader == \A g, h \in Readers : g = h
GroupFree == OneReader => \A g \in Handles : borrow[g] # "write" /\ pc[g] # "unwrap"
ExclusiveFree ==
  OneReader => \A g \in Handles : borrow[g] \notin {"read", "write"} /\ pc[g] # "unwrap"

---------------------------------------------------------------------------
(* Arw::clone: the fetch_add, then the process aborts if the old count was  *)
(* too large.  The handle that never came to be stays counted.             *)
CloneStrong(h, g) ==
  /\ pc[h] = "strong"
  /\ Goto(g, "none", IF strong > AbortAbove THEN "abortStrong" ELSE "strong")
  /\ strong' = strong + 1
  /\ UNCHANGED <<weak, memory, borrow, forgotten>>

(* WeakArw::clone, of a handle that is not dangling.                       *)
CloneWeak(h, g) ==
  /\ pc[h] = "weak"
  /\ Goto(g, "none", IF weak > MaxRefcount THEN "abortWeak" ELSE "weak")
  /\ weak' = weak + 1
  /\ UNCHANGED <<strong, memory, borrow, forgotten>>

(* Mutated form: a locked weak count is incremented like any other.        *)
DowngradeUnlocked(h, g) ==
  /\ pc[h] = "strong"
  /\ Goto(g, "none", "weak")
  /\ weak' = weak + 1
  /\ UNCHANGED <<strong, memory, borrow, forgotten>>

(* downgrade: spins while weak is locked; beyond MAX_REFCOUNT it panics,    *)
(* before it changes anything.                                             *)
Downgrade(h, g) ==
  /\ pc[h] = "strong"
  /\ weak # UMax /\ weak <= MaxRefcount
  /\ Goto(g, "none", "weak")
  /\ weak' = weak + 1
  /\ UNCHANGED <<strong, memory, borrow, forgotten>>

(* Mutated forms: a fetch_add, as if strong could not be zero; a handle made *)
(* without the increment.                                                  *)
UpgradeFromZero(h, g) ==
  /\ pc[h] = "weak"
  /\ Goto(g, "none", "strong")
  /\ strong' = strong + 1
  /\ UNCHANGED <<weak, memory, borrow, forgotten>>

UpgradeUncounted(h, g) ==
  /\ pc[h] = "weak"
  /\ strong # 0
  /\ Goto(g, "none", "strong")
  /\ UNCHANGED <<counts, memory, borrow, forgotten>>

(* upgrade: fetch_update(checked_increment), which never leaves zero.      *)
Upgrade(h, g) ==
  /\ pc[h] = "weak"
  /\ strong # 0 /\ strong <= MaxRefcount
  /\ Goto(g, "none", "strong")
  /\ strong' = strong + 1
  /\ UNCHANGED <<weak, memory, borrow, forgotten>>

(* mem::forget of a handle, which safe code may do: it stays counted.      *)
Forget(h) ==
  /\ borrow[h] = "none"
  /\ \E kind \in {"strong", "weak"} :
       /\ Goto(h, kind, "none")
       /\ forgotten' = [forgotten EXCEPT ![kind] = @ + 1]
  /\ UNCHANGED <<counts, memory, borrow>>

(* into_raw and from_raw: the handle changes its form, not the counts.     *)
IntoRaw(h) == Owned(h) /\ Goto(h, "strong", "raw") /\ UNCHANGED <<counts, memory, borrow, forgotten>>
FromRaw(h) == Goto(h, "raw", "strong") /\ UNCHANGED <<counts, memory, borrow, forgotten>>

---------------------------------------------------------------------------
(* Mutated form: weak is locked whatever it is.                            *)
UniqueLockAny(h) ==
  /\ Owned(h)
  /\ weak' = UMax
  /\ borrow' = [borrow EXCEPT ![h] = "probe"]
  /\ UNCHANGED <<strong, memory, pc, forgotten>>

(* is_unique: the compare_exchange of weak from 1, the load of strong, the  *)
(* store that unlocks weak.                                                *)
UniqueLock(h) ==
  /\ Owned(h)
  /\ weak = 1
  /\ weak' = UMax
  /\ borrow' = [borrow EXCEPT ![h] = "probe"]
  /\ UNCHANGED <<strong, memory, pc, forgotten>>

UniqueLoad(h) ==
  /\ borrow[h] = "probe"
  /\ borrow' = [borrow EXCEPT ![h] = IF strong = 1 THEN "unique" ELSE "shared"]
  /\ UNCHANGED <<counts, memory, pc, forgotten>>

UniqueStore(h) ==
  /\ borrow[h] \in {"unique", "shared"}
  /\ weak' = 1
  /\ borrow' = [borrow EXCEPT ![h] = "none"]
  /\ UNCHANGED <<strong, memory, pc, forgotten>>

(* as_ref and as_mut make a guard, under the group or the exclusive lock;   *)
(* dropping the guard unlocks.                                             *)
AsRef(h) ==
  /\ h \in Readers /\ Owned(h)
  /\ GroupFree
  /\ borrow' = [borrow EXCEPT ![h] = "read"]
  /\ UNCHANGED <<counts, memory, pc, forgotten>>

(* Mutated form: as_mut under the group lock.                              *)
AsMutShared(h) ==
  /\ Owned(h)
  /\ GroupFree
  /\ borrow' = [borrow EXCEPT ![h] = "write"]
  /\ UNCHANGED <<counts, memory, pc, forgotten>>

AsMut(h) ==
  /\ Owned(h)
  /\ ExclusiveFree
  /\ borrow' = [borrow EXCEPT ![h] = "write"]
  /\ UNCHANGED <<counts, memory, pc, forgotten>>

DropGuard(h) ==
  /\ borrow[h] \in {"read", "write"}
  /\ borrow' = [borrow EXCEPT ![h] = "none"]
  /\ UNCHANGED <<counts, memory, pc, forgotten>>

---------------------------------------------------------------------------
(* Mutated forms: fetch_sub taken for the new count.                       *)
DropStrongOffByOne(h) ==
  /\ Owned(h)
  /\ Goto(h, "strong", IF strong = 0 THEN "last" ELSE "none")
  /\ strong' = strong - 1
  /\ UNCHANGED <<weak, memory, borrow, forgotten>>

DropWeakOffByOne(h, from) ==
  /\ Goto(h, from, "none")
  /\ weak' = weak - 1
  /\ alloc' = IF weak = 0 THEN FALSE ELSE alloc
  /\ UNCHANGED <<strong, value, copies, borrow, forgotten>>

(* Arw::drop: the fetch_sub; the last one drops the lock and the value in   *)
(* place, then the weak reference the strong ones owned.                   *)
DropStrong(h) ==
  /\ Owned(h)
  /\ Goto(h, "strong", IF strong = 1 THEN "last" ELSE "none")
  /\ strong' = strong - 1
  /\ UNCHANGED <<weak, memory, borrow, forgotten>>

DropValue(h) ==
  /\ Goto(h, "last", "implicit")
  /\ value' = "dropped"
  /\ UNCHANGED <<counts, alloc, copies, borrow, forgotten>>

(* WeakArw::drop, of a weak handle or of the implicit one.                 *)
DropWeak(h, from) ==
  /\ Goto(h, from, "none")
  /\ weak' = weak - 1
  /\ alloc' = IF weak = 1 THEN FALSE ELSE alloc
  /\ UNCHANGED <<strong, value, copies, borrow, forgotten>>

(* try_unwrap: lock_exclusive, then the compare_exchange of strong from 1;  *)
(* if it fails the lock is given back and the handle returned.             *)
UnwrapLock(h) ==
  /\ Owned(h)
  /\ ExclusiveFree
  /\ Goto(h, "strong", "unwrap")
  /\ UNCHANGED <<counts, memory, borrow, forgotten>>

UnwrapCas(h) ==
  /\ Goto(h, "unwrap", IF strong = 1 THEN "unwrapped" ELSE "strong")
  /\ strong' = IF strong = 1 THEN 0 ELSE strong
  /\ UNCHANGED <<weak, memory, borrow, forgotten>>

(* The value is copied out for the caller, and then dropped in place too.  *)
UnwrapRead(h) ==
  /\ Goto(h, "unwrapped", "last")
  /\ copies' = copies + 1
  /\ UNCHANGED <<counts, alloc, value, borrow, forgotten>>

---------------------------------------------------------------------------
(* No handle is left.                                                      *)
Gone == (\A h \in Handles : pc[h] \in {"none", "abortStrong", "abortWeak"}) /\ UNCHANGED vars

Finish(h) ==
  \/ UniqueLoad(h) \/ UniqueStore(h) \/ DropValue(h) \/ DropWeak(h, "implicit")
  \/ UnwrapCas(h) \/ UnwrapRead(h)

Call(h) ==
  \/ \E g \in Handles : \/ CloneStrong(h, g) \/ CloneWeak(h, g)
                        \/ Downgrade(h, g) \/ Upgrade(h, g)
  \/ Forget(h) \/ IntoRaw(h) \/ FromRaw(h)
  \/ UniqueLock(h) \/ AsRef(h) \/ AsMut(h) \/ DropGuard(h)
  \/ DropStrong(h) \/ DropWeak(h, "weak") \/ UnwrapLock(h)

Next == Gone \/ \E h \in Handles : Finish(h) \/ Call(h)

Spec == Init /\ [][Next]_vars

(* A call once begun goes on.                                              *)
FairSpec == Spec /\ \A h \in Handles : WF_vars(Finish(h))
=============================================================================
