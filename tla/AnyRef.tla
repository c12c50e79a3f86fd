------------------------------- MODULE AnyRef -------------------------------
(***************************************************************************)
(* AnyRef and WeakAnyRef, src/src/any_ref/: an Arw whose value may be of    *)
(* any type, and may be replaced by one of another type.  The handles, the  *)
(* counts and the borrows are those of Arw.tla, whose actions the calls of  *)
(* the same names perform; what AnyRef adds is the type of the value, kept  *)
(* twice (in type_id, and by the Box itself), the casts that compare it     *)
(* first without and then under the lock, fill, and the count of the lock's *)
(* own handles, as every guard owns one.                                   *)
(*                                                                         *)
(* As in Arw.tla, the lock excludes if one handle at most is a reader, whose   *)
(* owner asks for shared casts; with several it keeps nobody out.            *)
(*                                                                         *)
(* A cast is asked for through a shared reference of its handle, so clone   *)
(* and downgrade go on beside it; fill and whatever else consumes the       *)
(* handle do not.                                                          *)
(***************************************************************************)
EXTENDS Integers, FiniteSets

CONSTANTS Handles, Readers, MaxRefcount, UMax,   \* of Arw
          Types,
          NONE     \* no type; also what a torn read of type_id looks like

(* The assumptions of Arw.                                                 *)
ASSUME HandlesAssumption == IsFiniteSet(Handles)
ASSUME ReadersAssumption == Readers \subseteq Handles
ASSUME CountsAssumption ==
  /\ MaxRefcount \in Nat \ {0} /\ UMax \in Nat
  /\ MaxRefcount + Cardinality(Handles) + 1 < UMax

ASSUME TypesAssumption == NONE \notin Types

VARIABLES
  strong, weak, alloc, value, copies, pc, borrow, forgotten,   \* of Arw
  type_id,   \* AnyRefInner.type_id
  data,      \* AnyRefInner.data: the type of the value in the Box
  locks,     \* InnerMutex.ref_count: the handles of the lock
  cast,      \* where each handle is in a cast or in fill
  want       \* the type it asks for, or fills in

(* AnyRef::clone aborts above MAX_REFCOUNT, not at it as Arw::clone does.    *)
Count == INSTANCE ArwProperties WITH AbortAbove <- MaxRefcount

counted == <<strong, weak, alloc, value, copies, pc, borrow, forgotten>>
typed == <<type_id, data, locks, cast, want>>
vars == <<counted, typed>>

(* new, from and default: the type is that of the value given.             *)
Init ==
  /\ Count!Init
  /\ \E U \in Types : type_id = U /\ data = U
  /\ locks = 1
  /\ cast = [h \in Handles |-> "none"]
  /\ want = [h \in Handles |-> NONE]

GotoCast(h, from, to) == cast[h] = from /\ cast' = [cast EXCEPT ![h] = to]
Filling(h) == cast[h] \in {"fillData", "fillType", "fillUnlock"}

---------------------------------------------------------------------------
(* The calls of Arw, line by line the same but for the test in clone.       *)
CloneStrong(h, g) == ~Filling(h) /\ Count!CloneStrong(h, g) /\ UNCHANGED typed
Downgrade(h, g) == ~Filling(h) /\ Count!Downgrade(h, g) /\ UNCHANGED typed
CloneWeak(h, g) == Count!CloneWeak(h, g) /\ UNCHANGED typed
Upgrade(h, g) == Count!Upgrade(h, g) /\ UNCHANGED typed

Forget(h) == cast[h] = "none" /\ Count!Forget(h) /\ UNCHANGED typed
IntoRaw(h) == cast[h] = "none" /\ Count!IntoRaw(h) /\ UNCHANGED typed
FromRaw(h) == Count!FromRaw(h) /\ UNCHANGED typed

UniqueLock(h) == cast[h] = "none" /\ Count!UniqueLock(h) /\ UNCHANGED typed
UniqueLoad(h) == Count!UniqueLoad(h) /\ UNCHANGED typed
UniqueStore(h) == Count!UniqueStore(h) /\ UNCHANGED typed

DropStrong(h) == cast[h] = "none" /\ Count!DropStrong(h) /\ UNCHANGED typed
DropWeak(h, from) == Count!DropWeak(h, from) /\ UNCHANGED typed

(* try_unwrap takes the value for one of the type its caller names, which   *)
(* it does not compare with anything.                                      *)
UnwrapLock(h) == cast[h] = "none" /\ Count!UnwrapLock(h) /\ UNCHANGED typed
UnwrapCas(h) == Count!UnwrapCas(h) /\ UNCHANGED typed
UnwrapRead(h) == Count!UnwrapRead(h) /\ UNCHANGED typed

(* The last strong handle drops the lock's handle beside the value.         *)
DropValue(h) ==
  /\ Count!DropValue(h)
  /\ locks' = locks - 1
  /\ UNCHANGED <<type_id, data, cast, want>>

---------------------------------------------------------------------------
(* What a load of type_id may return.  fill writes it without atomics, under *)
(* a lock that the load does not take: while it does, the old value, the new *)
(* one, or some bits of each.                                              *)
Seen ==
  {type_id} \cup UNION {{want[g], NONE} : g \in {f \in Handles :
                                            cast[f] = "fillType" /\ want[f] # type_id}}

(* try_downcast_ref, try_downcast_mut, as_ref, as_mut: the call.            *)
Ask(h, U) ==
  /\ Count!Owned(h)
  /\ GotoCast(h, "none", "load")
  /\ want' = [want EXCEPT ![h] = U]
  /\ UNCHANGED <<counted, type_id, data, locks>>

(* try_downcast_ref takes the group lock, try_downcast_mut the exclusive one. *)
LocksOf(h) == IF h \in Readers THEN {"lockRef", "lockMut"} ELSE {"lockMut"}

(* Mutated form: the guard is given the lock without a handle of its own.   *)
LoadTypeUncounted(h) ==
  /\ \E seen \in Seen, to \in LocksOf(h) :
       GotoCast(h, "load", IF seen = want[h] THEN to ELSE "none")
  /\ want' = IF cast'[h] = "none" THEN [want EXCEPT ![h] = NONE] ELSE want
  /\ UNCHANGED <<counted, type_id, data, locks>>

(* The comparison of type_id, without the lock: None, or the lock is cloned. *)
LoadType(h) ==
  /\ \E seen \in Seen, to \in LocksOf(h) :
       GotoCast(h, "load", IF seen = want[h] THEN to ELSE "none")
  /\ want' = IF cast'[h] = "none" THEN [want EXCEPT ![h] = NONE] ELSE want
  /\ locks' = IF cast'[h] = "none" THEN locks ELSE locks + 1
  /\ UNCHANGED <<counted, type_id, data>>

LockRef(h) ==
  /\ GotoCast(h, "lockRef", "check")
  /\ Count!AsRef(h)
  /\ UNCHANGED <<type_id, data, locks, want>>

LockMut(h) ==
  /\ GotoCast(h, "lockMut", "check")
  /\ Count!AsMut(h)
  /\ UNCHANGED <<type_id, data, locks, want>>

(* Mutated forms: the value's own type is not compared again; None without   *)
(* unlocking.                                                              *)
CastUnchecked(h) ==
  /\ GotoCast(h, "check", "guard")
  /\ UNCHANGED <<counted, type_id, data, locks, want>>

CastKeepsLock(h) ==
  /\ GotoCast(h, "check", IF data = want[h] THEN "guard" ELSE "unref")
  /\ UNCHANGED <<counted, type_id, data, locks, want>>

(* downcast_ref, downcast_mut: Box<dyn Any> compares the value's own type,  *)
(* under the lock: a guard, or the unlock and None.                        *)
Downcast(h) ==
  /\ \/ data = want[h] /\ GotoCast(h, "check", "guard") /\ UNCHANGED counted
     \/ data # want[h] /\ GotoCast(h, "check", "unref") /\ Count!DropGuard(h)
  /\ UNCHANGED <<type_id, data, locks, want>>

(* The drop of a guard unlocks, then drops its handle of the lock, as the    *)
(* cast that came to nothing does on return.                               *)
DropGuard(h) ==
  /\ GotoCast(h, "guard", "unref")
  /\ Count!DropGuard(h)
  /\ UNCHANGED <<type_id, data, locks, want>>

Unref(h) ==
  /\ GotoCast(h, "unref", "none")
  /\ locks' = locks - 1
  /\ want' = [want EXCEPT ![h] = NONE]
  /\ UNCHANGED <<counted, type_id, data>>

---------------------------------------------------------------------------
(* Mutated form: fill does not lock.                                       *)
FillUnlocked(h, U) ==
  /\ Count!Owned(h)
  /\ GotoCast(h, "none", "fillData")
  /\ borrow' = [borrow EXCEPT ![h] = "write"]
  /\ want' = [want EXCEPT ![h] = U]
  /\ UNCHANGED <<strong, weak, alloc, value, copies, pc, forgotten, type_id, data, locks>>

(* fill: lock_exclusive, the new Box, its type_id, unlock_exclusive.        *)
Fill(h, U) ==
  /\ GotoCast(h, "none", "fillData")
  /\ Count!AsMut(h)
  /\ want' = [want EXCEPT ![h] = U]
  /\ UNCHANGED <<type_id, data, locks>>

FillData(h) ==
  /\ GotoCast(h, "fillData", "fillType")
  /\ data' = want[h]
  /\ UNCHANGED <<counted, type_id, locks, want>>

(* Mutated form: the type_id stays as it was.                              *)
FillKeepsType(h) ==
  /\ GotoCast(h, "fillType", "fillUnlock")
  /\ UNCHANGED <<counted, type_id, data, locks, want>>

FillType(h) ==
  /\ GotoCast(h, "fillType", "fillUnlock")
  /\ type_id' = want[h]
  /\ UNCHANGED <<counted, data, locks, want>>

FillUnlock(h) ==
  /\ GotoCast(h, "fillUnlock", "none")
  /\ Count!DropGuard(h)
  /\ want' = [want EXCEPT ![h] = NONE]
  /\ UNCHANGED <<type_id, data, locks>>

---------------------------------------------------------------------------
Gone == Count!Gone /\ UNCHANGED typed

Finish(h) ==
  \/ UniqueLoad(h) \/ UniqueStore(h) \/ DropValue(h) \/ DropWeak(h, "implicit")
  \/ UnwrapCas(h) \/ UnwrapRead(h)
  \/ LoadType(h) \/ LockRef(h) \/ LockMut(h) \/ Downcast(h) \/ Unref(h)
  \/ FillData(h) \/ FillType(h) \/ FillUnlock(h)

Call(h) ==
  \/ \E g \in Handles : \/ CloneStrong(h, g) \/ CloneWeak(h, g)
                        \/ Downgrade(h, g) \/ Upgrade(h, g)
  \/ Forget(h) \/ IntoRaw(h) \/ FromRaw(h)
  \/ UniqueLock(h) \/ DropGuard(h)
  \/ DropStrong(h) \/ DropWeak(h, "weak") \/ UnwrapLock(h)
  \/ \E U \in Types : Ask(h, U) \/ Fill(h, U)

Next == Gone \/ \E h \in Handles : Finish(h) \/ Call(h)

Spec == Init /\ [][Next]_vars

(* A call once begun goes on, but for a wait for the lock, which may last     *)
(* for ever, free or not: Mutex is not relied on to wake anybody.            *)
FairSpec ==
  Spec /\ \A h \in Handles : WF_vars(Finish(h) /\ cast[h] \notin {"lockRef", "lockMut"})
=============================================================================
