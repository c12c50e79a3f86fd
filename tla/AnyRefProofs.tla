---------------------------- MODULE AnyRefProofs ----------------------------
(***************************************************************************)
(* Theorems about AnyRef and WeakAnyRef, for any number of handles, any set *)
(* of types and any MAX_REFCOUNT.  What ArwProofs proves of Arw holds of     *)
(* AnyRef, whose steps are Arw's or leave its variables alone; what is its   *)
(* own makes it a TypedCell.                                               *)
(***************************************************************************)
EXTENDS AnyRefProperties, TLAPS

Proved == INSTANCE ArwProofs WITH AbortAbove <- MaxRefcount

---------------------------------------------------------------------------
(* The instance of ArwProofs, its assumptions and what it says.             *)
LEMMA SameCardinality ==
  ASSUME NEW S
  PROVE  /\ Proved!IsFiniteSet(S) <=> IsFiniteSet(S)
         /\ Proved!Cardinality(S) = Cardinality(S)
         /\ Count!Cardinality(S) = Cardinality(S)
BY DEF Proved!IsFiniteSet, IsFiniteSet, Proved!Cardinality, Count!Cardinality, Cardinality

(* The assumptions of AnyRef are those of the instance.                     *)
LEMMA Assumptions ==
  /\ Proved!IsFiniteSet(Handles)
  /\ Readers \subseteq Handles
  /\ MaxRefcount \in Nat \ {0} /\ UMax \in Nat
  /\ MaxRefcount + Proved!Cardinality(Handles) + 1 < UMax
  /\ MaxRefcount \in {MaxRefcount - 1, MaxRefcount}
BY SameCardinality, HandlesAssumption, ReadersAssumption, CountsAssumption

(* The actions of the two instances of Arw are the same.                    *)
LEMMA SameArw ==
  /\ Count!Init <=> Proved!Init
  /\ [Count!Next]_Count!vars <=> [Proved!Next]_Proved!vars
BY DEF Count!Init, Proved!Init, Count!Next, Proved!Next, Count!vars, Proved!vars,
       Count!counts, Proved!counts, Count!memory, Proved!memory, Count!Gone, Proved!Gone,
       Count!Finish, Proved!Finish, Count!Call, Proved!Call, Count!Goto, Proved!Goto,
       Count!Owned, Proved!Owned, Count!CloneStrong, Proved!CloneStrong,
       Count!CloneWeak, Proved!CloneWeak, Count!Downgrade, Proved!Downgrade,
       Count!Upgrade, Proved!Upgrade, Count!Forget, Proved!Forget,
       Count!IntoRaw, Proved!IntoRaw, Count!FromRaw, Proved!FromRaw,
       Count!UniqueLock, Proved!UniqueLock, Count!UniqueLoad, Proved!UniqueLoad,
       Count!UniqueStore, Proved!UniqueStore, Count!AsRef, Proved!AsRef,
       Count!AsMut, Proved!AsMut, Count!DropGuard, Proved!DropGuard,
       Count!DropStrong, Proved!DropStrong, Count!DropValue, Proved!DropValue,
       Count!DropWeak, Proved!DropWeak, Count!UnwrapLock, Proved!UnwrapLock,
       Count!UnwrapCas, Proved!UnwrapCas, Count!UnwrapRead, Proved!UnwrapRead,
       Count!GroupFree, Proved!GroupFree, Count!ExclusiveFree, Proved!ExclusiveFree,
       Count!OneReader, Proved!OneReader

(* With one reader at most the lock of a value keeps readers and writers apart. *)
LEMMA SameReader == Count!OneReader <=> Proved!OneReader
BY DEF Count!OneReader, Proved!OneReader

(* Every step of AnyRef is a step of Arw, or none.                          *)
LEMMA ArwStep == [Next]_vars => [Count!Next]_Count!vars
<1> SUFFICES ASSUME [Next]_vars PROVE [Count!Next]_Count!vars
  OBVIOUS
<1>1. ASSUME UNCHANGED counted PROVE UNCHANGED Count!vars
  BY <1>1 DEF counted, Count!vars, Count!counts, Count!memory
<1>2. CASE UNCHANGED vars \/ Gone
  BY <1>1, <1>2 DEF vars, Gone, Count!Gone
<1>3. ASSUME NEW h \in Handles, Finish(h) PROVE [Count!Next]_Count!vars
  <2>1. ASSUME LoadType(h) \/ Unref(h) \/ FillData(h) \/ FillType(h)
        PROVE  UNCHANGED Count!vars
    BY <2>1, <1>1 DEF LoadType, Unref, FillData, FillType
  <2>2. ASSUME LockRef(h) \/ LockMut(h) \/ FillUnlock(h)
        PROVE  Count!Call(h)
    BY <2>2 DEF LockRef, LockMut, FillUnlock, Count!Call
  <2>3. ASSUME Downcast(h)
        PROVE  Count!Call(h) \/ UNCHANGED Count!vars
    BY <2>3, <1>1 DEF Downcast, Count!Call
  <2>4. ASSUME \/ UniqueLoad(h) \/ UniqueStore(h) \/ DropValue(h) \/ DropWeak(h, "implicit")
               \/ UnwrapCas(h) \/ UnwrapRead(h)
        PROVE  Count!Finish(h)
    BY <2>4 DEF UniqueLoad, UniqueStore, DropValue, DropWeak, UnwrapCas, UnwrapRead,
                Count!Finish
  <2> QED
    BY <1>3, <2>1, <2>2, <2>3, <2>4 DEF Finish, Count!Next
<1>4. ASSUME NEW h \in Handles, Call(h) PROVE [Count!Next]_Count!vars
  <2>1. ASSUME NEW U \in Types, Ask(h, U) PROVE UNCHANGED Count!vars
    BY <2>1, <1>1 DEF Ask
  <2>2. ASSUME NEW U \in Types, Fill(h, U) PROVE Count!Call(h)
    BY <2>2 DEF Fill, Count!Call
  <2>3. ASSUME NEW g \in Handles,
               CloneStrong(h, g) \/ CloneWeak(h, g) \/ Downgrade(h, g) \/ Upgrade(h, g)
        PROVE  Count!Call(h)
    BY <2>3 DEF CloneStrong, CloneWeak, Downgrade, Upgrade, Count!Call
  <2>4. ASSUME \/ Forget(h) \/ IntoRaw(h) \/ FromRaw(h) \/ UniqueLock(h) \/ DropGuard(h)
               \/ DropStrong(h) \/ DropWeak(h, "weak") \/ UnwrapLock(h)
        PROVE  Count!Call(h)
    BY <2>4 DEF Forget, IntoRaw, FromRaw, UniqueLock, DropGuard, DropStrong, DropWeak,
                UnwrapLock, Count!Call
  <2> QED
    BY <1>4, <2>1, <2>2, <2>3, <2>4 DEF Call, Count!Next
<1> QED
  BY <1>2, <1>3, <1>4 DEF Next

(* AnyRef is an Arw to whoever counts its handles and watches its value.      *)
THEOREM ImplementsArw == Spec => Count!Spec
<1>1. Init => Count!Init
  BY DEF Init
<1> QED
  BY <1>1, ArwStep, PTL DEF Spec, Count!Spec

(* So it keeps the inductive invariant of Arw.                              *)
LEMMA ArwInductive == Spec => []Proved!IInv
<1>1. Init => Proved!IInv
  BY SameArw, Assumptions, Proved!Start DEF Init
<1>2. Proved!IInv /\ [Next]_vars => Proved!IInv'
  BY ArwStep, SameArw, Assumptions, Proved!Step
<1> QED
  BY <1>1, <1>2, PTL DEF Spec

(* The counts of AnyRef count its handles, past MAX_REFCOUNT too.            *)
THEOREM CountsCorrect == Spec => []Count!CountsExact
<1>1. Proved!CountsExact => Count!CountsExact
  BY SameCardinality
  DEF Count!CountsExact, Proved!CountsExact,
      Count!StrongHandles, Proved!StrongHandles, Count!WeakHandles, Proved!WeakHandles,
      Count!Dying, Proved!Dying, Count!Probing, Proved!Probing
<1>2. Count!Spec => Proved!Spec
  BY SameArw, PTL DEF Count!Spec, Proved!Spec
<1>3. Proved!Spec => []Proved!CountsExact
  BY Assumptions, Proved!CountsCorrect
<1> QED
  BY <1>1, <1>2, <1>3, ImplementsArw, PTL

---------------------------------------------------------------------------
(* The casts.                                                              *)
CastShape ==
  /\ type_id \in Types /\ data \in Types
  /\ locks \in Int
  /\ cast \in [Handles -> Casts]
  /\ want \in [Handles -> Types \cup {NONE}]
  /\ \A h \in Handles : want[h] = NONE <=> cast[h] = "none"

(* A cast keeps its handle, and has the lock from its second comparison on;   *)
(* fill has it exclusively.                                                 *)
CastLocks ==
  \A h \in Handles :
    /\ cast[h] # "none" => pc[h] = "strong" /\ borrow[h] \in {"none", "read", "write"}
    /\ cast[h] \in {"check", "guard"} => borrow[h] \in {"read", "write"}
    /\ Filling(h) => borrow[h] = "write"
    /\ cast[h] \notin {"check", "guard"} /\ ~Filling(h) => borrow[h] \notin {"read", "write"}

(* A guard is on a value of its type, and type_id is the value's type unless a *)
(* fill is between its two writes, as long as the lock keeps writers alone.   *)
TypesTell ==
  /\ \A h \in Handles : cast[h] = "guard" => data = want[h]
  /\ \A h \in Handles : cast[h] = "fillUnlock" => data = want[h]
  /\ \A h \in Handles : cast[h] = "fillType" => data = want[h]
  /\ (\A h \in Handles : cast[h] # "fillType") => type_id = data

(* A value is given out by the last handle only.                            *)
CopiedLast == copies > 0 => strong = 0

CastInv == CastShape /\ CastLocks /\ (Count!OneReader => TypesTell) /\ CopiedLast

(* The steps that move no cast: those of Arw but for the lock.              *)
Plain(h) ==
  \/ \E g \in Handles : \/ CloneStrong(h, g) \/ CloneWeak(h, g)
                        \/ Downgrade(h, g) \/ Upgrade(h, g)
  \/ Forget(h) \/ IntoRaw(h) \/ FromRaw(h)
  \/ UniqueLock(h) \/ UniqueLoad(h) \/ UniqueStore(h)
  \/ DropStrong(h) \/ DropWeak(h, "weak") \/ DropWeak(h, "implicit") \/ DropValue(h)
  \/ UnwrapLock(h) \/ UnwrapCas(h) \/ UnwrapRead(h)

(* The steps of a cast or of fill.                                          *)
CastStep(h) ==
  \/ \E U \in Types : Ask(h, U) \/ Fill(h, U)
  \/ LoadType(h) \/ LockRef(h) \/ LockMut(h) \/ Downcast(h) \/ DropGuard(h) \/ Unref(h)
  \/ FillData(h) \/ FillType(h) \/ FillUnlock(h)

(* Every step is of one kind or the other, or none.                         *)
LEMMA StepKinds ==
  ASSUME Next
  PROVE  UNCHANGED vars \/ \E h \in Handles : Plain(h) \/ CastStep(h)
<1>1. CASE Gone
  BY <1>1 DEF Gone, Count!Gone, Count!vars, Count!counts, Count!memory, vars, counted
<1>2. ASSUME NEW h \in Handles, Finish(h) \/ Call(h) PROVE Plain(h) \/ CastStep(h)
  <2>1. CASE Finish(h)
    BY <2>1 DEF Finish, Plain, CastStep
  <2>2. CASE Call(h)
    BY <2>2 DEF Call, Plain, CastStep
  <2> QED
    BY <1>2, <2>1, <2>2
<1> QED
  BY <1>1, <1>2 DEF Next

(* What a plain step does to the handles that are in a cast, and to the value. *)
LEMMA PlainStep ==
  ASSUME Proved!IInv, CastInv, NEW h \in Handles, Plain(h)
  PROVE  /\ UNCHANGED <<type_id, data, cast, want>>
         /\ \A g \in Handles : cast[g] # "none" => pc'[g] = pc[g] /\ borrow'[g] = borrow[g]
         /\ \A g \in Handles : borrow'[g] \in {"read", "write"} => borrow'[g] = borrow[g]
         /\ \/ UNCHANGED <<value, locks>>
            \/ /\ pc[h] = "last" /\ pc' = [pc EXCEPT ![h] = "implicit"]
               /\ value' = "dropped" /\ locks' = locks - 1
         /\ copies' # copies =>
              pc[h] = "unwrapped" /\ strong' = strong /\ copies' = copies + 1
<1> USE DEF typed, Count!Goto, Count!Owned, Count!counts, Count!memory
<1>0. /\ \A g \in Handles : cast[g] # "none" => pc[g] = "strong"
      /\ \A g \in Handles : cast[g] # "none" => borrow[g] \in {"none", "read", "write"}
      /\ pc \in [Handles -> Proved!Kinds] /\ borrow \in [Handles -> Proved!Borrows]
  BY DEF CastInv, CastLocks, Proved!IInv, Proved!Shape
<1>1. ASSUME NEW g \in Handles,
             CloneStrong(h, g) \/ CloneWeak(h, g) \/ Downgrade(h, g) \/ Upgrade(h, g)
      PROVE  /\ UNCHANGED <<typed, value, copies, borrow>> /\ pc[g] = "none"
             /\ \A k \in Handles \ {g} : pc'[k] = pc[k]
  BY <1>0, <1>1
  DEF CloneStrong, CloneWeak, Downgrade, Upgrade, Count!CloneStrong, Count!CloneWeak,
      Count!Downgrade, Count!Upgrade
<1>2. CASE Forget(h) \/ IntoRaw(h) \/ DropStrong(h) \/ UnwrapLock(h)
  <2>1. /\ UNCHANGED <<typed, value, copies, borrow>> /\ cast[h] = "none"
        /\ \A k \in Handles \ {h} : pc'[k] = pc[k]
    BY <1>0, <1>2 DEF Forget, IntoRaw, DropStrong, UnwrapLock, Count!Forget,
                      Count!IntoRaw, Count!DropStrong, Count!UnwrapLock
  <2> QED
    BY <2>1
<1>3. CASE FromRaw(h) \/ DropWeak(h, "weak") \/ DropWeak(h, "implicit") \/ UnwrapCas(h)
  <2>1. /\ UNCHANGED <<typed, value, copies, borrow>> /\ pc[h] # "strong"
        /\ \A k \in Handles \ {h} : pc'[k] = pc[k]
    BY <1>0, <1>3 DEF FromRaw, DropWeak, UnwrapCas, Count!FromRaw, Count!DropWeak,
                      Count!UnwrapCas
  <2> QED
    BY <1>0, <2>1
<1>4. CASE DropValue(h) \/ UnwrapRead(h)
  BY <1>0, <1>4 DEF DropValue, UnwrapRead, Count!DropValue, Count!UnwrapRead
<1>5. CASE UniqueLock(h) \/ UniqueLoad(h) \/ UniqueStore(h)
  <2>1. /\ UNCHANGED <<typed, value, copies, pc>> /\ cast[h] = "none"
        /\ \A k \in Handles \ {h} : borrow'[k] = borrow[k]
        /\ borrow'[h] \notin {"read", "write"}
    BY <1>0, <1>5 DEF UniqueLock, UniqueLoad, UniqueStore, Count!UniqueLock,
                      Count!UniqueLoad, Count!UniqueStore
  <2> QED
    BY <2>1
<1>6. ASSUME NEW g \in Handles,
             CloneStrong(h, g) \/ CloneWeak(h, g) \/ Downgrade(h, g) \/ Upgrade(h, g)
      PROVE  \A k \in Handles : cast[k] # "none" => pc'[k] = pc[k]
  BY <1>0, <1>1, <1>6
<1> QED
  BY <1>1, <1>2, <1>3, <1>4, <1>5, <1>6 DEF Plain

(* The plain steps keep the invariant of the casts.                         *)
LEMMA PlainKeeps ==
  ASSUME Proved!IInv, CastInv, strong = 0 => strong' = 0, NEW h \in Handles, Plain(h)
  PROVE  CastInv'
<1> USE PlainStep
<1>1. CastShape'
  BY DEF CastInv, CastShape
<1>2. CastLocks'
  BY DEF CastInv, CastLocks, Filling
<1>3. Count!OneReader => TypesTell'
  BY DEF CastInv, TypesTell
<1>4. CopiedLast'
  <2>1. CASE copies' = copies
    BY <2>1 DEF CastInv, CopiedLast
  <2>2. CASE pc[h] = "unwrapped" /\ strong' = strong
    <3>1. Proved!NDying > 0
      BY <2>2, Assumptions, Proved!KindsCounted DEF Proved!DyingKinds
    <3>2. strong = Proved!NStrong + forgotten["strong"] /\ (strong > 0 => Proved!NDying = 0)
      BY DEF Proved!IInv, Proved!CountInv, Proved!LifeInv
    <3>3. forgotten["strong"] \in Nat /\ Proved!NStrong \in Nat
      BY Assumptions, Proved!CountsNat DEF Proved!IInv, Proved!Shape
    <3> QED
      BY <2>2, <3>1, <3>2, <3>3 DEF CopiedLast
  <2> QED
    BY <2>1, <2>2
<1> QED
  BY <1>1, <1>2, <1>3, <1>4 DEF CastInv

(* Whoever holds the lock exclusively is alone with the value.               *)
LEMMA WriterAlone ==
  ASSUME Count!OneReader, Proved!IInv, CastInv, NEW h \in Handles, borrow[h] = "write",
         NEW g \in Handles \ {h}
  PROVE  cast[g] \notin {"check", "guard"} /\ ~Filling(g)
<1>1. borrow[g] \notin {"read", "write"}
  BY SameReader DEF Proved!IInv, Proved!GuardInv
<1> QED
  BY <1>1 DEF CastInv, CastLocks

(* What a cast step leaves alone: of the other handles, everything; of the    *)
(* counts, everything.                                                      *)
LEMMA CastFrame ==
  ASSUME Proved!IInv, CastInv, NEW h \in Handles, CastStep(h)
  PROVE  /\ UNCHANGED <<strong, value, copies, pc>>
         /\ \A g \in Handles \ {h} : cast'[g] = cast[g] /\ want'[g] = want[g] /\ borrow'[g] = borrow[g]
         /\ pc[h] = "strong"
BY DEF CastInv, CastShape, CastLocks, Proved!IInv, Proved!Shape, CastStep, Ask, Fill, LoadType,
       LockRef, LockMut, Downcast, DropGuard, Unref, FillData, FillType, FillUnlock, GotoCast,
       Filling, counted, Count!Owned, Count!AsRef, Count!AsMut, Count!DropGuard, Count!counts,
       Count!memory

(* How a cast step moves its handle.                                        *)
LEMMA CastMoves ==
  ASSUME Proved!IInv, CastInv, NEW h \in Handles, CastStep(h)
  PROVE  LET to(c) == cast'[h] = c IN
         \/ /\ cast[h] = "none" /\ to("load") /\ want'[h] \in Types
            /\ borrow[h] = "none" /\ UNCHANGED <<borrow, data, type_id, locks>>
         \/ /\ cast[h] = "none" /\ to("fillData") /\ want'[h] \in Types
            /\ borrow'[h] = "write" /\ UNCHANGED <<data, type_id, locks>>
         \/ /\ cast[h] = "load" /\ to("none") /\ want'[h] = NONE
            /\ UNCHANGED <<borrow, data, type_id, locks>>
         \/ /\ cast[h] = "load" /\ (to("lockRef") \/ to("lockMut")) /\ want'[h] = want[h]
            /\ locks' = locks + 1 /\ UNCHANGED <<borrow, data, type_id>>
         \/ /\ cast[h] \in {"lockRef", "lockMut"} /\ to("check") /\ want'[h] = want[h]
            /\ borrow'[h] \in {"read", "write"} /\ UNCHANGED <<data, type_id, locks>>
         \/ /\ cast[h] = "check" /\ to("guard") /\ want'[h] = want[h]
            /\ data = want[h] /\ UNCHANGED <<borrow, data, type_id, locks>>
         \/ /\ cast[h] \in {"check", "guard"} /\ to("unref") /\ want'[h] = want[h]
            /\ (cast[h] = "check" => data # want[h])
            /\ borrow'[h] = "none" /\ UNCHANGED <<data, type_id, locks>>
         \/ /\ cast[h] = "unref" /\ to("none") /\ want'[h] = NONE
            /\ locks' = locks - 1 /\ UNCHANGED <<borrow, data, type_id>>
         \/ /\ cast[h] = "fillData" /\ to("fillType") /\ want'[h] = want[h]
            /\ data' = want[h] /\ UNCHANGED <<borrow, type_id, locks>>
         \/ /\ cast[h] = "fillType" /\ to("fillUnlock") /\ want'[h] = want[h]
            /\ type_id' = want[h] /\ UNCHANGED <<borrow, data, locks>>
         \/ /\ cast[h] = "fillUnlock" /\ to("none") /\ want'[h] = NONE
            /\ borrow'[h] = "none" /\ UNCHANGED <<data, type_id, locks>>
<1> USE DEF CastInv, CastShape, Proved!IInv, Proved!Shape, GotoCast, counted
<1>1. ASSUME NEW U \in Types, Ask(h, U)
      PROVE  /\ cast[h] = "none" /\ cast'[h] = "load" /\ want'[h] \in Types
             /\ borrow[h] = "none" /\ UNCHANGED <<borrow, data, type_id, locks>>
  BY <1>1 DEF Ask, Count!Owned
<1>2. ASSUME NEW U \in Types, Fill(h, U)
      PROVE  /\ cast[h] = "none" /\ cast'[h] = "fillData" /\ want'[h] \in Types
             /\ borrow'[h] = "write" /\ UNCHANGED <<data, type_id, locks>>
  BY <1>2 DEF Fill, Count!AsMut
<1>3. ASSUME LoadType(h)
      PROVE  \/ /\ cast[h] = "load" /\ cast'[h] = "none" /\ want'[h] = NONE
                /\ UNCHANGED <<borrow, data, type_id, locks>>
             \/ /\ cast[h] = "load" /\ cast'[h] \in {"lockRef", "lockMut"} /\ want'[h] = want[h]
                /\ locks' = locks + 1 /\ UNCHANGED <<borrow, data, type_id>>
  <2>1. PICK seen \in Seen, to \in LocksOf(h) :
          GotoCast(h, "load", IF seen = want[h] THEN to ELSE "none")
    BY <1>3 DEF LoadType
  <2>2. to \in {"lockRef", "lockMut"}
    BY DEF LocksOf
  <2> QED
    BY <1>3, <2>1, <2>2 DEF LoadType
<1>4. ASSUME LockRef(h) \/ LockMut(h)
      PROVE  /\ cast[h] \in {"lockRef", "lockMut"} /\ cast'[h] = "check" /\ want'[h] = want[h]
             /\ borrow'[h] \in {"read", "write"} /\ UNCHANGED <<data, type_id, locks>>
  BY <1>4 DEF LockRef, LockMut, Count!AsRef, Count!AsMut
<1>5. ASSUME Downcast(h) \/ DropGuard(h)
      PROVE  \/ /\ cast[h] = "check" /\ cast'[h] = "guard" /\ want'[h] = want[h]
                /\ data = want[h] /\ UNCHANGED <<borrow, data, type_id, locks>>
             \/ /\ cast[h] \in {"check", "guard"} /\ cast'[h] = "unref" /\ want'[h] = want[h]
                /\ (cast[h] = "check" => data # want[h])
                /\ borrow'[h] = "none" /\ UNCHANGED <<data, type_id, locks>>
  BY <1>5 DEF Downcast, DropGuard, Count!DropGuard
<1>6. ASSUME Unref(h) \/ FillData(h) \/ FillType(h) \/ FillUnlock(h)
      PROVE  \/ /\ cast[h] = "unref" /\ cast'[h] = "none" /\ want'[h] = NONE
                /\ locks' = locks - 1 /\ UNCHANGED <<borrow, data, type_id>>
             \/ /\ cast[h] = "fillData" /\ cast'[h] = "fillType" /\ want'[h] = want[h]
                /\ data' = want[h] /\ UNCHANGED <<borrow, type_id, locks>>
             \/ /\ cast[h] = "fillType" /\ cast'[h] = "fillUnlock" /\ want'[h] = want[h]
                /\ type_id' = want[h] /\ UNCHANGED <<borrow, data, locks>>
             \/ /\ cast[h] = "fillUnlock" /\ cast'[h] = "none" /\ want'[h] = NONE
                /\ borrow'[h] = "none" /\ UNCHANGED <<data, type_id, locks>>
  BY <1>6 DEF Unref, FillData, FillType, FillUnlock, Count!DropGuard
<1> QED
  BY <1>1, <1>2, <1>3, <1>4, <1>5, <1>6 DEF CastStep

(* So do the steps of a cast or of fill.                                    *)
LEMMA CastKeeps ==
  ASSUME Proved!IInv, CastInv, NEW h \in Handles, CastStep(h)
  PROVE  CastInv'
<1>1. /\ cast' \in [Handles -> Casts] /\ want' \in [Handles -> Types \cup {NONE}]
      /\ DOMAIN borrow' = Handles
  BY DEF CastInv, CastShape, Casts, Proved!IInv, Proved!Shape, CastStep, Ask, Fill, LoadType,
         LocksOf, LockRef, LockMut, Downcast, DropGuard, Unref, FillData, FillType, FillUnlock,
         GotoCast, counted, Count!AsRef, Count!AsMut, Count!DropGuard
<1>2. CastShape'
  <2>1. type_id' \in Types /\ data' \in Types /\ locks' \in Int
    BY CastMoves DEF CastInv, CastShape
  <2>2. \A g \in Handles \ {h} : want'[g] = NONE <=> cast'[g] = "none"
    BY CastFrame DEF CastInv, CastShape
  <2>3. want'[h] = NONE <=> cast'[h] = "none"
    BY CastMoves, TypesAssumption DEF CastInv, CastShape
  <2> QED
    BY <1>1, <2>1, <2>2, <2>3 DEF CastShape
<1>3. CastLocks'
  <2> DEFINE locked(c, p, b) ==
        /\ c # "none" => p = "strong" /\ b \in {"none", "read", "write"}
        /\ c \in {"check", "guard"} => b \in {"read", "write"}
        /\ c \in {"fillData", "fillType", "fillUnlock"} => b = "write"
        /\ c \notin {"check", "guard", "fillData", "fillType", "fillUnlock"}
             => b \notin {"read", "write"}
  <2>1. \A g \in Handles : locked(cast[g], pc[g], borrow[g])
    BY DEF CastInv, CastLocks, Filling
  <2>2. \A g \in Handles \ {h} : locked(cast'[g], pc'[g], borrow'[g])
    BY <2>1, CastFrame
  <2>3. locked(cast'[h], pc'[h], borrow'[h])
    BY <2>1, CastMoves, CastFrame
  <2> QED
    BY <2>2, <2>3 DEF CastLocks, Filling
<1>4. ASSUME Count!OneReader PROVE TypesTell'
  <2>1. /\ \A g \in Handles \ {h} : cast'[g] = cast[g] /\ want'[g] = want[g]
        /\ \A g \in Handles \ {h} : cast[g] \in {"guard", "fillUnlock", "fillType"} => data = want[g]
        /\ cast[h] \in {"guard", "fillUnlock", "fillType"} => data = want[h]
        /\ (\A g \in Handles : cast[g] # "fillType") => type_id = data
    BY <1>4, CastFrame DEF CastInv, TypesTell
  <2>2. CASE cast[h] = "fillData"
    <3>1. borrow[h] = "write"
      BY <2>2 DEF CastInv, CastLocks, Filling
    <3>2. /\ cast'[h] = "fillType" /\ data' = want[h] /\ want'[h] = want[h]
      BY <2>2, CastMoves
    <3>3. \A g \in Handles \ {h} : cast'[g] \notin {"guard", "fillUnlock", "fillType"}
      BY <1>4, <2>1, <3>1, WriterAlone DEF Filling
    <3> QED
      BY <3>2, <3>3 DEF TypesTell
  <2>3. CASE cast[h] = "fillType"
    <3>1. /\ cast'[h] = "fillUnlock" /\ data' = data /\ type_id' = want[h] /\ want'[h] = want[h]
      BY <2>3, CastMoves
    <3> QED
      BY <2>1, <2>3, <3>1 DEF TypesTell
  <2>4. CASE cast[h] \notin {"fillData", "fillType"}
    <3>1. /\ UNCHANGED <<data, type_id>>
          /\ cast'[h] \notin {"fillType", "fillUnlock"}
          /\ cast'[h] = "guard" => data = want'[h]
      BY <2>4, CastMoves
    <3>2. \A g \in Handles : cast'[g] = "fillType" <=> cast[g] = "fillType"
      BY <2>1, <2>4, <3>1
    <3> QED
      BY <2>1, <3>1, <3>2 DEF TypesTell
  <2> QED
    BY <2>2, <2>3, <2>4
<1>5. CopiedLast'
  BY CastFrame DEF CastInv, CopiedLast
<1> QED
  BY <1>2, <1>3, <1>4, <1>5 DEF CastInv

(* The casts keep their invariant.                                          *)
LEMMA CastInductive == Spec => []CastInv
<1>1. Init => CastInv
  <2> SUFFICES ASSUME Init PROVE CastInv
    OBVIOUS
  <2>1. CastShape
    BY TypesAssumption DEF Init, CastShape, Casts
  <2>2. CastLocks
    BY DEF Init, Count!Init, CastLocks, Filling
  <2>3. TypesTell /\ CopiedLast
    BY DEF Init, Count!Init, TypesTell, CopiedLast
  <2> QED
    BY <2>1, <2>2, <2>3 DEF CastInv
<1>2. Proved!IInv /\ CastInv /\ [Next]_vars /\ [strong = 0 => strong' = 0]_Proved!vars => CastInv'
  <2> SUFFICES ASSUME Proved!IInv, CastInv, [Next]_vars, [strong = 0 => strong' = 0]_Proved!vars
               PROVE  CastInv'
    OBVIOUS
  <2>1. strong = 0 => strong' = 0
    BY DEF Proved!vars, Proved!counts
  <2>2. CASE UNCHANGED vars
    BY <2>2 DEF vars, counted, typed, CastInv, CastShape, CastLocks, TypesTell, CopiedLast, Filling
  <2>3. ASSUME NEW h \in Handles, Plain(h) \/ CastStep(h) PROVE CastInv'
    BY <2>1, <2>3, PlainKeeps, CastKeeps
  <2> QED
    BY <2>2, <2>3, StepKinds
<1>3. Spec => [][strong = 0 => strong' = 0]_Proved!vars
  <2>1. Proved!Spec => Proved!NoResurrection
    BY Assumptions, Proved!NeverResurrected
  <2>2. Count!Spec => Proved!Spec
    BY SameArw, PTL DEF Count!Spec, Proved!Spec
  <2> QED
    BY <2>1, <2>2, ImplementsArw, PTL DEF Proved!NoResurrection
<1> QED
  BY <1>1, <1>2, <1>3, ArwInductive, PTL DEF Spec

(* If one handle at most is ever a reader, so that the lock of the value keeps *)
(* readers and writers apart, a guard is on a value of the type its cast asked *)
(* for, whatever fill was called meanwhile.  With several the Mutex does not    *)
(* keep them apart (MutexProperties.Exclusion), and this is not claimed.       *)
THEOREM CastsCorrect ==
  ASSUME Count!OneReader
  PROVE  Spec => []CastsSafe
<1>1. Proved!IInv /\ CastInv => CastsSafe
  <2> SUFFICES ASSUME Proved!IInv, CastInv, NEW h \in Handles, cast[h] = "guard"
               PROVE  data = want[h] /\ value = "there" /\ copies = 0
    BY DEF CastsSafe
  <2>1. pc[h] = "strong" /\ data = want[h]
    BY DEF CastInv, CastLocks, TypesTell
  <2>2. Proved!NStrong > 0
    BY <2>1, Assumptions, Proved!KindsCounted DEF Proved!StrongKinds
  <2>3. strong > 0 /\ value = "there"
    BY <2>2, Assumptions, Proved!CountsNat
    DEF Proved!IInv, Proved!Shape, Proved!CountInv, Proved!LifeInv
  <2>4. copies = 0
    BY <2>3 DEF CastInv, CopiedLast, Proved!IInv, Proved!Shape
  <2> QED
    BY <2>1, <2>3, <2>4
<1> QED
  BY <1>1, ArwInductive, CastInductive, PTL

---------------------------------------------------------------------------
(* The handles of the lock.                                                *)
OwnKinds == {"lockRef", "lockMut", "check", "guard", "unref"}
NOwners == Proved!Cardinality(Proved!Of(cast, OwnKinds))

(* The last handle finds the value there when it comes to drop it.           *)
LastHolds == \A h \in Handles : pc[h] \in {"unwrapped", "last"} => value = "there"

LockInv ==
  /\ LastHolds
  /\ locks = NOwners + (IF value = "there" THEN 1 ELSE 0)

(* Who has a strong handle finds the value there.                           *)
LEMMA HoldersHaveValue ==
  ASSUME Proved!IInv, NEW h \in Handles, pc[h] \in Proved!StrongKinds
  PROVE  value = "there" /\ strong > 0
<1>1. Proved!NStrong > 0
  BY Assumptions, Proved!KindsCounted
<1> QED
  BY <1>1, Assumptions, Proved!CountsNat
  DEF Proved!IInv, Proved!Shape, Proved!CountInv, Proved!LifeInv

(* The last handle comes from a strong one, which found the value there, and*)
(* no other handle drops the value.                                         *)
LEMMA LastKept ==
  ASSUME Proved!IInv, CastInv, LastHolds, NEW h \in Handles, Plain(h) \/ CastStep(h)
  PROVE  LastHolds'
<1> DEFINE before == Proved!StrongKinds \cup {"unwrapped", "last"}
<1>1. \A g \in Handles : pc'[g] \in {"unwrapped", "last"} => pc[g] \in before
  <2> USE DEF Count!Goto, Count!Owned, Count!counts, Count!memory, Proved!StrongKinds
  <2>0. pc \in [Handles -> Proved!Kinds]
    BY DEF Proved!IInv, Proved!Shape
  <2>1. CASE CastStep(h)
    BY <2>1, CastFrame
  <2>2. ASSUME NEW g \in Handles,
               CloneStrong(h, g) \/ CloneWeak(h, g) \/ Downgrade(h, g) \/ Upgrade(h, g)
        PROVE  \A k \in Handles : pc'[k] \in {"unwrapped", "last"} => pc[k] \in before
    BY <2>0, <2>2
    DEF CloneStrong, CloneWeak, Downgrade, Upgrade, Count!CloneStrong, Count!CloneWeak,
        Count!Downgrade, Count!Upgrade
  <2>3. CASE Forget(h) \/ IntoRaw(h) \/ FromRaw(h) \/ UnwrapLock(h)
    BY <2>0, <2>3 DEF Forget, IntoRaw, FromRaw, UnwrapLock, Count!Forget, Count!IntoRaw,
                      Count!FromRaw, Count!UnwrapLock
  <2>4. CASE UniqueLock(h) \/ UniqueLoad(h) \/ UniqueStore(h)
    BY <2>0, <2>4 DEF UniqueLock, UniqueLoad, UniqueStore, Count!UniqueLock,
                      Count!UniqueLoad, Count!UniqueStore
  <2>5. CASE DropStrong(h) \/ DropValue(h) \/ DropWeak(h, "weak") \/ DropWeak(h, "implicit")
    BY <2>0, <2>5 DEF DropStrong, DropValue, DropWeak, Count!DropStrong, Count!DropValue,
                      Count!DropWeak
  <2>6. CASE UnwrapCas(h) \/ UnwrapRead(h)
    BY <2>0, <2>6 DEF UnwrapCas, UnwrapRead, Count!UnwrapCas, Count!UnwrapRead
  <2> QED
    BY <2>1, <2>2, <2>3, <2>4, <2>5, <2>6 DEF Plain
<1>2. \A g \in Handles : pc[g] \in before => value = "there"
  BY HoldersHaveValue DEF LastHolds
<1>3. CASE value' = value
  BY <1>1, <1>2, <1>3 DEF LastHolds
<1>4. CASE pc[h] = "last" /\ pc' = [pc EXCEPT ![h] = "implicit"]
  <2>1. \A g \in Handles : pc[g] \in {"unwrapped", "last"} => g = h
    <3>1. Proved!NDying = 1
      BY <1>4, Assumptions, Proved!KindsCounted, Proved!LastAlone DEF Proved!DyingKinds
    <3>2. Proved!Of(pc, Proved!DyingKinds) = {h}
      BY <1>4, <3>1, Assumptions, Proved!OfMember DEF Proved!NDying, Proved!DyingKinds
    <3> QED
      BY <3>2 DEF Proved!Of, Proved!DyingKinds
  <2>2. /\ pc'[h] = "implicit" /\ \A g \in Handles \ {h} : pc'[g] = pc[g]
    BY <1>4 DEF Proved!IInv, Proved!Shape
  <2> QED
    BY <2>1, <2>2 DEF LastHolds
<1> QED
  BY <1>3, <1>4, CastFrame, PlainStep

(* How the number of owners changes when one handle goes on in its cast.    *)
LEMMA OwnersMove ==
  ASSUME NEW h \in Handles, \A g \in Handles \ {h} : cast'[g] = cast[g]
  PROVE  NOwners' = NOwners + Proved!Counted(cast'[h], OwnKinds)
                            - Proved!Counted(cast[h], OwnKinds)
<1> DEFINE e == cast'
           f == cast
<1>1. h \in Handles /\ \A g \in Handles \ {h} : e[g] = f[g]
  OBVIOUS
<1> HIDE DEF e, f
<1>2. ASSUME NEW K
      PROVE  Proved!Cardinality(Proved!Of(e, K))
               = Proved!Cardinality(Proved!Of(f, K)) + Proved!Counted(e[h], K)
                                                     - Proved!Counted(f[h], K)
  BY ONLY <1>1, Assumptions, Proved!OfMove
<1> QED
  BY <1>2 DEF NOwners, e, f

(* The handles of the lock go on being counted in either kind of step.      *)
LEMMA LockKept ==
  ASSUME Proved!IInv, CastInv, LockInv, NEW h \in Handles, Plain(h) \/ CastStep(h)
  PROVE  LockInv'
<1>1. LastHolds'
  BY LastKept DEF LockInv
<1>2. NOwners \in Nat
  BY Assumptions, Proved!OfFinite DEF NOwners
<1>3. CASE Plain(h)
  <2>1. NOwners' = NOwners
    BY <1>3, PlainStep DEF NOwners, Proved!Of
  <2>2. CASE UNCHANGED <<value, locks>>
    BY <1>1, <2>1, <2>2 DEF LockInv
  <2>3. CASE pc[h] = "last" /\ value' = "dropped" /\ locks' = locks - 1
    BY <1>1, <1>2, <2>1, <2>3 DEF LockInv, LastHolds
  <2> QED
    BY <1>3, <2>2, <2>3, PlainStep
<1>4. CASE CastStep(h)
  <2>1. value' = value /\ \A g \in Handles \ {h} : cast'[g] = cast[g]
    BY <1>4, CastFrame
  <2>2. NOwners' = NOwners + Proved!Counted(cast'[h], OwnKinds)
                           - Proved!Counted(cast[h], OwnKinds)
    BY <2>1, OwnersMove
  <2>3. locks' - locks = Proved!Counted(cast'[h], OwnKinds) - Proved!Counted(cast[h], OwnKinds)
    BY <1>4, CastMoves DEF Proved!Counted, OwnKinds, CastInv, CastShape
  <2>4. locks \in Int /\ locks' \in Int
    BY <1>4, CastKeeps DEF CastInv, CastShape
  <2>5. /\ Proved!Counted(cast'[h], OwnKinds) \in Nat
        /\ Proved!Counted(cast[h], OwnKinds) \in Nat
    BY DEF Proved!Counted
  <2> QED
    BY <1>1, <1>2, <2>1, <2>2, <2>3, <2>4, <2>5 DEF LockInv
<1> QED
  BY <1>3, <1>4

(* The count of the lock's handles is right at all times.                   *)
LEMMA LockInductive == Spec => []LockInv
<1>1. Init => LockInv
  <2> SUFFICES ASSUME Init PROVE LockInv
    OBVIOUS
  <2>1. Proved!Of(cast, OwnKinds) = {}
    BY DEF Init, Proved!Of, OwnKinds
  <2>2. NOwners = 0
    BY <2>1, Assumptions, Proved!OfFinite DEF NOwners
  <2> QED
    BY <2>2 DEF Init, Count!Init, LockInv, LastHolds
<1>2. Proved!IInv /\ CastInv /\ LockInv /\ [Next]_vars => LockInv'
  <2> SUFFICES ASSUME Proved!IInv, CastInv, LockInv, [Next]_vars PROVE LockInv'
    OBVIOUS
  <2>1. CASE UNCHANGED vars
    BY <2>1 DEF vars, counted, typed, LockInv, LastHolds, NOwners, Proved!Of
  <2> QED
    BY <2>1, StepKinds, LockKept
<1> QED
  BY <1>1, <1>2, ArwInductive, CastInductive, PTL DEF Spec

(* The lock of a value has as many handles as it has owners: the guards and   *)
(* the casts under way, and the inner struct, whose handle is the last.       *)
THEOREM LockCorrect == Spec => []LockCounted
<1>1. Proved!IInv /\ CastInv /\ LockInv => LockCounted
  <2> SUFFICES ASSUME Proved!IInv, CastInv, LockInv PROVE LockCounted
    OBVIOUS
  <2>1. Owners = Proved!Of(cast, OwnKinds)
    BY DEF Owners, Proved!Of, OwnKinds
  <2>2. ASSUME NEW h \in Owners PROVE value = "there"
    BY <2>2, HoldersHaveValue DEF Owners, CastInv, CastLocks, Proved!StrongKinds
  <2> QED
    BY <2>1, <2>2, SameCardinality DEF LockCounted, LockInv, NOwners
<1> QED
  BY <1>1, ArwInductive, CastInductive, LockInductive, PTL

(* Every variable has its type: the count of the lock's handles never goes    *)
(* below zero, which for the code's unsigned count would be its largest value. *)
(* For one reader at most: with several two fills may write type_id at once and *)
(* leave it torn, which FillType does not show.                              *)
THEOREM TypeCorrect ==
  ASSUME Count!OneReader
  PROVE  Spec => []TypeOK
<1>1. Proved!TypeOK => Count!TypeOK
  BY DEF Proved!TypeOK, Count!TypeOK, Proved!Kinds, Count!Kinds, Proved!Borrows, Count!Borrows
<1>2. Proved!TypeOK /\ CastInv /\ LockInv => TypeOK
  <2> SUFFICES ASSUME Proved!TypeOK, CastInv, LockInv PROVE TypeOK
    OBVIOUS
  <2>1. NOwners \in Nat
    BY Assumptions, Proved!OfFinite DEF NOwners
  <2> QED
    BY <1>1, <2>1 DEF TypeOK, CastInv, CastShape, LockInv
<1>3. Count!Spec => Proved!Spec
  BY SameArw, PTL DEF Count!Spec, Proved!Spec
<1>4. Proved!Spec => []Proved!TypeOK
  BY Assumptions, Proved!TypeCorrect
<1> QED
  BY <1>2, <1>3, <1>4, ImplementsArw, CastInductive, LockInductive, PTL

---------------------------------------------------------------------------
(* AnyRef implements TypedCell.                                             *)

(* The state of TypedCell, as AnyRefProperties maps it.                     *)
Value == IF value = "there" /\ copies = 0 THEN data ELSE NONE
Before == IF \E h \in Handles : cast[h] = "fillType" THEN type_id ELSE NONE
Asks == [h \in Handles |-> IF Asking(h) THEN want[h] ELSE NONE]
Views == [h \in Handles |-> IF cast[h] = "guard" THEN borrow[h] ELSE "none"]

(* A strong handle finds the value in its place.                            *)
LEMMA StrongHasValue ==
  ASSUME Proved!IInv, CastInv, NEW h \in Handles, pc[h] = "strong"
  PROVE  Value = data /\ Value # NONE
<1>1. value = "there" /\ strong > 0
  BY HoldersHaveValue DEF Proved!StrongKinds
<1>2. copies = 0
  BY <1>1 DEF CastInv, CopiedLast, Proved!IInv, Proved!Shape
<1> QED
  BY <1>1, <1>2, TypesAssumption DEF Value, CastInv, CastShape

(* Before is the type there was, between the two writes of a fill, and NONE *)
(* at any other time; then type_id tells the type of the value.             *)
LEMMA BeforeTells ==
  ASSUME Count!OneReader, Proved!IInv, CastInv
  PROVE  /\ \A h \in Handles : cast[h] = "fillType" => Before = type_id /\ data = want[h]
         /\ Before = NONE <=> \A h \in Handles : cast[h] # "fillType"
         /\ Before = NONE => type_id = data
BY TypesAssumption DEF Before, CastInv, CastShape, TypesTell

(* A new AnyRef is a cell with the value it was given.                      *)
LEMMA StartCell == Init => Cell!Init
<1> SUFFICES ASSUME Init PROVE Cell!Init
  OBVIOUS
<1>1. /\ \A h \in Handles : cast[h] = "none"
      /\ value = "there" /\ copies = 0 /\ data \in Types
  BY DEF Init, Count!Init
<1>2. Value \in Types /\ Before = NONE
  BY <1>1 DEF Value, Before
<1>3. Asks = [h \in Handles |-> NONE] /\ Views = [h \in Handles |-> "none"]
  BY <1>1 DEF Asks, Views, Asking
<1> QED
  BY <1>2, <1>3 DEF Cell!Init, Value, Before, Asks, Views

(* The calls of Arw are nothing to the cell, but for the last one.           *)
LEMMA PlainCell ==
  ASSUME Proved!IInv, CastInv, LockInv, NEW h \in Handles, Plain(h)
  PROVE  Cell!Remove \/ UNCHANGED Cell!vars
<1>1. UNCHANGED <<Before, Asks, Views>>
  BY PlainStep DEF Before, Asks, Views, Asking
<1>2. \/ Value' = Value
      \/ Value' = NONE /\ pc[h] \in {"last", "unwrapped"}
  BY PlainStep DEF Value, Proved!IInv, Proved!Shape
<1>3. CASE Value' = Value
  BY <1>1, <1>3 DEF Cell!vars, Value, Before, Asks, Views
<1>4. CASE Value' = NONE /\ Value # NONE /\ pc[h] \in {"last", "unwrapped"}
  <2>1. Proved!NDying > 0
    BY <1>4, Assumptions, Proved!KindsCounted DEF Proved!DyingKinds
  <2>2. \A g \in Handles : pc[g] \notin Proved!StrongKinds
    BY <2>1, HoldersHaveValue, Assumptions, Proved!CountsNat DEF Proved!IInv, Proved!LifeInv
  <2>3. \A g \in Handles : cast[g] = "none"
    BY <2>2 DEF CastInv, CastLocks, Proved!StrongKinds
  <2>4. Asks = [g \in Handles |-> NONE] /\ Views = [g \in Handles |-> "none"] /\ Before = NONE
    BY <2>3 DEF Asks, Views, Before, Asking
  <2> QED
    BY <1>1, <1>4, <2>4 DEF Cell!Remove, Cell!Unviewed, Value, Before, Asks, Views
<1> QED
  BY <1>2, <1>3, <1>4

(* A cast is refused only for a reason, though what it has read of type_id may *)
(* be neither the old type nor the new one.                                 *)
LEMMA RefusedRightly ==
  ASSUME Count!OneReader, Proved!IInv, CastInv, NEW h \in Handles, CastStep(h),
         cast[h] = "load", cast'[h] = "none"
  PROVE  want[h] # data \/ Before \notin {NONE, want[h]}
<1>1. cast \in [Handles -> Casts]
  BY DEF CastInv, CastShape
<1>2. LoadType(h)
  BY <1>1 DEF CastStep, Ask, Fill, LockRef, LockMut, Downcast, DropGuard, Unref, FillData,
              FillType, FillUnlock, GotoCast
<1>3. PICK seen \in Seen, to \in LocksOf(h) :
        cast' = [cast EXCEPT ![h] = IF seen = want[h] THEN to ELSE "none"]
  BY <1>2 DEF LoadType, GotoCast
<1>4. seen # want[h]
  BY <1>1, <1>3 DEF LocksOf
<1>5. CASE seen = type_id
  BY <1>4, <1>5, BeforeTells
<1>6. ASSUME NEW g \in Handles, cast[g] = "fillType", want[g] # type_id,
             seen \in {want[g], NONE}
      PROVE  want[h] # data \/ Before \notin {NONE, want[h]}
  BY <1>4, <1>6, BeforeTells
<1> QED
  BY <1>5, <1>6 DEF Seen

(* A cast, or a fill, takes effect in one of its steps.                     *)
LEMMA CastCell ==
  ASSUME Count!OneReader, Proved!IInv, CastInv, NEW h \in Handles, CastStep(h)
  PROVE  [Cell!Next]_Cell!vars
<1> DEFINE asking(c) == c \in {"load", "lockRef", "lockMut", "check"}
           moved(v) == \A g \in Handles \ {h} : v'[g] = v[g]
<1>0. /\ Value = data /\ Value # NONE /\ Value' = data'
      /\ moved(cast) /\ moved(want) /\ moved(borrow)
      /\ cast \in [Handles -> Casts]
  <2>1. Value = data /\ Value # NONE /\ value' = value /\ copies' = copies
    BY CastFrame, StrongHasValue
  <2>2. value = "there" /\ copies = 0
    BY <2>1 DEF Value
  <2> QED
    BY <2>1, <2>2, CastFrame DEF Value, CastInv, CastShape
<1>1. /\ Asks' = [Asks EXCEPT ![h] = IF asking(cast'[h]) THEN want'[h] ELSE NONE]
      /\ Views' = [Views EXCEPT ![h] = IF cast'[h] = "guard" THEN borrow'[h] ELSE "none"]
      /\ Asks[h] = IF asking(cast[h]) THEN want[h] ELSE NONE
      /\ Views[h] = IF cast[h] = "guard" THEN borrow[h] ELSE "none"
  BY <1>0 DEF Asks, Views, Asking
<1>2. CASE cast[h] = "none" /\ cast'[h] = "load" /\ UNCHANGED <<borrow, data, type_id>>
  <2>1. Before' = Before /\ want'[h] \in Types
    BY <1>0, <1>2, CastMoves DEF Before
  <2>2. PICK U \in Types : U = want'[h]
    BY <2>1
  <2>3. Cell!Ask(h, U)
    BY <1>0, <1>1, <1>2, <2>1, <2>2 DEF Cell!Ask, Value, Before, Asks, Views
  <2> QED
    BY <2>3 DEF Cell!Next
<1>3. CASE cast[h] = "load" /\ cast'[h] = "none" /\ UNCHANGED <<data, type_id>>
  <2>1. Before' = Before /\ want[h] # NONE
    BY <1>0, <1>3 DEF Before, CastInv, CastShape
  <2>2. Cell!Refuse(h)
    BY <1>0, <1>1, <1>3, <2>1, RefusedRightly DEF Cell!Refuse, Value, Before, Asks, Views
  <2> QED
    BY <2>2 DEF Cell!Next
<1>4. CASE /\ cast[h] = "check" /\ cast'[h] = "unref" /\ data # want[h]
           /\ UNCHANGED <<data, type_id>>
  <2>1. Before' = Before /\ want[h] # NONE
    BY <1>0, <1>4 DEF Before, CastInv, CastShape
  <2>2. Cell!Refuse(h)
    BY <1>0, <1>1, <1>4, <2>1 DEF Cell!Refuse, Value, Before, Asks, Views
  <2> QED
    BY <2>2 DEF Cell!Next
<1>5. CASE /\ cast[h] = "check" /\ cast'[h] = "guard" /\ data = want[h]
           /\ UNCHANGED <<borrow, data, type_id>>
  <2>1. borrow[h] \in {"read", "write"}
    BY <1>5 DEF CastInv, CastLocks
  <2>2. \A g \in Handles \ {h} : borrow[g] = "write" => FALSE
    BY <2>1, SameReader DEF Proved!IInv, Proved!GuardInv
  <2>3. \A g \in Handles \ {h} : cast[g] = "guard" => borrow[h] = "read" /\ borrow[g] = "read"
    BY <2>1, <2>2, WriterAlone DEF CastInv, CastLocks
  <2>4. Before = NONE /\ Before' = NONE
    BY <1>0, <1>5, <2>2 DEF Before, CastInv, CastLocks, Filling
  <2>5. \A g \in Handles : Views[g] # "none" => borrow[h] = "read" /\ Views[g] = "read"
    BY <1>5, <2>3 DEF Views
  <2>6. Cell!View(h)
    BY <1>0, <1>1, <1>5, <2>1, <2>4, <2>5 DEF Cell!View, Value, Before, Asks, Views
  <2> QED
    BY <2>6 DEF Cell!Next
<1>6. CASE cast[h] = "guard" /\ cast'[h] = "unref" /\ UNCHANGED <<data, type_id>>
  <2>1. Before' = Before /\ borrow[h] \in {"read", "write"}
    BY <1>0, <1>6 DEF Before, CastInv, CastLocks
  <2>2. Cell!Close(h)
    BY <1>0, <1>1, <1>6, <2>1 DEF Cell!Close, Value, Before, Asks, Views
  <2> QED
    BY <2>2 DEF Cell!Next
<1>7. CASE /\ cast[h] = "fillData" /\ cast'[h] = "fillType" /\ data' = want[h]
           /\ UNCHANGED type_id
  <2>1. borrow[h] = "write" /\ want[h] \in Types
    BY <1>7 DEF CastInv, CastLocks, CastShape, Filling
  <2>2. \A g \in Handles \ {h} : cast[g] # "guard" /\ cast[g] # "fillType"
    BY <2>1, WriterAlone DEF Filling
  <2>3. /\ Before = NONE /\ type_id = data /\ Before' = type_id
        /\ \A g \in Handles : Views[g] = "none"
    BY <1>7, <2>2, BeforeTells DEF Before, Views
  <2>4. Asks' = Asks /\ Views' = Views
    BY <1>1, <1>7 DEF Asks, Views
  <2>5. PICK U \in Types : U = want[h]
    BY <2>1
  <2>6. Cell!Replace(U)
    BY <1>0, <1>7, <2>3, <2>4, <2>5
    DEF Cell!Replace, Cell!Unviewed, Value, Before, Asks, Views
  <2> QED
    BY <2>6 DEF Cell!Next
<1>8. CASE cast[h] = "fillType" /\ cast'[h] = "fillUnlock" /\ UNCHANGED data
  <2>1. \A g \in Handles \ {h} : cast[g] # "fillType"
    BY <1>8, WriterAlone DEF CastInv, CastLocks, Filling
  <2>2. Before # NONE /\ Before' = NONE
    BY <1>0, <1>8, <2>1, BeforeTells DEF Before
  <2>3. Asks' = Asks /\ Views' = Views
    BY <1>1, <1>8 DEF Asks, Views
  <2>4. Cell!Settle
    BY <1>0, <1>8, <2>2, <2>3 DEF Cell!Settle, Value, Before, Asks, Views
  <2> QED
    BY <2>4 DEF Cell!Next
<1>9. CASE /\ UNCHANGED <<data, type_id>>
           /\ \/ asking(cast[h]) /\ asking(cast'[h]) /\ want'[h] = want[h]
              \/ ~asking(cast[h]) /\ ~asking(cast'[h])
           /\ {cast[h], cast'[h]} \cap {"guard", "fillType"} = {}
  <2>1. Before' = Before
    BY <1>0, <1>9 DEF Before
  <2>2. Asks' = Asks /\ Views' = Views
    BY <1>0, <1>9 DEF Asks, Views, Asking
  <2> QED
    BY <1>0, <1>9, <2>1, <2>2 DEF Cell!vars, Value, Before, Asks, Views
<1> QED
  BY <1>2, <1>3, <1>4, <1>5, <1>6, <1>7, <1>8, <1>9, CastMoves

(* If one handle at most is ever a reader, AnyRef implements TypedCell: whoever *)
(* asks for a type gets a view of a value of that type, or None for a reason,   *)
(* and no view is open on a value that is being replaced.                      *)
THEOREM ImplementsTypedCell ==
  ASSUME Count!OneReader
  PROVE  Spec => Refines
<1>1. Proved!IInv /\ CastInv /\ LockInv /\ [Next]_vars => [Cell!Next]_Cell!vars
  <2> SUFFICES ASSUME Proved!IInv, CastInv, LockInv, [Next]_vars
               PROVE  [Cell!Next]_Cell!vars
    OBVIOUS
  <2>1. CASE UNCHANGED vars
    <3>1. UNCHANGED <<Value, Before, Asks, Views>>
      BY <2>1 DEF vars, counted, typed, Value, Before, Asks, Views, Asking
    <3> QED
      BY <3>1 DEF Cell!vars, Value, Before, Asks, Views
  <2>2. ASSUME NEW h \in Handles, Plain(h) \/ CastStep(h) PROVE [Cell!Next]_Cell!vars
    BY <2>2, PlainCell, CastCell DEF Cell!Next
  <2> QED
    BY <2>1, <2>2, StepKinds
<1> QED
  BY <1>1, StartCell, ArwInductive, CastInductive, LockInductive, PTL
  DEF Spec, Refines, Cell!Spec
=============================================================================
