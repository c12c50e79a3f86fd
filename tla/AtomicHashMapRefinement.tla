---------------------- MODULE AtomicHashMapRefinement ----------------------
(***************************************************************************)
(* That AtomicHashMap implements ConcurrentMap, for any number of threads,  *)
(* items, keys and buckets: the map is linearizable.                        *)
(***************************************************************************)
EXTENDS AtomicHashMapProofs

(* The state of ConcurrentMap, as AtomicHashMapProperties maps it.           *)
KeysIn == {key[x] : x \in InMap}
Present == IF ref_count = 0 THEN {} ELSE KeysIn
Calls == [t \in Threads |-> CallOf(t)]

Asked(o, k, a) == [op |-> o, key |-> k, answer |-> a]

(* A call is not none.                                                     *)
LEMMA AskedIsCall ==
  ASSUME NEW o \in Operations, NEW k, NEW a
  PROVE  /\ Asked(o, k, a) # [op |-> "none"]
         /\ Asked(o, k, a).op = o /\ Asked(o, k, a).key = k /\ Asked(o, k, a).answer = a
<1>1. Asked(o, k, a).op = o /\ o # "none"
  BY DEF Asked, Operations
<1>2. [op |-> "none"].op = "none"
  OBVIOUS
<1> QED
  BY <1>1, <1>2 DEF Asked

(* The calls of the others do not change with a step of t.                   *)
LEMMA CallsStep ==
  ASSUME Typed, NEW t \in Threads, Move(t)
  PROVE  Calls' = [Calls EXCEPT ![t] = CallOf(t)']
<1>1. ASSUME NEW u \in Threads, u # t PROVE CallOf(u)' = CallOf(u)
  BY <1>1, Others DEF CallOf, Answer
<1> QED
  BY <1>1 DEF Calls

(* What a call that is under way has asked.                                  *)
LEMMA CallIs ==
  ASSUME Typed, Placing, NEW t \in Threads
  PROVE  /\ pc[t] \in Calling =>
              CallOf(t) = Asked(op[t], arg[t], Answer(t)) /\ op[t] \in Operations /\ arg[t] \in Keys
         /\ pc[t] \notin Calling => CallOf(t) = [op |-> "none"]
BY DEF Typed, Placing, Place, Calling, CallOf, Asked, Places

(* A step that starts no call, ends none, and does not take effect.          *)
LEMMA StutterIs ==
  ASSUME Typed, NEW t \in Threads, Move(t), CallOf(t)' = CallOf(t), Present' = Present
  PROVE  UNCHANGED Abstract!vars
<1>1. Calls' = Calls
  BY CallsStep DEF Calls
<1> QED
  BY <1>1 DEF Abstract!vars, Calls, Present, KeysIn

(* A step that starts one.                                                 *)
LEMMA StartIs ==
  ASSUME Typed, NEW t \in Threads, Move(t), NEW o \in Operations, NEW k \in Keys,
         CallOf(t) = [op |-> "none"], CallOf(t)' = Asked(o, k, "pending"), Present' = Present
  PROVE  Abstract!Next
<1>1. Calls' = [Calls EXCEPT ![t] = Asked(o, k, "pending")] /\ Calls[t] = [op |-> "none"]
  BY CallsStep DEF Calls
<1>2. Abstract!Start(t)
  BY <1>1 DEF Abstract!Start, Abstract!NoCall, Abstract!Pending, Asked, Calls, Present, KeysIn
<1> QED
  BY <1>2 DEF Abstract!Next

(* One that takes effect.                                                  *)
LEMMA EffectIs ==
  ASSUME Typed, NEW t \in Threads, Move(t), NEW o \in Operations, NEW k \in Keys,
         CallOf(t) = Asked(o, k, "pending"),
         CallOf(t)' = Asked(o, k, IF k \in Present THEN "found" ELSE "absent"),
         Present' = CASE o = "insert" -> Present \cup {k}
                      [] o = "remove" -> Present \ {k}
                      [] OTHER -> Present
  PROVE  Abstract!Next
<1>1. Calls' = [Calls EXCEPT ![t] = Asked(o, k, IF k \in Present THEN "found" ELSE "absent")]
      /\ Calls[t] = Asked(o, k, "pending")
  BY CallsStep DEF Calls
<1>2. \A a : Calls[t] # [op |-> "none"] /\ Calls[t].answer = "pending" /\ Calls[t].key = k /\ Calls[t].op = o
             /\ [Calls[t] EXCEPT !.answer = a] = Asked(o, k, a)
  BY <1>1, AskedIsCall DEF Asked
<1>3. Calls' = [Calls EXCEPT ![t].answer = IF k \in Present THEN "found" ELSE "absent"]
  BY <1>1, <1>2
<1>4. Abstract!Effect(t)
  BY <1>2, <1>3 DEF Abstract!Effect, Abstract!NoCall, Calls, Present, KeysIn
<1> QED
  BY <1>4 DEF Abstract!Next

(* One that returns.                                                       *)
LEMMA FinishIs ==
  ASSUME Typed, NEW t \in Threads, Move(t), NEW o \in Operations, NEW k, NEW a, a # "pending",
         CallOf(t) = Asked(o, k, a), CallOf(t)' = [op |-> "none"], Present' = Present
  PROVE  Abstract!Next
<1>1. Calls' = [Calls EXCEPT ![t] = [op |-> "none"]] /\ Calls[t] = Asked(o, k, a)
  BY CallsStep DEF Calls
<1>2. Calls[t] # [op |-> "none"] /\ Calls[t].answer # "pending"
  BY <1>1, AskedIsCall
<1>3. Abstract!Finish(t)
  BY <1>1, <1>2 DEF Abstract!Finish, Abstract!NoCall, Calls, Present, KeysIn
<1> QED
  BY <1>3 DEF Abstract!Next

---------------------------------------------------------------------------
(* While there is a handle the keys are those of the items on the lists.     *)
LEMMA OwnerPresent ==
  ASSUME Handles, NEW t \in Threads, pc[t] \notin {"none", "free"}
  PROVE  Present = KeysIn
<1>1. t \in Owners
  BY DEF Owners
<1>2. ref_count # 0
  BY <1>1, OwnersFinite, FS_EmptySet DEF Handles
<1> QED
  BY <1>2 DEF Present

(* And after a step.                                                       *)
LEMMA NextOwnerPresent ==
  (Handles => \A t \in Threads : pc[t] \notin {"none", "free"} => Present = KeysIn)'
<1>1. Handles => \A t \in Threads : pc[t] \notin {"none", "free"} => Present = KeysIn
  BY OwnerPresent
<1> QED
  BY <1>1, PTL

(* What the invariant says before and after a step of a call.                *)
Around(t) == /\ FullInv /\ FullInv' /\ Move(t)
             /\ pc[t] \notin {"none", "free"} /\ pc'[t] \notin {"none", "free"}

(* The state of ConcurrentMap at such a step.                               *)
LEMMA AroundTells ==
  ASSUME NEW t \in Threads, Around(t)
  PROVE  /\ MapInv /\ Typed /\ Typed' /\ Placing /\ Placing' /\ BucketExclusive
         /\ MapLists /\ Lists /\ Finds /\ Values
         /\ ~DropItem(t) /\ Present = KeysIn /\ Present' = KeysIn'
         /\ ~Link(t) /\ ~Unlink(t) => KeysIn' = KeysIn
<1>1. /\ MapInv /\ Typed /\ Typed' /\ Placing /\ Placing' /\ BucketExclusive /\ Handles /\ Handles'
  BY DEF Around, FullInv, MapInv
<1>2. MapLists /\ Lists /\ Finds /\ Values
  BY <1>1, OwnerIntact DEF Around, FullInv, Contents, MapLists
<1>3. Present = KeysIn /\ Present' = KeysIn'
  BY <1>1, OwnerPresent, NextOwnerPresent DEF Around
<1>4. ~DropItem(t)
  BY DEF Around, DropItem, Goto
<1>5. ASSUME ~Link(t), ~Unlink(t) PROVE KeysIn' = KeysIn
  <2>1. SameLists
    BY <1>1, <1>2, <1>4, <1>5, ListSteps DEF Around
  <2> QED
    BY <2>1 DEF SameLists, KeysIn
<1> QED
  BY <1>1, <1>2, <1>3, <1>4, <1>5

(* A step that does nothing for its caller.                                  *)
LEMMA QuietCall ==
  ASSUME NEW t \in Threads, Around(t), ~Link(t), ~Unlink(t), CallOf(t)' = CallOf(t)
  PROVE  UNCHANGED Abstract!vars
BY AroundTells, StutterIs DEF Around

(* A call that finds its item takes effect: for insert and get nothing changes. *)
LEMMA FindCall ==
  ASSUME NEW t \in Threads, Around(t), ~Link(t), ~Unlink(t), Here(t), op[t] # "remove",
         CallOf(t)' = Asked(op[t], arg[t], "found")
  PROVE  Abstract!Next
<1>1. /\ Typed /\ Placing /\ Present = KeysIn /\ Present' = Present /\ Move(t)
  BY AroundTells DEF Around
<1>2. cur[t] \in InMap /\ key[cur[t]] = arg[t]
  BY AroundTells, HereTells
<1>3. arg[t] \in Present
  BY <1>1, <1>2 DEF KeysIn
<1>4. CallOf(t) = Asked(op[t], arg[t], "pending") /\ op[t] \in Operations /\ arg[t] \in Keys
  <2>1. pc[t] = "search"
    BY DEF Here
  <2>2. pc[t] \in Calling /\ Answer(t) = "pending"
    BY <2>1 DEF Calling, Answer
  <2> QED
    BY <1>1, <2>2, CallIs
<1>5. Present' = CASE op[t] = "insert" -> Present \cup {arg[t]}
                   [] op[t] = "remove" -> Present \ {arg[t]}
                   [] OTHER -> Present
  BY <1>1, <1>3
<1> QED
  BY <1>1, <1>3, <1>4, <1>5, EffectIs

(* A call that finds nothing takes effect at the end of its walk.             *)
LEMMA MissCall ==
  ASSUME NEW t \in Threads, Around(t), ~Link(t), ~Unlink(t), Nowhere(t), op[t] # "insert",
         CallOf(t)' = Asked(op[t], arg[t], "absent")
  PROVE  Abstract!Next
<1>1. /\ Typed /\ Placing /\ MapLists /\ Present = KeysIn /\ Present' = Present /\ Move(t)
  BY AroundTells DEF Around
<1>2. arg[t] \notin Present
  BY <1>1, WalkTells DEF MapLists, Nowhere, KeysIn
<1>3. CallOf(t) = Asked(op[t], arg[t], "pending") /\ op[t] \in Operations /\ arg[t] \in Keys
  BY <1>1, CallIs DEF Nowhere, Calling, Answer
<1>4. Present' = CASE op[t] = "insert" -> Present \cup {arg[t]}
                   [] op[t] = "remove" -> Present \ {arg[t]}
                   [] OTHER -> Present
  BY <1>1, <1>2
<1> QED
  BY <1>1, <1>2, <1>3, <1>4, EffectIs

(* A new item is the effect of its insert.                                   *)
LEMMA LinkCall ==
  ASSUME NEW t \in Threads, Around(t), Link(t)
  PROVE  Abstract!Next
<1>1. /\ Typed /\ Typed' /\ Placing /\ Placing' /\ MapLists /\ Lists /\ Present = KeysIn /\ Present' = KeysIn' /\ Move(t)
  BY AroundTells DEF Around
<1>2. /\ pc[t] = "search" /\ cur[t] = NULL /\ op[t] = "insert" /\ pc'[t] = "release"
      /\ cur'[t] = NULL /\ op'[t] = "insert" /\ arg'[t] = arg[t]
  BY <1>1 DEF Link, Nowhere, Goto, walk, Typed
<1>3. arg[t] \notin Present
  BY <1>1, <1>2, WalkTells DEF MapLists, KeysIn
<1>4. Present' = Present \cup {arg[t]}
  <2>1. PICK x \in Items : LinksItem(t, x)
    BY <1>1, LinkLists
  <2>2. InMap \subseteq Items
    BY <1>1, MapFinite
  <2>3. key'[x] = arg[t] /\ \A y \in InMap : key'[y] = key[y]
    BY <1>1, <2>1, <2>2 DEF LinksItem, Typed
  <2> QED
    BY <1>1, <2>1, <2>3 DEF LinksItem, KeysIn
<1>5. /\ CallOf(t) = Asked(op[t], arg[t], "pending") /\ arg[t] \in Keys /\ op[t] \in Operations
      /\ CallOf(t)' = Asked(op[t], arg[t], "absent")
  BY <1>1, <1>2, CallIs DEF Calling, Answer, CallOf, Asked
<1> QED
  BY <1>1, <1>2, <1>3, <1>4, <1>5, EffectIs

(* And an item unlinked that of its remove.                                  *)
LEMMA UnlinkCall ==
  ASSUME NEW t \in Threads, Around(t), Unlink(t)
  PROVE  Abstract!Next
<1>1. /\ Typed /\ Typed' /\ Placing /\ Placing' /\ MapLists /\ Lists /\ Present = KeysIn /\ Present' = KeysIn' /\ Move(t)
  BY AroundTells DEF Around
<1>2. /\ pc[t] = "search" /\ cur[t] # NULL /\ op[t] = "remove" /\ pc'[t] = "release"
      /\ cur'[t] = cur[t] /\ op'[t] = op[t] /\ arg'[t] = arg[t]
  BY <1>1 DEF Unlink, Here, Goto, walk, Typed
<1>3. /\ cur[t] \in InMap /\ key[cur[t]] = arg[t] /\ key' = key /\ InMap' = InMap \ {cur[t]}
  BY <1>1, UnlinkLists
<1>4. Present' = Present \ {arg[t]} /\ arg[t] \in Present
  <2>1. \A x \in InMap : key[x] = arg[t] => x = cur[t]
    BY <1>1, <1>3 DEF Lists
  <2> QED
    BY <1>1, <1>3, <2>1 DEF KeysIn
<1>5. CallOf(t) = Asked(op[t], arg[t], "pending") /\ arg[t] \in Keys /\ op[t] \in Operations
  <2>1. pc[t] \in Calling /\ Answer(t) = "pending"
    BY <1>2 DEF Calling, Answer
  <2> QED
    BY <1>1, <2>1, CallIs
<1>6. CallOf(t)' = Asked(op[t], arg[t], "found")
  BY <1>2 DEF CallOf, Answer, Asked
<1> QED
  BY <1>1, <1>2, <1>4, <1>5, <1>6, EffectIs

---------------------------------------------------------------------------
(* What the other steps of a thread do to its call.                          *)
LEMMA CallMoves ==
  ASSUME NEW t \in Threads, Around(t), ~Link(t), ~Unlink(t)
  PROVE  \/ CallOf(t)' = CallOf(t)
         \/ Here(t) /\ op[t] # "remove" /\ CallOf(t)' = Asked(op[t], arg[t], "found")
         \/ Nowhere(t) /\ op[t] # "insert" /\ CallOf(t)' = Asked(op[t], arg[t], "absent")
         \/ Enter(t)
         \/ pc[t] = "leave" /\ CallOf(t)' = [op |-> "none"]
<1>0. Typed /\ Placing
  BY AroundTells
<1> USE <1>0 DEF Typed, Goto, walk, CallOf, Answer, Asked
<1>1. CASE LockBucket(t) \/ Advance(t)
  BY <1>1 DEF LockBucket, Advance
<1>2. CASE LockShared(t)
  BY <1>2 DEF LockShared, Here
<1>3. CASE LockValue(t)
  <2>1. /\ pc'[t] = AfterLock[op[t]] /\ op'[t] = op[t] /\ arg'[t] = arg[t] /\ cur'[t] = cur[t] /\ cur[t] # NULL
        /\ (op[t] \in {"insert", "get_mut"} /\ Here(t)) \/ (pc[t] = "reclaim" /\ op[t] = "remove")
    BY <1>3 DEF LockValue, Excludes, Here, Placing, Place
  <2>2. pc'[t] \in {"replace", "release", "take"}
    BY <2>1 DEF AfterLock
  <2> QED
    BY <2>1, <2>2
<1>4. CASE DropOld(t) \/ Write(t) \/ Take(t)
  BY <1>4 DEF DropOld, Write, Take
<1>5. CASE Release(t)
  <2>1. /\ op'[t] = op[t] /\ arg'[t] = arg[t] /\ cur'[t] = cur[t] /\ pc'[t] \in {"count", "reclaim", "leave"}
        /\ pc[t] = "release" \/ (op[t] # "insert" /\ Nowhere(t))
    BY <1>5 DEF Release, Done, AfterRelease
  <2> QED
    BY <2>1 DEF Nowhere
<1>6. CASE Count(t)
  BY <1>6 DEF Count
<1>7. CASE Leave(t) \/ DropGuard(t)
  BY <1>7 DEF Leave, DropGuard, Return
<1>8. CASE Iterate(t) \/ IterNext(t) \/ DropIter(t)
  BY <1>8 DEF Iterate, IterNext, DropIter
<1>9. CASE DropHandle(t) \/ DropItem(t) \/ DropInner(t)
  BY <1>9 DEF DropHandle, DropItem, DropInner, Around
<1>10. CASE \E u \in Threads : Clone(t, u)
  BY <1>10 DEF Clone
<1> QED
  BY <1>1, <1>2, <1>3, <1>4, <1>5, <1>6, <1>7, <1>8, <1>9, <1>10 DEF Around, Move, Proceed, Begin

(* Each step within a handle is a step of ConcurrentMap, or none.             *)
LEMMA AroundStep ==
  ASSUME NEW t \in Threads, Around(t)
  PROVE  [Abstract!Next]_Abstract!vars
<1>1. CASE Link(t) \/ Unlink(t)
  BY <1>1, LinkCall, UnlinkCall
<1>2. CASE ~Link(t) /\ ~Unlink(t)
  <2>1. /\ Typed /\ Typed' /\ Placing /\ Placing' /\ Move(t) /\ Present' = Present
    BY <1>2, AroundTells DEF Around
  <2>2. CASE Enter(t)
    <3>1. PICK o \in Operations, k \in Keys : op' = [op EXCEPT ![t] = o] /\ arg' = [arg EXCEPT ![t] = k]
      BY <2>2 DEF Enter
    <3>2. /\ CallOf(t) = [op |-> "none"] /\ CallOf(t)' = Asked(o, k, "pending")
      BY <2>1, <2>2, <3>1 DEF Enter, Goto, CallOf, Answer, Asked, Typed
    <3> QED
      BY <2>1, <3>2, StartIs
  <2>3. CASE pc[t] = "leave" /\ CallOf(t)' = [op |-> "none"]
    <3>1. Answer(t) # "pending"
      BY <2>3 DEF Answer
    <3>2. CallOf(t) = Asked(op[t], arg[t], Answer(t)) /\ op[t] \in Operations
      <4>1. pc[t] \in Calling
        BY <2>3 DEF Calling
      <4> QED
        BY <2>1, <4>1, CallIs
    <3> QED
      BY <2>1, <2>3, <3>1, <3>2, FinishIs
  <2> QED
    BY <1>2, <2>2, <2>3, CallMoves, QuietCall, FindCall, MissCall
<1> QED
  BY <1>1, <1>2

(* The last handle discards the map; what comes after it is not seen.         *)
LEMMA DropStep ==
  ASSUME FullInv, FullInv', NEW t \in Threads, Move(t), pc[t] = "free" \/ pc'[t] \in {"none", "free"}
  PROVE  [Abstract!Next]_Abstract!vars
<1>1. Typed /\ Placing /\ Handles /\ Handles'
  BY DEF FullInv, MapInv
<1>2. /\ pc[t] \in {"idle", "free"} /\ pc'[t] \in {"none", "free"}
      /\ (pc[t] = "idle" /\ DropHandle(t)) \/ (pc[t] = "free" /\ UNCHANGED ref_count)
  BY <1>1, OwnSteps DEF DropHandle, DropItem, DropInner, Clone, Goto, counts, Typed
<1>3. CallOf(t) = [op |-> "none"] /\ CallOf(t)' = CallOf(t)
  BY <1>2 DEF CallOf
<1>4. CASE pc[t] = "free"
  <2>1. Owners = {}
    BY <1>1, <1>4 DEF Owners, Handles
  <2>2. ref_count = 0 /\ ref_count' = 0
    BY <1>1, <1>2, <1>4, <2>1, FS_EmptySet DEF Handles
  <2>3. Present' = Present
    BY <2>2 DEF Present
  <2> QED
    BY <1>1, <1>3, <2>3, StutterIs
<1>5. CASE DropHandle(t)
  <2>1. /\ ref_count' = ref_count - 1 /\ ref_count \in Nat /\ ref_count # 0 /\ UNCHANGED <<head, next, key>>
        /\ pc'[t] = "none" <=> ref_count # 1
    <3>1. t \in Owners
      BY <1>5 DEF DropHandle, Goto, Owners
    <3>2. ref_count \in Nat /\ ref_count # 0
      BY <1>1, <3>1, OwnersFinite, FS_EmptySet DEF Handles
    <3> QED
      BY <1>1, <1>5, <3>2 DEF DropHandle, Goto, items, Typed
  <2>2. KeysIn' = KeysIn
    <3>1. \A b \in Buckets : List(b)' = List(b)
      BY <2>1 DEF List
    <3>2. \A b \in Buckets : InList(b)' = InList(b)
      BY <3>1 DEF InList
    <3> QED
      BY <2>1, <3>2 DEF KeysIn, InMap
  <2>3. CASE ref_count # 1
    <3>1. Present' = Present
      BY <2>1, <2>2, <2>3 DEF Present
    <3> QED
      BY <1>1, <1>3, <3>1, StutterIs
  <2>4. CASE ref_count = 1
    <3>1. \A u \in Threads \ {t} : pc[u] = "none"
      <4>1. t \in Owners /\ Cardinality(Owners) = 1
        BY <1>1, <1>5, <2>4 DEF DropHandle, Goto, Owners, Handles
      <4>2. Owners = {t}
        BY <4>1, OwnersFinite, FS_Singleton
      <4> QED
        BY <1>1, <1>5, <4>2 DEF Owners, Handles, DropHandle, Goto
    <3>2. \A u \in Threads : CallOf(u) = [op |-> "none"]
      BY <1>3, <3>1 DEF CallOf
    <3>3. Calls' = Calls /\ \A u \in Threads : Calls[u] = [op |-> "none"]
      BY <1>1, <1>3, <3>2, CallsStep DEF Calls
    <3>4. Present' = {}
      BY <2>1, <2>4 DEF Present
    <3>5. Abstract!Discard
      BY <3>3, <3>4 DEF Abstract!Discard, Abstract!NoCall, Calls, Present, KeysIn
    <3> QED
      BY <3>5 DEF Abstract!Next
  <2> QED
    BY <2>3, <2>4
<1> QED
  BY <1>2, <1>4, <1>5

(* Every call on the map takes effect in one step, on one key, and answers for  *)
(* that step, for any number of threads, items, keys and buckets: AtomicHashMap *)
(* implements ConcurrentMap.                                               *)
THEOREM ImplementsConcurrentMap == Spec => Refines
<1>1. Init => Abstract!Init
  <2>1. SUFFICES ASSUME Init PROVE Abstract!Init
    OBVIOUS
  <2>2. /\ FullInv /\ live = {} /\ ref_count = 1 /\ \A t \in Threads : pc[t] \in {"idle", "none"}
    BY <2>1, FullInvInit DEF Init
  <2>3. InMap = {}
    <3>1. \E t \in Threads : pc[t] = "idle"
      BY <2>1 DEF Init
    <3>2. MapLists /\ Typed
      BY <2>2, <3>1, OwnerIntact DEF FullInv, MapInv, Contents
    <3>3. InMap \subseteq Items
      BY <3>2, MapFinite DEF MapLists
    <3> QED
      BY <2>2, <3>2, <3>3 DEF MapLists, Removals
  <2>4. Present = {} /\ \A t \in Threads : CallOf(t) = [op |-> "none"]
    BY <2>2, <2>3 DEF Present, KeysIn, CallOf
  <2> QED
    BY <2>4 DEF Abstract!Init, Abstract!NoCall, Present, KeysIn
<1>2. FullInv /\ FullInv' /\ [Next]_vars => [Abstract!Next]_Abstract!vars
  <2>1. SUFFICES ASSUME FullInv, FullInv', [Next]_vars PROVE [Abstract!Next]_Abstract!vars
    OBVIOUS
  <2>2. ASSUME NEW t \in Threads, Move(t) PROVE [Abstract!Next]_Abstract!vars
    <3>1. CASE pc[t] = "free" \/ pc'[t] \in {"none", "free"}
      BY <2>1, <2>2, <3>1, DropStep
    <3>2. CASE pc[t] \notin {"none", "free"} /\ pc'[t] \notin {"none", "free"}
      BY <2>1, <2>2, <3>2, AroundStep DEF Around
    <3>3. pc[t] # "none"
      BY <2>1, <2>2, OwnSteps DEF FullInv, MapInv, Clone, DropHandle, DropItem, DropInner, Goto
    <3> QED
      BY <3>1, <3>2, <3>3
  <2>3. CASE UNCHANGED vars
    <3>1. UNCHANGED <<head, next, key, ref_count, pc, op, arg, cur>>
      BY <2>3 DEF vars, counts, items, walk
    <3>2. \A b \in Buckets : List(b)' = List(b)
      BY <3>1 DEF List
    <3>3. \A b \in Buckets : InList(b)' = InList(b)
      BY <3>2 DEF InList
    <3>4. Present' = Present
      BY <3>1, <3>3 DEF Present, KeysIn, InMap
    <3>5. Calls' = Calls
      <4>1. \A t \in Threads : CallOf(t)' = CallOf(t)
        BY <3>1 DEF CallOf, Answer
      <4> QED
        BY <4>1 DEF Calls
    <3> QED
      BY <3>4, <3>5 DEF Abstract!vars, Calls, Present, KeysIn
  <2> QED
    BY <2>1, <2>2, <2>3 DEF Next, Gone, Move
<1> QED
  BY <1>1, <1>2, MapCorrect, PTL DEF Spec, Refines, Abstract!Spec
=============================================================================
