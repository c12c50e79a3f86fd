------------------------ MODULE AtomicVecRefinement ------------------------
(* What AtomicVec is to its users, for any number of threads and items: it    *)
(* implements PocketQueue, and its order is that of the pushes, bent once.    *)
EXTENDS AtomicVecProofs, AtomicVecOrder

(* What the owner of the lock, if there is one, makes of the queue.          *)
Taken == {"link", "count", "swap", "unlink"}
Flushed == {"relink", "recount", "unlock"}

(* The queue when t owns the lock.                                         *)
OwnedQueue(t) ==
  CASE pc[t] = "link" -> Append(List, cur[t])
    [] pc[t] = "relink" -> Append(List, moved[t])
    [] pc[t] = "unlink" -> IF List = <<>> THEN <<>> ELSE Tail(List)
    [] OTHER -> List

View ==
  /\ (\A t \in Threads : pc[t] \notin Owning) =>
       /\ AbstractPhase = "free"
       /\ AbstractQueue = IF ref_count = 0 THEN <<>> ELSE List
  /\ \A t \in Threads : pc[t] \in Owning =>
       /\ AbstractPhase = IF pc[t] \in Taken THEN "taken" ELSE "flushed"
       /\ ref_count # 0 => AbstractQueue = OwnedQueue(t)

(* The owner of the lock is the one AbstractQueue and AbstractPhase look at.  *)
LEMMA ViewIs == LockExclusive => View
<1> SUFFICES ASSUME LockExclusive PROVE View
  OBVIOUS
<1>1. ASSUME \A t \in Threads : pc[t] \notin Owning
      PROVE  /\ AbstractPhase = "free"
             /\ AbstractQueue = IF ref_count = 0 THEN <<>> ELSE List
  <2>1. ~Waiting
    BY <1>1 DEF Waiting, Owning
  <2>2. AbstractQueue = IF ref_count = 0 THEN <<>> ELSE List
    BY <2>1 DEF AbstractQueue
  <2>3. AbstractPhase = "free"
    BY <1>1 DEF AbstractPhase, Owning
  <2> QED
    BY <2>2, <2>3
<1>2. ASSUME NEW t \in Threads, pc[t] \in Owning
      PROVE  /\ AbstractPhase = IF pc[t] \in Taken THEN "taken" ELSE "flushed"
             /\ ref_count # 0 => AbstractQueue = OwnedQueue(t)
  <2>1. \A u \in Threads : pc[u] \in Owning => u = t
    BY <1>2 DEF LockExclusive
  <2>2. AbstractPhase = IF pc[t] \in Taken THEN "taken" ELSE "flushed"
    BY <1>2, <2>1 DEF AbstractPhase, Owning, Taken
  <2>3. CASE pc[t] \in {"link", "relink", "unlink"}
    <3>1. Waiting
      BY <2>3 DEF Waiting
    <3>2. Worker = t
      BY <2>1, <2>3 DEF Worker, Owning
    <3> QED
      BY <2>2, <2>3, <3>1, <3>2 DEF AbstractQueue, OwnedQueue
  <2>4. CASE pc[t] \notin {"link", "relink", "unlink"}
    <3>1. ~Waiting
      BY <2>1, <2>4 DEF Waiting, Owning
    <3> QED
      BY <2>2, <2>4, <3>1 DEF AbstractQueue, OwnedQueue
  <2> QED
    BY <2>3, <2>4
<1> QED
  BY <1>1, <1>2 DEF View

(* The same after a step.                                                  *)
LEMMA NextViewIs == LockExclusive' => View'
BY ViewIs, PTL

(* A step of the others leaves the queue to its owner.                      *)
LEMMA OthersKeep ==
  ASSUME LockExclusive, LockExclusive', ref_count # 0, ref_count' # 0, List' = List,
         \A u \in Threads : pc[u] \in Owning \/ pc'[u] \in Owning =>
           pc'[u] = pc[u] /\ cur'[u] = cur[u] /\ moved'[u] = moved[u]
  PROVE  AbstractQueue' = AbstractQueue /\ AbstractPhase' = AbstractPhase
<1>1. CASE \A u \in Threads : pc[u] \notin Owning
  <2>1. \A u \in Threads : pc'[u] \notin Owning
    BY <1>1
  <2> QED
    BY <1>1, <2>1, ViewIs, NextViewIs DEF View
<1>2. CASE \E u \in Threads : pc[u] \in Owning
  <2>1. PICK u \in Threads : pc[u] \in Owning
    BY <1>2
  <2>2. OwnedQueue(u)' = OwnedQueue(u) /\ pc'[u] = pc[u]
    BY <2>1 DEF OwnedQueue
  <2> QED
    BY <2>1, <2>2, ViewIs, NextViewIs DEF View
<1> QED
  BY <1>1, <1>2

---------------------------------------------------------------------------
(* The state of PocketQueue, as AtomicVecProperties maps it.                *)
Queue == [k \in {"vec"} |-> AbstractQueue]
Pockets == [k \in {"vec"} |-> IF ref_count = 0 THEN NULL ELSE t_tail]
Phases == [k \in {"vec"} |-> AbstractPhase]

(* What one step of PocketQueue is, on its one list.                        *)
LEMMA QueueSteps ==
  /\ \A x \in Items :
       (Pockets["vec"] = NULL /\ Pockets'["vec"] = x /\ UNCHANGED <<AbstractQueue, AbstractPhase>>)
         => Abstract!Next
  /\ \A x \in Items :
       (/\ AbstractPhase = "free" /\ AbstractPhase' = "taken"
        /\ AbstractQueue' = Append(AbstractQueue, x) /\ UNCHANGED Pockets)
         => Abstract!Next
  /\ (/\ AbstractPhase = "free" /\ AbstractPhase' = "taken" /\ UNCHANGED Pockets
      /\ AbstractQueue' = IF AbstractQueue = <<>> THEN <<>> ELSE Tail(AbstractQueue))
         => Abstract!Next
  /\ (/\ AbstractPhase = "taken" /\ AbstractPhase' = "flushed" /\ Pockets'["vec"] = NULL
      /\ AbstractQueue' = IF Pockets["vec"] = NULL THEN AbstractQueue
                          ELSE Append(AbstractQueue, Pockets["vec"]))
         => Abstract!Next
  /\ (AbstractPhase = "flushed" /\ AbstractPhase' = "free" /\ UNCHANGED <<AbstractQueue, Pockets>>)
         => Abstract!Next
  /\ (/\ AbstractPhase = "free" /\ AbstractPhase' = "free"
      /\ AbstractQueue' = <<>> /\ Pockets'["vec"] = NULL)
         => Abstract!Next
BY DEF Abstract!Next, Abstract!Pocket, Abstract!Enqueue, Abstract!Dequeue, Abstract!FindEmpty,
       Abstract!Flush, Abstract!Unlock, Abstract!Discard, Pockets

---------------------------------------------------------------------------
RefInv == VecInv /\ LockExclusive /\ HandlesCounted

(* A thread inside a call has a handle.                                     *)
LEMMA HandleLeft ==
  HandlesCounted => \A t \in Threads : pc[t] \notin {"none", "free"} => ref_count # 0
<1> SUFFICES ASSUME HandlesCounted, NEW t \in Threads, pc[t] \notin {"none", "free"}
             PROVE  ref_count # 0
  OBVIOUS
<1>1. t \in Held /\ ref_count = Cardinality(Held)
  BY DEF Held, HandlesCounted
<1> QED
  BY <1>1, HeldFinite, FS_EmptySet

(* And after a step.                                                       *)
LEMMA NextHandleLeft ==
  HandlesCounted' => \A t \in Threads : pc'[t] \notin {"none", "free"} => ref_count' # 0
<1> DEFINE I == \A t \in Threads : pc[t] \notin {"none", "free"} => ref_count # 0
<1>1. HandlesCounted => I
  BY HandleLeft
<1> HIDE DEF I
<1>2. HandlesCounted' => I'
  BY <1>1, PTL
<1> QED
  BY <1>2 DEF I

(* The steps outside the lock, while a handle is left.                      *)
LEMMA OutsideMaps ==
  ASSUME RefInv, RefInv', NEW t \in Threads,
         \/ PushPeek(t) \/ PushStash(t) \/ PushStashFull(t) \/ PopTake(t) \/ PopUncount(t)
         \/ (\E u \in Threads : Clone(t, u)) \/ (DropHandle(t) /\ ref_count # 1)
  PROVE  Abstract!Next \/ UNCHANGED <<Queue, Pockets, Phases>>
<1> USE DEF RefInv
<1>1. Step(t) /\ pc \in [Threads -> Locations] /\ cur \in [Threads -> Ptr]
  BY DEF Step, VecInv, Typed
<1>2. pc[t] \notin Owning \cup {"none", "free"}
  BY DEF PushPeek, PushStash, PushStashFull, PopTake, PopUncount, Clone, DropHandle, Goto, Owning
<1>3. ref_count # 0 /\ inner
  BY <1>2, HandleLeft, NobodyFrees
<1>4. ref_count' # 0 /\ inner' /\ ~Freeing'
  <2>1. CASE DropHandle(t) /\ ref_count # 1
    <3>1. /\ ref_count' = ref_count - 1 /\ inner' = inner
          /\ pc' = [pc EXCEPT ![t] = "none"]
      BY <2>1 DEF DropHandle, Goto, heap
    <3>2. ref_count \in Nat
      BY HeldFinite DEF HandlesCounted, Held
    <3>3. ~Freeing'
      BY <1>1, <1>2, <3>1, NobodyFrees DEF Freeing
    <3> QED
      BY <1>3, <2>1, <3>1, <3>2, <3>3
  <2>2. CASE ~ (DropHandle(t) /\ ref_count # 1)
    <3>1. pc'[t] \notin {"none", "free"}
      BY <1>1, <2>2 DEF PushPeek, PushStash, PushStashFull, PopTake, PopUncount, Clone, Goto
    <3> QED
      BY <3>1, NextHandleLeft, NextNobodyFrees
  <2> QED
    BY <2>1, <2>2
<1>5. List' = List
  <2>1. ListMoves(t)
    BY <1>1, <1>4, ListStep DEF VecInv
  <2> QED
    BY <1>2, <2>1 DEF ListMoves, Owning
<1>6. \A u \in Threads : pc[u] \in Owning \/ pc'[u] \in Owning =>
        pc'[u] = pc[u] /\ cur'[u] = cur[u] /\ moved'[u] = moved[u]
  <2>1. CASE PushPeek(t) \/ PushStash(t)
    BY <1>1, <2>1 DEF PushPeek, PushStash, Goto, Owning
  <2>2. CASE PushStashFull(t) \/ PopTake(t) \/ PopUncount(t)
    BY <1>1, <2>2 DEF PushStashFull, PopTake, PopUncount, Goto, Owning
  <2>3. CASE \E u \in Threads : Clone(t, u)
    <3>1. PICK v \in Threads : pc[v] = "none" /\ pc' = [pc EXCEPT ![v] = "idle"]
      BY <2>3 DEF Clone, Goto
    <3>2. UNCHANGED <<cur, moved>>
      BY <2>3 DEF Clone
    <3> QED
      BY <1>1, <3>1, <3>2 DEF Owning
  <2>4. CASE DropHandle(t) /\ ref_count # 1
    BY <1>1, <2>4 DEF DropHandle, Goto, Owning
  <2> QED
    BY <2>1, <2>2, <2>3, <2>4
<1>7. AbstractQueue' = AbstractQueue /\ AbstractPhase' = AbstractPhase
  BY <1>3, <1>4, <1>5, <1>6, OthersKeep
<1>8. CASE PushStash(t)
  <2>1. pc[t] = "stash" /\ t_tail = NULL /\ t_tail' = cur[t]
    BY <1>8 DEF PushStash, Goto
  <2>2. cur[t] \in Items
    BY <1>1, <2>1 DEF VecInv, HandsTell, Ptr
  <2>3. Pockets["vec"] = NULL /\ Pockets'["vec"] = cur[t]
    BY <1>3, <1>4, <2>1 DEF Pockets
  <2> QED
    BY <1>7, <2>2, <2>3, QueueSteps
<1>9. CASE ~ PushStash(t)
  <2>1. t_tail' = t_tail
    BY <1>9 DEF PushPeek, PushStashFull, PopTake, PopUncount, Clone, DropHandle, fields
  <2> QED
    BY <1>3, <1>4, <1>7, <2>1 DEF Queue, Pockets, Phases
<1> QED
  BY <1>8, <1>9

(* The steps of the owner, and those that make and unmake one.              *)
LEMMA OwnerMaps ==
  ASSUME RefInv, RefInv', NEW t \in Threads,
         \/ PushLock(t) \/ PushLink(t) \/ PushCount(t) \/ ReleaseSwap(t) \/ ReleaseLink(t)
         \/ ReleaseCount(t) \/ ReleaseStore(t) \/ PopLock(t) \/ PopUnlink(t)
  PROVE  Abstract!Next \/ UNCHANGED <<Queue, Pockets, Phases>>
<1> USE DEF RefInv
<1>1. /\ Step(t) /\ pc \in [Threads -> Locations] /\ cur \in [Threads -> Ptr]
      /\ moved \in [Threads -> Ptr]
  BY DEF Step, VecInv, Typed
<1>2. pc[t] \notin {"none", "free"} /\ pc'[t] \notin {"none", "free"}
  BY <1>1 DEF PushLock, PushLink, PushCount, ReleaseSwap, ReleaseLink, ReleaseCount, ReleaseStore,
     PopLock, Lock, PopUnlink, Goto
<1>3. ref_count # 0 /\ ref_count' # 0 /\ inner' /\ ~Freeing' /\ Front = head
  BY <1>2, HandleLeft, NextHandleLeft, NextNobodyFrees, NobodyFrees
<1>4. ListMoves(t)
  BY <1>1, <1>3, ListStep DEF VecInv
<1>5. View /\ View'
  BY ViewIs, NextViewIs
<1>6. head = NULL <=> List = <<>>
  BY <1>3, FrontInList
<1>7. Pockets["vec"] = t_tail /\ Pockets'["vec"] = t_tail' /\ (t_tail' = t_tail => Pockets' = Pockets)
  BY <1>3 DEF Pockets
<1>8. ASSUME pc[t] \in Owning
      PROVE  /\ AbstractPhase = IF pc[t] \in Taken THEN "taken" ELSE "flushed"
             /\ AbstractQueue = OwnedQueue(t)
  BY <1>3, <1>5, <1>8 DEF View
<1>9. ASSUME pc'[t] \in Owning
      PROVE  /\ AbstractPhase' = IF pc'[t] \in Taken THEN "taken" ELSE "flushed"
             /\ AbstractQueue' = OwnedQueue(t)'
  BY <1>3, <1>5, <1>9 DEF View
<1>10. CASE PushLock(t) \/ PopLock(t)
  <2>1. /\ state = AVAILABLE /\ pc[t] \in {"pushLock", "idle"} /\ UNCHANGED <<t_tail, cur>>
        /\ pc' = [pc EXCEPT ![t] = IF pc[t] = "pushLock" THEN "link" ELSE "unlink"]
    BY <1>10 DEF PushLock, PopLock, Lock, Goto
  <2>2. \A u \in Threads : pc[u] \notin Owning
    BY <2>1 DEF LockExclusive, AVAILABLE, UPDATING
  <2>3. AbstractPhase = "free" /\ AbstractQueue = List
    BY <1>3, <1>5, <2>2 DEF View
  <2>4. List' = List
    BY <1>4, <2>1 DEF ListMoves
  <2>5. pc'[t] = (IF pc[t] = "pushLock" THEN "link" ELSE "unlink") /\ cur'[t] = cur[t]
    BY <1>1, <2>1
  <2>6. AbstractPhase' = "taken" /\ AbstractQueue' = OwnedQueue(t)'
    BY <1>9, <2>5 DEF Owning, Taken
  <2>7. CASE pc[t] = "pushLock"
    <3>1. AbstractQueue' = Append(List, cur[t])
      BY <2>4, <2>5, <2>6, <2>7 DEF OwnedQueue
    <3>2. cur[t] \in Items
      BY <1>1, <2>7 DEF VecInv, HandsTell, Ptr
    <3> QED
      BY <1>7, <2>1, <2>3, <2>6, <3>1, <3>2, QueueSteps
  <2>8. CASE pc[t] # "pushLock"
    <3>1. AbstractQueue' = IF List = <<>> THEN <<>> ELSE Tail(List)
      BY <2>4, <2>5, <2>6, <2>8 DEF OwnedQueue
    <3> QED
      BY <1>7, <2>1, <2>3, <2>6, <3>1, QueueSteps
  <2> QED
    BY <2>7, <2>8
<1>11. CASE PushLink(t) \/ ReleaseLink(t) \/ PopUnlink(t) \/ PushCount(t) \/ ReleaseCount(t)
  <2>1. t_tail' = t_tail
    BY <1>11 DEF PushLink, ReleaseLink, PopUnlink, PushCount, ReleaseCount
  <2>2. AbstractQueue' = AbstractQueue /\ AbstractPhase' = AbstractPhase
    <3>1. CASE PushLink(t)
      <4>1. pc[t] = "link" /\ pc'[t] = "count" /\ List' = Append(List, cur[t])
        BY <1>1, <1>4, <3>1 DEF PushLink, Goto, ListMoves
      <4> QED
        BY <1>8, <1>9, <4>1 DEF OwnedQueue, Owning, Taken
    <3>2. CASE ReleaseLink(t)
      <4>1. pc[t] = "relink" /\ pc'[t] = "recount" /\ List' = Append(List, moved[t])
        BY <1>1, <1>4, <3>2 DEF ReleaseLink, Goto, ListMoves
      <4> QED
        BY <1>8, <1>9, <4>1 DEF OwnedQueue, Owning, Taken
    <3>3. CASE PopUnlink(t)
      <4>1. pc[t] = "unlink" /\ pc'[t] = "swap" /\ List' = IF head = NULL THEN List ELSE Tail(List)
        BY <1>1, <1>4, <3>3 DEF PopUnlink, Goto, ListMoves
      <4> QED
        BY <1>6, <1>8, <1>9, <4>1 DEF OwnedQueue, Owning, Taken
    <3>4. CASE PushCount(t)
      <4>1. pc[t] = "count" /\ pc'[t] = "swap" /\ List' = List
        BY <1>1, <1>4, <3>4 DEF PushCount, Goto, ListMoves
      <4> QED
        BY <1>8, <1>9, <4>1 DEF OwnedQueue, Owning, Taken
    <3>5. CASE ReleaseCount(t)
      <4>1. pc[t] = "recount" /\ pc'[t] = "unlock" /\ List' = List
        BY <1>1, <1>4, <3>5 DEF ReleaseCount, Goto, ListMoves
      <4> QED
        BY <1>8, <1>9, <4>1 DEF OwnedQueue, Owning, Taken
    <3> QED
      BY <1>11, <3>1, <3>2, <3>3, <3>4, <3>5
  <2> QED
    BY <1>7, <2>1, <2>2 DEF Queue, Phases
<1>12. CASE ReleaseSwap(t)
  <2>1. /\ pc[t] = "swap" /\ t_tail' = NULL /\ moved' = [moved EXCEPT ![t] = t_tail]
        /\ pc'[t] = IF t_tail = NULL THEN "unlock" ELSE "relink"
    BY <1>1, <1>12 DEF ReleaseSwap, Goto
  <2>2. List' = List /\ moved'[t] = t_tail
    BY <1>1, <1>4, <2>1 DEF ListMoves
  <2>3. AbstractPhase = "taken" /\ AbstractQueue = List
    BY <1>8, <2>1 DEF OwnedQueue, Owning, Taken
  <2>4. /\ AbstractPhase' = "flushed"
        /\ AbstractQueue' = IF t_tail = NULL THEN List ELSE Append(List, t_tail)
    BY <1>9, <2>1, <2>2 DEF OwnedQueue, Owning, Taken
  <2> QED
    BY <1>7, <2>1, <2>3, <2>4, QueueSteps
<1>13. CASE ReleaseStore(t)
  <2>1. pc[t] = "unlock" /\ state' = AVAILABLE /\ t_tail' = t_tail
    BY <1>13 DEF ReleaseStore, Goto
  <2>2. List' = List
    BY <1>4, <2>1 DEF ListMoves
  <2>3. AbstractPhase = "flushed" /\ AbstractQueue = List
    BY <1>8, <2>1 DEF OwnedQueue, Owning, Taken
  <2>4. \A u \in Threads : pc'[u] \notin Owning
    BY <2>1 DEF LockExclusive, AVAILABLE, UPDATING
  <2>5. AbstractPhase' = "free" /\ AbstractQueue' = List
    BY <1>3, <1>5, <2>2, <2>4 DEF View
  <2> QED
    BY <1>7, <2>1, <2>3, <2>5, QueueSteps
<1> QED
  BY <1>10, <1>11, <1>12, <1>13

(* The last drop, which nobody sees the steps of.                           *)
LEMMA LastDropMaps ==
  ASSUME RefInv, RefInv', NEW t \in Threads,
         (DropHandle(t) /\ ref_count = 1) \/ DropItem(t) \/ DropInner(t)
  PROVE  Abstract!Next \/ UNCHANGED <<Queue, Pockets, Phases>>
<1> USE DEF RefInv
<1>1. View /\ View'
  BY ViewIs, NextViewIs
<1>2. pc \in [Threads -> Locations]
  BY DEF VecInv, Typed
<1>3. CASE DropHandle(t) /\ ref_count = 1
  <2>1. /\ pc[t] = "idle" /\ ref_count' = 0 /\ pc'[t] = "free"
        /\ pc' = [pc EXCEPT ![t] = "free"]
    BY <1>2, <1>3 DEF DropHandle, Goto
  <2>2. \A u \in Threads \ {t} : pc'[u] = "none"
    BY <2>1 DEF HandlesCounted
  <2>3. \A u \in Threads : pc[u] \notin Owning /\ pc'[u] \notin Owning
    BY <1>2, <2>1, <2>2 DEF Owning
  <2>4. /\ AbstractPhase = "free" /\ AbstractPhase' = "free"
        /\ AbstractQueue' = <<>> /\ Pockets'["vec"] = NULL
    BY <1>1, <2>1, <2>3 DEF View, Pockets
  <2> QED
    BY <2>4, QueueSteps
<1>4. CASE DropItem(t) \/ DropInner(t)
  <2>1. /\ pc[t] = "free" /\ ref_count' = ref_count /\ t_tail' = t_tail
        /\ \A u \in Threads : pc'[u] = pc[u] \/ pc'[u] = "none"
    BY <1>2, <1>4 DEF DropItem, DropInner, Goto, fields
  <2>2. \A u \in Threads \ {t} : pc[u] = "none"
    BY <2>1 DEF HandlesCounted
  <2>3. ref_count = 0
    <3>1. Held = {}
      BY <2>1, <2>2 DEF Held
    <3> QED
      BY <3>1, FS_EmptySet DEF HandlesCounted, Held
  <2>4. \A u \in Threads : pc[u] \notin Owning /\ pc'[u] \notin Owning
    BY <2>1, <2>2 DEF Owning
  <2>5. /\ AbstractPhase = "free" /\ AbstractPhase' = "free"
        /\ AbstractQueue = <<>> /\ AbstractQueue' = <<>>
    BY <1>1, <2>1, <2>3, <2>4 DEF View
  <2> QED
    BY <2>1, <2>3, <2>5 DEF Queue, Pockets, Phases
<1> QED
  BY <1>3, <1>4

(* Every step of AtomicVec is one of PocketQueue, or none.                  *)
LEMMA VecStepMaps ==
  RefInv /\ RefInv' /\ [Next]_vars => [Abstract!Next]_<<Queue, Pockets, Phases>>
<1> SUFFICES ASSUME RefInv, RefInv', [Next]_vars
             PROVE  Abstract!Next \/ UNCHANGED <<Queue, Pockets, Phases>>
  OBVIOUS
<1>1. ASSUME NEW t \in Threads, Step(t)
      PROVE  Abstract!Next \/ UNCHANGED <<Queue, Pockets, Phases>>
  BY <1>1, OutsideMaps, OwnerMaps, LastDropMaps DEF Step
<1>2. CASE UNCHANGED vars
  <2>1. UNCHANGED <<head, t_tail, next, ref_count, inner, pc, cur, moved>>
    BY <1>2 DEF vars, fields, heap, local
  <2>2. List' = List
    BY <2>1 DEF List, Front
  <2>3. AbstractQueue' = AbstractQueue /\ AbstractPhase' = AbstractPhase
    BY <2>1, <2>2 DEF AbstractQueue, AbstractPhase, Waiting, Worker
  <2> QED
    BY <2>1, <2>3 DEF Queue, Pockets, Phases
<1> QED
  BY <1>1, <1>2 DEF Next, Gone

(* For any number of threads and items, AtomicVec is a FIFO queue with a      *)
(* pocket: its pushes, its pops and the emptying of t_tail each take effect in *)
(* one step, in the order PocketQueue allows.                                *)
THEOREM ImplementsPocketQueue == Spec => Refines
<1>1. Init => Abstract!Init
  <2>1. SUFFICES ASSUME Init PROVE Abstract!Init
    OBVIOUS
  <2>2. \A t \in Threads : pc[t] \in {"idle", "none"}
    BY <2>1 DEF Init
  <2>3. List = <<>>
    <3>1. Front = NULL
      BY <2>1, <2>2 DEF Init, Front
    <3> QED
      BY <2>1, <3>1, VecInvInit, FrontInList
  <2>4. AbstractQueue = <<>> /\ AbstractPhase = "free"
    BY <2>2, <2>3 DEF AbstractQueue, AbstractPhase, Waiting
  <2> QED
    BY <2>1, <2>4 DEF Abstract!Init, Init
<1>2. RefInv /\ RefInv' /\ [Next]_vars => [Abstract!Next]_<<Queue, Pockets, Phases>>
  BY VecStepMaps
<1> QED
  BY <1>1, <1>2, VecCorrect, PTL
  DEF Spec, Refines, Abstract!Spec, Abstract!vars, RefInv, Queue, Pockets, Phases

---------------------------------------------------------------------------
(* The order of the list.                                                  *)
OrderTyped ==
  /\ pushed \subseteq Items
  /\ before \in [Items -> SUBSET Items]
  /\ overtaken \in [Items -> Nat]

Earlier == \A x \in Items : before[x] \subseteq pushed

(* The items in the hands of an owner that took them out of t_tail.         *)
Stashed == {moved[t] : t \in Threads} \ {NULL}

(* What was pushed before such an item is on the list by now.               *)
MovedOrder == \A t \in Threads : moved[t] # NULL => before[moved[t]] \subseteq InList

(* An item whose push has returned is on the list or on its way from t_tail;  *)
(* what is on the list has overtaken it, once, if it was pushed later.        *)
PushedWhere == pushed \subseteq InList \cup {t_tail} \cup Stashed
LinkedAfter == \A w \in InList : \A z \in before[w] \ InList : overtaken[z] = 1
FreshHands == \A t \in Threads : pc[t] \in {"stash", "pushLock", "link"} => overtaken[cur[t]] = 0

(* The item in t_tail comes after everything else that is on its way, and the *)
(* owner that has overtaken it is about to take it.                          *)
PocketOrder ==
  t_tail # NULL =>
    /\ before[t_tail] \subseteq InList \cup Stashed
    /\ \/ overtaken[t_tail] = 0
       \/ overtaken[t_tail] = 1 /\ \E u \in Threads : pc[u] \in {"count", "swap"}

OrderInv ==
  /\ OrderTyped /\ Earlier /\ MovedOrder /\ ListOrder
  /\ inner /\ ~Freeing => PushedWhere /\ LinkedAfter /\ FreshHands /\ PocketOrder

(* The list keeps its order when items are taken off its front, or off it.    *)
LEMMA OrderOfRest ==
  ASSUME OrderTyped, ListOrder, UNCHANGED orderVars, VecInv, VecInv', List' = List \/ (List # <<>> /\ List' = Tail(List))
  PROVE  ListOrder'
<1>1. List \in Seq(Items) /\ List' \in Seq(Items)
  BY DEF VecInv, ListInv, IsList, Typed
<1>2. CASE List' = List
  BY <1>2 DEF ListOrder, orderVars
<1>3. CASE List # <<>> /\ List' = Tail(List)
  <2>1. /\ DOMAIN List = 1 .. Len(List) /\ DOMAIN List' = 1 .. Len(List) - 1 /\ Len(List) \in Nat
        /\ \A i \in 1 .. Len(List) - 1 : List'[i] = List[i + 1]
    BY <1>1, <1>3, HeadTailProperties
  <2>2. ASSUME NEW i \in DOMAIN List', NEW j \in DOMAIN List', i < j, List'[j] \in before[List'[i]]
        PROVE  overtaken[List'[j]] = 1
    <3>1. i + 1 \in DOMAIN List /\ j + 1 \in DOMAIN List /\ i + 1 < j + 1
      BY <2>1, <2>2
    <3>2. List'[i] = List[i + 1] /\ List'[j] = List[j + 1]
      BY <2>1
    <3> QED
      BY <2>2, <3>1, <3>2 DEF ListOrder
  <2> QED
    BY <2>2 DEF ListOrder, orderVars
<1> QED
  BY <1>2, <1>3

(* A step that leaves nobody to push or pop.                                *)
LEMMA LastOrder ==
  ASSUME RefInv, RefInv', OrderInv, UNCHANGED orderVars, NEW t \in Threads,
         (DropHandle(t) /\ ref_count = 1) \/ DropItem(t) \/ DropInner(t)
  PROVE  OrderInv'
<1> USE DEF RefInv
<1>1. pc \in [Threads -> Locations] /\ cur \in [Threads -> Ptr] /\ next \in [Items -> Ptr] /\ (next \in [Items -> Ptr])'
  BY DEF VecInv, Typed
<1>2. ~ (inner' /\ ~Freeing')
  <2>1. CASE (DropHandle(t) /\ ref_count = 1) \/ DropItem(t)
    BY <1>1, <2>1 DEF DropHandle, DropItem, Goto, Freeing
  <2>2. CASE DropInner(t)
    BY <2>2 DEF DropInner
  <2> QED
    BY <2>1, <2>2
<1>3. \A u \in Threads : moved'[u] = NULL
  <2>1. moved' = moved /\ pc[t] \in {"idle", "free"} /\ \A u \in Threads \ {t} : pc'[u] = pc[u]
    BY <1>1 DEF DropHandle, DropItem, DropInner, Goto
  <2>2. \A u \in Threads \ {t} : pc'[u] = "none"
    <3>1. CASE DropHandle(t) /\ ref_count = 1
      BY <1>1, <3>1 DEF DropHandle, Goto, HandlesCounted
    <3>2. CASE DropItem(t) \/ DropInner(t)
      BY <2>1, <3>2 DEF DropItem, DropInner, Goto, HandlesCounted
    <3> QED
      BY <3>1, <3>2
  <2> QED
    BY <2>1, <2>2 DEF VecInv, HandsTell
<1>4. List' = List \/ (List # <<>> /\ List' = Tail(List))
  <2>1. CASE DropHandle(t) /\ ref_count = 1
    <3>1. pc[t] = "idle" /\ pc'[t] = "free" /\ cur'[t] = head /\ next' = next
      BY <1>1, <2>1 DEF DropHandle, Goto, links
    <3>2. Front = head /\ Front' = cur'[t]
      BY <3>1, NobodyFrees, NextFrontIs DEF FrontTells
    <3> QED
      BY <3>1, <3>2 DEF List
  <2>2. CASE DropItem(t)
    <3>1. pc[t] = "free" /\ pc' = pc /\ cur[t] # NULL /\ cur'[t] = next[cur[t]] /\ next' = next
      BY <1>1, <2>2 DEF DropItem, Goto
    <3>2. Front = cur[t] /\ Front' = cur'[t]
      BY <3>1, FrontIs, NextFrontIs DEF FrontTells
    <3> QED
      BY <1>1, <3>1, <3>2, FrontOff, FrontInList
  <2>3. CASE DropInner(t)
    <3>1. pc[t] = "free" /\ cur[t] = NULL /\ inner' = FALSE /\ next' = next
      BY <2>3 DEF DropInner, Goto
    <3>2. Front = NULL /\ Front' = NULL
      BY <3>1, FrontIs, NextFrontIs DEF FrontTells
    <3> QED
      BY <3>1, <3>2 DEF List
  <2> QED
    BY <2>1, <2>2, <2>3
<1>5. ListOrder'
  BY <1>4, OrderOfRest DEF OrderInv
<1>6. OrderTyped' /\ Earlier' /\ MovedOrder'
  BY <1>3 DEF OrderInv, OrderTyped, Earlier, MovedOrder, orderVars
<1> QED
  BY <1>2, <1>5, <1>6 DEF OrderInv

(* A step of a thread inside a call, or of one that begins one.             *)
LEMMA Inside ==
  ASSUME RefInv, RefInv', NEW t \in Threads, Step(t), pc'[t] \notin {"none", "free"}
  PROVE  inner /\ ~Freeing /\ inner' /\ ~Freeing' /\ ListMoves(t) /\ List \in Seq(Items) /\ Front = head
<1>1. inner' /\ ~Freeing'
  BY NextNobodyFrees DEF RefInv
<1>2. ListMoves(t) /\ inner /\ ~Freeing
  BY <1>1, ListStep DEF RefInv, VecInv
<1> QED
  BY <1>1, <1>2, FrontIs DEF RefInv, VecInv, ListInv, IsList, Typed, FrontTells

(* A step that begins no push, returns none, and links and unlinks nothing.   *)
LEMMA SameOrder ==
  ASSUME RefInv, RefInv', OrderInv, UNCHANGED orderVars, NEW t \in Threads,
         \/ PushStashFull(t) \/ PushLock(t) \/ PushCount(t) \/ ReleaseSwap(t) \/ ReleaseCount(t)
         \/ ReleaseStore(t) \/ PopLock(t) \/ PopTake(t) \/ PopUncount(t)
         \/ (\E u \in Threads : Clone(t, u)) \/ (DropHandle(t) /\ ref_count # 1)
  PROVE  OrderInv'
<1> USE DEF RefInv
<1>1. /\ Step(t) /\ pc \in [Threads -> Locations] /\ cur \in [Threads -> Ptr]
      /\ moved \in [Threads -> Ptr]
  BY DEF Step, VecInv, Typed
<1>2. pc[t] \notin {"none", "free", "link", "relink", "unlink"}
  BY DEF PushStashFull, PushLock, PushCount, ReleaseSwap, ReleaseCount, ReleaseStore, PopLock, Lock,
     PopTake, PopUncount, Clone, DropHandle, Goto
<1>3. inner /\ ~Freeing
  BY <1>2, NobodyFrees
<1>4. inner' /\ ~Freeing'
  <2>1. CASE DropHandle(t) /\ ref_count # 1
    <3>1. inner' = inner /\ pc' = [pc EXCEPT ![t] = "none"]
      BY <2>1 DEF DropHandle, Goto, heap
    <3> QED
      BY <1>1, <1>2, <3>1, NobodyFrees DEF Freeing
  <2>2. CASE ~ (DropHandle(t) /\ ref_count # 1)
    <3>1. pc'[t] \notin {"none", "free"}
      BY <1>1, <2>2 DEF PushStashFull, PushLock, PushCount, ReleaseSwap, ReleaseCount, ReleaseStore,
         PopLock, Lock, PopTake, PopUncount, Clone, Goto
    <3> QED
      BY <3>1, NextNobodyFrees
  <2> QED
    BY <2>1, <2>2
<1>5. List' = List /\ InList' = InList
  <2>1. ListMoves(t)
    BY <1>1, <1>4, ListStep DEF VecInv
  <2>2. List' = List
    BY <1>2, <2>1 DEF ListMoves
  <2> QED
    BY <2>2 DEF InList
<1>6. ListOrder' /\ OrderTyped' /\ Earlier'
  BY <1>5, OrderOfRest DEF OrderInv, OrderTyped, Earlier, orderVars
<1>7. LinkedAfter'
  BY <1>3, <1>5 DEF OrderInv, LinkedAfter, orderVars
<1>8. FreshHands'
  <2>1. \A u \in Threads : pc'[u] \in {"stash", "pushLock", "link"} =>
          pc[u] \in {"stash", "pushLock", "link"} /\ cur'[u] = cur[u]
    <3>1. CASE PushStashFull(t) \/ PushLock(t) \/ PopLock(t) \/ PopTake(t) \/ PopUncount(t)
      BY <1>1, <3>1 DEF PushStashFull, PushLock, PopLock, Lock, PopTake, PopUncount, Goto
    <3>2. CASE PushCount(t) \/ ReleaseSwap(t) \/ ReleaseCount(t) \/ ReleaseStore(t)
      BY <1>1, <3>2 DEF PushCount, ReleaseSwap, ReleaseCount, ReleaseStore, Goto
    <3>3. CASE \E u \in Threads : Clone(t, u)
      <4>1. PICK v \in Threads : pc' = [pc EXCEPT ![v] = "idle"] /\ cur' = cur
        BY <3>3 DEF Clone, Goto
      <4> QED
        BY <1>1, <4>1
    <3>4. CASE DropHandle(t) /\ ref_count # 1
      BY <1>1, <3>4 DEF DropHandle, Goto
    <3> QED
      BY <3>1, <3>2, <3>3, <3>4
  <2> QED
    BY <1>3, <2>1 DEF OrderInv, FreshHands, orderVars
<1>9. CASE ReleaseSwap(t)
  <2>1. pc[t] = "swap" /\ t_tail' = NULL /\ moved' = [moved EXCEPT ![t] = t_tail]
    BY <1>9 DEF ReleaseSwap, Goto
  <2>2. \A u \in Threads : moved[u] = NULL
    <3>1. \A u \in Threads : pc[u] = "relink" => u = t
      BY <2>1 DEF LockExclusive, Owning
    <3> QED
      BY <2>1, <3>1 DEF VecInv, HandsTell
  <2>3. Stashed = {} /\ Stashed' = {t_tail} \ {NULL}
    BY <1>1, <2>1, <2>2 DEF Stashed
  <2>4. PushedWhere'
    BY <1>3, <1>5, <2>1, <2>3 DEF OrderInv, PushedWhere, orderVars
  <2>5. MovedOrder'
    BY <1>1, <1>3, <1>5, <2>1, <2>2, <2>3 DEF OrderInv, MovedOrder, PocketOrder, orderVars
  <2>6. PocketOrder'
    BY <2>1 DEF PocketOrder
  <2> QED
    BY <1>6, <1>7, <1>8, <2>4, <2>5, <2>6 DEF OrderInv
<1>10. CASE ~ ReleaseSwap(t)
  <2>1. t_tail' = t_tail /\ moved' = moved
    BY <1>10 DEF PushStashFull, PushLock, PushCount, ReleaseCount, ReleaseStore, PopLock, Lock,
       PopTake, PopUncount, Clone, DropHandle, fields
  <2>2. Stashed' = Stashed
    BY <2>1 DEF Stashed
  <2>3. \A u \in Threads : pc[u] \in {"count", "swap"} => pc'[u] \in {"count", "swap"}
    <3>1. CASE \/ PushStashFull(t) \/ PushLock(t) \/ PopLock(t) \/ PopTake(t) \/ PopUncount(t)
               \/ PushCount(t) \/ ReleaseCount(t) \/ ReleaseStore(t)
      BY <1>1, <3>1 DEF PushStashFull, PushLock, PopLock, Lock, PopTake, PopUncount, PushCount,
         ReleaseCount, ReleaseStore, Goto
    <3>2. CASE \E u \in Threads : Clone(t, u)
      <4>1. PICK v \in Threads : pc[v] = "none" /\ pc' = [pc EXCEPT ![v] = "idle"]
        BY <3>2 DEF Clone, Goto
      <4> QED
        BY <1>1, <4>1
    <3>3. CASE DropHandle(t) /\ ref_count # 1
      BY <1>1, <3>3 DEF DropHandle, Goto
    <3> QED
      BY <1>10, <3>1, <3>2, <3>3
  <2>4. PushedWhere'
    BY <1>3, <1>5, <2>1, <2>2 DEF OrderInv, PushedWhere, orderVars
  <2>5. MovedOrder'
    BY <1>5, <2>1 DEF OrderInv, MovedOrder, orderVars
  <2>6. PocketOrder'
    BY <1>3, <1>5, <2>1, <2>2, <2>3 DEF OrderInv, PocketOrder, orderVars
  <2> QED
    BY <1>6, <1>7, <1>8, <2>4, <2>5, <2>6 DEF OrderInv
<1> QED
  BY <1>9, <1>10

(* A push begins: its item is nowhere yet.                                  *)
LEMMA BeginsOrder ==
  ASSUME RefInv, RefInv', OrderInv, NEW t \in Threads, PushPeek(t), Begins(t)
  PROVE  OrderInv'
<1> USE DEF RefInv
<1>1. /\ Step(t) /\ pc \in [Threads -> Locations] /\ cur \in [Threads -> Ptr]
      /\ before \in [Items -> SUBSET Items] /\ overtaken \in [Items -> Nat] /\ pushed \subseteq Items
  BY DEF Step, VecInv, Typed, OrderInv, OrderTyped
<1>2. PICK x \in Items \ live :
        live' = live \cup {x} /\ cur' = [cur EXCEPT ![t] = x]
  BY DEF PushPeek
<1>3. /\ before' = [before EXCEPT ![x] = pushed] /\ overtaken' = [overtaken EXCEPT ![x] = 0]
      /\ pushed' = pushed
  <2>1. live' \ live = {x}
    BY <1>2
  <2> QED
    BY <2>1 DEF Begins
<1>4. /\ pc[t] = "idle" /\ \E to \in {"stash", "pushLock"} : pc' = [pc EXCEPT ![t] = to]
      /\ UNCHANGED <<t_tail, moved>>
  BY DEF PushPeek, fields
<1>5. inner /\ ~Freeing /\ inner' /\ ~Freeing' /\ ListMoves(t) /\ List \in Seq(Items)
  <2>1. pc'[t] \notin {"none", "free"}
    BY <1>1, <1>4
  <2> QED
    BY <1>1, <2>1, Inside
<1>6. List' = List /\ InList' = InList
  <2>1. List' = List
    BY <1>4, <1>5 DEF ListMoves
  <2> QED
    BY <2>1 DEF InList
<1>7. x \notin InList /\ x # t_tail /\ \A u \in Threads : x # moved[u]
  BY <1>2 DEF VecInv, ListInv, InHand
<1>8. Stashed' = Stashed /\ x \notin Stashed
  BY <1>4, <1>7 DEF Stashed
<1>9. x \notin pushed
  BY <1>5, <1>7, <1>8 DEF OrderInv, PushedWhere
<1>10. OrderTyped' /\ Earlier'
  BY <1>1, <1>3 DEF OrderInv, OrderTyped, Earlier
<1>11. MovedOrder'
  BY <1>1, <1>3, <1>4, <1>6, <1>7 DEF OrderInv, MovedOrder, VecInv, Typed, Ptr
<1>12. ListOrder'
  <2>1. \A i \in DOMAIN List : List[i] \in Items /\ List[i] # x
    BY <1>5, <1>7 DEF InList
  <2> QED
    BY <1>1, <1>3, <1>6, <1>9, <2>1 DEF OrderInv, ListOrder
<1>13. PushedWhere' /\ LinkedAfter'
  <2>1. InList \subseteq Items
    BY FrontInList
  <2>2. \A w \in InList : before'[w] = before[w] /\ x \notin before[w]
    BY <1>1, <1>3, <1>7, <1>9, <2>1 DEF OrderInv, Earlier
  <2>3. LinkedAfter'
    BY <1>1, <1>3, <1>5, <1>6, <2>1, <2>2 DEF OrderInv, LinkedAfter
  <2> QED
    BY <1>3, <1>4, <1>5, <1>6, <1>8, <2>3 DEF OrderInv, PushedWhere
<1>14. FreshHands'
  <2>1. \A u \in Threads \ {t} : pc'[u] = pc[u] /\ cur'[u] = cur[u]
    BY <1>1, <1>2, <1>4
  <2>2. \A u \in Threads : pc[u] \in {"stash", "pushLock", "link"} => cur[u] \in Items
    BY <1>1 DEF VecInv, HandsTell, Ptr
  <2>3. cur'[t] = x /\ overtaken'[x] = 0
    BY <1>1, <1>2, <1>3
  <2> QED
    BY <1>1, <1>3, <1>5, <2>1, <2>2, <2>3 DEF OrderInv, FreshHands
<1>15. PocketOrder'
  <2>1. t_tail # NULL => t_tail \in Items /\ before'[t_tail] = before[t_tail] /\ overtaken'[t_tail] = overtaken[t_tail]
    BY <1>1, <1>3, <1>7 DEF VecInv, Typed, Ptr
  <2>2. \A u \in Threads : pc[u] \in {"count", "swap"} => pc'[u] \in {"count", "swap"}
    BY <1>1, <1>4
  <2> QED
    BY <1>4, <1>5, <1>6, <1>8, <2>1, <2>2 DEF OrderInv, PocketOrder
<1> QED
  BY <1>10, <1>11, <1>12, <1>13, <1>14, <1>15 DEF OrderInv

(* A push leaves its item in t_tail and returns: whatever was pushed before it *)
(* has left t_tail.                                                         *)
LEMMA StashOrder ==
  ASSUME RefInv, RefInv', OrderInv, NEW t \in Threads, PushStash(t), Returned(cur[t]),
         UNCHANGED <<before, overtaken>>
  PROVE  OrderInv'
<1> USE DEF RefInv
<1>1. /\ Step(t) /\ pc \in [Threads -> Locations] /\ cur \in [Threads -> Ptr]
      /\ before \in [Items -> SUBSET Items] /\ overtaken \in [Items -> Nat] /\ pushed \subseteq Items
  BY DEF Step, VecInv, Typed, OrderInv, OrderTyped
<1>2. /\ pc[t] = "stash" /\ pc' = [pc EXCEPT ![t] = "idle"] /\ cur' = [cur EXCEPT ![t] = NULL]
      /\ t_tail = NULL /\ t_tail' = cur[t] /\ UNCHANGED moved /\ pushed' = pushed \cup {cur[t]}
  BY DEF PushStash, Goto, Returned
<1>3. inner /\ ~Freeing /\ inner' /\ ~Freeing' /\ ListMoves(t) /\ List \in Seq(Items)
  <2>1. pc'[t] \notin {"none", "free"}
    BY <1>1, <1>2
  <2> QED
    BY <1>1, <2>1, Inside
<1>4. List' = List /\ InList' = InList
  <2>1. List' = List
    BY <1>2, <1>3 DEF ListMoves
  <2> QED
    BY <2>1 DEF InList
<1>5. Stashed' = Stashed
  BY <1>2 DEF Stashed
<1>6. cur[t] \in Items /\ cur[t] \notin InList /\ cur[t] \notin Stashed
  BY <1>1, <1>2 DEF VecInv, HandsTell, Apart, InHand, Stashed, Ptr
<1>7. cur[t] \notin pushed /\ \A w \in Items : cur[t] \notin before[w]
  BY <1>1, <1>2, <1>3, <1>6, ItemsAssumption DEF OrderInv, PushedWhere, Earlier
<1>8. OrderTyped' /\ Earlier' /\ MovedOrder'
  <2>1. OrderTyped' /\ Earlier'
    BY <1>1, <1>2, <1>6 DEF OrderInv, OrderTyped, Earlier
  <2> QED
    BY <1>2, <1>4, <2>1 DEF OrderInv, MovedOrder
<1>9. overtaken[cur[t]] = 0
  BY <1>2, <1>3 DEF OrderInv, FreshHands
<1>10. ListOrder'
  BY <1>2, <1>4, <1>9 DEF OrderInv, ListOrder
<1>11. PushedWhere' /\ LinkedAfter'
  <2>1. PushedWhere'
    BY <1>1, <1>2, <1>3, <1>4, <1>5, ItemsAssumption DEF OrderInv, PushedWhere
  <2>2. LinkedAfter'
    BY <1>2, <1>3, <1>4 DEF OrderInv, LinkedAfter
  <2> QED
    BY <2>1, <2>2
<1>12. FreshHands'
  BY <1>1, <1>2, <1>3 DEF OrderInv, FreshHands
<1>13. PocketOrder'
  <2>1. before[cur[t]] \subseteq InList \cup Stashed
    BY <1>1, <1>2, <1>3, <1>6, ItemsAssumption DEF OrderInv, PushedWhere, Earlier
  <2> QED
    BY <1>2, <1>4, <1>5, <1>9, <2>1 DEF PocketOrder
<1> QED
  BY <1>8, <1>10, <1>11, <1>12, <1>13 DEF OrderInv

(* An item is linked: what it finds in t_tail, if that was pushed before it, is *)
(* overtaken now, for the first time.                                       *)
LEMMA LinkOrder ==
  ASSUME RefInv, RefInv', OrderInv, NEW t \in Threads, PushLink(t), Returned(cur[t]),
         Linked(cur[t]), UNCHANGED before
  PROVE  OrderInv'
<1> USE DEF RefInv
<1> DEFINE x == cur[t]
<1>1. /\ Step(t) /\ pc \in [Threads -> Locations] /\ cur \in [Threads -> Ptr]
      /\ before \in [Items -> SUBSET Items] /\ overtaken \in [Items -> Nat] /\ pushed \subseteq Items
  BY DEF Step, VecInv, Typed, OrderInv, OrderTyped
<1>2. /\ pc[t] = "link" /\ pc' = [pc EXCEPT ![t] = "count"] /\ cur' = [cur EXCEPT ![t] = NULL]
      /\ UNCHANGED <<t_tail, moved>> /\ pushed' = pushed \cup {x}
      /\ overtaken' = [y \in Items |-> IF y \in before[x] \ InList THEN overtaken[y] + 1 ELSE overtaken[y]]
  BY DEF PushLink, Goto, Returned, Linked
<1>3. inner /\ ~Freeing /\ inner' /\ ~Freeing' /\ ListMoves(t) /\ List \in Seq(Items)
  <2>1. pc'[t] \notin {"none", "free"}
    BY <1>1, <1>2
  <2> QED
    BY <1>1, <2>1, Inside
<1>4. x \in Items /\ x \notin InList /\ x # t_tail /\ x \notin Stashed
  BY <1>1, <1>2 DEF VecInv, HandsTell, Apart, InHand, Stashed, Ptr
<1>5. \A u \in Threads : moved[u] = NULL
  <2>1. \A u \in Threads : pc[u] = "relink" => u = t
    BY <1>2 DEF LockExclusive, Owning
  <2> QED
    BY <1>2, <2>1 DEF VecInv, HandsTell
<1>6. Stashed = {} /\ Stashed' = {}
  BY <1>2, <1>5 DEF Stashed
<1>7. x \notin pushed /\ \A w \in Items : x \notin before[w]
  BY <1>1, <1>3, <1>4, <1>6 DEF OrderInv, PushedWhere, Earlier
<1>8. /\ List' = Append(List, x) /\ InList' = InList \cup {x}
      /\ DOMAIN List = 1 .. Len(List) /\ Len(List) \in Nat /\ DOMAIN List' = 1 .. Len(List) + 1
      /\ (\A i \in 1 .. Len(List) : List'[i] = List[i]) /\ List'[Len(List) + 1] = x
  <2>1. List' = Append(List, x)
    BY <1>3 DEF ListMoves
  <2>2. /\ DOMAIN List = 1 .. Len(List) /\ Len(List) \in Nat /\ DOMAIN List' = 1 .. Len(List) + 1
        /\ (\A i \in 1 .. Len(List) : List'[i] = List[i]) /\ List'[Len(List) + 1] = x
    BY <1>3, <1>4, <2>1, AppendProperties
  <2>3. InList' = InList \cup {x}
    BY <2>2 DEF InList
  <2> QED
    BY <2>1, <2>2, <2>3
(* Only the item in t_tail can be overtaken, and nobody has done it.         *)
<1>9. \A z \in before[x] \ InList : z = t_tail /\ z # NULL /\ overtaken[z] = 0
  <2>1. \A z \in before[x] \ InList : z = t_tail /\ z # NULL
    BY <1>1, <1>3, <1>4, <1>6, ItemsAssumption DEF OrderInv, PushedWhere, Earlier
  <2>2. \A u \in Threads : pc[u] \notin {"count", "swap"}
    BY <1>2 DEF LockExclusive, Owning
  <2> QED
    BY <1>3, <2>1, <2>2 DEF OrderInv, PocketOrder
<1>10. \A z \in Items : overtaken'[z] = IF z \in before[x] \ InList THEN 1 ELSE overtaken[z]
  BY <1>1, <1>2, <1>4, <1>9
<1>11. OrderTyped' /\ Earlier' /\ MovedOrder'
  <2>1. OrderTyped'
    BY <1>1, <1>2, <1>4, <1>10 DEF OrderTyped
  <2> QED
    BY <1>1, <1>2, <1>4, <1>5, <2>1 DEF OrderInv, Earlier, MovedOrder
<1>12. ListOrder'
  <2>1. \A y \in pushed' : overtaken'[y] <= 1
    <3>1. overtaken[x] = 0
      BY <1>2, <1>3 DEF OrderInv, FreshHands
    <3> QED
      BY <1>1, <1>2, <1>4, <1>10, <3>1 DEF OrderInv, ListOrder
  <2>2. ASSUME NEW i \in DOMAIN List', NEW j \in DOMAIN List', i < j, List'[j] \in before'[List'[i]]
        PROVE  overtaken'[List'[j]] = 1
    <3>1. i \in 1 .. Len(List) /\ List'[i] = List[i] /\ List[i] \in Items
      BY <1>3, <1>8, <2>2
    <3>2. List'[j] # x
      BY <1>7, <2>2, <3>1
    <3>3. j \in 1 .. Len(List) /\ List'[j] = List[j] /\ List[j] \in Items /\ List[j] \in InList
      BY <1>3, <1>8, <2>2, <3>2 DEF InList
    <3>4. overtaken[List[j]] = 1
      BY <1>8, <2>2, <3>1, <3>3 DEF OrderInv, ListOrder
    <3> QED
      BY <1>10, <3>3, <3>4
  <2> QED
    BY <2>1, <2>2 DEF ListOrder
<1>13. PushedWhere' /\ LinkedAfter'
  <2>1. PushedWhere'
    BY <1>2, <1>3, <1>6, <1>8 DEF OrderInv, PushedWhere
  <2>2. ASSUME NEW w \in InList', NEW z \in before[w] \ InList' PROVE overtaken'[z] = 1
    <3>1. z \in Items /\ z \notin InList
      BY <1>1, <1>4, <1>8, FrontInList
    <3>2. CASE w = x
      BY <1>10, <2>2, <3>1, <3>2
    <3>3. CASE w # x
      <4>1. overtaken[z] = 1
        BY <1>3, <1>8, <2>2, <3>1, <3>3 DEF OrderInv, LinkedAfter
      <4> QED
        BY <1>10, <3>1, <4>1
    <3> QED
      BY <3>2, <3>3
  <2> QED
    BY <2>1, <2>2 DEF LinkedAfter
<1>14. FreshHands'
  <2>1. ASSUME NEW u \in Threads, pc'[u] \in {"stash", "pushLock", "link"}
        PROVE  overtaken'[cur'[u]] = 0
    <3>1. u # t /\ pc'[u] = pc[u] /\ cur'[u] = cur[u]
      BY <1>1, <1>2, <2>1
    <3>2. cur[u] \in Items /\ cur[u] # t_tail
      BY <1>1, <2>1, <3>1 DEF VecInv, HandsTell, Apart, Ptr
    <3>3. overtaken[cur[u]] = 0
      BY <1>3, <2>1, <3>1 DEF OrderInv, FreshHands
    <3> QED
      BY <1>9, <1>10, <3>1, <3>2, <3>3
  <2> QED
    BY <2>1 DEF FreshHands
<1>15. PocketOrder'
  <2>1. SUFFICES ASSUME t_tail # NULL PROVE PocketOrder'
    BY <1>2 DEF PocketOrder
  <2>2. t_tail \in Items
    BY <2>1 DEF VecInv, Typed, Ptr
  <2>3. overtaken[t_tail] = 0
    <3>1. \A u \in Threads : pc[u] \notin {"count", "swap"}
      BY <1>2 DEF LockExclusive, Owning
    <3> QED
      BY <1>3, <2>1, <3>1 DEF OrderInv, PocketOrder
  <2>4. pc'[t] = "count"
    BY <1>1, <1>2
  <2>5. before[t_tail] \subseteq InList \cup Stashed
    BY <1>3, <2>1 DEF OrderInv, PocketOrder
  <2> QED
    BY <1>2, <1>6, <1>8, <1>10, <2>2, <2>3, <2>4, <2>5 DEF PocketOrder
<1> QED
  BY <1>11, <1>12, <1>13, <1>14, <1>15 DEF OrderInv

(* The item taken out of t_tail is linked: what was pushed before it is on the  *)
(* list, so it overtakes nothing, and what has overtaken it is in front of it. *)
LEMMA RelinkOrder ==
  ASSUME RefInv, RefInv', OrderInv, NEW t \in Threads, ReleaseLink(t), Linked(moved[t]),
         UNCHANGED <<pushed, before>>
  PROVE  OrderInv'
<1> USE DEF RefInv
<1> DEFINE x == moved[t]
<1>1. /\ Step(t) /\ pc \in [Threads -> Locations] /\ moved \in [Threads -> Ptr]
      /\ before \in [Items -> SUBSET Items] /\ overtaken \in [Items -> Nat] /\ pushed \subseteq Items
  BY DEF Step, VecInv, Typed, OrderInv, OrderTyped
<1>2. /\ pc[t] = "relink" /\ pc' = [pc EXCEPT ![t] = "recount"] /\ moved' = [moved EXCEPT ![t] = NULL]
      /\ UNCHANGED <<t_tail, cur>>
      /\ overtaken' = [y \in Items |-> IF y \in before[x] \ InList THEN overtaken[y] + 1 ELSE overtaken[y]]
  BY DEF ReleaseLink, Goto, Linked
<1>3. inner /\ ~Freeing /\ inner' /\ ~Freeing' /\ ListMoves(t) /\ List \in Seq(Items)
  <2>1. pc'[t] \notin {"none", "free"}
    BY <1>1, <1>2
  <2> QED
    BY <1>1, <2>1, Inside
<1>4. x \in Items /\ x # NULL /\ x \notin InList /\ x # t_tail
  BY <1>1, <1>2, ItemsAssumption DEF VecInv, HandsTell, Apart, InHand, Ptr
<1>5. \A u \in Threads \ {t} : moved[u] = NULL
  <2>1. \A u \in Threads : pc[u] = "relink" => u = t
    BY <1>2 DEF LockExclusive, Owning
  <2> QED
    BY <1>2, <2>1 DEF VecInv, HandsTell
<1>6. Stashed = {x} /\ Stashed' = {}
  BY <1>1, <1>2, <1>4, <1>5 DEF Stashed
<1>7. before[x] \subseteq InList /\ overtaken' = overtaken
  <2>1. before[x] \subseteq InList
    BY <1>4 DEF OrderInv, MovedOrder
  <2> QED
    BY <1>1, <1>2, <2>1
<1>8. /\ InList' = InList \cup {x}
      /\ DOMAIN List = 1 .. Len(List) /\ Len(List) \in Nat /\ DOMAIN List' = 1 .. Len(List) + 1
      /\ (\A i \in 1 .. Len(List) : List'[i] = List[i]) /\ List'[Len(List) + 1] = x
  <2>1. List' = Append(List, x)
    BY <1>3 DEF ListMoves, ReleaseLink
  <2>2. /\ DOMAIN List = 1 .. Len(List) /\ Len(List) \in Nat /\ DOMAIN List' = 1 .. Len(List) + 1
        /\ (\A i \in 1 .. Len(List) : List'[i] = List[i]) /\ List'[Len(List) + 1] = x
    BY <1>3, <1>4, <2>1, AppendProperties
  <2> QED
    BY <2>2 DEF InList
<1>9. OrderTyped' /\ Earlier' /\ MovedOrder'
  <2>1. \A u \in Threads : moved'[u] = NULL
    BY <1>1, <1>2, <1>5
  <2> QED
    BY <1>7, <2>1 DEF OrderInv, OrderTyped, Earlier, MovedOrder
<1>10. ListOrder'
  <2>1. \A y \in pushed' : overtaken'[y] <= 1
    BY <1>7 DEF OrderInv, ListOrder
  <2>2. ASSUME NEW i \in DOMAIN List', NEW j \in DOMAIN List', i < j, List'[j] \in before'[List'[i]]
        PROVE  overtaken'[List'[j]] = 1
    <3>1. i \in 1 .. Len(List) /\ List'[i] = List[i] /\ List[i] \in InList
      BY <1>8, <2>2 DEF InList
    <3>2. CASE j = Len(List) + 1
      BY <1>3, <1>4, <1>7, <1>8, <2>2, <3>1, <3>2 DEF OrderInv, LinkedAfter
    <3>3. CASE j # Len(List) + 1
      BY <1>7, <1>8, <2>2, <3>1, <3>3 DEF OrderInv, ListOrder
    <3> QED
      BY <3>2, <3>3
  <2> QED
    BY <2>1, <2>2 DEF ListOrder
<1>11. PushedWhere' /\ LinkedAfter'
  <2>1. PushedWhere'
    BY <1>2, <1>3, <1>6, <1>8 DEF OrderInv, PushedWhere
  <2>2. LinkedAfter'
    BY <1>3, <1>7, <1>8 DEF OrderInv, LinkedAfter
  <2> QED
    BY <2>1, <2>2
<1>12. FreshHands'
  BY <1>1, <1>2, <1>3, <1>7 DEF OrderInv, FreshHands
<1>13. PocketOrder'
  <2>1. \A u \in Threads : pc[u] \notin {"count", "swap"}
    BY <1>2 DEF LockExclusive, Owning
  <2> QED
    BY <1>2, <1>3, <1>6, <1>7, <1>8, <2>1 DEF OrderInv, PocketOrder
<1> QED
  BY <1>9, <1>10, <1>11, <1>12, <1>13 DEF OrderInv

(* The first item is popped and forgotten.                                  *)
LEMMA PopOrder ==
  ASSUME RefInv, RefInv', OrderInv, NEW t \in Threads, PopUnlink(t), Forget(head)
  PROVE  OrderInv'
<1> USE DEF RefInv
<1>1. /\ Step(t) /\ pc \in [Threads -> Locations] /\ cur \in [Threads -> Ptr]
      /\ before \in [Items -> SUBSET Items] /\ overtaken \in [Items -> Nat] /\ pushed \subseteq Items
  BY DEF Step, VecInv, Typed, OrderInv, OrderTyped
<1>2. /\ pc[t] = "unlink" /\ pc' = [pc EXCEPT ![t] = "swap"] /\ cur' = [cur EXCEPT ![t] = head]
      /\ UNCHANGED <<t_tail, moved, overtaken>> /\ pushed' = pushed \ {head}
      /\ before' = [y \in Items |-> before[y] \ {head}]
  BY DEF PopUnlink, Goto, Forget
<1>3. /\ inner /\ ~Freeing /\ inner' /\ ~Freeing' /\ ListMoves(t) /\ List \in Seq(Items)
      /\ Front = head
  <2>1. pc'[t] \notin {"none", "free"}
    BY <1>1, <1>2
  <2> QED
    BY <1>1, <2>1, Inside
<1>4. \A u \in Threads : moved[u] = NULL
  <2>1. \A u \in Threads : pc[u] = "relink" => u = t
    BY <1>2 DEF LockExclusive, Owning
  <2> QED
    BY <1>2, <2>1 DEF VecInv, HandsTell
<1>5. Stashed = {} /\ Stashed' = {}
  BY <1>2, <1>4 DEF Stashed
<1>6. /\ InList \subseteq Items /\ InList' = InList \ {head}
      /\ DOMAIN List = 1 .. Len(List) /\ Len(List) \in Nat
      /\ \E k \in {0, 1} : /\ DOMAIN List' = 1 .. Len(List) - k
                           /\ \A i \in 1 .. Len(List) - k : List'[i] = List[i + k]
  <2>1. CASE head = NULL
    <3>1. List' = List /\ InList' = InList /\ InList \subseteq Items
      BY <1>3, <2>1, FrontInList DEF ListMoves, InList
    <3>2. NULL \notin InList
      BY <3>1, ItemsAssumption
    <3>3. DOMAIN List = 1 .. Len(List) /\ Len(List) \in Nat /\ \A i \in DOMAIN List : List'[i] = List[i + 0]
      BY <1>3, <3>1
    <3> QED
      BY <2>1, <3>1, <3>2, <3>3
  <2>2. CASE head # NULL
    <3>1. List' = Tail(List) /\ IsList(List, head, next, NULL)
      BY <1>2, <1>3, <2>2 DEF ListMoves, PopUnlink, VecInv, ListInv
    <3>2. List # <<>> /\ Elems(Tail(List)) = Elems(List) \ {head}
      BY <2>2, <3>1, ListRest
    <3>3. /\ DOMAIN List = 1 .. Len(List) /\ DOMAIN List' = 1 .. Len(List) - 1 /\ Len(List) \in Nat
          /\ \A i \in 1 .. Len(List) - 1 : List'[i] = List[i + 1]
      BY <1>3, <3>1, <3>2, HeadTailProperties
    <3>4. InList \subseteq Items /\ InList' = InList \ {head}
      BY <3>1, <3>2, FrontInList DEF InList, Elems
    <3> QED
      BY <3>3, <3>4
  <2> QED
    BY <2>1, <2>2
<1>7. \A y \in Items : before'[y] = before[y] \ {head}
  BY <1>2
<1>8. OrderTyped' /\ Earlier' /\ MovedOrder'
  <2>1. OrderTyped'
    BY <1>1, <1>2 DEF OrderTyped
  <2> QED
    BY <1>2, <1>4, <1>7, <2>1 DEF OrderInv, Earlier, MovedOrder
<1>9. ListOrder'
  <2>1. \A y \in pushed' : overtaken'[y] <= 1
    BY <1>2 DEF OrderInv, ListOrder
  <2>2. ASSUME NEW i \in DOMAIN List', NEW j \in DOMAIN List', i < j, List'[j] \in before'[List'[i]]
        PROVE  overtaken'[List'[j]] = 1
    <3>1. PICK k \in {0, 1} : /\ i + k \in DOMAIN List /\ List'[i] = List[i + k]
                              /\ j + k \in DOMAIN List /\ List'[j] = List[j + k]
                              /\ i + k < j + k
      BY <1>6, <2>2
    <3>2. List'[j] \in before[List'[i]]
      BY <1>3, <1>7, <2>2, <3>1
    <3> QED
      BY <1>2, <3>1, <3>2 DEF OrderInv, ListOrder
  <2> QED
    BY <2>1, <2>2 DEF ListOrder
<1>10. PushedWhere' /\ LinkedAfter'
  <2>1. PushedWhere'
    BY <1>2, <1>3, <1>5, <1>6 DEF OrderInv, PushedWhere
  <2>2. LinkedAfter'
    BY <1>2, <1>3, <1>6, <1>7 DEF OrderInv, LinkedAfter
  <2> QED
    BY <2>1, <2>2
<1>11. FreshHands'
  BY <1>1, <1>2, <1>3 DEF OrderInv, FreshHands
<1>12. PocketOrder'
  <2>1. \A u \in Threads : pc[u] \in {"count", "swap"} => pc'[u] \in {"count", "swap"}
    BY <1>1, <1>2
  <2>2. t_tail # NULL => t_tail \in Items
    BY DEF VecInv, Typed, Ptr
  <2> QED
    BY <1>2, <1>3, <1>5, <1>6, <1>7, <2>1, <2>2 DEF OrderInv, PocketOrder
<1> QED
  BY <1>8, <1>9, <1>10, <1>11, <1>12 DEF OrderInv

(* Every step keeps the order.                                              *)
LEMMA OrderStep ==
  RefInv /\ RefInv' /\ OrderInv /\ [OrderNext]_<<vars, orderVars>> => OrderInv'
<1> SUFFICES ASSUME RefInv, RefInv', OrderInv, [OrderNext]_<<vars, orderVars>> PROVE OrderInv'
  OBVIOUS
<1>1. CASE UNCHANGED <<vars, orderVars>>
  <2>1. UNCHANGED <<inner, head, t_tail, next, pc, cur, moved, pushed, before, overtaken>>
    BY <1>1 DEF vars, fields, heap, local, orderVars
  <2>2. Freeing' = Freeing /\ List' = List /\ Stashed' = Stashed
    BY <2>1 DEF Freeing, List, Front, Stashed
  <2>3. InList' = InList
    BY <2>2 DEF InList
  <2> QED
    BY <2>1, <2>2, <2>3 DEF OrderInv, OrderTyped, Earlier, MovedOrder, ListOrder, PushedWhere,
       LinkedAfter, FreshHands, PocketOrder
<1>2. ASSUME NEW t \in Threads, UNCHANGED orderVars,
             \/ PushStashFull(t) \/ PushLock(t) \/ PushCount(t)
             \/ ReleaseSwap(t) \/ ReleaseCount(t) \/ ReleaseStore(t)
             \/ PopLock(t) \/ PopTake(t) \/ PopUncount(t)
             \/ (\E u \in Threads : Clone(t, u))
             \/ DropHandle(t) \/ DropItem(t) \/ DropInner(t)
      PROVE  OrderInv'
  <2>1. CASE (DropHandle(t) /\ ref_count = 1) \/ DropItem(t) \/ DropInner(t)
    BY <1>2, <2>1, LastOrder
  <2>2. CASE ~ ((DropHandle(t) /\ ref_count = 1) \/ DropItem(t) \/ DropInner(t))
    BY <1>2, <2>2, SameOrder
  <2> QED
    BY <2>1, <2>2
<1> QED
  BY <1>1, <1>2, BeginsOrder, StashOrder, LinkOrder, RelinkOrder, PopOrder DEF OrderNext, Gone

(* For any number of threads and items: t_tail lets a later push overtake an   *)
(* earlier one, once at most, and nothing else bends the order of the pushes.  *)
THEOREM OrderCorrect == OrderSpec => []ListOrder
<1>1. OrderInit => OrderInv
  <2>1. SUFFICES ASSUME OrderInit PROVE OrderInv
    OBVIOUS
  <2>2. \A t \in Threads : pc[t] \in {"idle", "none"} /\ moved[t] = NULL
    BY <2>1 DEF OrderInit, Init
  <2>3. List = <<>> /\ InList = {}
    <3>1. Front = NULL
      BY <2>1, <2>2 DEF OrderInit, Init, Front
    <3> QED
      BY <2>1, <3>1, VecInvInit, FrontInList DEF InList, OrderInit
  <2> QED
    BY <2>1, <2>2, <2>3 DEF OrderInit, Init, OrderInv, OrderTyped, Earlier, MovedOrder, ListOrder,
       PushedWhere, LinkedAfter, FreshHands, PocketOrder
<1>2. OrderInit /\ [][OrderNext]_<<vars, orderVars>> => Spec
  <2>1. [OrderNext]_<<vars, orderVars>> => [Next]_vars
    BY DEF OrderNext, Next, Step
  <2> QED
    BY <2>1, PTL DEF OrderInit, Spec
<1>3. OrderInv => ListOrder
  BY DEF OrderInv
<1> QED
  BY <1>1, <1>2, <1>3, OrderStep, VecCorrect, PTL DEF OrderSpec, RefInv
=============================================================================
