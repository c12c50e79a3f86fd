-------------------------- MODULE AtomicVecProofs --------------------------
(***************************************************************************)
(* Theorems about AtomicVec, for any number of threads and of items: its    *)
(* spin lock excludes, its handles are counted, the list its pointers make   *)
(* loses no item, and len is accounted for.                                 *)
(***************************************************************************)
EXTENDS AtomicVecProperties, LinkedListProofs

Placed == pc \in [Threads -> Locations]

(* The actions that neither take nor give up the spin lock, nor make or     *)
(* drop a handle: outside the lock, and inside it.                         *)
Outside(t) == PushPeek(t) \/ PushStash(t) \/ PushStashFull(t) \/ PopTake(t) \/ PopUncount(t)
Within(t) ==
  \/ PushLink(t) \/ PushCount(t) \/ ReleaseSwap(t) \/ ReleaseLink(t)
  \/ ReleaseCount(t) \/ PopUnlink(t)
Take(t) == PushLock(t) \/ PopLock(t)
Moves(t) == Outside(t) \/ Within(t) \/ Take(t) \/ ReleaseStore(t)

Elsewhere == Locations \ Owning

(* Where these actions take the thread, and what becomes of state.          *)
LEMMA OutsideStep ==
  ASSUME Placed, NEW t \in Threads, Outside(t)
  PROVE  /\ pc[t] \in Elsewhere \ {"none", "free"}
         /\ \E to \in Elsewhere \ {"none", "free"} : pc' = [pc EXCEPT ![t] = to]
         /\ UNCHANGED <<state, ref_count, inner>>
<1> USE DEF Placed, Goto, Elsewhere, Locations, Owning, fields, links, heap
<1>1. CASE PushPeek(t)
  BY <1>1 DEF PushPeek
<1>2. CASE PushStash(t) \/ PushStashFull(t)
  BY <1>2 DEF PushStash, PushStashFull
<1>3. CASE PopTake(t) \/ PopUncount(t)
  BY <1>3 DEF PopTake, PopUncount
<1> QED
  BY <1>1, <1>2, <1>3 DEF Outside

(* A step of the owner, before the store that ends it, leaves it the owner.  *)
LEMMA WithinStep ==
  ASSUME Placed, NEW t \in Threads, Within(t)
  PROVE  /\ pc[t] \in Owning
         /\ \E to \in Owning : pc' = [pc EXCEPT ![t] = to]
         /\ UNCHANGED <<state, ref_count, inner>>
<1> USE DEF Placed, Goto, Owning, fields, links, heap
<1>1. CASE PushLink(t) \/ PushCount(t)
  BY <1>1 DEF PushLink, PushCount
<1>2. CASE ReleaseSwap(t) \/ ReleaseLink(t) \/ ReleaseCount(t)
  BY <1>2 DEF ReleaseSwap, ReleaseLink, ReleaseCount
<1>3. CASE PopUnlink(t)
  BY <1>3 DEF PopUnlink
<1> QED
  BY <1>1, <1>2, <1>3 DEF Within

(* lock(): the compare_exchange of state succeeds.                         *)
LEMMA TakeStep ==
  ASSUME Placed, NEW t \in Threads, Take(t)
  PROVE  /\ pc[t] \in {"pushLock", "idle"} /\ state = AVAILABLE
         /\ \E to \in Owning : pc' = [pc EXCEPT ![t] = to]
         /\ state' = UPDATING /\ UNCHANGED <<ref_count, inner>>
BY DEF Take, PushLock, PopLock, Lock, Placed, Goto, Owning, heap

(* The store of AVAILABLE that ends release().                             *)
LEMMA GiveStep ==
  ASSUME Placed, NEW t \in Threads, ReleaseStore(t)
  PROVE  /\ pc[t] \in Owning
         /\ \E to \in Elsewhere \ {"none", "free"} : pc' = [pc EXCEPT ![t] = to]
         /\ state' = AVAILABLE /\ UNCHANGED <<ref_count, inner>>
<1>1. pc[t] = "unlock" /\ state' = AVAILABLE /\ UNCHANGED <<ref_count, inner>>
  BY DEF ReleaseStore, Goto, heap
<1>2. PICK to \in {"idle", "take"} : pc' = [pc EXCEPT ![t] = to]
  BY DEF ReleaseStore, Goto
<1>3. to \in Elsewhere \ {"none", "free"}
  BY DEF Elsewhere, Locations, Owning
<1> QED
  BY <1>1, <1>2, <1>3 DEF Owning

(* clone and drop stay out of the lock.                                     *)
HandleStep(t) == (\E u \in Threads : Clone(t, u)) \/ DropHandle(t) \/ DropItem(t) \/ DropInner(t)

(* Cloning and dropping a handle, with all it frees, is outside the lock.    *)
LEMMA HandleStepOutside ==
  ASSUME Placed, NEW t \in Threads, HandleStep(t)
  PROVE  \E u \in Threads :
           /\ pc[u] \in Elsewhere
           /\ \E to \in Elsewhere : pc' = [pc EXCEPT ![u] = to]
           /\ state' = state
<1> USE DEF Placed, Goto, Owning, Elsewhere, Locations, fields, links
<1>1. ASSUME NEW u \in Threads, Clone(t, u)
      PROVE  /\ pc[u] \in Elsewhere
             /\ \E to \in Elsewhere : pc' = [pc EXCEPT ![u] = to]
             /\ state' = state
  BY <1>1 DEF Clone
<1>2. ASSUME DropHandle(t) \/ DropItem(t) \/ DropInner(t)
      PROVE  /\ pc[t] \in Elsewhere
             /\ \E to \in Elsewhere : pc' = [pc EXCEPT ![t] = to]
             /\ state' = state
  BY <1>2 DEF DropHandle, DropItem, DropInner
<1> QED
  BY <1>1, <1>2 DEF HandleStep

(* There are no other steps.                                               *)
LEMMA StepKinds ==
  ASSUME NEW t \in Threads, Step(t)
  PROVE  Moves(t) \/ HandleStep(t)
BY DEF Step, Moves, Outside, Within, Take, HandleStep

(* Every step leaves every thread at a known place.                         *)
LEMMA PlacedStep ==
  ASSUME Placed, [Next]_vars
  PROVE  Placed'
<1> USE DEF Placed, Elsewhere, Owning, Locations
<1>1. ASSUME NEW t \in Threads, Moves(t) PROVE Placed'
  BY <1>1, OutsideStep, WithinStep, TakeStep, GiveStep DEF Moves
<1>2. ASSUME NEW t \in Threads, HandleStep(t) PROVE Placed'
  BY <1>2, HandleStepOutside
<1>3. CASE UNCHANGED vars
  BY <1>3 DEF vars, local
<1> QED
  BY <1>1, <1>2, <1>3, StepKinds DEF Next, Gone

---------------------------------------------------------------------------
(* The spin lock.                                                          *)
LEMMA LockStep ==
  ASSUME Placed, LockExclusive, [Next]_vars
  PROVE  LockExclusive'
<1> USE DEF Placed, LockExclusive, AVAILABLE, UPDATING
<1>1. ASSUME NEW t \in Threads, NEW to, pc' = [pc EXCEPT ![t] = to],
             pc[t] \in Owning <=> to \in Owning, state' = state
      PROVE  LockExclusive'
  <2>1. \A u \in Threads : pc'[u] \in Owning <=> pc[u] \in Owning
    BY <1>1
  <2> QED
    BY <1>1, <2>1
<1>2. ASSUME NEW t \in Threads, Outside(t) PROVE LockExclusive'
  BY <1>1, <1>2, OutsideStep DEF Elsewhere
<1>3. ASSUME NEW t \in Threads, Within(t) PROVE LockExclusive'
  BY <1>1, <1>3, WithinStep
<1>4. ASSUME NEW t \in Threads, Take(t) PROVE LockExclusive'
  <2>1. state = AVAILABLE /\ state' = UPDATING
    BY <1>4, TakeStep
  <2>2. \A u \in Threads : pc[u] \notin Owning
    BY <2>1
  <2>3. \A u \in Threads : pc'[u] \in Owning <=> u = t
    BY <1>4, <2>2, TakeStep
  <2> QED
    BY <2>1, <2>3
<1>5. ASSUME NEW t \in Threads, ReleaseStore(t) PROVE LockExclusive'
  <2>1. pc[t] \in Owning /\ state' = AVAILABLE
    BY <1>5, GiveStep
  <2>2. \A u \in Threads \ {t} : pc[u] \notin Owning
    BY <2>1
  <2>3. \A u \in Threads : pc'[u] \notin Owning
    BY <1>5, <2>2, GiveStep DEF Elsewhere
  <2> QED
    BY <2>1, <2>3
<1>6. ASSUME NEW t \in Threads, HandleStep(t) PROVE LockExclusive'
  BY <1>1, <1>6, HandleStepOutside DEF Elsewhere
<1>7. CASE UNCHANGED vars
  BY <1>7 DEF vars, local, fields
<1> QED
  BY <1>2, <1>3, <1>4, <1>5, <1>6, <1>7, StepKinds DEF Next, Gone, Moves

(* Every thread starts somewhere in the code.                              *)
LEMMA PlacedInit == Init => Placed
BY DEF Init, Placed, Locations

(* lock() and release() delimit a section that one thread at a time is in,    *)
(* and state says whether one is: what the accesses to head, tail and next    *)
(* rely on, for any number of threads.                                       *)
THEOREM LockCorrect == Spec => []LockExclusive
<1>1. Init => LockExclusive
  BY DEF Init, LockExclusive, Owning, AVAILABLE, UPDATING
<1>2. Placed /\ LockExclusive /\ [Next]_vars => Placed' /\ LockExclusive'
  BY PlacedStep, LockStep
<1> QED
  BY <1>1, <1>2, PlacedInit, PTL DEF Spec
---------------------------------------------------------------------------
(* The handles.                                                            *)
Held == {t \in Threads : pc[t] \notin {"none", "free"}}

(* The handles can be counted.                                             *)
LEMMA HeldFinite == IsFiniteSet(Held) /\ Cardinality(Held) \in Nat
<1>1. Held \subseteq Threads
  BY DEF Held
<1> QED
  BY <1>1, ThreadsAssumption, FS_Subset, FS_CardinalityType

(* A push, a pop and a release keep the handles as they are.               *)
LEMMA HandlesKept ==
  ASSUME Placed, HandlesCounted, NEW t \in Threads, Moves(t)
  PROVE  HandlesCounted'
<1> USE DEF Placed
<1>1. pc[t] \notin {"none", "free"} /\ UNCHANGED <<ref_count, inner>>
  BY OutsideStep, WithinStep, TakeStep, GiveStep DEF Moves, Owning
<1>2. \E to : to \notin {"none", "free"} /\ pc' = [pc EXCEPT ![t] = to]
  BY OutsideStep, WithinStep, TakeStep, GiveStep DEF Moves, Owning
<1>3. \A u \in Threads : /\ pc'[u] = "none" <=> pc[u] = "none"
                         /\ pc'[u] = "free" <=> pc[u] = "free"
  BY <1>1, <1>2
<1>4. Held' = Held
  BY <1>3 DEF Held
<1> QED
  BY <1>1, <1>3, <1>4 DEF HandlesCounted, Held

(* clone and drop count the handle they make or drop, and the last drop is   *)
(* alone.                                                                  *)
LEMMA HandlesChange ==
  ASSUME Placed, HandlesCounted, NEW t \in Threads, HandleStep(t)
  PROVE  HandlesCounted'
<1> USE DEF Placed, Goto
<1>1. ref_count = Cardinality(Held)
  BY DEF HandlesCounted, Held
<1>2. ASSUME NEW u \in Threads, Clone(t, u) PROVE HandlesCounted'
  <2>1. /\ pc[t] = "idle" /\ pc[u] = "none" /\ pc' = [pc EXCEPT ![u] = "idle"]
        /\ ref_count' = ref_count + 1 /\ UNCHANGED inner
    BY <1>2 DEF Clone, heap
  <2>2. Held' = Held \cup {u} /\ u \notin Held
    BY <2>1 DEF Held
  <2>3. Cardinality(Held') = Cardinality(Held) + 1
    BY <2>2, HeldFinite, FS_AddElement
  <2>4. \A v \in Threads : pc'[v] # "free"
    BY <2>1 DEF HandlesCounted
  <2>5. inner' /\ pc'[u] # "none"
    BY <2>1 DEF HandlesCounted
  <2> QED
    BY <1>1, <2>1, <2>3, <2>4, <2>5 DEF HandlesCounted, Held
<1>3. CASE DropHandle(t)
  <2>1. /\ pc[t] = "idle" /\ ref_count' = ref_count - 1 /\ UNCHANGED inner
        /\ pc' = [pc EXCEPT ![t] = IF ref_count = 1 THEN "free" ELSE "none"]
    BY <1>3 DEF DropHandle, heap
  <2>2. Held' = Held \ {t} /\ t \in Held
    BY <2>1 DEF Held
  <2>3. Cardinality(Held') = Cardinality(Held) - 1
    BY <2>2, HeldFinite, FS_RemoveElement
  <2>4. \A u \in Threads : pc[u] # "free"
    BY <2>1 DEF HandlesCounted
  <2>5. inner'
    BY <2>1 DEF HandlesCounted
  <2>6. CASE ref_count = 1
    <3>1. Held' = {}
      BY <1>1, <2>2, <2>3, <2>6, HeldFinite, FS_Subset, FS_EmptySet
    <3>2. \A u \in Threads \ {t} : pc'[u] = "none"
      BY <2>1, <2>4, <3>1 DEF Held
    <3>3. pc'[t] = "free"
      BY <2>1, <2>6
    <3> QED
      BY <1>1, <2>1, <2>3, <2>5, <3>2, <3>3 DEF HandlesCounted, Held
  <2>7. CASE ref_count # 1
    <3>1. Held' # {}
      <4>1. Held # {t}
        BY <1>1, <2>7, FS_Singleton
      <4> QED
        BY <2>2, <4>1
    <3>2. \A u \in Threads : pc'[u] # "free"
      BY <2>1, <2>4, <2>7
    <3>3. \E u \in Threads : pc'[u] # "none"
      BY <3>1 DEF Held
    <3> QED
      BY <1>1, <2>1, <2>3, <2>5, <3>2, <3>3 DEF HandlesCounted, Held
  <2> QED
    BY <2>6, <2>7
<1>4. CASE DropItem(t)
  BY <1>4 DEF DropItem, HandlesCounted, fields
<1>5. CASE DropInner(t)
  <2>1. /\ pc[t] = "free" /\ pc' = [pc EXCEPT ![t] = "none"]
        /\ inner' = FALSE /\ UNCHANGED ref_count
    BY <1>5 DEF DropInner, fields
  <2>2. \A u \in Threads : pc'[u] = "none"
    BY <2>1 DEF HandlesCounted
  <2>3. Held' = Held
    BY <2>1, <2>2 DEF Held, HandlesCounted
  <2> QED
    BY <1>1, <2>1, <2>2, <2>3 DEF HandlesCounted, Held
<1> QED
  BY <1>2, <1>3, <1>4, <1>5 DEF HandleStep

(* ref_count counts the handles, so the thread that frees the list is alone   *)
(* with it, for any number of threads cloning and dropping.                  *)
THEOREM HandlesCorrect == Spec => []HandlesCounted
<1>1. Init => HandlesCounted
  <2>1. SUFFICES ASSUME Init PROVE HandlesCounted
    OBVIOUS
  <2>2. PICK t \in Threads : pc = [u \in Threads |-> IF u = t THEN "idle" ELSE "none"]
    BY <2>1 DEF Init
  <2>3. Held = {t}
    BY <2>2 DEF Held
  <2>4. ref_count = Cardinality(Held) /\ inner
    BY <2>1, <2>3, FS_Singleton DEF Init
  <2> QED
    BY <2>2, <2>4 DEF HandlesCounted, Held
<1>2. Placed /\ HandlesCounted /\ [Next]_vars => HandlesCounted'
  <2>1. CASE UNCHANGED vars
    BY <2>1 DEF vars, local, fields, heap, HandlesCounted
  <2> QED
    BY <2>1, HandlesKept, HandlesChange, StepKinds DEF Next, Gone
<1> QED
  BY <1>1, <1>2, PlacedInit, PlacedStep, PTL DEF Spec
---------------------------------------------------------------------------
(* The list, and where its items are when they are not on it.               *)
Typed ==
  /\ head \in Ptr /\ tail \in Ptr /\ t_tail \in Ptr
  /\ len \in Int
  /\ inner \in BOOLEAN
  /\ next \in [Items -> Ptr]
  /\ live \subseteq Items
  /\ pc \in [Threads -> Locations]
  /\ cur \in [Threads -> Ptr] /\ moved \in [Threads -> Ptr]

Freeing == \E t \in Threads : pc[t] = "free"

(* What a thread has in hand, by where it is.                               *)
HandsTell ==
  \A t \in Threads :
    /\ pc[t] \in {"stash", "pushLock", "link", "take"} => cur[t] # NULL
    /\ pc[t] \in {"none", "idle", "count", "unlink", "uncount"} => cur[t] = NULL
    /\ pc[t] = "relink" <=> moved[t] # NULL

(* An item is in one place at most.                                        *)
Apart ==
  /\ \A t, u \in Threads :
       /\ cur[t] = cur[u] /\ cur[t] # NULL => t = u
       /\ moved[t] # NULL => moved[t] # cur[u]
       /\ moved[t] = moved[u] /\ moved[t] # NULL => t = u
  /\ \A t \in Threads : t_tail # NULL => t_tail \notin {cur[t], moved[t]}
  /\ t_tail \notin InList
  /\ \A t \in Threads : InHand(t) \cap InList = {}

(* An item that is still to be linked leads nowhere.                        *)
Unlinked ==
  /\ t_tail # NULL => next[t_tail] = NULL
  /\ \A t \in Threads :
       /\ pc[t] \in {"stash", "pushLock", "link"} => next[cur[t]] = NULL
       /\ moved[t] # NULL => next[moved[t]] = NULL

(* head, tail and the next pointers make a list, and each item allocated is   *)
(* on it, in t_tail or in somebody's hands.                                 *)
ListInv ==
  /\ IsList(List, Front, next, NULL)
  /\ inner /\ ~Freeing => tail = IF List = <<>> THEN NULL ELSE List[Len(List)]
  /\ \A x \in Items : x \in live <=> x \in InList \/ x = t_tail \/ \E t \in Threads : x \in InHand(t)
  /\ \A t \in Threads : pc[t] \in {"count", "recount"} => List # <<>>

VecInv == Typed /\ HandsTell /\ Apart /\ Unlinked /\ ListInv

(* Every variable keeps its type: what is loaded is a pointer.               *)
LEMMA TypedStep ==
  ASSUME VecInv, LockExclusive, NEW t \in Threads, Step(t)
  PROVE  Typed'
<1> USE DEF VecInv, Typed, Goto, Ptr, heap, links, fields
<1>1. Placed'
  BY PlacedStep DEF Placed, Next
<1>2. CASE PushPeek(t) \/ PushStash(t) \/ PushStashFull(t) \/ PushLock(t)
  BY <1>1, <1>2 DEF Placed, PushPeek, PushStash, PushStashFull, PushLock, Lock
<1>3. CASE PushLink(t) \/ PushCount(t)
  BY <1>1, <1>3 DEF Placed, PushLink, PushCount, UpdateTail
<1>4. CASE ReleaseSwap(t) \/ ReleaseLink(t) \/ ReleaseCount(t) \/ ReleaseStore(t)
  BY <1>1, <1>4 DEF Placed, ReleaseSwap, ReleaseLink, ReleaseCount, ReleaseStore, UpdateTail
<1>5. CASE PopLock(t) \/ PopUnlink(t) \/ PopTake(t) \/ PopUncount(t)
  BY <1>1, <1>5 DEF Placed, PopLock, Lock, PopUnlink, PopTake, PopUncount
<1>6. CASE \E u \in Threads : Clone(t, u)
  BY <1>1, <1>6 DEF Placed, Clone
<1>7. CASE DropHandle(t) \/ DropItem(t) \/ DropInner(t)
  BY <1>1, <1>7 DEF Placed, DropHandle, DropItem, DropInner
<1> QED
  BY <1>2, <1>3, <1>4, <1>5, <1>6, <1>7 DEF Step

(* Where the list begins.                                                  *)
FrontTells ==
  /\ ~inner => Front = NULL
  /\ inner /\ ~Freeing => Front = head
  /\ \A t \in Threads : pc[t] = "free" => inner /\ Freeing /\ Front = cur[t]

(* While the list is being freed it begins where the freeing thread has come. *)
LEMMA FrontIs == HandlesCounted => FrontTells
<1> SUFFICES ASSUME HandlesCounted PROVE FrontTells
  OBVIOUS
<1>1. \A t \in Threads : pc[t] = "free" => inner /\ Freeing /\ \A u \in Threads : pc[u] = "free" => u = t
  BY DEF HandlesCounted, Freeing
<1>2. ASSUME NEW t \in Threads, pc[t] = "free" PROVE Front = cur[t]
  <2>1. (CHOOSE u \in Threads : pc[u] = "free") = t
    BY <1>1, <1>2
  <2> QED
    BY <1>1, <1>2, <2>1 DEF Front
<1> QED
  BY <1>1, <1>2 DEF Front, Freeing, FrontTells

(* The list is the one the pointers make.                                   *)
LEMMA ListIs ==
  ASSUME next \in [Items -> Ptr], NEW s, IsList(s, Front, next, NULL)
  PROVE  List = s
<1>1. DOMAIN next = Items /\ IsFiniteSet(DOMAIN next)
  BY ItemsAssumption
<1> QED
  BY <1>1, WalkIs DEF List

(* The same after a step.                                                  *)
LEMMA NextFrontIs == HandlesCounted' => FrontTells'
BY FrontIs, PTL

(* The list after a step.                                                  *)
LEMMA NextListIs ==
  ASSUME (next \in [Items -> Ptr])', NEW s, IsList(s, Front', next', NULL)
  PROVE  List' = s /\ InList' = Elems(s) /\ IsList(List', Front', next', NULL)
<1>1. DOMAIN next' = Items /\ IsFiniteSet(DOMAIN next')
  BY ItemsAssumption
<1>2. List' = s
  BY <1>1, WalkIs DEF List
<1> QED
  BY <1>2 DEF InList, Elems

(* A step that leaves the front, and the items on the list, as they are.     *)
LEMMA ListSame ==
  ASSUME VecInv, (next \in [Items -> Ptr])', Front' = Front,
         \A x \in InList : next'[x] = next[x]
  PROVE  List' = List /\ InList' = InList /\ IsList(List', Front', next', NULL)
<1>1. IsList(List, Front, next, NULL) /\ Elems(List) = InList
  BY DEF VecInv, ListInv, InList, Elems
<1>2. DOMAIN next' = DOMAIN next
  BY DEF VecInv, Typed
<1>3. IsList(List, Front', next', NULL)
  BY <1>1, <1>2, ListKept
<1> QED
  BY <1>1, <1>3, NextListIs

---------------------------------------------------------------------------
(* The steps of one thread, from one place to another, that touch neither the *)
(* list nor what the threads have in hand.                                  *)
Quiet(t, to) ==
  /\ pc' = [pc EXCEPT ![t] = to]
  /\ {pc[t], to} \subseteq Locations \ {"free"}
  /\ UNCHANGED <<head, tail, t_tail, next, live, inner, cur, moved>>
  /\ to \in {"stash", "pushLock", "link", "take"} => cur[t] # NULL
  /\ to \in {"none", "idle", "count", "unlink", "uncount"} => cur[t] = NULL
  /\ pc[t] # "relink" /\ to # "relink"
  /\ to \in {"stash", "pushLock", "link"} => pc[t] \in {"stash", "pushLock", "link"}
  /\ to \in {"count", "recount"} => List # <<>>

(* A step that moves no pointer keeps the invariant.                          *)
LEMMA QuietStep ==
  ASSUME VecInv, HandlesCounted, HandlesCounted', Typed', NEW t \in Threads, NEW to, Quiet(t, to)
  PROVE  VecInv'
<1> USE DEF VecInv
<1>1. \A u \in Threads : pc'[u] = "free" <=> pc[u] = "free"
  BY DEF Quiet, Typed
<1>2. Freeing' = Freeing
  BY <1>1 DEF Freeing
<1>3. UNCHANGED <<head, tail, t_tail, next, live, inner, cur, moved>>
  BY DEF Quiet
<1>4. Front' = Front
  BY <1>1, <1>2, <1>3, FrontIs, NextFrontIs DEF Freeing, FrontTells
<1>5. List' = List /\ InList' = InList /\ IsList(List', Front', next', NULL)
  BY <1>3, <1>4, ListSame DEF Typed
<1>6. \A u \in Threads : InHand(u)' = InHand(u)
  BY <1>1, <1>3 DEF InHand
<1>7. HandsTell'
  BY <1>3 DEF HandsTell, Quiet, Typed
<1>8. Apart'
  BY <1>3, <1>5, <1>6 DEF Apart
<1>9. Unlinked'
  BY <1>3 DEF Unlinked, Quiet, Typed
<1>10. ListInv'
  BY <1>2, <1>3, <1>5, <1>6 DEF ListInv, Quiet, Typed
<1> QED
  BY <1>7, <1>8, <1>9, <1>10

(* These are such steps.                                                    *)
LEMMA QuietSteps ==
  ASSUME VecInv, NEW t \in Threads,
         \/ PushStashFull(t) \/ PushLock(t) \/ PushCount(t) \/ ReleaseCount(t) \/ ReleaseStore(t)
         \/ PopLock(t) \/ PopUncount(t) \/ \E u \in Threads : Clone(t, u)
  PROVE  \E u \in Threads : \E to \in Locations : Quiet(u, to)
<1> USE DEF VecInv, HandsTell, Quiet, Goto, Locations, fields, links, heap
<1>1. CASE PushStashFull(t)
  BY <1>1 DEF PushStashFull
<1>2. CASE PushLock(t) \/ PopLock(t)
  BY <1>2 DEF PushLock, PopLock, Lock
<1>3. CASE PushCount(t) \/ ReleaseCount(t)
  BY <1>3 DEF PushCount, ReleaseCount
<1>4. CASE ReleaseStore(t)
  BY <1>4 DEF ReleaseStore
<1>5. CASE PopUncount(t)
  BY <1>5 DEF PopUncount
<1>6. CASE \E u \in Threads : Clone(t, u)
  BY <1>6 DEF Clone
<1> QED
  BY <1>1, <1>2, <1>3, <1>4, <1>5, <1>6

(* A thread that is in a call leaves nobody to free the list.                *)
LEMMA NobodyFrees ==
  ASSUME HandlesCounted, NEW t \in Threads, pc[t] \notin {"none", "free"}
  PROVE  inner /\ ~Freeing /\ Front = head /\ \A u \in Threads : pc[u] # "free"
BY FrontIs DEF HandlesCounted, Freeing, FrontTells

(* The same after a step.                                                  *)
LEMMA NextNobodyFrees ==
  ASSUME HandlesCounted', NEW t \in Threads, pc'[t] \notin {"none", "free"}
  PROVE  inner' /\ ~Freeing' /\ Front' = head' /\ \A u \in Threads : pc'[u] # "free"
BY NextFrontIs DEF HandlesCounted, Freeing, FrontTells

(* push: an address that is nowhere is allocated.                           *)
LEMMA PushPeekKeeps ==
  ASSUME VecInv, HandlesCounted, HandlesCounted', Typed', NEW t \in Threads, PushPeek(t)
  PROVE  VecInv'
<1> USE DEF VecInv
<1>1. /\ pc[t] = "idle" /\ cur[t] = NULL /\ moved[t] = NULL
      /\ \E to \in {"stash", "pushLock"} : pc' = [pc EXCEPT ![t] = to]
      /\ UNCHANGED <<head, tail, t_tail, inner, moved>>
  BY DEF PushPeek, HandsTell, fields
<1>2. PICK x \in Items \ live : /\ live' = live \cup {x}
                                /\ next' = [next EXCEPT ![x] = NULL]
                                /\ cur' = [cur EXCEPT ![t] = x]
  BY DEF PushPeek
<1>3. \A u \in Threads : pc[u] # "free" /\ pc'[u] # "free"
  BY <1>1, NobodyFrees DEF Typed
<1>4. Front' = head' /\ Front = head /\ inner /\ ~Freeing /\ ~Freeing'
  BY <1>1, <1>3, NobodyFrees, NextNobodyFrees DEF Typed, Freeing
<1>5. x # NULL /\ x \notin InList /\ x # t_tail /\ \A u \in Threads : x # cur[u] /\ x # moved[u]
  BY <1>3, ItemsAssumption DEF ListInv, InHand
<1>6. List' = List /\ InList' = InList /\ IsList(List', Front', next', NULL)
  BY <1>1, <1>2, <1>4, <1>5, ListSame DEF Typed
<1>7. \A u \in Threads : InHand(u) = {cur[u], moved[u]} /\ InHand(u)' = {cur'[u], moved'[u]}
  BY <1>3 DEF InHand
<1>8. HandsTell'
  BY <1>1, <1>2, <1>5 DEF HandsTell, Typed
<1>9. Apart'
  <2>1. \A y \in InList : y # NULL
    BY <1>4, ItemsAssumption DEF ListInv, IsList, InList
  <2> QED
  BY <1>1, <1>2, <1>5, <1>6, <1>7, <2>1 DEF Apart, Typed
<1>10. Unlinked'
  BY <1>1, <1>2, <1>5 DEF Unlinked, Typed, HandsTell
<1>11. ListInv'
  <2>1. tail' = IF List' = <<>> THEN NULL ELSE List'[Len(List')]
    BY <1>1, <1>4, <1>6 DEF ListInv
  <2>2. \A y \in Items : y \in live' <=> y \in InList' \/ y = t_tail' \/ \E u \in Threads : y \in InHand(u)'
    BY <1>1, <1>2, <1>5, <1>6, <1>7, ItemsAssumption DEF ListInv, Typed
  <2>3. \A u \in Threads : pc'[u] \in {"count", "recount"} => List' # <<>>
    BY <1>1, <1>6 DEF ListInv, Typed
  <2> QED
    BY <1>6, <2>1, <2>2, <2>3 DEF ListInv
<1> QED
  BY <1>8, <1>9, <1>10, <1>11

(* push: from the hands into t_tail; release(): from t_tail into the hands.   *)
LEMMA PushStashKeeps ==
  ASSUME VecInv, HandlesCounted, HandlesCounted', Typed', NEW t \in Threads, PushStash(t)
  PROVE  VecInv'
<1> USE DEF VecInv
<1>1. /\ pc[t] = "stash" /\ cur[t] # NULL /\ moved[t] = NULL /\ next[cur[t]] = NULL
      /\ pc' = [pc EXCEPT ![t] = "idle"] /\ cur' = [cur EXCEPT ![t] = NULL]
      /\ t_tail = NULL /\ t_tail' = cur[t]
      /\ UNCHANGED <<head, tail, next, live, inner, moved>>
  BY DEF PushStash, HandsTell, Unlinked, Goto, links, heap
<1>2. \A u \in Threads : pc[u] # "free" /\ pc'[u] # "free"
  BY <1>1, NobodyFrees DEF Typed
<1>3. Front' = head' /\ Front = head /\ inner /\ ~Freeing /\ ~Freeing'
  BY <1>1, <1>2, NobodyFrees, NextNobodyFrees DEF Typed, Freeing
<1>4. List' = List /\ InList' = InList /\ IsList(List', Front', next', NULL)
  BY <1>1, <1>3, ListSame DEF Typed
<1>5. \A u \in Threads : InHand(u) = {cur[u], moved[u]} /\ InHand(u)' = {cur'[u], moved'[u]}
  BY <1>2 DEF InHand
<1>6. NULL \notin InList
  BY ItemsAssumption DEF ListInv, IsList, InList, Typed
<1>7. HandsTell'
  BY <1>1 DEF HandsTell, Typed
<1>8. Apart'
  BY <1>1, <1>4, <1>5, <1>6 DEF Apart, Typed
<1>9. Unlinked'
  BY <1>1 DEF Unlinked, Typed
<1>10. ListInv'
  <2>1. \A y \in Items : y \in live' <=> y \in InList' \/ y = t_tail' \/ \E u \in Threads : y \in InHand(u)'
    BY <1>1, <1>4, <1>5, ItemsAssumption DEF ListInv, Typed
  <2> QED
    BY <1>1, <1>3, <1>4, <2>1 DEF ListInv, Typed
<1> QED
  BY <1>7, <1>8, <1>9, <1>10

(* release() takes the item that is in t_tail.                               *)
LEMMA ReleaseSwapKeeps ==
  ASSUME VecInv, HandlesCounted, HandlesCounted', Typed', NEW t \in Threads, ReleaseSwap(t)
  PROVE  VecInv'
<1> USE DEF VecInv
<1>1. /\ pc[t] = "swap" /\ moved[t] = NULL
      /\ pc' = [pc EXCEPT ![t] = IF t_tail = NULL THEN "unlock" ELSE "relink"]
      /\ moved' = [moved EXCEPT ![t] = t_tail] /\ t_tail' = NULL
      /\ UNCHANGED <<head, tail, next, live, inner, cur>>
  BY DEF ReleaseSwap, HandsTell, Goto, links, heap
<1>2. \A u \in Threads : pc[u] # "free" /\ pc'[u] # "free"
  BY <1>1, NobodyFrees DEF Typed
<1>3. Front' = head' /\ Front = head /\ inner /\ ~Freeing /\ ~Freeing'
  BY <1>1, <1>2, NobodyFrees, NextNobodyFrees DEF Typed, Freeing
<1>4. List' = List /\ InList' = InList /\ IsList(List', Front', next', NULL)
  BY <1>1, <1>3, ListSame DEF Typed
<1>5. \A u \in Threads : InHand(u) = {cur[u], moved[u]} /\ InHand(u)' = {cur'[u], moved'[u]}
  BY <1>2 DEF InHand
<1>6. NULL \notin InList
  BY ItemsAssumption DEF ListInv, IsList, InList, Typed
<1>7. HandsTell'
  BY <1>1 DEF HandsTell, Typed
<1>8. Apart'
  <2>1. \A u \in Threads : t_tail # NULL => t_tail # cur[u] /\ t_tail # moved[u]
    BY DEF Apart
  <2> QED
    BY <1>1, <1>4, <1>5, <1>6, <2>1 DEF Apart, Typed
<1>9. Unlinked'
  BY <1>1 DEF Unlinked, Typed
<1>10. ListInv'
  <2>1. \A y \in Items : y \in live' <=> y \in InList' \/ y = t_tail' \/ \E u \in Threads : y \in InHand(u)'
    BY <1>1, <1>4, <1>5, ItemsAssumption DEF ListInv, Typed
  <2> QED
    BY <1>1, <1>3, <1>4, <2>1 DEF ListInv, Typed
<1> QED
  BY <1>7, <1>8, <1>9, <1>10

(* update_tail: an item in hand goes to the end of the list.                *)
LEMMA UpdateTailLinks ==
  ASSUME VecInv, HandlesCounted, HandlesCounted', Typed', NEW t \in Threads,
         pc[t] \in {"link", "relink"}, pc'[t] \in {"count", "recount"}, UNCHANGED inner,
         NEW x \in Items, UpdateTail(x), x \notin InList, next[x] = NULL
  PROVE  /\ List' = Append(List, x) /\ InList' = InList \cup {x}
         /\ IsList(List', Front', next', NULL) /\ List' # <<>>
         /\ \A y \in Items \ InList : next'[y] = next[y]
         /\ tail' = List'[Len(List')]
<1> USE DEF VecInv
<1>1. Front = head /\ Front' = head' /\ inner /\ ~Freeing
  BY NobodyFrees, NextNobodyFrees
<1>2. /\ IsList(List, head, next, NULL) /\ Elems(List) = InList
      /\ List \in Seq(Items) /\ Len(List) \in Nat
  BY <1>1 DEF ListInv, IsList, InList, Elems, Typed
<1>3. tail = IF List = <<>> THEN NULL ELSE List[Len(List)]
  BY <1>1 DEF ListInv
<1>4. /\ List = <<>> <=> Len(List) = 0
      /\ List = <<>> <=> tail = NULL
      /\ List = <<>> <=> head = NULL
  <2>1. List # <<>> => List[Len(List)] \in Items /\ List[1] \in Items /\ List[Len(List)] \in InList
    BY <1>2 DEF InList
  <2>2. List # <<>> => head = List[1]
    BY <1>2 DEF IsList, Nth
  <2>3. List = <<>> => head = NULL
    BY <1>2 DEF IsList, Nth
  <2> QED
    BY <1>2, <1>3, <2>1, <2>2, <2>3, ItemsAssumption
<1>5. /\ next' = IF List = <<>> THEN next ELSE [next EXCEPT ![List[Len(List)]] = x]
      /\ head' = IF List = <<>> THEN x ELSE head
      /\ tail' = x
  BY <1>3, <1>4 DEF UpdateTail
<1>6. /\ IsList(Append(List, x), head', next', NULL)
      /\ Elems(Append(List, x)) = InList \cup {x}
  <2>1. x \in DOMAIN next /\ x \notin Elems(List)
    BY <1>2 DEF Typed
  <2>2. /\ IsList(Append(List, x), head', next', NULL)
        /\ Elems(Append(List, x)) = Elems(List) \cup {x}
    BY <1>2, <1>5, <2>1, ListAppended
  <2> QED
    BY <1>2, <2>2
<1>7. /\ List' = Append(List, x) /\ InList' = InList \cup {x}
      /\ IsList(List', Front', next', NULL)
  BY <1>1, <1>6, NextListIs DEF Typed
<1>8. List' # <<>> /\ List'[Len(List')] = x
  BY <1>2, <1>7
<1>9. \A y \in Items \ InList : next'[y] = next[y]
  <2>1. List # <<>> => List[Len(List)] \in InList
    BY <1>2, <1>4 DEF InList
  <2> QED
    BY <1>5, <2>1 DEF Typed
<1> QED
  BY <1>5, <1>7, <1>8, <1>9

(* push() links its item at the end of the list.                            *)
LEMMA PushLinkKeeps ==
  ASSUME VecInv, HandlesCounted, HandlesCounted', Typed', NEW t \in Threads, PushLink(t)
  PROVE  VecInv'
<1> USE DEF VecInv
<1>1. /\ pc[t] = "link" /\ cur[t] # NULL /\ moved[t] = NULL /\ next[cur[t]] = NULL
      /\ pc' = [pc EXCEPT ![t] = "count"] /\ cur' = [cur EXCEPT ![t] = NULL]
      /\ UpdateTail(cur[t])
      /\ UNCHANGED <<t_tail, live, inner, moved>>
  BY DEF PushLink, HandsTell, Unlinked, Goto, heap
<1>2. \A u \in Threads : pc[u] # "free" /\ pc'[u] # "free"
  BY <1>1, NobodyFrees DEF Typed
<1>3. \A u \in Threads : InHand(u) = {cur[u], moved[u]} /\ InHand(u)' = {cur'[u], moved'[u]}
  BY <1>2 DEF InHand
<1>4. cur[t] \in Items /\ cur[t] \notin InList /\ pc'[t] = "count"
  BY <1>1, <1>3 DEF Apart, Typed, Ptr
<1>5. /\ InList' = InList \cup {cur[t]} /\ List' # <<>>
      /\ IsList(List', Front', next', NULL)
      /\ \A y \in Items \ InList : next'[y] = next[y]
      /\ tail' = List'[Len(List')]
  BY <1>1, <1>4, UpdateTailLinks
<1>6. NULL \notin InList
  BY ItemsAssumption DEF ListInv, IsList, InList, Typed
<1>7. HandsTell'
  BY <1>1 DEF HandsTell, Typed
<1>8. Apart'
  BY <1>1, <1>3, <1>4, <1>5, <1>6 DEF Apart, Typed
<1>9. Unlinked'
  <2>1. \A y \in Items : next[y] = NULL /\ y \notin InList => next'[y] = NULL
    BY <1>5
  <2>2. t_tail # NULL => t_tail \in Items /\ t_tail \notin InList
    BY DEF Apart, Typed, Ptr
  <2>3. \A u \in Threads : /\ cur[u] # NULL => cur[u] \in Items /\ cur[u] \notin InList
                           /\ moved[u] # NULL => moved[u] \in Items /\ moved[u] \notin InList
    BY <1>3 DEF Apart, Typed, Ptr
  <2> QED
    BY <1>1, <2>1, <2>2, <2>3 DEF Unlinked, HandsTell, Typed
<1>10. ListInv'
  <2>1. \A y \in Items : y \in live' <=> y \in InList' \/ y = t_tail' \/ \E u \in Threads : y \in InHand(u)'
    BY <1>1, <1>3, <1>4, <1>5, ItemsAssumption DEF ListInv, Typed
  <2> QED
    BY <1>5, <2>1 DEF ListInv
<1> QED
  BY <1>7, <1>8, <1>9, <1>10

(* release() links the item it took from t_tail.                            *)
LEMMA ReleaseLinkKeeps ==
  ASSUME VecInv, HandlesCounted, HandlesCounted', Typed', NEW t \in Threads, ReleaseLink(t)
  PROVE  VecInv'
<1> USE DEF VecInv
<1>1. /\ pc[t] = "relink" /\ moved[t] # NULL /\ next[moved[t]] = NULL
      /\ pc' = [pc EXCEPT ![t] = "recount"] /\ moved' = [moved EXCEPT ![t] = NULL]
      /\ UpdateTail(moved[t])
      /\ UNCHANGED <<t_tail, live, inner, cur>>
  BY DEF ReleaseLink, HandsTell, Unlinked, Goto, heap
<1>2. \A u \in Threads : pc[u] # "free" /\ pc'[u] # "free"
  BY <1>1, NobodyFrees DEF Typed
<1>3. \A u \in Threads : InHand(u) = {cur[u], moved[u]} /\ InHand(u)' = {cur'[u], moved'[u]}
  BY <1>2 DEF InHand
<1>4. moved[t] \in Items /\ moved[t] \notin InList /\ pc'[t] = "recount"
  BY <1>1, <1>3 DEF Apart, Typed, Ptr
<1>5. /\ InList' = InList \cup {moved[t]} /\ List' # <<>>
      /\ IsList(List', Front', next', NULL)
      /\ \A y \in Items \ InList : next'[y] = next[y]
      /\ tail' = List'[Len(List')]
  BY <1>1, <1>4, UpdateTailLinks
<1>6. NULL \notin InList
  BY ItemsAssumption DEF ListInv, IsList, InList, Typed
<1>7. HandsTell'
  BY <1>1 DEF HandsTell, Typed
<1>8. Apart'
  <2>1. \A u \in Threads \ {t} : moved[u] # NULL => moved[u] # moved[t]
    BY <1>1 DEF Apart
  <2> QED
    BY <1>1, <1>3, <1>4, <1>5, <1>6, <2>1 DEF Apart, Typed
<1>9. Unlinked'
  <2>1. \A y \in Items : next[y] = NULL /\ y \notin InList => next'[y] = NULL
    BY <1>5
  <2>2. t_tail # NULL => t_tail \in Items /\ t_tail \notin InList
    BY DEF Apart, Typed, Ptr
  <2>3. \A u \in Threads : /\ cur[u] # NULL => cur[u] \in Items /\ cur[u] \notin InList
                           /\ moved[u] # NULL => moved[u] \in Items /\ moved[u] \notin InList
    BY <1>3 DEF Apart, Typed, Ptr
  <2> QED
    BY <1>1, <2>1, <2>2, <2>3 DEF Unlinked, HandsTell, Typed
<1>10. ListInv'
  <2>1. \A y \in Items : y \in live' <=> y \in InList' \/ y = t_tail' \/ \E u \in Threads : y \in InHand(u)'
    BY <1>1, <1>3, <1>4, <1>5, ItemsAssumption DEF ListInv, Typed
  <2> QED
    BY <1>5, <2>1 DEF ListInv
<1> QED
  BY <1>7, <1>8, <1>9, <1>10
(* A list begins with one of its items, or is empty.                        *)
LEMMA FrontInList ==
  ASSUME VecInv
  PROVE  /\ Front \in InList \cup {NULL}
         /\ Front = NULL <=> List = <<>>
         /\ Front # NULL => Front = List[1]
         /\ NULL \notin InList /\ InList \subseteq Items
<1>1. /\ IsList(List, Front, next, NULL) /\ List \in Seq(Items) /\ Len(List) \in Nat
      /\ DOMAIN List = 1 .. Len(List) /\ \A i \in 1 .. Len(List) : List[i] \in Items
  BY DEF VecInv, ListInv, IsList, Typed
<1>2. Front = IF 1 <= Len(List) THEN List[1] ELSE NULL
  BY <1>1 DEF IsList, Nth
<1>3. List = <<>> <=> ~ (1 <= Len(List))
  BY <1>1
<1>4. InList = {List[i] : i \in 1 .. Len(List)}
  BY <1>1 DEF InList
<1> QED
  BY <1>1, <1>2, <1>3, <1>4, ItemsAssumption

(* pop and drop take the first item off.                                    *)
LEMMA FrontOff ==
  ASSUME VecInv, (next \in [Items -> Ptr])', Front # NULL, Front' = next[Front], next' = next
  PROVE  /\ List' = Tail(List) /\ InList' = InList \ {Front}
         /\ IsList(List', Front', next', NULL)
         /\ Front \in InList /\ Front' \in InList' \cup {NULL}
<1>1. IsList(List, Front, next, NULL)
  BY DEF VecInv, ListInv
<1>2. /\ IsList(Tail(List), next[Front], next, NULL)
      /\ Front \in Elems(List) /\ Elems(Tail(List)) = Elems(List) \ {Front}
  BY <1>1, ListRest
<1>3. List' = Tail(List) /\ InList' = Elems(Tail(List)) /\ IsList(List', Front', next', NULL)
  BY <1>2, NextListIs
<1>4. Elems(List) = InList
  BY DEF Elems, InList
<1>5. Front' \in InList' \cup {NULL}
  <2>1. Front' = IF 1 <= Len(List') THEN List'[1] ELSE NULL
    BY <1>3 DEF IsList, Nth
  <2>2. DOMAIN List' = 1 .. Len(List') /\ Len(List') \in Nat
    BY <1>3 DEF IsList
  <2> QED
    BY <2>1, <2>2 DEF InList
<1> QED
  BY <1>2, <1>3, <1>4, <1>5

(* pop, under the lock: the first item goes into the hands.                  *)
LEMMA PopUnlinkKeeps ==
  ASSUME VecInv, LockExclusive, HandlesCounted, HandlesCounted', Typed',
         NEW t \in Threads, PopUnlink(t)
  PROVE  VecInv'
<1> USE DEF VecInv
<1>1. /\ pc[t] = "unlink" /\ cur[t] = NULL /\ moved[t] = NULL
      /\ pc' = [pc EXCEPT ![t] = "swap"] /\ cur' = [cur EXCEPT ![t] = head]
      /\ head' = IF head = NULL THEN NULL ELSE next[head]
      /\ tail' = IF head = tail THEN NULL ELSE tail
      /\ UNCHANGED <<t_tail, next, live, inner, moved>>
  BY DEF PopUnlink, HandsTell, Goto, heap
<1>2. \A u \in Threads : pc[u] # "free" /\ pc'[u] # "free"
  BY <1>1, NobodyFrees DEF Typed
<1>3. Front' = head' /\ Front = head /\ inner /\ ~Freeing /\ ~Freeing'
  BY <1>1, <1>2, NobodyFrees, NextNobodyFrees DEF Typed, Freeing
<1>4. tail = IF List = <<>> THEN NULL ELSE List[Len(List)]
  BY <1>3 DEF ListInv
<1>5. CASE head = NULL
  <2>1. tail = NULL
    BY <1>3, <1>4, <1>5, FrontInList
  <2>2. UNCHANGED <<head, tail, cur>>
    BY <1>1, <1>5, <2>1 DEF Typed
  <2>3. Quiet(t, "swap")
    BY <1>1, <2>2 DEF Quiet, Locations
  <2> QED
    BY <2>3, QuietStep
<1>6. CASE head # NULL
  <2>1. /\ List' = Tail(List) /\ InList' = InList \ {head}
        /\ IsList(List', Front', next', NULL) /\ head \in InList
    BY <1>1, <1>3, <1>6, FrontOff DEF Typed
  <2>2. tail' = IF List' = <<>> THEN NULL ELSE List'[Len(List')]
    <3>1. /\ List \in Seq(Items) /\ Len(List) \in Nat /\ Distinct(List)
          /\ List # <<>> /\ head = List[1] /\ tail = List[Len(List)]
      BY <1>3, <1>4, <1>6, FrontInList DEF ListInv, IsList, Typed
    <3>2. Len(List) >= 1
      BY <3>1
    <3>3. head = tail <=> Len(List) = 1
      <4>1. 1 \in 1 .. Len(List) /\ Len(List) \in 1 .. Len(List)
        BY <3>1, <3>2
      <4> QED
        BY <3>1, <4>1 DEF Distinct
    <3>4. /\ Tail(List) = <<>> <=> Len(List) = 1
          /\ Tail(List) # <<>> => Tail(List)[Len(Tail(List))] = List[Len(List)]
      <4>1. IsList(List, Front, next, NULL) /\ Front # NULL
        BY <1>3, <1>6 DEF ListInv
      <4> QED
        BY <4>1, ListRest
    <3> QED
      BY <1>1, <2>1, <3>1, <3>3, <3>4
  <2>3. \A u \in Threads : InHand(u) = {cur[u], moved[u]} /\ InHand(u)' = {cur'[u], moved'[u]}
    BY <1>2 DEF InHand
  <2>4. NULL \notin InList /\ InList \subseteq Items
    BY FrontInList
  <2>5. HandsTell'
    BY <1>1 DEF HandsTell, Typed
  <2>6. Apart'
    <3>1. /\ head # t_tail
          /\ \A u \in Threads : head # cur[u] /\ head # moved[u]
      BY <2>1, <2>3 DEF Apart
    <3> QED
      BY <1>1, <2>1, <2>3, <2>4, <3>1 DEF Apart, Typed
  <2>7. Unlinked'
    BY <1>1 DEF Unlinked, Typed
  <2>8. ListInv'
    <3>1. \A y \in Items : y \in live' <=> y \in InList' \/ y = t_tail' \/ \E u \in Threads : y \in InHand(u)'
      BY <1>1, <2>1, <2>3, ItemsAssumption DEF ListInv, Typed
    <3>2. \A u \in Threads : pc'[u] \notin {"count", "recount"}
      <4>1. \A u \in Threads \ {t} : pc[u] \notin Owning
        BY <1>1 DEF LockExclusive, Owning
      <4> QED
        BY <1>1, <4>1 DEF Owning, Typed
    <3> QED
      BY <2>1, <2>2, <3>1, <3>2 DEF ListInv
  <2> QED
    BY <2>5, <2>6, <2>7, <2>8
<1> QED
  BY <1>5, <1>6

(* pop, after release(): the item in hand is freed.                         *)
LEMMA PopTakeKeeps ==
  ASSUME VecInv, HandlesCounted, HandlesCounted', Typed', NEW t \in Threads, PopTake(t)
  PROVE  VecInv'
<1> USE DEF VecInv
<1>1. /\ pc[t] = "take" /\ cur[t] # NULL /\ moved[t] = NULL
      /\ pc' = [pc EXCEPT ![t] = "uncount"] /\ cur' = [cur EXCEPT ![t] = NULL]
      /\ live' = live \ {cur[t]}
      /\ UNCHANGED <<head, tail, t_tail, next, inner, moved>>
  BY DEF PopTake, HandsTell, Goto, fields
<1>2. \A u \in Threads : pc[u] # "free" /\ pc'[u] # "free"
  BY <1>1, NobodyFrees DEF Typed
<1>3. Front' = head' /\ Front = head /\ inner /\ ~Freeing /\ ~Freeing'
  BY <1>1, <1>2, NobodyFrees, NextNobodyFrees DEF Typed, Freeing
<1>4. List' = List /\ InList' = InList /\ IsList(List', Front', next', NULL)
  BY <1>1, <1>3, ListSame DEF Typed
<1>5. \A u \in Threads : InHand(u) = {cur[u], moved[u]} /\ InHand(u)' = {cur'[u], moved'[u]}
  BY <1>2 DEF InHand
<1>6. NULL \notin InList
  BY FrontInList
<1>7. HandsTell'
  BY <1>1 DEF HandsTell, Typed
<1>8. Apart'
  BY <1>1, <1>4, <1>5, <1>6 DEF Apart, Typed
<1>9. Unlinked'
  BY <1>1 DEF Unlinked, Typed
<1>10. ListInv'
  <2>1. /\ cur[t] \notin InList /\ cur[t] # t_tail
        /\ \A u \in Threads : cur[t] # moved[u] /\ (u # t => cur[t] # cur[u])
    BY <1>1, <1>5 DEF Apart
  <2>2. \A y \in Items : y \in live' <=> y \in InList' \/ y = t_tail' \/ \E u \in Threads : y \in InHand(u)'
    BY <1>1, <1>4, <1>5, <2>1, ItemsAssumption DEF ListInv, Typed
  <2> QED
    BY <1>1, <1>3, <1>4, <2>2 DEF ListInv, Typed
<1> QED
  BY <1>7, <1>8, <1>9, <1>10

---------------------------------------------------------------------------
(* The thread that frees the list has nobody beside it.                      *)
LEMMA FreerAlone ==
  ASSUME VecInv, HandlesCounted, NEW t \in Threads, pc[t] = "free"
  PROVE  /\ inner /\ Front = cur[t] /\ Freeing
         /\ \A u \in Threads \ {t} : pc[u] = "none" /\ cur[u] = NULL
         /\ \A u \in Threads : moved[u] = NULL
         /\ \A u \in Threads : InHand(u) = {NULL}
<1>1. \A u \in Threads \ {t} : pc[u] = "none"
  BY DEF HandlesCounted
<1>2. \A u \in Threads \ {t} : cur[u] = NULL
  BY <1>1 DEF VecInv, HandsTell
<1>3. \A u \in Threads : moved[u] = NULL
  BY <1>1 DEF VecInv, HandsTell
<1> QED
  BY <1>1, <1>2, <1>3, FrontIs DEF InHand, FrontTells

(* drop: the last handle has the list to itself.                            *)
LEMMA DropHandleKeeps ==
  ASSUME VecInv, HandlesCounted, HandlesCounted', Typed', NEW t \in Threads, DropHandle(t)
  PROVE  VecInv'
<1> USE DEF VecInv
<1>1. /\ pc[t] = "idle" /\ cur[t] = NULL /\ moved[t] = NULL
      /\ pc' = [pc EXCEPT ![t] = IF ref_count = 1 THEN "free" ELSE "none"]
      /\ cur' = [cur EXCEPT ![t] = IF ref_count = 1 THEN head ELSE NULL]
      /\ UNCHANGED <<head, tail, t_tail, next, live, inner, moved>>
  BY DEF DropHandle, HandsTell, Goto, links, heap
<1>2. CASE ref_count # 1
  <2>1. cur' = cur
    BY <1>1, <1>2 DEF Typed
  <2>2. Quiet(t, "none")
    BY <1>1, <1>2, <2>1 DEF Quiet, Locations
  <2> QED
    BY <2>2, QuietStep
<1>3. CASE ref_count = 1
  <2>1. pc'[t] = "free" /\ cur'[t] = head
    BY <1>1, <1>3 DEF Typed
  <2>2. /\ Front = head /\ inner
        /\ \A u \in Threads : pc[u] # "free"
    BY <1>1, NobodyFrees
  <2>3. /\ inner' /\ Front' = cur'[t] /\ Freeing'
        /\ \A u \in Threads \ {t} : pc'[u] = "none"
    BY <2>1, NextFrontIs DEF HandlesCounted, FrontTells
  <2>4. \A u \in Threads \ {t} : pc[u] = "none" /\ cur[u] = NULL /\ moved[u] = NULL
    BY <1>1, <2>3 DEF HandsTell, Typed
  <2>5. List' = List /\ InList' = InList /\ IsList(List', Front', next', NULL)
    BY <1>1, <2>1, <2>2, <2>3, ListSame DEF Typed
  <2>6. \A u \in Threads : InHand(u)' = {NULL} /\ InHand(u) = {NULL} /\ moved'[u] = NULL
    BY <1>1, <2>1, <2>2, <2>3, <2>4 DEF InHand
  <2>7. NULL \notin InList /\ head \in InList \cup {NULL}
    BY <2>2, FrontInList
  <2>8. HandsTell'
    BY <1>1, <2>1, <2>3, <2>4, <2>6 DEF HandsTell, Typed
  <2>9. Apart'
    <3>1. \A u \in Threads : cur'[u] # NULL => u = t /\ cur'[u] = head
      BY <1>1, <2>1, <2>4 DEF Typed
    <3> QED
      BY <1>1, <2>1, <2>5, <2>6, <2>7, <3>1 DEF Apart
  <2>10. Unlinked'
    BY <1>1, <2>1, <2>3, <2>6 DEF Unlinked
  <2>11. ListInv'
    BY <1>1, <2>1, <2>3, <2>5, <2>6, ItemsAssumption DEF ListInv
  <2> QED
    BY <2>8, <2>9, <2>10, <2>11
<1> QED
  BY <1>2, <1>3

(* drop: it frees the items one by one.                                     *)
LEMMA DropItemKeeps ==
  ASSUME VecInv, HandlesCounted, HandlesCounted', Typed', NEW t \in Threads, DropItem(t)
  PROVE  VecInv'
<1> USE DEF VecInv
<1>1. /\ pc[t] = "free" /\ cur[t] # NULL /\ pc' = [pc EXCEPT ![t] = "free"]
      /\ cur' = [cur EXCEPT ![t] = next[cur[t]]] /\ live' = live \ {cur[t]}
      /\ UNCHANGED <<head, tail, t_tail, next, inner, moved>>
  BY DEF DropItem, Goto, fields
<1>2. pc' = pc
  BY <1>1 DEF Typed
<1>3. /\ inner /\ Front = cur[t] /\ Freeing
      /\ \A u \in Threads \ {t} : pc[u] = "none" /\ cur[u] = NULL
      /\ \A u \in Threads : moved[u] = NULL /\ InHand(u) = {NULL}
  BY <1>1, FreerAlone
<1>4. Front' = next[Front] /\ cur'[t] = Front' /\ Freeing'
  BY <1>1, <1>2, <1>3, NextFrontIs DEF FrontTells, Typed
<1>5. /\ List' = Tail(List) /\ InList' = InList \ {Front}
      /\ IsList(List', Front', next', NULL)
      /\ Front \in InList /\ Front' \in InList' \cup {NULL}
  BY <1>1, <1>3, <1>4, FrontOff DEF Typed
<1>6. \A u \in Threads : /\ InHand(u)' = {NULL} /\ moved'[u] = NULL
                         /\ cur'[u] # NULL => u = t
  BY <1>1, <1>2, <1>3 DEF InHand, Typed
<1>7. NULL \notin InList
  BY FrontInList
<1>8. HandsTell'
  BY <1>1, <1>2, <1>3 DEF HandsTell, Typed
<1>9. Apart'
  BY <1>1, <1>4, <1>5, <1>6, <1>7 DEF Apart
<1>10. Unlinked'
  BY <1>1, <1>2, <1>3 DEF Unlinked
<1>11. ListInv'
  <2>1. t_tail # Front
    BY <1>5 DEF Apart
  <2>2. \A y \in Items : y \in live' <=> y \in InList' \/ y = t_tail' \/ \E u \in Threads : y \in InHand(u)'
    BY <1>1, <1>3, <1>5, <1>6, <2>1, ItemsAssumption DEF ListInv
  <2> QED
    BY <1>1, <1>2, <1>3, <1>4, <1>5, <2>2 DEF ListInv
<1> QED
  BY <1>8, <1>9, <1>10, <1>11

(* drop: and when there are none left, the vector.                          *)
LEMMA DropInnerKeeps ==
  ASSUME VecInv, HandlesCounted, HandlesCounted', Typed', NEW t \in Threads, DropInner(t)
  PROVE  VecInv'
<1> USE DEF VecInv
<1>1. /\ pc[t] = "free" /\ cur[t] = NULL /\ pc' = [pc EXCEPT ![t] = "none"]
      /\ inner' = FALSE
      /\ UNCHANGED <<head, tail, t_tail, next, live, cur, moved>>
  BY DEF DropInner, Goto, fields
<1>2. /\ Front = NULL
      /\ \A u \in Threads : cur[u] = NULL /\ moved[u] = NULL /\ InHand(u) = {NULL} /\ pc'[u] = "none"
  BY <1>1, FreerAlone DEF Typed
<1>3. Front' = NULL
  BY <1>1, NextFrontIs DEF FrontTells
<1>4. List' = List /\ InList' = InList /\ IsList(List', Front', next', NULL)
  BY <1>1, <1>2, <1>3, ListSame DEF Typed
<1>5. \A u \in Threads : InHand(u)' = {NULL}
  BY <1>1, <1>2 DEF InHand
<1>6. NULL \notin InList
  BY FrontInList
<1>7. HandsTell'
  BY <1>1, <1>2 DEF HandsTell
<1>8. Apart'
  BY <1>1, <1>2, <1>4, <1>5, <1>6 DEF Apart
<1>9. Unlinked'
  BY <1>1, <1>2 DEF Unlinked
<1>10. ListInv'
  BY <1>1, <1>2, <1>4, <1>5, ItemsAssumption DEF ListInv
<1> QED
  BY <1>7, <1>8, <1>9, <1>10

(* So every step keeps the list.                                           *)
LEMMA VecInvStep ==
  ASSUME VecInv, LockExclusive, HandlesCounted, HandlesCounted', [Next]_vars
  PROVE  VecInv'
<1>1. ASSUME NEW t \in Threads, Step(t) PROVE VecInv'
  <2>1. Typed'
    BY <1>1, TypedStep
  <2>2. CASE \/ PushStashFull(t) \/ PushLock(t) \/ PushCount(t) \/ ReleaseCount(t)
             \/ ReleaseStore(t) \/ PopLock(t) \/ PopUncount(t) \/ \E u \in Threads : Clone(t, u)
    BY <2>1, <2>2, QuietSteps, QuietStep
  <2>3. CASE PushPeek(t) \/ PushStash(t) \/ PushLink(t)
    BY <2>1, <2>3, PushPeekKeeps, PushStashKeeps, PushLinkKeeps
  <2>4. CASE ReleaseSwap(t) \/ ReleaseLink(t)
    BY <2>1, <2>4, ReleaseSwapKeeps, ReleaseLinkKeeps
  <2>5. CASE PopUnlink(t) \/ PopTake(t)
    BY <2>1, <2>5, PopUnlinkKeeps, PopTakeKeeps
  <2>6. CASE DropHandle(t) \/ DropItem(t) \/ DropInner(t)
    BY <2>1, <2>6, DropHandleKeeps, DropItemKeeps, DropInnerKeeps
  <2> QED
    BY <1>1, <2>2, <2>3, <2>4, <2>5, <2>6 DEF Step
<1>2. CASE UNCHANGED vars
  <2>1. UNCHANGED <<head, tail, t_tail, len, inner, next, live, pc, cur, moved>>
    BY <1>2 DEF vars, fields, heap, local
  <2>2. Front' = Front
    BY <2>1 DEF Front
  <2>3. List' = List /\ InList' = InList
    BY <2>1, <2>2 DEF List, InList
  <2>4. \A t \in Threads : InHand(t)' = InHand(t)
    BY <2>1 DEF InHand
  <2>5. Typed' /\ HandsTell' /\ Unlinked'
    BY <2>1 DEF VecInv, Typed, HandsTell, Unlinked
  <2>6. Apart'
    BY <2>1, <2>3, <2>4 DEF VecInv, Apart
  <2>7. ListInv'
    BY <2>1, <2>2, <2>3, <2>4 DEF VecInv, ListInv, Freeing
  <2> QED
    BY <2>5, <2>6, <2>7 DEF VecInv
<1> QED
  BY <1>1, <1>2 DEF Next, Gone

(* new() makes an empty list.                                              *)
LEMMA VecInvInit == Init => VecInv
<1> SUFFICES ASSUME Init PROVE VecInv
  OBVIOUS
<1>1. /\ \A t \in Threads : pc[t] \in {"idle", "none"} /\ cur[t] = NULL /\ moved[t] = NULL
      /\ inner /\ head = NULL /\ t_tail = NULL /\ tail = NULL /\ live = {}
  BY DEF Init
<1>2. Typed
  BY PlacedInit DEF Init, Typed, Placed, Ptr
<1>3. Front = NULL
  BY <1>1 DEF Front
<1>4. IsList(<<>>, Front, next, NULL)
  BY <1>2, <1>3, ItemsAssumption DEF IsList, Nth, Distinct, Typed
<1>5. List = <<>>
  BY <1>2, <1>4, ListIs DEF Typed
<1>6. InList = {} /\ \A t \in Threads : InHand(t) = {NULL}
  BY <1>1, <1>5 DEF InList, InHand
<1>7. HandsTell /\ Apart /\ Unlinked
  BY <1>1, <1>6 DEF HandsTell, Apart, Unlinked
<1>8. ListInv
  BY <1>1, <1>4, <1>5, <1>6, ItemsAssumption DEF ListInv
<1> QED
  BY <1>2, <1>7, <1>8 DEF VecInv

(* The inductive invariant holds throughout.                                *)
LEMMA VecCorrect == Spec => [](VecInv /\ LockExclusive /\ HandlesCounted)
<1>1. VecInv /\ LockExclusive /\ HandlesCounted /\ HandlesCounted' /\ [Next]_vars => VecInv'
  BY VecInvStep
<1> QED
  BY <1>1, VecInvInit, LockCorrect, HandlesCorrect, PTL DEF Spec

---------------------------------------------------------------------------
(* The items in the threads' hands.                                        *)
LEMMA HandsAre ==
  ASSUME Typed
  PROVE  /\ \A t \in Threads : InHand(t) \subseteq Ptr
         /\ \A x : x \in InHands <=> x # NULL /\ \E t \in Threads : x \in InHand(t)
         /\ InHands \subseteq Items
<1>1. \A t \in Threads : InHand(t) \subseteq Ptr
  BY DEF InHand, Typed
<1>2. \A x : x \in InHands <=> x # NULL /\ \E t \in Threads : x \in InHand(t)
  <2> DEFINE U == {InHand(t) : t \in Threads}
  <2>1. ASSUME NEW x PROVE x \in UNION U <=> \E t \in Threads : x \in InHand(t)
    <3>1. x \in UNION U <=> \E S \in U : x \in S
      OBVIOUS
    <3> QED
      BY <3>1
  <2>2. InHands = (UNION U) \ {NULL}
    BY DEF InHands
  <2> HIDE DEF U
  <2> QED
    BY <2>1, <2>2
<1> QED
  BY <1>1, <1>2 DEF Ptr

(* They are in one place each.                                             *)
LEMMA HandsCount ==
  ASSUME VecInv
  PROVE  LET H == {h \in Threads \X Items : h[2] \in InHand(h[1])}
         IN  IsFiniteSet(InHands) /\ Cardinality(InHands) = Cardinality(H)
<1> DEFINE H == {h \in Threads \X Items : h[2] \in InHand(h[1])}
           f == [h \in H |-> h[2]]
<1>1. InHands \subseteq Items
  BY HandsAre DEF VecInv
<1>2. IsFiniteSet(InHands)
  BY <1>1, ItemsAssumption, FS_Subset
<1>3. \A t, u \in Threads : \A x \in Items : x \in InHand(t) /\ x \in InHand(u) => t = u
  BY ItemsAssumption DEF VecInv, Apart, InHand
<1>4. f \in [H -> InHands]
  BY HandsAre, ItemsAssumption DEF VecInv
<1>5. f \in Injection(H, InHands)
  <2>1. ASSUME NEW g \in H, NEW h \in H, f[g] = f[h] PROVE g = h
    <3>1. /\ g[1] \in Threads /\ h[1] \in Threads /\ g[2] = h[2] /\ g[2] \in Items
          /\ g[2] \in InHand(g[1]) /\ h[2] \in InHand(h[1])
          /\ g = <<g[1], g[2]>> /\ h = <<h[1], h[2]>>
      BY <2>1
    <3> QED
      BY <1>3, <3>1
  <2> QED
    BY <1>4, <2>1 DEF Injection, IsInjective
<1>6. f \in Surjection(H, InHands)
  <2>1. ASSUME NEW x \in InHands PROVE \E h \in H : f[h] = x
    <3>1. PICK t \in Threads : x \in InHand(t)
      BY <2>1 DEF InHands
    <3>2. <<t, x>> \in H
      BY <1>1, <3>1
    <3> QED
      BY <3>2
  <2> QED
    BY <1>4, <2>1 DEF Surjection
<1>7. IsFiniteSet(H) /\ Cardinality(H) = Cardinality(InHands)
  BY <1>2, <1>5, <1>6, FS_Injection
<1> QED
  BY <1>2, <1>7

(* The invariant has every item allocated in one place only.                *)
LEMMA InvConserves == VecInv => Conservation
<1> SUFFICES ASSUME VecInv PROVE Conservation
  OBVIOUS
<1> USE DEF VecInv
<1>1. \A x \in Items : x \in live <=> x \in InList \/ x = t_tail \/ \E t \in Threads : x \in InHand(t)
  BY DEF ListInv
<1>2. /\ InList \subseteq Items /\ InPocket \subseteq Items /\ InHands \subseteq Items
      /\ live \subseteq Items /\ NULL \notin InList
  BY FrontInList, HandsAre DEF InPocket, Typed, Ptr
<1>3. live = InList \cup InPocket \cup InHands
  BY <1>1, <1>2, HandsAre, ItemsAssumption DEF InPocket
<1>4. /\ InList \cap InPocket = {} /\ InList \cap InHands = {} /\ InPocket \cap InHands = {}
  <2>1. InPocket \cap InHands = {}
    BY DEF InPocket, InHands, InHand, Apart
  <2> QED
    BY <2>1 DEF Apart, InPocket, InHands
<1>5. /\ IsFiniteSet(InList) /\ Cardinality(InList) = Len(List) /\ Len(List) \in Nat
  <2>1. InList = Elems(List) /\ List \in Seq(Items) /\ Distinct(List)
    BY DEF InList, Elems, ListInv, IsList, Typed
  <2> QED
    BY <2>1, DistinctLength
<1>6. IsFiniteSet(InPocket) /\ Cardinality(InPocket) \in Nat
  BY <1>2, ItemsAssumption, FS_Subset, FS_CardinalityType
<1>7. IsFiniteSet(InHands) /\ Cardinality(InHands) \in Nat
      /\ Cardinality(InHands) = Cardinality({h \in Threads \X Items : h[2] \in InHand(h[1])})
  BY HandsCount, FS_CardinalityType
<1>8. Cardinality({}) = 0
  BY FS_EmptySet
<1>9. /\ IsFiniteSet(InList \cup InPocket)
      /\ Cardinality(InList \cup InPocket) = Len(List) + Cardinality(InPocket)
  <2>1. /\ IsFiniteSet(InList \cup InPocket)
        /\ Cardinality(InList \cup InPocket) = Cardinality(InList) + Cardinality(InPocket) - 0
    BY <1>4, <1>5, <1>6, <1>8, FS_Union
  <2> QED
    BY <1>5, <1>6, <2>1
<1>10. Cardinality(live) = Len(List) + Cardinality(InPocket) + Cardinality(InHands)
  <2>1. (InList \cup InPocket) \cap InHands = {}
    BY <1>4
  <2>2. Cardinality((InList \cup InPocket) \cup InHands)
          = Cardinality(InList \cup InPocket) + Cardinality(InHands) - 0
    BY <1>7, <1>8, <1>9, <2>1, FS_Union
  <2> QED
    BY <1>3, <1>5, <1>6, <1>7, <1>9, <2>2
<1>11. (inner /\ \A t \in Threads : pc[t] # "free") =>
         tail = IF List = <<>> THEN NULL ELSE List[Len(List)]
  BY DEF ListInv, Freeing
<1> QED
  BY <1>3, <1>7, <1>10, <1>11 DEF Conservation

(* No item is lost, freed while it can be reached, or in two places, however   *)
(* many threads push, pop, clone and drop, and whatever addresses are used     *)
(* again.                                                                    *)
THEOREM ConservationCorrect == Spec => []Conservation
BY VecCorrect, InvConserves, PTL

---------------------------------------------------------------------------
(* What a step does to the list while there is a handle.                    *)
ListMoves(t) ==
  /\ PushLink(t) => List' = Append(List, cur[t])
  /\ ReleaseLink(t) => List' = Append(List, moved[t])
  /\ PopUnlink(t) => List' = IF head = NULL THEN List ELSE Tail(List)
  /\ pc[t] \notin {"link", "relink", "unlink"} => List' = List

(* Every step moves the list so.                                            *)
LEMMA ListStep ==
  ASSUME VecInv, HandlesCounted, HandlesCounted', Typed', NEW t \in Threads, Step(t),
         inner', ~Freeing'
  PROVE  ListMoves(t) /\ inner /\ ~Freeing
<1> USE DEF VecInv
<1>1. Front' = head' /\ \A u \in Threads : pc'[u] # "free"
  BY NextFrontIs DEF FrontTells, Freeing
<1>2. pc[t] \notin {"none", "free"}
  BY <1>1 DEF Typed, Step, PushPeek, PushStash, PushStashFull, PushLock, PushLink, PushCount, ReleaseSwap,
     ReleaseLink, ReleaseCount, ReleaseStore, PopLock, Lock, PopUnlink, PopTake, PopUncount, Clone,
     DropHandle, DropItem, DropInner, Goto
<1>3. Front = head /\ inner /\ ~Freeing
  BY <1>2, NobodyFrees
<1>4. ASSUME UNCHANGED <<head, next>> PROVE List' = List
  BY <1>1, <1>3, <1>4 DEF List
<1>5. CASE PushLink(t)
  <2>1. /\ pc[t] = "link" /\ cur[t] # NULL /\ next[cur[t]] = NULL
        /\ pc' = [pc EXCEPT ![t] = "count"] /\ UpdateTail(cur[t]) /\ UNCHANGED inner
    BY <1>5 DEF PushLink, HandsTell, Unlinked, Goto, heap
  <2>2. cur[t] \in Items /\ cur[t] \notin InList /\ pc'[t] = "count"
    BY <2>1 DEF Apart, InHand, Typed, Ptr
  <2>3. List' = Append(List, cur[t])
    BY <2>1, <2>2, UpdateTailLinks
  <2> QED
    BY <1>3, <2>1, <2>3 DEF ListMoves, ReleaseLink, PopUnlink, Goto
<1>6. CASE ReleaseLink(t)
  <2>1. /\ pc[t] = "relink" /\ moved[t] # NULL /\ next[moved[t]] = NULL
        /\ pc' = [pc EXCEPT ![t] = "recount"] /\ UpdateTail(moved[t]) /\ UNCHANGED inner
    BY <1>6 DEF ReleaseLink, HandsTell, Unlinked, Goto, heap
  <2>2. moved[t] \in Items /\ moved[t] \notin InList /\ pc'[t] = "recount"
    BY <2>1 DEF Apart, InHand, Typed, Ptr
  <2>3. List' = Append(List, moved[t])
    BY <2>1, <2>2, UpdateTailLinks
  <2> QED
    BY <1>3, <2>1, <2>3 DEF ListMoves, PushLink, PopUnlink, Goto
<1>7. CASE PopUnlink(t)
  <2>1. /\ pc[t] = "unlink" /\ next' = next
        /\ head' = IF head = NULL THEN NULL ELSE next[head]
    BY <1>7 DEF PopUnlink, Goto
  <2>2. CASE head = NULL
    BY <1>3, <1>4, <2>1, <2>2 DEF ListMoves, PushLink, ReleaseLink, Goto
  <2>3. CASE head # NULL
    <3>1. List' = Tail(List)
      BY <1>1, <1>3, <2>1, <2>3, FrontOff DEF Typed
    <3> QED
      BY <1>3, <2>1, <2>3, <3>1 DEF ListMoves, PushLink, ReleaseLink, Goto
  <2> QED
    BY <2>2, <2>3
<1>8. CASE PushPeek(t)
  <2>1. PICK x \in Items \ live : next' = [next EXCEPT ![x] = NULL] /\ head' = head /\ pc[t] = "idle"
    BY <1>8 DEF PushPeek, fields
  <2>2. x \notin InList
    BY DEF ListInv
  <2>3. List' = List
    BY <1>1, <1>3, <2>1, <2>2, ListSame DEF Typed
  <2> QED
    BY <1>3, <2>1, <2>3 DEF ListMoves, PushLink, ReleaseLink, PopUnlink, Goto
<1>9. CASE ~ PushLink(t) /\ ~ ReleaseLink(t) /\ ~ PopUnlink(t) /\ ~ PushPeek(t)
  <2>1. UNCHANGED <<head, next>>
    BY <1>9 DEF Step, PushStash, PushStashFull, PushLock, PushCount, ReleaseSwap, ReleaseCount,
       ReleaseStore, PopLock, Lock, PopTake, PopUncount, Clone, DropHandle, DropItem, DropInner, fields, links
  <2> QED
    BY <1>3, <1>4, <1>9, <2>1 DEF ListMoves
<1> QED
  BY <1>5, <1>6, <1>7, <1>8, <1>9

---------------------------------------------------------------------------
(* len.                                                                    *)
Uncounted == {t \in Threads : pc[t] \in {"count", "recount"}}
Popped(t) ==
  \/ pc[t] \in {"take", "uncount"}
  \/ pc[t] \in {"swap", "relink", "recount", "unlock"} /\ cur[t] # NULL
StillCounted == {t \in Threads : Popped(t)}

(* What a step of t adds to len and to the list, and takes from them.        *)
Bit(P) == IF P THEN 1 ELSE 0
Balance(t) ==
  len' - len + Bit(t \in Uncounted') - Bit(t \in Uncounted)
    = Len(List') - Len(List) + Bit(t \in StillCounted') - Bit(t \in StillCounted)

(* No step disturbs the balance of len and the list.                        *)
LEMMA BalanceKept ==
  ASSUME VecInv, HandlesCounted, HandlesCounted', Typed', NEW t \in Threads, Step(t),
         inner', ~Freeing', ~ \E u \in Threads : Clone(t, u)
  PROVE  /\ Balance(t)
         /\ \A u \in Threads \ {t} : /\ u \in Uncounted' <=> u \in Uncounted
                                     /\ u \in StillCounted' <=> u \in StillCounted
<1> USE DEF VecInv
<1>1. ListMoves(t) /\ inner /\ ~Freeing
  BY ListStep
<1>2. Front = head
  BY <1>1, FrontIs DEF FrontTells
<1>3. List \in Seq(Items) /\ Len(List) \in Nat
  BY DEF ListInv, IsList, Typed
<1>4. len \in Int /\ pc \in [Threads -> Locations] /\ cur \in [Threads -> Ptr]
  BY DEF Typed
<1> USE DEF Balance, Uncounted, StillCounted, Popped, Bit, Goto, fields, links, heap
<1>5. ASSUME UNCHANGED len, List' = List,
             \A u \in Threads : /\ u \in Uncounted' <=> u \in Uncounted
                                /\ u \in StillCounted' <=> u \in StillCounted
      PROVE  /\ Balance(t)
             /\ \A u \in Threads \ {t} : /\ u \in Uncounted' <=> u \in Uncounted
                                         /\ u \in StillCounted' <=> u \in StillCounted
  BY <1>3, <1>4, <1>5
<1>6. CASE PushPeek(t) \/ PushStash(t) \/ PushStashFull(t) \/ PushLock(t) \/ PopLock(t)
  BY <1>1, <1>4, <1>5, <1>6
     DEF PushPeek, PushStash, PushStashFull, PushLock, PopLock, Lock, ListMoves
<1>7. CASE PushLink(t)
  <2>1. Len(List') = Len(List) + 1
    BY <1>1, <1>3, <1>7 DEF ListMoves
  <2> QED
    BY <1>3, <1>4, <1>7, <2>1 DEF PushLink
<1>8. CASE ReleaseLink(t)
  <2>1. Len(List') = Len(List) + 1
    BY <1>1, <1>3, <1>8 DEF ListMoves
  <2> QED
    BY <1>3, <1>4, <1>8, <2>1 DEF ReleaseLink
<1>9. CASE PushCount(t) \/ ReleaseCount(t)
  <2>1. List' = List
    BY <1>1, <1>9 DEF ListMoves, PushCount, ReleaseCount
  <2>2. CASE PushCount(t)
    <3>1. /\ pc[t] = "count" /\ cur[t] = NULL /\ len' = len + 1 /\ cur' = cur
          /\ pc' = [pc EXCEPT ![t] = "swap"]
      BY <2>2 DEF PushCount, HandsTell
    <3> QED
      BY <1>3, <1>4, <2>1, <3>1
  <2>3. CASE ReleaseCount(t)
    <3>1. /\ pc[t] = "recount" /\ len' = len + 1 /\ cur' = cur
          /\ pc' = [pc EXCEPT ![t] = "unlock"]
      BY <2>3 DEF ReleaseCount
    <3> QED
      BY <1>3, <1>4, <2>1, <3>1
  <2> QED
    BY <1>9, <2>2, <2>3
<1>10. CASE ReleaseSwap(t) \/ ReleaseStore(t) \/ PopTake(t)
  BY <1>1, <1>4, <1>5, <1>10 DEF ReleaseSwap, ReleaseStore, PopTake, ListMoves
<1>11. CASE PopUncount(t)
  <2>1. List' = List
    BY <1>1, <1>11 DEF ListMoves, PopUncount
  <2> QED
    BY <1>3, <1>4, <1>11, <2>1 DEF PopUncount
<1>12. CASE PopUnlink(t)
  <2>1. Len(List') = Len(List) - Bit(head # NULL)
    <3>1. CASE head = NULL
      BY <1>1, <1>3, <1>12, <3>1 DEF ListMoves
    <3>2. CASE head # NULL
      <4>1. List' = Tail(List)
        BY <1>1, <1>12, <3>2 DEF ListMoves
      <4>2. Len(Tail(List)) = Len(List) - 1
        BY <1>2, <3>2, ListRest DEF ListInv
      <4> QED
        BY <3>2, <4>1, <4>2
    <3> QED
      BY <3>1, <3>2
  <2>2. pc[t] = "unlink" /\ pc' = [pc EXCEPT ![t] = "swap"] /\ cur' = [cur EXCEPT ![t] = head] /\ len' = len
    BY <1>12 DEF PopUnlink
  <2> QED
    BY <1>3, <1>4, <2>1, <2>2
<1>13. CASE DropHandle(t) \/ DropItem(t) \/ DropInner(t)
  BY <1>1, <1>4, <1>5, <1>13 DEF DropHandle, DropItem, DropInner, ListMoves
<1> QED
  BY <1>6, <1>7, <1>8, <1>9, <1>10, <1>11, <1>12, <1>13 DEF Step

(* What changes by the same on both sides keeps them equal.                 *)
LEMMA SumsKept ==
  ASSUME NEW l \in Int, NEW l2 \in Int, NEW n \in Int, NEW n2 \in Int,
         NEW a \in Int, NEW a2 \in Int, NEW b \in Int, NEW b2 \in Int,
         NEW i \in Int, NEW i2 \in Int, NEW j \in Int, NEW j2 \in Int,
         l2 - l + i2 - i = n2 - n + j2 - j, a2 = a + i2 - i, b2 = b + j2 - j, l + a = n + b
  PROVE  l2 + a2 = n2 + b2
OBVIOUS

(* So len keeps its account of the list.                                    *)
LEMMA LenStep ==
  ASSUME VecInv, HandlesCounted, HandlesCounted', VecInv', LenAccounts, [Next]_vars
  PROVE  LenAccounts'
<1>1. SUFFICES ASSUME inner', ~Freeing'
      PROVE  len' + Cardinality(Uncounted') = Len(List') + Cardinality(StillCounted')
  BY DEF LenAccounts, Freeing, Uncounted, StillCounted, Popped
<1>2. Len(List) \in Nat /\ Len(List') \in Nat /\ len \in Int /\ len' \in Int
  BY DEF VecInv, ListInv, IsList, Typed
<1>3. /\ Uncounted \in SUBSET Threads /\ Uncounted' \in SUBSET Threads
      /\ StillCounted \in SUBSET Threads /\ StillCounted' \in SUBSET Threads
  BY DEF Uncounted, StillCounted
<1>4. ASSUME inner, ~Freeing
      PROVE  len + Cardinality(Uncounted) = Len(List) + Cardinality(StillCounted)
  BY <1>4 DEF LenAccounts, Freeing, Uncounted, StillCounted, Popped
<1>5. ASSUME NEW t \in Threads, Step(t), ~ \E u \in Threads : Clone(t, u)
      PROVE  len' + Cardinality(Uncounted') = Len(List') + Cardinality(StillCounted')
  <2>1. inner /\ ~Freeing
    BY <1>1, <1>5, ListStep DEF VecInv
  <2>2. /\ Balance(t)
        /\ \A u \in Threads \ {t} : /\ u \in Uncounted' <=> u \in Uncounted
                                    /\ u \in StillCounted' <=> u \in StillCounted
    BY <1>1, <1>5, BalanceKept DEF VecInv
  <2>3. /\ Cardinality(Uncounted) \in Nat /\ Cardinality(Uncounted') \in Nat
        /\ Cardinality(Uncounted') = Cardinality(Uncounted) + Bit(t \in Uncounted') - Bit(t \in Uncounted)
    BY <1>3, <2>2, ThreadsAssumption, Recount DEF Bit
  <2>4. /\ Cardinality(StillCounted) \in Nat /\ Cardinality(StillCounted') \in Nat
        /\ Cardinality(StillCounted')
             = Cardinality(StillCounted) + Bit(t \in StillCounted') - Bit(t \in StillCounted)
    BY <1>3, <2>2, ThreadsAssumption, Recount DEF Bit
  <2>5. len + Cardinality(Uncounted) = Len(List) + Cardinality(StillCounted)
    BY <1>4, <2>1
  <2>6. PICK i \in Int, i2 \in Int, j \in Int, j2 \in Int :
               /\ i = Bit(t \in Uncounted) /\ i2 = Bit(t \in Uncounted')
               /\ j = Bit(t \in StillCounted) /\ j2 = Bit(t \in StillCounted')
    BY DEF Bit
  <2> DEFINE n == Len(List)  n2 == Len(List')
             a == Cardinality(Uncounted)  a2 == Cardinality(Uncounted')
             b == Cardinality(StillCounted)  b2 == Cardinality(StillCounted')
  <2>7. /\ n \in Int /\ n2 \in Int /\ a \in Int /\ a2 \in Int /\ b \in Int /\ b2 \in Int
    BY <1>2, <2>3, <2>4
  <2>8. PICK l \in Int, l2 \in Int : l = len /\ l2 = len'
    BY <1>2
  <2>9. /\ l2 - l + i2 - i = n2 - n + j2 - j
        /\ a2 = a + i2 - i /\ b2 = b + j2 - j /\ l + a = n + b
    BY <2>2, <2>3, <2>4, <2>5, <2>6, <2>7, <2>8, Zenon DEF Balance
  <2> HIDE DEF n, n2, a, a2, b, b2
  <2>10. l2 + a2 = n2 + b2
    BY <2>7, <2>9, SumsKept
  <2> QED
    BY <2>8, <2>10, Zenon DEF n, n2, a, a2, b, b2
<1>6. ASSUME NEW t \in Threads, NEW u \in Threads, Clone(t, u)
      PROVE  len' + Cardinality(Uncounted') = Len(List') + Cardinality(StillCounted')
  <2>1. /\ UNCHANGED <<head, next, len, cur, inner>>
        /\ pc[t] = "idle" /\ pc[u] = "none" /\ pc' = [pc EXCEPT ![u] = "idle"]
    BY <1>6 DEF Clone, links, heap, Goto
  <2>2. inner /\ ~Freeing /\ Front = head /\ Front' = head'
    BY <1>1, <2>1, NobodyFrees, NextFrontIs DEF FrontTells
  <2>3. List' = List
    BY <2>1, <2>2 DEF List
  <2>4. Uncounted' = Uncounted /\ StillCounted' = StillCounted
    BY <2>1 DEF Uncounted, StillCounted, Popped, VecInv, Typed
  <2> QED
    BY <1>4, <2>1, <2>2, <2>3, <2>4
<1>7. CASE UNCHANGED vars
  <2>1. UNCHANGED <<head, next, len, cur, inner, pc>>
    BY <1>7 DEF vars, fields, heap, local
  <2>2. Front' = Front
    BY <2>1 DEF Front
  <2>3. List' = List /\ Uncounted' = Uncounted /\ StillCounted' = StillCounted /\ Freeing' = Freeing
    BY <2>1, <2>2 DEF List, Uncounted, StillCounted, Popped, Freeing
  <2> QED
    BY <1>1, <1>4, <2>1, <2>3
<1> QED
  BY <1>5, <1>6, <1>7 DEF Next, Gone

(* len never drifts from the list: at any time, for any number of threads, it  *)
(* is off by the operations under way and by nothing else.                   *)
THEOREM LenCorrect == Spec => []LenAccounts
<1>1. Init => LenAccounts
  <2>1. SUFFICES ASSUME Init PROVE LenAccounts
    OBVIOUS
  <2>2. Front = NULL /\ len = 0 /\ \A t \in Threads : pc[t] \in {"idle", "none"}
    BY <2>1 DEF Init, Front
  <2>3. List = <<>>
    BY <2>1, <2>2, VecInvInit, FrontInList
  <2>4. Uncounted = {} /\ StillCounted = {}
    BY <2>2 DEF Uncounted, StillCounted, Popped
  <2>5. len + Cardinality(Uncounted) = Len(List) + Cardinality(StillCounted)
    BY <2>2, <2>3, <2>4, FS_EmptySet
  <2> QED
    BY <2>5 DEF LenAccounts, Uncounted, StillCounted, Popped
<1>2. VecInv /\ HandlesCounted /\ HandlesCounted' /\ VecInv' /\ LenAccounts /\ [Next]_vars => LenAccounts'
  BY LenStep
<1> QED
  BY <1>1, <1>2, VecCorrect, PTL DEF Spec

(* An owner that has an item to count has one on the list, and is the only one *)
(* who has: so len is a natural number while there is a handle.              *)
LEMMA LenNatural ==
  ASSUME VecInv, LockExclusive, LenAccounts, inner, ~Freeing
  PROVE  len \in Nat
<1>1. len + Cardinality(Uncounted) = Len(List) + Cardinality(StillCounted)
  BY DEF LenAccounts, Freeing, Uncounted, StillCounted, Popped
<1>2. /\ len \in Int /\ Len(List) \in Nat /\ (List # <<>> => Len(List) >= 1)
  BY DEF VecInv, ListInv, IsList, Typed
<1>3. StillCounted \in SUBSET Threads /\ Uncounted \in SUBSET Threads
  BY DEF StillCounted, Uncounted
<1>4. Cardinality(StillCounted) \in Nat /\ Cardinality(Uncounted) \in Nat
  BY <1>3, ThreadsAssumption, FS_Subset, FS_CardinalityType
<1>5. CASE Uncounted = {}
  BY <1>1, <1>2, <1>4, <1>5, FS_EmptySet
<1>6. CASE Uncounted # {}
  <2>1. PICK t \in Threads : pc[t] \in {"count", "recount"}
    BY <1>6 DEF Uncounted
  <2>2. Uncounted = {t}
    BY <2>1 DEF Uncounted, LockExclusive, Owning
  <2>3. List # <<>>
    BY <2>1 DEF VecInv, ListInv
  <2>4. Cardinality(Uncounted) = 1
    BY <2>2, FS_Singleton
  <2> QED
    BY <1>1, <1>2, <1>4, <2>3, <2>4
<1> QED
  BY <1>5, <1>6

(* That is so after a step as well.                                        *)
LEMMA NextLenNatural ==
  (VecInv /\ LockExclusive /\ LenAccounts /\ inner /\ ~Freeing => len \in Nat)'
<1>1. VecInv /\ LockExclusive /\ LenAccounts /\ inner /\ ~Freeing => len \in Nat
  BY LenNatural
<1> QED
  BY <1>1, PTL

(* Every variable has its type: len is never taken below zero, though pop      *)
(* subtracts after it has given the lock back, and neither is ref_count.      *)
THEOREM TypeCorrect == Spec => []TypeOK
<1> DEFINE I == len \in Nat /\ state \in BOOLEAN
<1>1. Init => I
  BY DEF Init, AVAILABLE
<1>2. VecInv /\ VecInv' /\ LockExclusive' /\ LenAccounts' /\ HandlesCounted'
        /\ I /\ [Next]_vars => I'
  <2>1. SUFFICES ASSUME VecInv, VecInv', LockExclusive', LenAccounts', HandlesCounted', I, [Next]_vars
        PROVE  I'
    OBVIOUS
  <2>2. state' \in BOOLEAN
    <3>1. Placed
      BY <2>1 DEF VecInv, Typed, Placed
    <3>2. ASSUME NEW t \in Threads, Step(t) PROVE state' \in BOOLEAN
      BY <2>1, <3>1, <3>2, StepKinds, OutsideStep, WithinStep, TakeStep, GiveStep, HandleStepOutside
         DEF Moves, AVAILABLE, UPDATING
    <3> QED
      BY <2>1, <3>2 DEF Next, Gone, vars, fields
  <2>3. CASE UNCHANGED len
    BY <2>1, <2>2, <2>3
  <2>4. CASE ~ UNCHANGED len
    <3>1. PICK t \in Threads : PushCount(t) \/ ReleaseCount(t) \/ PopUncount(t)
      BY <2>1, <2>4 DEF Next, Gone, Step, PushPeek, PushStash, PushStashFull, PushLock, PushLink,
         ReleaseSwap, ReleaseLink, ReleaseStore, PopLock, Lock, PopUnlink, PopTake, Clone, DropHandle,
         DropItem, DropInner, fields, vars
    <3>2. pc'[t] \notin {"none", "free"}
      BY <2>1, <3>1 DEF PushCount, ReleaseCount, PopUncount, Goto, VecInv, Typed
    <3>3. inner' /\ ~Freeing'
      BY <2>1, <3>2, NextNobodyFrees
    <3>4. len' \in Nat
      BY <2>1, <3>3, NextLenNatural
    <3> QED
      BY <2>2, <3>4
  <2> QED
    BY <2>2, <2>3, <2>4
<1>3. VecInv /\ HandlesCounted /\ I => TypeOK
  <2>1. HandlesCounted => ref_count \in Nat
    BY HeldFinite DEF HandlesCounted, Held
  <2> QED
    BY <2>1 DEF VecInv, Typed, TypeOK
<1> QED
  BY <1>1, <1>2, <1>3, VecCorrect, LenCorrect, PTL DEF Spec
=============================================================================
