---------------------------- MODULE MutexProofs ----------------------------
(***************************************************************************)
(* Theorems about Mutex, for any number of threads: what is counted and who  *)
(* is registered; and with one group thread that it excludes, implements     *)
(* GroupLock and never parks everybody.                                     *)
(***************************************************************************)
EXTENDS MutexProperties, FiniteSetTheorems, TLAPS

(* What a thread's task can be where it is, and the side of the places only  *)
(* a group thread comes to.                                                *)
WakeTasks == {"join", "wakeAll", "drain", "unlock", "unlockAgain"}
Control ==
  \A t \in Threads :
    /\ pc[t] \in {"peek", "stash", "enqueue", "suspended"} => task[t] = "suspend"
    /\ pc[t] \in {"take", "pop", "unpark", "store"} => task[t] \in WakeTasks
    /\ pc[t] \in {"flush", "free"} => task[t] \in WakeTasks \cup {"suspend"}
    /\ task[t] # "none" => pc[t] \in {"peek", "stash", "enqueue", "suspended", "take",
                                     "pop", "unpark", "store", "flush", "free"}
    /\ pc[t] \in {"sub", "storeDirty", "reload"} => side[t] = "g"
    /\ pc[t] \in {"load", "tryDirty", "tryUnlocked"} => side[t] = "e"
    /\ task[t] \in {"join", "wakeAll", "drain"} => side[t] = "g"
    /\ pc[t] = "unpark" => got[t] # NULL

CountInv == Typed /\ Control /\ GroupCounted

---------------------------------------------------------------------------
(* Typed and Control hold from the start and every action keeps them: each  *)
(* moves a thread to a place where its task and its side may be what they    *)
(* are.                                                                    *)
LEMMA ShapeInit == Init => Typed /\ Control
BY YieldLimitAssumption
DEF Init, Typed, Control, WakeTasks, Locations, Tasks, Sides, List!Init,
    UNLOCKED, LOCKED, LOCKED_GROUP, DIRTY

(* What the helpers of several actions give them.                          *)
LEMMA ListOfIsSide ==
  ASSUME Typed, NEW t \in Threads PROVE ListOf(t) \in Sides
BY DEF Typed, ListOf, Other, Sides, Tasks

(* snooze() keeps the backoff step a natural number.                        *)
LEMMA SnoozeTyped ==
  ASSUME Typed, NEW t \in Threads, Snooze(t)
  PROVE  step' \in [Threads -> 0..(YieldLimit + 1)]
<1>1. step[t] \in 0..(YieldLimit + 1) /\ YieldLimit \in Nat
  BY YieldLimitAssumption DEF Typed
<1>2. (IF step[t] > YieldLimit THEN step[t] ELSE step[t] + 1) \in 0..(YieldLimit + 1)
  BY <1>1
<1> QED
  BY <1>2 DEF Typed, Snooze, IsCompleted

(* A compare_exchange of a lock function, whether it succeeds or not, keeps *)
(* the types and leaves the thread at a place its task and side fit.        *)
LEMMA CasShape ==
  ASSUME Typed, Control, NEW t \in Threads, NEW at \in {"casUnlocked", "casDirty"},
         NEW from, CompareExchange(t, at, from)
  PROVE  Typed' /\ Control'
<1> USE DEF Typed, Control, WakeTasks, Locations, Tasks, Sides, parking, word,
            UNLOCKED, LOCKED, LOCKED_GROUP, DIRTY
<1>1. CASE state = from /\ Acquired(t)
  <2>1. step' \in [Threads -> 0..(YieldLimit + 1)]
    BY <1>1, YieldLimitAssumption DEF Acquired
  <2> QED
    BY <1>1, <2>1 DEF CompareExchange, Acquired
<1>2. CASE Retry(t) /\ UNCHANGED state
  <2>1. step' \in [Threads -> 0..(YieldLimit + 1)]
    BY <1>2, SnoozeTyped DEF Retry
  <2> QED
    BY <1>2, <2>1 DEF CompareExchange, Retry
<1> QED
  BY <1>1, <1>2 DEF CompareExchange

(* Every step of the code keeps the types and the control invariant.        *)
LEMMA ShapeStep ==
  ASSUME Typed, Control, [Next]_vars
  PROVE  Typed' /\ Control'
<1> USE YieldLimitAssumption DEF Typed, Control, Goto
<1> USE DEF WakeTasks, Locations, Tasks, Sides
<1> USE DEF UNLOCKED, LOCKED, LOCKED_GROUP, DIRTY, word, parking
<1>1. ASSUME NEW t \in Threads, LockExclusive(t) PROVE Typed' /\ Control'
  BY <1>1 DEF LockExclusive
<1>2. ASSUME NEW t \in Threads, LockGroup(t) PROVE Typed' /\ Control'
  BY <1>2 DEF LockGroup
<1>3. ASSUME NEW t \in Threads, TryLockExclusive(t) PROVE Typed' /\ Control'
  BY <1>3 DEF TryLockExclusive
<1>4. ASSUME NEW t \in Threads, Spin(t) PROVE Typed' /\ Control'
  BY <1>4 DEF Spin
<1>5. ASSUME NEW t \in Threads, LoadLocked(t) PROVE Typed' /\ Control'
  <2>1. CASE pc' = [pc EXCEPT ![t] = "casDirty"] /\ UNCHANGED <<step, task>>
    BY <1>5, <2>1 DEF LoadLocked
  <2>2. CASE Retry(t)
    <3>1. step' \in [Threads -> 0..(YieldLimit + 1)]
      BY <2>2, SnoozeTyped DEF Retry
    <3> QED
      BY <1>5, <2>2, <3>1 DEF LoadLocked, Retry
  <2> QED
    BY <1>5, <2>1, <2>2 DEF LoadLocked
<1>6. ASSUME NEW t \in Threads, CasUnlocked(t) PROVE Typed' /\ Control'
  BY <1>6, CasShape DEF CasUnlocked
<1>7. ASSUME NEW t \in Threads, CasDirty(t) PROVE Typed' /\ Control'
  BY <1>7, CasShape DEF CasDirty
<1>8. ASSUME NEW t \in Threads, Reload(t) PROVE Typed' /\ Control'
  BY <1>8 DEF Reload
<1>9. ASSUME NEW t \in Threads, TryDirty(t) PROVE Typed' /\ Control'
  BY <1>9 DEF TryDirty, TryCompareExchange
<1>10. ASSUME NEW t \in Threads, TryUnlocked(t) PROVE Typed' /\ Control'
  BY <1>10 DEF TryUnlocked, TryCompareExchange
<1>11. ASSUME NEW t \in Threads, FetchSub(t) PROVE Typed' /\ Control'
  BY <1>11 DEF FetchSub
<1>12. ASSUME NEW t \in Threads, StoreDirty(t) PROVE Typed' /\ Control'
  BY <1>12 DEF StoreDirty
<1>13. ASSUME NEW t \in Threads, Suspend(t) PROVE Typed' /\ Control'
  BY <1>13 DEF Suspend
<1>14. ASSUME NEW t \in Threads, PushPeek(t) PROVE Typed' /\ Control'
  BY <1>14 DEF PushPeek
<1>15. ASSUME NEW t \in Threads, PushStash(t) PROVE Typed' /\ Control'
  <2> DEFINE k == ListOf(t)
  <2>1. k \in Sides
    BY ListOfIsSide
  <2>2. pocket' \in [Sides -> Threads \cup {NULL}] /\ UNCHANGED <<queue, phase>>
    BY <1>15, <2>1 DEF PushStash, List!Pocket
  <2>3. pc[t] = "stash" /\ \E p \in {"suspended", "enqueue"} : pc' = [pc EXCEPT ![t] = p]
    BY <1>15 DEF PushStash
  <2> QED
    BY <1>15, <2>2, <2>3 DEF PushStash
<1>16. ASSUME NEW t \in Threads, PushEnqueue(t) PROVE Typed' /\ Control'
  BY <1>16, ListOfIsSide DEF PushEnqueue, List!Enqueue
<1>17. ASSUME NEW t \in Threads, SuspendStore(t) PROVE Typed' /\ Control'
  BY <1>17 DEF SuspendStore
<1>18. ASSUME NEW t \in Threads, Unparked(t) \/ SpuriousReturn(t)
      PROVE  Typed' /\ Control'
  <2>1. CASE Unparked(t)
    BY <2>1 DEF Unparked
  <2>2. CASE SpuriousReturn(t)
    BY <2>2 DEF SpuriousReturn
  <2> QED
    BY <1>18, <2>1, <2>2
<1>19. ASSUME NEW t \in Threads, WakeTake(t) PROVE Typed' /\ Control'
  BY <1>19 DEF WakeTake
<1>20. ASSUME NEW t \in Threads, Pop(t) PROVE Typed' /\ Control'
  <2> DEFINE k == ListOf(t)
  <2>1. k \in Sides
    BY ListOfIsSide
  <2>2. CASE List!FindEmpty(k) /\ got' = [got EXCEPT ![t] = NULL]
    BY <1>20, <2>1, <2>2 DEF Pop, List!FindEmpty
  <2>3. CASE List!Dequeue(k) /\ got' = [got EXCEPT ![t] = Head(queue[k])]
    <3>1. queue[k] \in Seq(Threads) /\ queue[k] # <<>>
      BY <2>1, <2>3 DEF List!Dequeue
    <3>2. Head(queue[k]) \in Threads /\ Tail(queue[k]) \in Seq(Threads)
      BY <3>1
    <3> QED
      BY <1>20, <2>1, <2>3, <3>2 DEF Pop, List!Dequeue
  <2> QED
    BY <1>20, <2>2, <2>3 DEF Pop
<1>21. ASSUME NEW t \in Threads, ReleaseFlush(t) PROVE Typed' /\ Control'
  <2> DEFINE k == ListOf(t)
             flushed == IF pocket[k] = NULL THEN queue[k] ELSE Append(queue[k], pocket[k])
  <2>1. k \in Sides
    BY ListOfIsSide
  <2>2. queue[k] \in Seq(Threads) /\ pocket[k] \in Threads \cup {NULL}
    BY <2>1
  <2>3. flushed \in Seq(Threads)
    BY <2>2
  <2>4. queue' = [queue EXCEPT ![k] = flushed]
    BY <1>21 DEF ReleaseFlush, List!Flush
  <2>5. queue' \in [Sides -> Seq(Threads)]
    BY <2>1, <2>3, <2>4
  <2> QED
    BY <1>21, <2>1, <2>5 DEF ReleaseFlush, List!Flush
<1>22. ASSUME NEW t \in Threads, ReleaseUnlock(t) PROVE Typed' /\ Control'
  BY <1>22, ListOfIsSide DEF ReleaseUnlock, List!Unlock
<1>23. ASSUME NEW t \in Threads, Unpark(t) PROVE Typed' /\ Control'
  BY <1>23 DEF Unpark
<1>24. ASSUME NEW t \in Threads, WakeStore(t) PROVE Typed' /\ Control'
  BY <1>24 DEF WakeStore
<1>25. ASSUME NEW t \in Threads, UnlockExclusive(t) PROVE Typed' /\ Control'
  BY <1>25 DEF UnlockExclusive
<1>26. ASSUME NEW t \in Threads, UnlockGroup(t) PROVE Typed' /\ Control'
  BY <1>26 DEF UnlockGroup
<1>27. ASSUME NEW t \in Threads, UnlockAllGroup(t) PROVE Typed' /\ Control'
  <2>1. \A u \in Threads : pc'[u] = pc[u] \/ (pc'[u] \in {"idle", "panicked"} /\ pc[u] \in {"idle", "hold"})
                           \/ (u = t /\ pc'[u] = "sub" /\ pc[u] = "hold")
    BY <1>27 DEF UnlockAllGroup, Relieved
  <2>2. pc' \in [Threads -> Locations]
    BY <1>27 DEF UnlockAllGroup, Relieved
  <2>3. side[t] = "g" /\ pc' = [pc' EXCEPT ![t] = pc'[t]]
    BY <1>27, <2>2 DEF UnlockAllGroup
  <2>4. Typed'
    BY <1>27, <2>2 DEF UnlockAllGroup
  <2>5. UNCHANGED <<task, side, got>>
    BY <1>27 DEF UnlockAllGroup
  <2> QED
    BY <2>1, <2>3, <2>4, <2>5
<1>28. CASE UNCHANGED vars
  BY <1>28 DEF vars, local
<1> QED
  BY <1>1, <1>2, <1>3, <1>4, <1>5, <1>6, <1>7, <1>8, <1>9, <1>10, <1>11, <1>12,
     <1>13, <1>14, <1>15, <1>16, <1>17, <1>18, <1>19, <1>20, <1>21, <1>22, <1>23, <1>24,
     <1>25, <1>26, <1>27, <1>28 DEF Next, Begin, Call, Unlock

---------------------------------------------------------------------------
(* locked and the threads it counts.  Only lock_group, unlock_group and       *)
(* unlock_all_group change either, and they change both.                     *)
LEMMA InsideFinite == IsFiniteSet(Inside) /\ Cardinality(Inside) \in Nat
<1>1. Inside \subseteq Threads
  BY DEF Inside
<1> QED
  BY <1>1, ThreadsAssumption, FS_Subset, FS_CardinalityType

(* The actions that count nobody in or out.                                 *)
Uncounted(t) ==
  \/ TryLockExclusive(t)
  \/ Spin(t)
  \/ LoadLocked(t)
  \/ CasUnlocked(t)
  \/ CasDirty(t)
  \/ Reload(t)
  \/ TryDirty(t)
  \/ TryUnlocked(t)
  \/ StoreDirty(t)
  \/ Suspend(t)
  \/ PushPeek(t)
  \/ PushStash(t)
  \/ PushEnqueue(t)
  \/ SuspendStore(t)
  \/ Unparked(t) \/ SpuriousReturn(t)
  \/ WakeTake(t)
  \/ Pop(t)
  \/ ReleaseFlush(t)
  \/ ReleaseUnlock(t)
  \/ Unpark(t)
  \/ WakeStore(t)
  \/ UnlockExclusive(t)
  \/ UnlockGroup(t)

(* A step that is neither the start of lock_group nor an unlock of a group  *)
(* leaves locked, and the group threads it counts, as they are.             *)
LEMMA UncountedStep ==
  ASSUME Typed, Control, NEW t \in Threads, Uncounted(t)
  PROVE  Inside' = Inside /\ locked' = locked
<1> USE DEF Typed, Control, Goto, WakeTasks, Tasks, Sides, word, CountedIn, Unlocking
<1> SUFFICES (\A u \in Threads : CountedIn(u)' <=> CountedIn(u)) /\ locked' = locked
  BY DEF Inside
<1>1. CASE TryLockExclusive(t)
  BY <1>1 DEF TryLockExclusive
<1>2. CASE Spin(t)
  BY <1>2 DEF Spin
<1>3. CASE LoadLocked(t)
  BY <1>3 DEF LoadLocked, Retry
<1>4. CASE CasUnlocked(t)
  <2>1. /\ pc[t] \in {"casUnlocked", "casDirty"} /\ UNCHANGED <<side, locked>>
        /\ \E p \in {"hold", "take", "suspend", "spin"} : pc' = [pc EXCEPT ![t] = p]
        /\ task' = task \/ \E k \in {"none", "wakeAll"} : task' = [task EXCEPT ![t] = k]
    BY <1>4 DEF CasUnlocked, CompareExchange, Acquired, Retry
  <2> QED
    BY <2>1
<1>5. CASE CasDirty(t)
  <2>1. /\ pc[t] \in {"casUnlocked", "casDirty"} /\ UNCHANGED <<side, locked>>
        /\ \E p \in {"hold", "take", "suspend", "spin"} : pc' = [pc EXCEPT ![t] = p]
        /\ task' = task \/ \E k \in {"none", "wakeAll"} : task' = [task EXCEPT ![t] = k]
    BY <1>5 DEF CasDirty, CompareExchange, Acquired, Retry
  <2> QED
    BY <2>1
<1>6. CASE Reload(t)
  BY <1>6 DEF Reload
<1>7. CASE TryDirty(t)
  BY <1>7 DEF TryDirty, TryCompareExchange
<1>8. CASE TryUnlocked(t)
  BY <1>8 DEF TryUnlocked, TryCompareExchange
<1>9. CASE StoreDirty(t)
  BY <1>9 DEF StoreDirty
<1>10. CASE Suspend(t)
  BY <1>10 DEF Suspend
<1>11. CASE PushPeek(t)
  BY <1>11 DEF PushPeek
<1>12. CASE PushStash(t)
  BY <1>12 DEF PushStash, List!Pocket
<1>13. CASE PushEnqueue(t)
  BY <1>13 DEF PushEnqueue
<1>14. CASE SuspendStore(t)
  BY <1>14 DEF SuspendStore
<1>15. CASE Unparked(t) \/ SpuriousReturn(t)
  BY <1>15 DEF Unparked, SpuriousReturn
<1>16. CASE WakeTake(t)
  BY <1>16 DEF WakeTake
<1>17. CASE Pop(t)
  BY <1>17 DEF Pop
<1>18. CASE ReleaseFlush(t)
  BY <1>18 DEF ReleaseFlush
<1>19. CASE ReleaseUnlock(t)
  BY <1>19 DEF ReleaseUnlock
<1>20. CASE Unpark(t)
  BY <1>20 DEF Unpark
<1>21. CASE WakeStore(t)
  BY <1>21 DEF WakeStore
<1>22. CASE UnlockExclusive(t)
  BY <1>22 DEF UnlockExclusive
<1>23. CASE UnlockGroup(t)
  BY <1>23 DEF UnlockGroup
<1> QED
  BY <1>1, <1>2, <1>3, <1>4, <1>5, <1>6, <1>7, <1>8, <1>9, <1>10, <1>11, <1>12,
     <1>13, <1>14, <1>15, <1>16, <1>17, <1>18, <1>19, <1>20, <1>21, <1>22, <1>23 DEF
     Uncounted

(* unlock_all_group leaves no other group thread inside a call.             *)
LeavesNone == \A t, u \in Threads :
                UnlockAllGroup(t) /\ u # t /\ side[u] = "g" => pc'[u] = "idle"

(* It is so when the program calls it at rest.                              *)
LEMMA AtRestLeavesNone ==
  ASSUME Typed, UnlockAllAtRest
  PROVE  LeavesNone
<1> SUFFICES ASSUME NEW t \in Threads, NEW u \in Threads \ {t},
                    UnlockAllGroup(t), side[u] = "g"
             PROVE  pc'[u] = "idle"
  BY DEF LeavesNone
<1>1. PICK others \in Relieved(t) :
        \A v \in Threads \ {t} : pc'[v] = IF v \in others THEN "idle" ELSE pc[v]
  BY DEF UnlockAllGroup, Relieved
<1>2. pc[u] = "idle" \/ u \in others
  BY <1>1, UnlockAllAtRest DEF Relieved
<1> QED
  BY <1>1, <1>2

(* Every step keeps locked equal to the number of group threads inside, when *)
(* unlock_all_group leaves none of them uncounted.                            *)
LEMMA CountStep ==
  ASSUME Typed, Control, GroupCounted, LeavesNone, [Next]_vars
  PROVE  GroupCounted'
<1> USE DEF GroupCounted
<1>1. ASSUME NEW t \in Threads, Uncounted(t) PROVE GroupCounted'
  BY <1>1, UncountedStep
<1>2. ASSUME NEW t \in Threads, LockExclusive(t) PROVE GroupCounted'
  <2>1. \A u \in Threads : CountedIn(u)' <=> CountedIn(u)
    BY <1>2 DEF LockExclusive, CountedIn, Unlocking, Goto, Typed, Control, Sides
  <2> QED
    BY <1>2, <2>1 DEF LockExclusive, Inside, word
<1>3. ASSUME NEW t \in Threads, LockGroup(t) PROVE GroupCounted'
  <2>1. /\ ~CountedIn(t) /\ CountedIn(t)'
        /\ \A u \in Threads \ {t} : CountedIn(u)' <=> CountedIn(u)
    BY <1>3 DEF LockGroup, CountedIn, Unlocking, Goto, Typed, Control, Sides, WakeTasks
  <2>2. Inside' = Inside \cup {t} /\ t \notin Inside
    BY <2>1 DEF Inside
  <2> QED
    BY <1>3, <2>2, InsideFinite, FS_AddElement DEF LockGroup
<1>4. ASSUME NEW t \in Threads, FetchSub(t) PROVE GroupCounted'
  <2>1. /\ CountedIn(t) /\ ~CountedIn(t)'
        /\ \A u \in Threads \ {t} : CountedIn(u)' <=> CountedIn(u)
    BY <1>4 DEF FetchSub, CountedIn, Unlocking, Goto, Typed, Control, Sides, WakeTasks
  <2>2. Inside' = Inside \ {t} /\ t \in Inside
    BY <2>1 DEF Inside
  <2> QED
    BY <1>4, <2>2, InsideFinite, FS_RemoveElement DEF FetchSub
<1>5. ASSUME NEW t \in Threads, UnlockAllGroup(t) PROVE GroupCounted'
  <2>1. \A u \in Threads \ {t} : ~CountedIn(u)'
    BY <1>5 DEF LeavesNone, UnlockAllGroup, CountedIn
  <2>2. CountedIn(t)'
    BY <1>5 DEF UnlockAllGroup, Relieved, CountedIn, Unlocking, Typed, Control
  <2>3. Inside' = {t}
    BY <2>1, <2>2 DEF Inside
  <2> QED
    BY <1>5, <2>3, FS_Singleton DEF UnlockAllGroup
<1>6. CASE UNCHANGED vars
  <2>1. Inside' = Inside
    BY <1>6 DEF vars, local, Inside, CountedIn, Unlocking
  <2> QED
    BY <1>6, <2>1 DEF vars, word
<1> QED
  BY <1>1, <1>2, <1>3, <1>4, <1>5, <1>6 DEF Next, Begin, Call, Unlock, Uncounted

(* So the counting invariant, with the types it rests on, holds of every run *)
(* of a program that calls unlock_all_group at rest only.                     *)
LEMMA CountInvariant ==
  ASSUME UnlockAllAtRest
  PROVE  Spec => []CountInv
<1>1. Init => CountInv
  <2>1. ASSUME Init PROVE Inside = {}
    BY <2>1 DEF Init, Inside, CountedIn
  <2> QED
    BY <2>1, ShapeInit, FS_EmptySet DEF Init, CountInv, GroupCounted
<1>2. CountInv /\ [Next]_vars => CountInv'
  BY ShapeStep, CountStep, AtRestLeavesNone, UnlockAllAtRest DEF CountInv
<1> QED
  BY <1>1, <1>2, PTL DEF Spec

(* locked is the number of group threads waiting or inside, however many      *)
(* threads there are, if unlock_all_group is only called at rest: then the     *)
(* fetch_add of lock_group, the fetch_sub of unlock_group and the store of      *)
(* unlock_all_group keep it so.  Without the assumption it is false.           *)
THEOREM CountCorrect ==
  ASSUME UnlockAllAtRest
  PROVE  Spec => []GroupCounted
<1>1. CountInv => GroupCounted
  BY DEF CountInv
<1> QED
  BY <1>1, CountInvariant, UnlockAllAtRest, PTL

(* Every variable keeps its type; and locked, a usize, does not wrap below      *)
(* zero, if unlock_all_group is only called at rest.  Without the assumption    *)
(* it does.                                                                  *)
THEOREM TypeCorrect ==
  ASSUME UnlockAllAtRest
  PROVE  Spec => []TypeOK
<1>1. CountInv => TypeOK
  BY InsideFinite DEF CountInv, TypeOK, GroupCounted
<1> QED
  BY <1>1, CountInvariant, UnlockAllAtRest, PTL

---------------------------------------------------------------------------
(* Mutual exclusion, for programs with one group thread: then state tells    *)
(* who has the lock.  (With two, the store of DIRTY by the one that counted   *)
(* itself out as the last may come when the other, or an exclusive thread     *)
(* after it, has the lock: the run mutex_exclusion.)                         *)
OneGroup == \A g, h \in Group : g = h

InGroup(t) == Holds(t, "g") \/ pc[t] = "storeDirty"

StateTells ==
  /\ \A t \in Threads : pc[t] # "idle" /\ side[t] = "g" => t \in Group
  /\ \A t \in Threads : Holds(t, "e") => state = LOCKED
  /\ \A t, u \in Threads : Holds(t, "e") /\ Holds(u, "e") => t = u
  /\ \A t \in Threads : InGroup(t) => state = LOCKED_GROUP
  /\ state = LOCKED_GROUP => \E t \in Threads : InGroup(t)
  /\ \A t \in Threads : pc[t] \notin {"reload", "panicked"}

ExclusionInv == Typed /\ Control /\ GroupCounted /\ StateTells

(* The actions that neither take nor give up the lock.                      *)
Neutral(t) ==
  \/ LockExclusive(t) \/ LockGroup(t) \/ TryLockExclusive(t)
  \/ Spin(t) \/ LoadLocked(t) \/ Suspend(t) \/ PushPeek(t) \/ PushStash(t)
  \/ PushEnqueue(t) \/ SuspendStore(t) \/ Unparked(t) \/ SpuriousReturn(t)
  \/ WakeTake(t) \/ Pop(t)
  \/ ReleaseFlush(t) \/ ReleaseUnlock(t) \/ Unpark(t) \/ WakeStore(t)

(* A step of spin, suspend or wake changes neither the state word nor who   *)
(* has the lock.                                                            *)
LEMMA NeutralStep ==
  ASSUME OneGroup, ExclusionInv, NEW t \in Threads, Neutral(t)
  PROVE  /\ state' = state
         /\ \A u \in Threads : \A s \in Sides : Holds(u, s)' <=> Holds(u, s)
         /\ \A u \in Threads : InGroup(u)' <=> InGroup(u)
         /\ \A u \in Threads : pc'[u] \notin {"reload", "panicked"}
         /\ \A u \in Threads : pc'[u] # "idle" /\ side'[u] = "g" => u \in Group
<1> USE DEF ExclusionInv, Typed, Control, Goto, WakeTasks, Tasks, Sides, word,
            Holds, InGroup, StateTells
<1>1. CASE LockExclusive(t)
  BY <1>1 DEF LockExclusive
<1>2. CASE LockGroup(t)
  BY <1>2 DEF LockGroup
<1>3. CASE TryLockExclusive(t)
  BY <1>3 DEF TryLockExclusive
<1>4. CASE Spin(t)
  <2>1. ~(state = LOCKED_GROUP /\ side[t] = "g")
    <3>1. SUFFICES ASSUME state = LOCKED_GROUP, side[t] = "g" PROVE FALSE
      OBVIOUS
    <3>2. PICK u \in Threads : InGroup(u)
      BY <3>1
    <3>3. u \in Group /\ t \in Group /\ u # t
      BY <1>4, <3>1, <3>2 DEF Spin
    <3> QED
      BY <3>3 DEF OneGroup
  <2> QED
    BY <1>4, <2>1 DEF Spin
<1>5. CASE LoadLocked(t)
  BY <1>5 DEF LoadLocked, Retry
<1>6. CASE Suspend(t)
  BY <1>6 DEF Suspend
<1>7. CASE PushPeek(t)
  BY <1>7 DEF PushPeek
<1>8. CASE PushStash(t)
  BY <1>8 DEF PushStash, List!Pocket
<1>9. CASE PushEnqueue(t)
  BY <1>9 DEF PushEnqueue
<1>10. CASE SuspendStore(t)
  BY <1>10 DEF SuspendStore
<1>11. CASE Unparked(t) \/ SpuriousReturn(t)
  BY <1>11 DEF Unparked, SpuriousReturn
<1>12. CASE WakeTake(t)
  BY <1>12 DEF WakeTake
<1>13. CASE Pop(t)
  BY <1>13 DEF Pop
<1>14. CASE ReleaseFlush(t)
  BY <1>14 DEF ReleaseFlush
<1>15. CASE ReleaseUnlock(t)
  BY <1>15 DEF ReleaseUnlock
<1>16. CASE Unpark(t)
  BY <1>16 DEF Unpark
<1>17. CASE WakeStore(t)
  BY <1>17 DEF WakeStore
<1> QED
  BY <1>1, <1>2, <1>3, <1>4, <1>5, <1>6, <1>7, <1>8, <1>9, <1>10, <1>11, <1>12,
     <1>13, <1>14, <1>15, <1>16, <1>17 DEF Neutral

(* A compare_exchange from a state in which nobody has the lock: if it        *)
(* succeeds the thread has it, alone.                                        *)
LEMMA CasStep ==
  ASSUME OneGroup, ExclusionInv, NEW t \in Threads,
         NEW at \in {"casUnlocked", "casDirty"}, NEW from \in {UNLOCKED, DIRTY},
         CompareExchange(t, at, from)
  PROVE  StateTells'
<1> USE DEF ExclusionInv, Typed, Control, WakeTasks, Tasks, Sides, UNLOCKED, LOCKED,
            LOCKED_GROUP, DIRTY
<1>1. pc[t] = at /\ UNCHANGED side
  BY DEF CompareExchange
<1>2. CASE state = from /\ Acquired(t)
  <2>1. \A u \in Threads : \A s \in Sides : ~Holds(u, s) /\ pc[u] # "storeDirty"
    BY <1>2 DEF StateTells, InGroup
  <2>2. \A u \in Threads \ {t} : \A s \in Sides : ~Holds(u, s)' /\ pc'[u] # "storeDirty"
    BY <1>1, <1>2, <2>1 DEF Acquired, Holds
  <2>3. CASE side[t] = "e"
    <3>1. state' = LOCKED /\ Holds(t, "e")' /\ ~Holds(t, "g")' /\ pc'[t] = "hold"
      BY <1>1, <1>2, <2>3 DEF Acquired, Holds
    <3> QED
      BY <1>1, <1>2, <2>2, <3>1 DEF StateTells, InGroup, Acquired
  <2>4. CASE side[t] = "g"
    <3>1. state' = LOCKED_GROUP /\ Holds(t, "g")' /\ ~Holds(t, "e")' /\ pc'[t] = "take"
      BY <1>1, <1>2, <2>4 DEF Acquired, Holds
    <3> QED
      BY <1>1, <1>2, <2>2, <3>1 DEF StateTells, InGroup, Acquired
  <2> QED
    BY <2>3, <2>4
<1>3. CASE Retry(t) /\ UNCHANGED state
  BY <1>1, <1>3 DEF Retry, StateTells, Holds, InGroup
<1> QED
  BY <1>2, <1>3 DEF CompareExchange

(* The same of the compare_exchange of try_lock_exclusive.                  *)
LEMMA TryStep ==
  ASSUME OneGroup, ExclusionInv, NEW t \in Threads, NEW at \in {"tryUnlocked", "tryDirty"},
         NEW from \in {UNLOCKED, DIRTY}, TryCompareExchange(t, at, from)
  PROVE  StateTells'
<1> USE DEF ExclusionInv, Typed, Control, WakeTasks, Tasks, Sides, Goto, UNLOCKED, LOCKED,
            LOCKED_GROUP, DIRTY
<1>1. pc[t] = at /\ side[t] = "e" /\ task[t] = "none" /\ UNCHANGED <<side, task>>
  BY DEF TryCompareExchange
<1>2. CASE state = from
  <2>1. \A u \in Threads : \A s \in Sides : ~Holds(u, s) /\ pc[u] # "storeDirty"
    BY <1>2 DEF StateTells, InGroup
  <2>2. \A u \in Threads \ {t} : \A s \in Sides : ~Holds(u, s)' /\ pc'[u] # "storeDirty"
    BY <1>1, <1>2, <2>1 DEF TryCompareExchange, Holds
  <2>3. state' = LOCKED /\ Holds(t, "e")' /\ ~Holds(t, "g")' /\ pc'[t] = "hold"
    BY <1>1, <1>2 DEF TryCompareExchange, Holds
  <2> QED
    BY <1>1, <1>2, <2>2, <2>3 DEF StateTells, InGroup, TryCompareExchange
<1>3. CASE state # from
  BY <1>1, <1>3 DEF TryCompareExchange, StateTells, Holds, InGroup
<1> QED
  BY <1>2, <1>3

(* With one group thread, every step keeps the state word telling who has   *)
(* the lock.                                                                *)
LEMMA StateTellsStep ==
  ASSUME OneGroup, ExclusionInv, [Next]_vars
  PROVE  StateTells'
<1> USE DEF ExclusionInv, Typed, Control, WakeTasks, Tasks, Sides, Goto, UNLOCKED, LOCKED,
            LOCKED_GROUP, DIRTY
<1>1. ASSUME NEW t \in Threads, Neutral(t) PROVE StateTells'
  BY <1>1, NeutralStep DEF StateTells
<1>2. ASSUME NEW t \in Threads, CasUnlocked(t) \/ CasDirty(t) PROVE StateTells'
  BY <1>2, CasStep DEF CasUnlocked, CasDirty
<1>3. ASSUME NEW t \in Threads, TryUnlocked(t) \/ TryDirty(t) PROVE StateTells'
  BY <1>3, TryStep DEF TryUnlocked, TryDirty
<1>4. ASSUME NEW t \in Threads, Reload(t) PROVE StateTells'
  BY <1>4 DEF Reload, StateTells
<1>5. ASSUME NEW t \in Threads, FetchSub(t) PROVE StateTells'
  <2>1. pc[t] = "sub" /\ side[t] = "g" /\ task[t] = "none" /\ UNCHANGED <<state, side, task>>
    BY <1>5 DEF FetchSub
  <2>2. state = LOCKED_GROUP /\ t \in Group
    BY <2>1 DEF StateTells, Holds, InGroup
  <2>3. locked = 1
    <3>1. \A u \in Inside : u = t
      BY <2>2 DEF Inside, CountedIn, StateTells, OneGroup
    <3>2. Inside = {t}
      BY <2>1, <3>1 DEF Inside, CountedIn, Unlocking
    <3> QED
      BY <3>2, FS_Singleton DEF GroupCounted
  <2>4. pc' = [pc EXCEPT ![t] = "storeDirty"]
    BY <1>5, <2>3 DEF FetchSub
  <2> QED
    BY <2>1, <2>2, <2>4 DEF StateTells, Holds, InGroup
<1>6. ASSUME NEW t \in Threads, StoreDirty(t) PROVE StateTells'
  <2>1. /\ pc[t] = "storeDirty" /\ side[t] = "g" /\ state' = DIRTY /\ UNCHANGED side
        /\ pc' = [pc EXCEPT ![t] = "take"] /\ task' = [task EXCEPT ![t] = "unlock"]
    BY <1>6 DEF StoreDirty
  <2>2. state = LOCKED_GROUP /\ t \in Group
    BY <2>1 DEF StateTells, InGroup
  <2>3. \A u \in Threads : ~Holds(u, "e")
    BY <2>2 DEF StateTells
  <2>4. \A u \in Threads : InGroup(u) => u = t
    <3>1. \A u \in Threads : InGroup(u) => pc[u] # "idle" /\ side[u] = "g"
      BY DEF InGroup, Holds
    <3> QED
      BY <2>2, <3>1 DEF StateTells, OneGroup
  <2> QED
    BY <2>1, <2>2, <2>3, <2>4 DEF StateTells, Holds, InGroup
<1>7. ASSUME NEW t \in Threads, UnlockExclusive(t) PROVE StateTells'
  <2>1. Holds(t, "e") /\ state = LOCKED
    BY <1>7 DEF UnlockExclusive, Holds, StateTells
  <2>2. \A u \in Threads : ~Holds(u, "g") /\ pc[u] # "storeDirty" /\ (u # t => ~Holds(u, "e"))
    BY <2>1 DEF StateTells, InGroup
  <2>3. state' = UNLOCKED /\ pc' = [pc EXCEPT ![t] = "take"] /\ UNCHANGED side
        /\ task' = [task EXCEPT ![t] = "unlock"]
    BY <1>7, <2>1 DEF UnlockExclusive
  <2> QED
    BY <2>1, <2>2, <2>3 DEF StateTells, Holds, InGroup
<1>8. ASSUME NEW t \in Threads, UnlockGroup(t) PROVE StateTells'
  <2>1. Holds(t, "g") /\ state = LOCKED_GROUP
    BY <1>8 DEF UnlockGroup, Holds, StateTells, InGroup
  <2> QED
    BY <1>8, <2>1 DEF UnlockGroup, StateTells, Holds, InGroup, word
<1>9. ASSUME NEW t \in Threads, UnlockAllGroup(t) PROVE StateTells'
  <2>1. Holds(t, "g") /\ state = LOCKED_GROUP /\ t \in Group
    BY <1>9 DEF UnlockAllGroup, Holds, StateTells, InGroup
  <2>2. \A u \in Threads \ {t} : side[u] = "g" => pc[u] = "idle"
    BY <2>1 DEF StateTells, OneGroup
  <2>3. pc' = [pc EXCEPT ![t] = "sub"] /\ UNCHANGED <<state, side, task>>
    <3>1. \A others \in Relieved(t) : \A u \in Threads : u \notin others
      BY <2>2 DEF Relieved
    <3>2. pc' = [u \in Threads |-> IF u = t THEN "sub" ELSE pc[u]]
      BY <1>9, <2>1, <3>1 DEF UnlockAllGroup
    <3> QED
      BY <1>9, <3>2 DEF UnlockAllGroup, Typed
  <2> QED
    BY <2>1, <2>3, <1>9 DEF StateTells, Holds, InGroup, UnlockAllGroup
<1>10. CASE UNCHANGED vars
  BY <1>10 DEF vars, word, local, StateTells, Holds, InGroup
<1> QED
  BY <1>1, <1>2, <1>3, <1>4, <1>5, <1>6, <1>7, <1>8, <1>9, <1>10
  DEF Next, Begin, Call, Unlock, Neutral

(* With one group thread unlock_all_group is always called at rest.          *)
LEMMA OneGroupLeavesNone ==
  ASSUME OneGroup, Typed, StateTells
  PROVE  LeavesNone
<1> SUFFICES ASSUME NEW t \in Threads, NEW u \in Threads \ {t},
                    UnlockAllGroup(t), side[u] = "g"
             PROVE  pc'[u] = "idle"
  BY DEF LeavesNone
<1>1. Holds(t, "g") /\ t \in Group
  BY DEF UnlockAllGroup, Holds, StateTells, InGroup
<1>2. pc[u] = "idle"
  BY <1>1, OneGroup DEF StateTells, OneGroup
<1>3. pc'[u] = "idle"
  BY <1>2 DEF UnlockAllGroup, Relieved
<1> QED
  BY <1>3

(* So with one group thread the state word tells who has the lock in every  *)
(* run.                                                                     *)
LEMMA ExclusionInvariant ==
  ASSUME OneGroup
  PROVE  Spec => []ExclusionInv
<1>1. Init => ExclusionInv
  <2>1. ASSUME Init PROVE Inside = {} /\ StateTells
    BY <2>1 DEF Init, Inside, CountedIn, StateTells, Holds, InGroup,
                UNLOCKED, LOCKED, LOCKED_GROUP
  <2> QED
    BY <2>1, ShapeInit, FS_EmptySet DEF Init, ExclusionInv, GroupCounted
<1>2. ExclusionInv /\ [Next]_vars => ExclusionInv'
  <2> SUFFICES ASSUME ExclusionInv, [Next]_vars PROVE ExclusionInv'
    OBVIOUS
  <2>1. LeavesNone
    BY OneGroup, OneGroupLeavesNone DEF ExclusionInv
  <2> QED
    BY <2>1, OneGroup, ShapeStep, CountStep, StateTellsStep DEF ExclusionInv
<1> QED
  BY <1>1, <1>2, PTL DEF Spec

(* With one group thread and any number of exclusive ones, an exclusive       *)
(* holder is alone, whatever the interleaving of their calls.                *)
THEOREM ExclusionCorrect ==
  ASSUME OneGroup
  PROVE  Spec => []MutualExclusion
<1>1. ExclusionInv => MutualExclusion
  BY DEF ExclusionInv, StateTells, MutualExclusion, InGroup, Typed, LOCKED, LOCKED_GROUP
<1> QED
  BY <1>1, ExclusionInvariant, OneGroup, PTL

(* Then neither unlock_exclusive nor unlock_group panics on the thread that    *)
(* has the lock.                                                             *)
THEOREM UnlockNeverPanics ==
  ASSUME OneGroup
  PROVE  Spec => []NoPanic
<1>1. ExclusionInv => NoPanic
  BY DEF ExclusionInv, StateTells, NoPanic
<1> QED
  BY <1>1, ExclusionInvariant, OneGroup, PTL

---------------------------------------------------------------------------
(* With one group thread, Mutex implements GroupLock.                        *)

(* A thread inside a call locks the way it may.                            *)
Roles == \A t \in Threads :
           pc[t] # "idle" => IF side[t] = "e" THEN t \in Exclusive ELSE t \in Group

(* The actions of a thread that is inside a call or has the lock.          *)
Inner(t) ==
  \/ Spin(t) \/ LoadLocked(t) \/ CasUnlocked(t) \/ CasDirty(t) \/ Reload(t)
  \/ TryDirty(t) \/ TryUnlocked(t) \/ FetchSub(t) \/ StoreDirty(t)
  \/ Suspend(t) \/ PushPeek(t) \/ PushStash(t) \/ PushEnqueue(t)
  \/ SuspendStore(t) \/ Unparked(t) \/ SpuriousReturn(t)
  \/ WakeTake(t) \/ Pop(t) \/ ReleaseFlush(t) \/ ReleaseUnlock(t)
  \/ Unpark(t) \/ WakeStore(t)
  \/ UnlockExclusive(t) \/ UnlockGroup(t)

(* Such an action leaves every thread's side, and the others where they are. *)
LEMMA InnerStep ==
  ASSUME Typed, NEW t \in Threads, Inner(t)
  PROVE  /\ pc[t] # "idle" /\ UNCHANGED side
         /\ \A u \in Threads \ {t} : pc'[u] = pc[u]
<1> USE DEF Typed, Goto
<1>1. CASE Spin(t) \/ LoadLocked(t) \/ Reload(t)
  BY <1>1 DEF Spin, LoadLocked, Reload, Retry
<1>2. ASSUME NEW at \in {"casUnlocked", "casDirty"}, NEW from, CompareExchange(t, at, from)
      PROVE  /\ pc[t] # "idle" /\ UNCHANGED side
             /\ \A u \in Threads \ {t} : pc'[u] = pc[u]
  BY <1>2 DEF CompareExchange, Acquired, Retry
<1>3. CASE TryDirty(t) \/ TryUnlocked(t)
  BY <1>3 DEF TryDirty, TryUnlocked, TryCompareExchange
<1>4. CASE FetchSub(t) \/ StoreDirty(t) \/ UnlockExclusive(t) \/ UnlockGroup(t)
  BY <1>4 DEF FetchSub, StoreDirty, UnlockExclusive, UnlockGroup
<1>5. CASE Suspend(t) \/ PushPeek(t) \/ PushStash(t) \/ PushEnqueue(t)
  BY <1>5 DEF Suspend, PushPeek, PushStash, PushEnqueue
<1>6. CASE \/ SuspendStore(t) \/ Unparked(t) \/ SpuriousReturn(t)
           \/ WakeTake(t) \/ Pop(t)
  BY <1>6 DEF SuspendStore, Unparked, SpuriousReturn, WakeTake, Pop
<1>7. CASE ReleaseFlush(t) \/ ReleaseUnlock(t) \/ Unpark(t) \/ WakeStore(t)
  BY <1>7 DEF ReleaseFlush, ReleaseUnlock, Unpark, WakeStore
<1> QED
  BY <1>1, <1>2, <1>3, <1>4, <1>5, <1>6, <1>7 DEF Inner, CasUnlocked, CasDirty

(* Every step keeps the roles: only the start of a call chooses a side.     *)
LEMMA RolesStep ==
  ASSUME Typed, Roles, [Next]_vars
  PROVE  Roles'
<1> USE DEF Roles
<1>1. ASSUME NEW t \in Threads, Inner(t) PROVE Roles'
  BY <1>1, InnerStep
<1>2. ASSUME NEW t \in Threads, Begin(t) PROVE Roles'
  BY <1>2 DEF Begin, LockExclusive, LockGroup, TryLockExclusive, Goto, Typed, Sides
<1>3. ASSUME NEW t \in Threads, UnlockAllGroup(t) PROVE Roles'
  BY <1>3 DEF UnlockAllGroup, Relieved, Typed, word
<1>4. CASE UNCHANGED vars
  BY <1>4 DEF vars, local
<1> QED
  BY <1>1, <1>2, <1>3, <1>4 DEF Next, Call, Unlock, Inner

---------------------------------------------------------------------------
RefinementInv == ExclusionInv /\ Roles

(* What the steps are mapped with: the exclusion invariant, and the roles.   *)
LEMMA RefinementInvariant ==
  ASSUME OneGroup
  PROVE  Spec => []RefinementInv
<1>1. Init => Roles
  BY DEF Init, Roles
<1>2. ExclusionInv /\ Roles /\ [Next]_vars => Roles'
  BY RolesStep DEF ExclusionInv
<1> QED
  BY <1>1, <1>2, ExclusionInvariant, OneGroup, PTL DEF Spec, RefinementInv

holding == [t \in Threads |-> HoldOf(t)]

(* HoldOf says what Holds says.                                            *)
LEMMA HoldOfHolds ==
  ASSUME NEW t \in Threads
  PROVE  /\ HoldOf(t) = "e" <=> Holds(t, "e")
         /\ HoldOf(t) = "g" <=> Holds(t, "g")
         /\ HoldOf(t) = "none" <=> ~Holds(t, "e") /\ ~Holds(t, "g")
         /\ HoldOf(t) \in {"none", "e", "g"}
<1>1. ~(Holds(t, "e") /\ Holds(t, "g"))
  BY DEF Holds
<1> QED
  BY <1>1 DEF HoldOf

(* The same in the next state. *)
LEMMA HoldOfNext ==
  ASSUME NEW t \in Threads
  PROVE  /\ HoldOf(t)' = "e" <=> Holds(t, "e")'
         /\ HoldOf(t)' = "g" <=> Holds(t, "g")'
         /\ HoldOf(t)' = "none" <=> ~Holds(t, "e")' /\ ~Holds(t, "g")'
         /\ HoldOf(t)' \in {"none", "e", "g"}
<1>1. ~(Holds(t, "e")' /\ Holds(t, "g")')
  BY DEF Holds
<1> QED
  BY <1>1 DEF HoldOf

(* A step that changes nobody's hold is a stutter of GroupLock.            *)
LEMMA SameHolds ==
  ASSUME \A u \in Threads : \A s \in Sides : Holds(u, s)' <=> Holds(u, s)
  PROVE  holding' = holding
<1>1. \A u \in Threads : HoldOf(u)' = HoldOf(u)
  BY HoldOfHolds, HoldOfNext DEF Sides
<1> QED
  BY <1>1 DEF holding

(* A step that changes the hold of one thread only.                        *)
LEMMA OneHold ==
  ASSUME NEW t \in Threads, NEW v \in {"none", "e", "g"}, HoldOf(t)' = v,
         \A u \in Threads \ {t} : \A s \in Sides : Holds(u, s)' <=> Holds(u, s)
  PROVE  holding' = [holding EXCEPT ![t] = v]
<1>1. \A u \in Threads \ {t} : HoldOf(u)' = HoldOf(u)
  BY HoldOfHolds, HoldOfNext DEF Sides
<1> QED
  BY <1>1 DEF holding

(* A lock function that succeeds acquires the GroupLock: nobody has it then. *)
LEMMA AcquireStep ==
  ASSUME RefinementInv, NEW t \in Threads, pc[t] # "idle",
         state \in {UNLOCKED, DIRTY}, UNCHANGED side, Holds(t, side[t])',
         \A u \in Threads \ {t} : \A s \in Sides : Holds(u, s)' <=> Holds(u, s)
  PROVE  Abstract!AcquireExclusive(t) \/ Abstract!AcquireGroup(t)
<1> USE DEF RefinementInv, ExclusionInv, Typed, Sides
<1>1. \A u \in Threads : HoldOf(u) = "none"
  <2>1. \A u \in Threads : ~Holds(u, "e") /\ ~Holds(u, "g")
    BY DEF StateTells, InGroup, UNLOCKED, DIRTY, LOCKED, LOCKED_GROUP
  <2> QED
    BY <2>1, HoldOfHolds
<1>2. \A u \in Threads : holding[u] = "none"
  BY <1>1 DEF holding
<1>3. side[t] \in {"e", "g"} /\ HoldOf(t)' = side[t]
  <2>1. CASE side[t] = "e"
    <3>1. Holds(t, "e")'
      BY <2>1
    <3> QED
      BY <2>1, <3>1, HoldOfNext
  <2>2. CASE side[t] = "g"
    <3>1. Holds(t, "g")'
      BY <2>2
    <3> QED
      BY <2>2, <3>1, HoldOfNext
  <2> QED
    BY <2>1, <2>2
<1>4. holding' = [holding EXCEPT ![t] = side[t]]
  BY <1>3, OneHold
<1>5. CASE side[t] = "e"
  <2>1. t \in Exclusive
    BY <1>5 DEF Roles
  <2> QED
    BY <1>2, <1>4, <1>5, <2>1 DEF Abstract!AcquireExclusive, holding
<1>6. CASE side[t] = "g"
  <2>1. t \in Group
    BY <1>6 DEF Roles
  <2> QED
    BY <1>2, <1>4, <1>6, <2>1 DEF Abstract!AcquireGroup, holding
<1> QED
  BY <1>3, <1>5, <1>6

(* A step after which a holder has the lock no more releases the GroupLock. *)
LEMMA ReleaseStep ==
  ASSUME NEW t \in Threads, NEW s \in Sides, Holds(t, s),
         ~Holds(t, "e")', ~Holds(t, "g")',
         \A u \in Threads \ {t} : \A k \in Sides : Holds(u, k)' <=> Holds(u, k)
  PROVE  Abstract!Release(t)
<1>1. holding[t] # "none"
  BY HoldOfHolds DEF holding, Sides
<1>2. holding' = [holding EXCEPT ![t] = "none"]
  BY HoldOfNext, OneHold
<1> QED
  BY <1>1, <1>2 DEF Abstract!Release, holding

(* Every step of Mutex is a step of GroupLock or changes nobody's hold.     *)
LEMMA MutexStep ==
  ASSUME OneGroup, RefinementInv, [Next]_vars
  PROVE  Abstract!Next \/ UNCHANGED holding
<1> USE DEF RefinementInv, ExclusionInv, Typed, Control, WakeTasks, Tasks, Sides
<1>1. ASSUME NEW t \in Threads, Neutral(t) PROVE UNCHANGED holding
  BY <1>1, NeutralStep, SameHolds
<1>2. ASSUME NEW t \in Threads, NEW at \in {"casUnlocked", "casDirty"},
             NEW from \in {UNLOCKED, DIRTY}, CompareExchange(t, at, from)
      PROVE  Abstract!Next \/ UNCHANGED holding
  <2>1. pc[t] = at /\ task[t] = "none" /\ UNCHANGED side
    BY <1>2 DEF CompareExchange
  <2>2. CASE state = from /\ Acquired(t)
    <3>1. Holds(t, side[t])'
      BY <2>1, <2>2 DEF Acquired, Holds
    <3>2. \A u \in Threads \ {t} : \A s \in Sides : Holds(u, s)' <=> Holds(u, s)
      BY <2>1, <2>2 DEF Acquired, Holds
    <3> QED
      BY <2>1, <2>2, <3>1, <3>2, AcquireStep DEF Abstract!Next
  <2>3. CASE Retry(t) /\ UNCHANGED state
    <3>1. \A u \in Threads : \A s \in Sides : Holds(u, s)' <=> Holds(u, s)
      BY <2>1, <2>3 DEF Retry, Holds
    <3> QED
      BY <3>1, SameHolds
  <2> QED
    BY <1>2, <2>2, <2>3 DEF CompareExchange
<1>3. ASSUME NEW t \in Threads, NEW at \in {"tryUnlocked", "tryDirty"},
             NEW from \in {UNLOCKED, DIRTY}, TryCompareExchange(t, at, from)
      PROVE  Abstract!Next \/ UNCHANGED holding
  <2>1. pc[t] = at /\ side[t] = "e" /\ task[t] = "none" /\ UNCHANGED <<side, task>>
    BY <1>3 DEF TryCompareExchange, Goto
  <2>2. CASE state = from
    <3>1. pc' = [pc EXCEPT ![t] = "hold"]
      BY <1>3, <2>2 DEF TryCompareExchange, Goto
    <3>2. Holds(t, side[t])'
      BY <2>1, <3>1 DEF Holds
    <3>3. \A u \in Threads \ {t} : \A s \in Sides : Holds(u, s)' <=> Holds(u, s)
      BY <2>1, <3>1 DEF Holds
    <3> QED
      BY <2>1, <2>2, <3>2, <3>3, AcquireStep DEF Abstract!Next
  <2>3. CASE state # from
    <3>1. pc' = [pc EXCEPT ![t] = "idle"]
      BY <1>3, <2>3 DEF TryCompareExchange, Goto
    <3>2. \A u \in Threads : \A s \in Sides : Holds(u, s)' <=> Holds(u, s)
      BY <2>1, <3>1 DEF Holds
    <3> QED
      BY <3>2, SameHolds
  <2> QED
    BY <2>2, <2>3
<1>4. ASSUME NEW t \in Threads, Reload(t) PROVE FALSE
  BY <1>4 DEF Reload, Goto, StateTells
<1>5. ASSUME NEW t \in Threads, UnlockExclusive(t) PROVE Abstract!Next
  <2>1. Holds(t, "e") /\ state = LOCKED
    BY <1>5 DEF UnlockExclusive, Goto, Holds, StateTells
  <2>2. pc' = [pc EXCEPT ![t] = "take"] /\ task' = [task EXCEPT ![t] = "unlock"]
        /\ UNCHANGED side
    BY <1>5, <2>1 DEF UnlockExclusive, Goto
  <2>3. /\ ~Holds(t, "e")' /\ ~Holds(t, "g")'
        /\ \A u \in Threads \ {t} : \A s \in Sides : Holds(u, s)' <=> Holds(u, s)
    BY <2>2 DEF Holds
  <2> QED
    BY <2>1, <2>3, ReleaseStep DEF Abstract!Next
<1>6. ASSUME NEW t \in Threads, UnlockGroup(t) PROVE UNCHANGED holding
  <2>1. pc[t] = "hold" /\ side[t] = "g" /\ state = LOCKED_GROUP
    BY <1>6 DEF UnlockGroup, Goto, Holds, StateTells, InGroup
  <2>2. pc' = [pc EXCEPT ![t] = "sub"] /\ UNCHANGED <<side, task>>
    BY <1>6, <2>1 DEF UnlockGroup, Goto
  <2>3. \A u \in Threads : \A s \in Sides : Holds(u, s)' <=> Holds(u, s)
    BY <2>1, <2>2 DEF Holds
  <2> QED
    BY <2>3, SameHolds
<1>7. ASSUME NEW t \in Threads, UnlockAllGroup(t) PROVE UNCHANGED holding
  <2>1. pc[t] = "hold" /\ side[t] = "g" /\ state = LOCKED_GROUP /\ t \in Group
    BY <1>7 DEF UnlockAllGroup, Holds, StateTells, InGroup
  <2>2. \A u \in Threads \ {t} : side[u] = "g" => pc[u] = "idle"
    BY <2>1 DEF StateTells, OneGroup
  <2>3. pc' = [pc EXCEPT ![t] = "sub"] /\ UNCHANGED <<side, task>>
    <3>1. \A others \in Relieved(t) : \A u \in Threads : u \notin others
      BY <2>2 DEF Relieved
    <3>2. pc' = [u \in Threads |-> IF u = t THEN "sub" ELSE pc[u]]
      BY <1>7, <2>1, <3>1 DEF UnlockAllGroup
    <3> QED
      BY <1>7, <3>2 DEF UnlockAllGroup, Typed
  <2>4. \A u \in Threads : \A s \in Sides : Holds(u, s)' <=> Holds(u, s)
    BY <2>1, <2>3 DEF Holds
  <2> QED
    BY <2>4, SameHolds
<1>8. ASSUME NEW t \in Threads, FetchSub(t) PROVE Abstract!Next
  <2>1. pc[t] = "sub" /\ side[t] = "g" /\ task[t] = "none" /\ UNCHANGED <<side, task>>
    BY <1>8 DEF FetchSub, Goto
  <2>2. pc'[t] \in {"storeDirty", "idle"} /\ \A u \in Threads \ {t} : pc'[u] = pc[u]
    BY <1>8 DEF FetchSub, Goto
  <2>3. Holds(t, "g") /\ ~Holds(t, "e")' /\ ~Holds(t, "g")'
    BY <2>1, <2>2 DEF Holds
  <2>4. \A u \in Threads \ {t} : \A s \in Sides : Holds(u, s)' <=> Holds(u, s)
    BY <2>1, <2>2 DEF Holds
  <2> QED
    BY <2>3, <2>4, ReleaseStep DEF Abstract!Next
<1>9. ASSUME NEW t \in Threads, StoreDirty(t) PROVE UNCHANGED holding
  <2>1. pc[t] = "storeDirty" /\ task[t] = "none"
    BY <1>9 DEF StoreDirty, Goto
  <2>2. /\ pc' = [pc EXCEPT ![t] = "take"] /\ task' = [task EXCEPT ![t] = "unlock"]
        /\ UNCHANGED side
    BY <1>9 DEF StoreDirty, Goto
  <2>3. \A u \in Threads : \A s \in Sides : Holds(u, s)' <=> Holds(u, s)
    BY <2>1, <2>2 DEF Holds
  <2> QED
    BY <2>3, SameHolds
<1>10. CASE UNCHANGED vars
  <2>1. \A u \in Threads : \A s \in Sides : Holds(u, s)' <=> Holds(u, s)
    BY <1>10 DEF vars, local, Holds
  <2> QED
    BY <2>1, SameHolds
<1> QED
  BY <1>1, <1>2, <1>3, <1>4, <1>5, <1>6, <1>7, <1>8, <1>9, <1>10
  DEF Next, Begin, Call, Unlock, Neutral, CasUnlocked, CasDirty, TryUnlocked, TryDirty

(* With one group thread and any number of exclusive ones, Mutex implements  *)
(* GroupLock: it is acquired and released in one step each, by one thread at  *)
(* a time, exclusively or as a group.                                        *)
THEOREM ImplementsGroupLock ==
  ASSUME OneGroup
  PROVE  Spec => Refines
<1>1. Init => Abstract!Init
  <2>1. ASSUME Init, NEW t \in Threads PROVE ~Holds(t, "e") /\ ~Holds(t, "g")
    BY <2>1 DEF Init, Holds
  <2> QED
    BY <2>1, HoldOfHolds DEF Abstract!Init
<1>2. RefinementInv /\ [Next]_vars => [Abstract!Next]_holding
  BY MutexStep, OneGroup
<1> QED
  BY <1>1, <1>2, RefinementInvariant, OneGroup, PTL
  DEF Spec, Refines, Abstract!Spec, holding

---------------------------------------------------------------------------
(* The places where a sleeper is registered.                                *)
OnQueue(k, t) == \E i \in DOMAIN queue[k] : queue[k][i] = t
Listed(k, t) == OnQueue(k, t) \/ pocket[k] = t
InHand(u, t) == got[u] = t /\ pc[u] \in {"flush", "free", "unpark"}
Single(k, t) ==
  \A i, j \in DOMAIN queue[k] : queue[k][i] = t /\ queue[k][j] = t => i = j

(* What a waker popped is kept until the waker has done with it.            *)
Hands ==
  \A u \in Threads : got[u] # NULL =>
    /\ pc[u] \in {"pop", "flush", "free", "unpark", "store"}
    /\ task[u] \in WakeTasks

(* A sleeper is registered, or has been unparked.                           *)
Remembered ==
  \A t \in Threads : Sleeps(t) =>
    token[t] \/ Listed(side[t], t) \/ \E u \in Threads : InHand(u, t)

(* A thread is on no list but that of a MutexType it locks with, which is     *)
(* the one of its last call.                                               *)
OwnList ==
  \A k \in Sides, t \in Threads : Listed(k, t) =>
    /\ IF k = "e" THEN t \in Exclusive ELSE t \in Group
    /\ t \in Roamers \/ side[t] = k

(* If park() returns to it only when it was unparked, a thread that is        *)
(* registered, or has been unparked, sleeps; not both; and is in one place.   *)
Once ==
  \A t \in Threads \ Spurious :
    /\ token[t] => Sleeps(t)
    /\ \A k \in Sides : Listed(k, t) => Sleeps(t) /\ ~token[t]
    /\ \A u \in Threads : InHand(u, t) => Sleeps(t) /\ ~token[t]
    /\ \A k \in Sides : Single(k, t) /\ ~(OnQueue(k, t) /\ pocket[k] = t)
    /\ \A k \in Sides, u \in Threads : ~(Listed(k, t) /\ InHand(u, t))
    /\ \A u, v \in Threads : InHand(u, t) /\ InHand(v, t) => u = v

Places == Remembered /\ OwnList /\ Once
RegisteredInv == Typed /\ Control /\ Roles /\ Hands /\ Places

(* A thread linked at the end of a queue is on it, beside those that were;    *)
(* it is there once if it was not there before.                              *)
LEMMA Appended ==
  ASSUME Typed, NEW k \in Sides, NEW x \in Threads,
         queue' = [queue EXCEPT ![k] = Append(@, x)]
  PROVE  /\ \A l \in Sides, t \in Threads : OnQueue(l, t)' <=> OnQueue(l, t) \/ (l = k /\ t = x)
         /\ \A l \in Sides, t \in Threads :
              Single(l, t) /\ ~(l = k /\ t = x /\ OnQueue(l, t)) => Single(l, t)'
<1> DEFINE q == queue[k]
<1>1. q \in Seq(Threads)
  BY DEF Typed
<1>2. /\ DOMAIN q = 1..Len(q) /\ Len(q) \in Nat
      /\ DOMAIN Append(q, x) = 1..(Len(q) + 1)
      /\ \A i \in 1..Len(q) : Append(q, x)[i] = q[i]
      /\ Append(q, x)[Len(q) + 1] = x
  BY <1>1
<1>3. queue'[k] = Append(q, x) /\ \A l \in Sides \ {k} : queue'[l] = queue[l]
  BY DEF Typed
<1>4. ASSUME NEW t \in Threads
      PROVE  /\ OnQueue(k, t)' <=> OnQueue(k, t) \/ t = x
             /\ Single(k, t) /\ ~(t = x /\ OnQueue(k, t)) => Single(k, t)'
  <2> HIDE DEF q
  <2>1. OnQueue(k, t)' <=> \E i \in 1..(Len(q) + 1) : Append(q, x)[i] = t
    BY <1>2, <1>3 DEF OnQueue
  <2>2. OnQueue(k, t) <=> \E i \in 1..Len(q) : q[i] = t
    BY <1>2 DEF OnQueue, q
  <2>3. \A i \in 1..(Len(q) + 1) : i \in 1..Len(q) \/ i = Len(q) + 1
    BY <1>2
  <2>4. 1..Len(q) \subseteq 1..(Len(q) + 1) /\ Len(q) + 1 \in 1..(Len(q) + 1)
    BY <1>2
  <2>5. OnQueue(k, t)' <=> OnQueue(k, t) \/ t = x
    BY <1>2, <2>1, <2>2, <2>3, <2>4
  <2>6. Single(k, t) <=> \A i, j \in 1..Len(q) : q[i] = t /\ q[j] = t => i = j
    BY <1>2 DEF Single, q
  <2>7. Single(k, t)' <=> \A i, j \in 1..(Len(q) + 1) :
                            Append(q, x)[i] = t /\ Append(q, x)[j] = t => i = j
    <3>1. DOMAIN queue'[k] = 1..(Len(q) + 1)
      BY <1>2, <1>3
    <3> QED
      BY <1>3, <3>1 DEF Single
  <2> QED
    BY <1>2, <2>2, <2>3, <2>5, <2>6, <2>7
<1>5. ASSUME NEW l \in Sides \ {k}, NEW t \in Threads
      PROVE  (OnQueue(l, t)' <=> OnQueue(l, t)) /\ (Single(l, t)' <=> Single(l, t))
  BY <1>3 DEF OnQueue, Single
<1> QED
  BY <1>4, <1>5

(* A thread taken from the front of a queue was on it; if it was there once,  *)
(* it is no more.                                                          *)
LEMMA Removed ==
  ASSUME Typed, NEW k \in Sides, queue[k] # <<>>,
         queue' = [queue EXCEPT ![k] = Tail(@)]
  PROVE  /\ Head(queue[k]) \in Threads /\ OnQueue(k, Head(queue[k]))
         /\ \A l \in Sides, t \in Threads :
              /\ OnQueue(l, t)' => OnQueue(l, t)
              /\ OnQueue(l, t) => OnQueue(l, t)' \/ (l = k /\ t = Head(queue[k]))
              /\ Single(l, t) => Single(l, t)'
         /\ \A t \in Threads :
              t = Head(queue[k]) /\ Single(k, t) => ~OnQueue(k, t)'
<1> DEFINE q == queue[k]
<1>1. q \in Seq(Threads) /\ q # <<>>
  BY DEF Typed
<1>2. /\ DOMAIN q = 1..Len(q) /\ Len(q) \in Nat /\ Len(q) > 0
      /\ Head(q) = q[1] /\ q[1] \in Threads
      /\ DOMAIN Tail(q) = 1..(Len(q) - 1)
      /\ \A i \in 1..(Len(q) - 1) : Tail(q)[i] = q[i + 1]
  BY <1>1
<1>3. queue'[k] = Tail(q) /\ \A l \in Sides \ {k} : queue'[l] = queue[l]
  BY DEF Typed
<1>4. \A t \in Threads : OnQueue(k, t) <=> \E i \in 1..Len(q) : q[i] = t
  BY <1>2 DEF OnQueue
<1>5. \A t \in Threads : OnQueue(k, t)' <=> \E i \in 1..(Len(q) - 1) : q[i + 1] = t
  <2>1. /\ DOMAIN queue'[k] = 1..(Len(q) - 1)
        /\ \A i \in 1..(Len(q) - 1) : queue'[k][i] = q[i + 1]
    BY <1>2, <1>3
  <2> QED
    BY <2>1 DEF OnQueue
<1>6. \A t \in Threads : Single(k, t) <=> \A i, j \in 1..Len(q) : q[i] = t /\ q[j] = t => i = j
  BY <1>2 DEF Single
<1>7. \A t \in Threads : Single(k, t)' <=>
        \A i, j \in 1..(Len(q) - 1) : q[i + 1] = t /\ q[j + 1] = t => i = j
  <2>1. /\ DOMAIN queue'[k] = 1..(Len(q) - 1)
        /\ \A i \in 1..(Len(q) - 1) : queue'[k][i] = q[i + 1]
    BY <1>2, <1>3
  <2>2. \A t \in Threads : Single(k, t)' <=>
          \A i, j \in 1..(Len(q) - 1) : queue'[k][i] = t /\ queue'[k][j] = t => i = j
    BY <2>1 DEF Single
  <2> HIDE DEF q
  <2>3. \A t \in Threads :
          (\A i, j \in 1..(Len(q) - 1) : queue'[k][i] = t /\ queue'[k][j] = t => i = j)
          <=> \A i, j \in 1..(Len(q) - 1) : q[i + 1] = t /\ q[j + 1] = t => i = j
    BY <2>1
  <2> QED
    BY <2>2, <2>3
<1>8. ASSUME NEW l \in Sides \ {k}, NEW t \in Threads
      PROVE  (OnQueue(l, t)' <=> OnQueue(l, t)) /\ (Single(l, t)' <=> Single(l, t))
  BY <1>3 DEF OnQueue, Single
<1> HIDE DEF q
<1>9. ASSUME NEW t \in Threads
      PROVE  /\ OnQueue(k, t)' => OnQueue(k, t)
             /\ OnQueue(k, t) => OnQueue(k, t)' \/ t = q[1]
             /\ Single(k, t) => Single(k, t)'
             /\ Single(k, t) /\ t = q[1] => ~OnQueue(k, t)'
  <2>1. \A i \in 1..Len(q) : i = 1 \/ (i - 1 \in 1..(Len(q) - 1) /\ (i - 1) + 1 = i)
    BY <1>2
  <2>2. \A i \in 1..(Len(q) - 1) : i + 1 \in 1..Len(q) /\ i + 1 # 1 /\ i \in Nat
    BY <1>2
  <2>3. 1 \in 1..Len(q)
    BY <1>2
  <2>4. OnQueue(k, t)' => OnQueue(k, t)
    BY <1>4, <1>5, <2>2
  <2>5. OnQueue(k, t) => OnQueue(k, t)' \/ t = q[1]
    BY <1>4, <1>5, <2>1
  <2>6. Single(k, t) => Single(k, t)'
    <3>1. \A i, j \in 1..(Len(q) - 1) : i + 1 = j + 1 => i = j
      OBVIOUS
    <3> QED
      BY <1>6, <1>7, <2>2, <3>1
  <2>7. Single(k, t) /\ t = q[1] => ~OnQueue(k, t)'
    BY <1>5, <1>6, <2>2, <2>3
  <2> QED
    BY <2>4, <2>5, <2>6, <2>7
<1>10. Head(queue[k]) = q[1]
  BY <1>2 DEF q
<1>11. q[1] \in Threads /\ OnQueue(k, q[1])
  BY <1>2, <1>4
<1>12. ASSUME NEW l \in Sides, NEW t \in Threads
       PROVE  /\ OnQueue(l, t)' => OnQueue(l, t)
              /\ OnQueue(l, t) => OnQueue(l, t)' \/ (l = k /\ t = q[1])
              /\ Single(l, t) => Single(l, t)'
  BY <1>8, <1>9
<1>13. \A t \in Threads : t = q[1] /\ Single(k, t) => ~OnQueue(k, t)'
  BY <1>9
<1> QED
  BY <1>10, <1>11, <1>12, <1>13

(* Only pop() puts a thread in a waker's hands, which the waker then keeps    *)
(* until its store to wake_deadlock.                                         *)
LEMMA HandsStep ==
  ASSUME Typed, Control, Hands, [Next]_vars
  PROVE  Hands'
<1> USE DEF Typed, Control, Hands, WakeTasks, Goto
<1>1. ASSUME NEW t \in Threads, Begin(t) PROVE Hands'
  BY <1>1 DEF Begin, LockExclusive, LockGroup, TryLockExclusive
<1>2. ASSUME NEW t \in Threads, Spin(t) \/ LoadLocked(t) \/ Reload(t) PROVE Hands'
  BY <1>2 DEF Spin, LoadLocked, Retry, Reload
<1>3. ASSUME NEW t \in Threads, NEW at \in {"casUnlocked", "casDirty"}, NEW from,
             CompareExchange(t, at, from)
      PROVE  Hands'
  BY <1>3 DEF CompareExchange, Acquired, Retry
<1>4. ASSUME NEW t \in Threads, TryDirty(t) \/ TryUnlocked(t) PROVE Hands'
  BY <1>4 DEF TryDirty, TryUnlocked, TryCompareExchange
<1>5. ASSUME NEW t \in Threads, FetchSub(t) \/ StoreDirty(t) PROVE Hands'
  BY <1>5 DEF FetchSub, StoreDirty
<1>6. ASSUME NEW t \in Threads, Suspend(t) \/ PushPeek(t) \/ PushStash(t) PROVE Hands'
  BY <1>6 DEF Suspend, PushPeek, PushStash
<1>7. ASSUME NEW t \in Threads, PushEnqueue(t) \/ SuspendStore(t) PROVE Hands'
  BY <1>7 DEF PushEnqueue, SuspendStore
<1>8. ASSUME NEW t \in Threads, Unparked(t) \/ SpuriousReturn(t) PROVE Hands'
  BY <1>8 DEF Unparked, SpuriousReturn
<1>9. ASSUME NEW t \in Threads, WakeTake(t) \/ Pop(t) PROVE Hands'
  BY <1>9 DEF WakeTake, Pop
<1>10. ASSUME NEW t \in Threads, ReleaseFlush(t) PROVE Hands'
  BY <1>10 DEF ReleaseFlush
<1>11. ASSUME NEW t \in Threads, ReleaseUnlock(t) PROVE Hands'
  BY <1>11 DEF ReleaseUnlock
<1>12. ASSUME NEW t \in Threads, Unpark(t) \/ WakeStore(t) PROVE Hands'
  BY <1>12 DEF Unpark, WakeStore
<1>13. ASSUME NEW t \in Threads, UnlockExclusive(t) \/ UnlockGroup(t) PROVE Hands'
  BY <1>13 DEF UnlockExclusive, UnlockGroup
<1>14. ASSUME NEW t \in Threads, UnlockAllGroup(t) PROVE Hands'
  <2>1. UNCHANGED <<got, task>>
    BY <1>14 DEF UnlockAllGroup
  <2>2. \A u \in Threads : pc'[u] = pc[u] \/ pc[u] \in {"idle", "hold"}
    BY <1>14 DEF UnlockAllGroup, Relieved
  <2> QED
    BY <2>1, <2>2
<1>15. CASE UNCHANGED vars
  BY <1>15 DEF vars, local
<1> QED
  BY <1>1, <1>2, <1>3, <1>4, <1>5, <1>6, <1>7, <1>8, <1>9, <1>10, <1>11, <1>12,
     <1>13, <1>14, <1>15 DEF Next, Call, Unlock, CasUnlocked, CasDirty

(* A step that leaves the lists and the tokens alone, in which nobody falls    *)
(* asleep and nobody wakes whom park() must not let go, keeps the places.     *)
LEMMA QuietPlaces ==
  ASSUME Places, UNCHANGED <<queue, pocket, token, side>>,
         \A u \in Threads : Sleeps(u)' => Sleeps(u),
         \A u \in Threads \ Spurious : Sleeps(u) => Sleeps(u)',
         \A u, t \in Threads : InHand(u, t)' <=> InHand(u, t)
  PROVE  Places'
<1>1. \A k \in Sides, t \in Threads : /\ Listed(k, t)' <=> Listed(k, t)
                                      /\ OnQueue(k, t)' <=> OnQueue(k, t)
                                      /\ Single(k, t)' <=> Single(k, t)
  BY DEF Listed, OnQueue, Single
<1>2. Remembered'
  <2> SUFFICES ASSUME NEW t \in Threads, Sleeps(t)'
               PROVE  token'[t] \/ Listed(side[t], t)' \/ \E u \in Threads : InHand(u, t)'
    BY DEF Remembered
  <2>1. token[t] \/ Listed(side[t], t) \/ \E u \in Threads : InHand(u, t)
    BY DEF Places, Remembered
  <2> QED
    BY <2>1 DEF Listed, OnQueue
<1>3. OwnList'
  BY <1>1 DEF Places, OwnList
<1>4. Once'
  BY <1>1 DEF Places, Once
<1> QED
  BY <1>2, <1>3, <1>4 DEF Places

(* The steps that are quiet in this sense.                                  *)
Quiet(t) ==
  \/ Spin(t) \/ LoadLocked(t) \/ CasUnlocked(t) \/ CasDirty(t) \/ Reload(t)
  \/ TryDirty(t) \/ TryUnlocked(t) \/ FetchSub(t) \/ StoreDirty(t)
  \/ Suspend(t) \/ PushPeek(t) \/ SuspendStore(t) \/ SpuriousReturn(t)
  \/ WakeTake(t) \/ ReleaseUnlock(t) \/ WakeStore(t)
  \/ UnlockExclusive(t) \/ UnlockGroup(t) \/ UnlockAllGroup(t)

(* They keep the places.                                                    *)
LEMMA QuietStep ==
  ASSUME RegisteredInv, NEW t \in Threads, Quiet(t)
  PROVE  Places'
<1> DEFINE Rest == /\ UNCHANGED <<queue, pocket, token, side>>
                   /\ \A u \in Threads : Sleeps(u)' => Sleeps(u)
                   /\ \A u \in Threads \ Spurious : Sleeps(u) => Sleeps(u)'
                   /\ \A u, x \in Threads : InHand(u, x)' <=> InHand(u, x)
<1> USE DEF RegisteredInv, Typed, Control, Hands, WakeTasks, Goto, Sleeps, InHand, parking
<1>1. CASE Spin(t) \/ LoadLocked(t) \/ Reload(t)
  <2>1. Rest
    BY <1>1 DEF Spin, LoadLocked, Retry, Reload
  <2> QED
    BY <2>1, QuietPlaces
<1>2. ASSUME NEW at \in {"casUnlocked", "casDirty"}, NEW from, CompareExchange(t, at, from)
      PROVE  Places'
  <2>1. Rest
    BY <1>2 DEF CompareExchange, Acquired, Retry
  <2> QED
    BY <2>1, QuietPlaces
<1>3. CASE TryDirty(t) \/ TryUnlocked(t)
  <2>1. Rest
    BY <1>3 DEF TryDirty, TryUnlocked, TryCompareExchange
  <2> QED
    BY <2>1, QuietPlaces
<1>4. CASE FetchSub(t) \/ StoreDirty(t) \/ UnlockExclusive(t) \/ UnlockGroup(t)
  <2>1. Rest
    BY <1>4 DEF FetchSub, StoreDirty, UnlockExclusive, UnlockGroup
  <2> QED
    BY <2>1, QuietPlaces
<1>5. CASE Suspend(t) \/ PushPeek(t) \/ SuspendStore(t)
  <2>1. Rest
    BY <1>5 DEF Suspend, PushPeek, SuspendStore
  <2> QED
    BY <2>1, QuietPlaces
<1>6. CASE SpuriousReturn(t) \/ WakeTake(t)
  <2>1. Rest
    BY <1>6 DEF SpuriousReturn, WakeTake
  <2> QED
    BY <2>1, QuietPlaces
<1>7. CASE ReleaseUnlock(t)
  <2>2. /\ UNCHANGED <<queue, pocket, token, side, task, got>>
        /\ pc[t] = "free" /\ \A u \in Threads \ {t} : pc'[u] = pc[u]
        /\ task[t] = "suspend" => pc'[t] = "suspended"
        /\ task[t] # "suspend" /\ got[t] # NULL => pc'[t] = "unpark"
        /\ task[t] # "suspend" /\ got[t] = NULL => pc'[t] = "store"
    BY <1>7 DEF ReleaseUnlock, List!Unlock
  <2>3. \A u, x \in Threads : InHand(u, x)' <=> InHand(u, x)
    <3>1. got[t] # NULL => task[t] # "suspend"
      OBVIOUS
    <3>2. \A x \in Threads : InHand(t, x)' <=> InHand(t, x)
      BY <2>2, <3>1, ThreadsAssumption
    <3>3. \A u \in Threads \ {t}, x \in Threads : InHand(u, x)' <=> InHand(u, x)
      BY <2>2
    <3> HIDE DEF InHand
    <3> QED
      BY <3>2, <3>3
  <2>1. Rest
    BY <2>2, <2>3
  <2> QED
    BY <2>1, QuietPlaces
<1>8. CASE WakeStore(t)
  <2>1. Rest
    BY <1>8 DEF WakeStore
  <2> QED
    BY <2>1, QuietPlaces
<1>9. CASE UnlockAllGroup(t)
  <2>1. UNCHANGED <<got, task, queue, pocket, token, side>>
    BY <1>9 DEF UnlockAllGroup
  <2>2. \A u \in Threads : \/ pc'[u] = pc[u]
                           \/ /\ pc[u] \in {"idle", "hold"}
                              /\ pc'[u] \in {"idle", "sub", "panicked"}
    BY <1>9 DEF UnlockAllGroup, Relieved
  <2>3. Rest
    BY <2>1, <2>2
  <2> QED
    BY <2>3, QuietPlaces
<1> QED
  BY <1>1, <1>2, <1>3, <1>4, <1>5, <1>6, <1>7, <1>8, <1>9 DEF Quiet, CasUnlocked, CasDirty

(* The start of a call, by a thread that does not sleep.                     *)
LEMMA BeginPlaces ==
  ASSUME RegisteredInv, NEW t \in Threads, Begin(t)
  PROVE  Places'
<1>1. /\ UNCHANGED <<queue, pocket, token, got, task>>
      /\ pc[t] = "idle" /\ pc'[t] \in {"spin", "tryDirty", "tryUnlocked"}
      /\ \A u \in Threads \ {t} : pc'[u] = pc[u] /\ side'[u] = side[u]
      /\ \/ side'[t] = "e" /\ t \in Exclusive
         \/ side'[t] = "g" /\ t \in Group
  <2> USE DEF RegisteredInv, Typed, Goto, parking
  <2>1. CASE LockExclusive(t)
    BY <2>1 DEF LockExclusive
  <2>2. CASE LockGroup(t)
    BY <2>2 DEF LockGroup
  <2>3. CASE TryLockExclusive(t)
    BY <2>3 DEF TryLockExclusive
  <2> QED
    BY <2>1, <2>2, <2>3 DEF Begin
<1>2. ~Sleeps(t) /\ ~Sleeps(t)' /\ \A u \in Threads \ {t} : Sleeps(u)' <=> Sleeps(u)
  BY <1>1 DEF Sleeps
<1>3. \A u, x \in Threads : InHand(u, x)' <=> InHand(u, x)
  BY <1>1 DEF InHand
<1>4. \A k \in Sides, u \in Threads : /\ Listed(k, u)' <=> Listed(k, u)
                                      /\ OnQueue(k, u)' <=> OnQueue(k, u)
                                      /\ Single(k, u)' <=> Single(k, u)
  BY <1>1 DEF Listed, OnQueue, Single
<1>5. Remembered'
  <2> SUFFICES ASSUME NEW u \in Threads, Sleeps(u)'
               PROVE  token'[u] \/ Listed(side[u], u)' \/ \E v \in Threads : InHand(v, u)'
    BY DEF Remembered
  <2>1. u # t /\ Sleeps(u) /\ side'[u] = side[u] /\ side[u] \in Sides
    BY <1>1, <1>2 DEF RegisteredInv, Typed
  <2>2. token[u] \/ Listed(side[u], u) \/ \E v \in Threads : InHand(v, u)
    BY <2>1 DEF RegisteredInv, Places, Remembered
  <2>3. Listed(side[u], u) => Listed(side[u], u)'
    BY <1>1, <2>1 DEF Listed, OnQueue
  <2> QED
    BY <1>1, <1>3, <2>2, <2>3
<1>6. OwnList'
  <2> SUFFICES ASSUME NEW k \in Sides, NEW u \in Threads, Listed(k, u)'
               PROVE  /\ IF k = "e" THEN u \in Exclusive ELSE u \in Group
                      /\ u \in Roamers \/ side'[u] = k
    BY DEF OwnList
  <2>1. Listed(k, u)
    BY <1>4
  <2>2. /\ IF k = "e" THEN u \in Exclusive ELSE u \in Group
        /\ u \in Roamers \/ side[u] = k
    BY <2>1 DEF RegisteredInv, Places, OwnList
  <2>3. CASE u = t
    <3>1. u \in Spurious
      BY <1>2, <2>1, <2>3 DEF RegisteredInv, Places, Once
    <3> QED
      BY <1>1, <2>2, <2>3, <3>1 DEF Roamers, Sides
  <2> QED
    BY <1>1, <2>2, <2>3
<1>7. Once'
  BY <1>1, <1>2, <1>3, <1>4 DEF RegisteredInv, Places, Once
<1> QED
  BY <1>5, <1>6, <1>7 DEF Places

(* A thread that falls asleep, put on the list of its MutexType.             *)
LEMMA AsleepPlaces ==
  ASSUME RegisteredInv, NEW t \in Threads, UNCHANGED <<token, side>>,
         ~Sleeps(t), Sleeps(t)', pc[t] # "idle",
         \A u \in Threads \ {t} : Sleeps(u)' <=> Sleeps(u),
         \A u, x \in Threads : InHand(u, x)' <=> InHand(u, x),
         \A k \in Sides, u \in Threads :
           /\ Listed(k, u)' <=> Listed(k, u) \/ (k = side[t] /\ u = t)
           /\ Single(k, u) /\ ~(u = t /\ OnQueue(k, u)) => Single(k, u)'
           /\ ~(OnQueue(k, u) /\ pocket[k] = u) /\ ~(u = t /\ Listed(k, u))
                => ~(OnQueue(k, u) /\ pocket[k] = u)'
  PROVE  Places'
<1>1. side[t] \in Sides /\ IF side[t] = "e" THEN t \in Exclusive ELSE t \in Group
  BY DEF RegisteredInv, Typed, Roles
<1>2. Remembered'
  <2> SUFFICES ASSUME NEW u \in Threads, Sleeps(u)'
               PROVE  token'[u] \/ Listed(side[u], u)' \/ \E v \in Threads : InHand(v, u)'
    BY DEF Remembered
  <2>1. side[u] \in Sides /\ side'[u] = side[u]
    BY DEF RegisteredInv, Typed
  <2>2. \A k \in Sides : k = side[u] /\ Listed(k, u)' => Listed(side[u], u)'
    BY <2>1
  <2>3. CASE u = t
    BY <2>1, <2>2, <2>3
  <2>4. CASE u # t
    <3>1. token[u] \/ Listed(side[u], u) \/ \E v \in Threads : InHand(v, u)
      BY <2>4 DEF RegisteredInv, Places, Remembered
    <3> QED
      BY <2>1, <2>2, <3>1
  <2> QED
    BY <2>3, <2>4
<1>3. OwnList'
  BY <1>1 DEF RegisteredInv, Places, OwnList
<1>4. \A u \in Threads \ Spurious : u = t =>
        ~token[t] /\ \A k \in Sides, v \in Threads : ~Listed(k, t) /\ ~InHand(v, t)
  BY DEF RegisteredInv, Places, Once
<1>5. \A k \in Sides, u \in Threads : OnQueue(k, u) => Listed(k, u)
  BY DEF Listed
<1>6. Once'
  <2> SUFFICES ASSUME NEW u \in Threads \ Spurious
               PROVE  /\ token'[u] => Sleeps(u)'
                      /\ \A k \in Sides : Listed(k, u)' => Sleeps(u)' /\ ~token'[u]
                      /\ \A v \in Threads : InHand(v, u)' => Sleeps(u)' /\ ~token'[u]
                      /\ \A k \in Sides : Single(k, u)' /\ ~(OnQueue(k, u) /\ pocket[k] = u)'
                      /\ \A k \in Sides, v \in Threads : ~(Listed(k, u)' /\ InHand(v, u)')
                      /\ \A v, w \in Threads : InHand(v, u)' /\ InHand(w, u)' => v = w
    BY DEF Once
  <2>1. CASE u = t
    BY <1>4, <1>5, <2>1 DEF RegisteredInv, Places, Once
  <2>2. CASE u # t
    BY <2>2 DEF RegisteredInv, Places, Once
  <2> QED
    BY <2>1, <2>2
<1> QED
  BY <1>2, <1>3, <1>6 DEF Places

(* suspend()'s push leaves the thread in the pocket, or links it.             *)
LEMMA PushPlaces ==
  ASSUME RegisteredInv, NEW t \in Threads, PushStash(t) \/ PushEnqueue(t)
  PROVE  Places'
<1> USE DEF RegisteredInv
<1>1. ListOf(t) = side[t] /\ side[t] \in Sides /\ task[t] = "suspend" /\ got[t] = NULL
  <2>1. task[t] = "suspend" /\ side[t] \in Sides
    BY DEF Typed, Control, PushStash, PushEnqueue, Goto
  <2> QED
    BY <2>1 DEF ListOf, Hands, WakeTasks
<1> DEFINE k == side[t]
<1>2. CASE Goto(t, "stash", "suspended") /\ List!Pocket(ListOf(t), t)
  <2>1. /\ UNCHANGED <<queue, token, side, task, got>>
        /\ pocket[k] = NULL /\ pocket' = [pocket EXCEPT ![k] = t]
        /\ pc[t] = "stash" /\ pc'[t] = "suspended"
        /\ \A u \in Threads \ {t} : pc'[u] = pc[u]
    BY <1>1, <1>2 DEF PushStash, PushEnqueue, Goto, List!Pocket, Typed
  <2>2. \A l \in Sides : pocket'[l] = IF l = k THEN t ELSE pocket[l]
    BY <1>1, <2>1 DEF Typed
  <2>3. ~Sleeps(t) /\ Sleeps(t)' /\ \A u \in Threads \ {t} : Sleeps(u)' <=> Sleeps(u)
    BY <2>1 DEF Sleeps
  <2>4. \A u, x \in Threads : InHand(u, x)' <=> InHand(u, x)
    BY <1>1, <2>1, ThreadsAssumption DEF InHand
  <2>5. \A l \in Sides, u \in Threads : /\ OnQueue(l, u)' <=> OnQueue(l, u)
                                        /\ Single(l, u)' <=> Single(l, u)
    BY <2>1 DEF OnQueue, Single
  <2>6. \A l \in Sides, u \in Threads :
          /\ Listed(l, u)' <=> Listed(l, u) \/ (l = k /\ u = t)
          /\ ~(OnQueue(l, u) /\ pocket[l] = u) /\ ~(u = t /\ Listed(l, u))
               => ~(OnQueue(l, u) /\ pocket[l] = u)'
    BY <2>1, <2>2, <2>5, ThreadsAssumption DEF Listed
  <2> QED
    BY <2>1, <2>3, <2>4, <2>5, <2>6, AsleepPlaces
<1>3. CASE Goto(t, "stash", "enqueue")
  <2>1. /\ UNCHANGED <<queue, pocket, token, side, task, got>>
        /\ pc[t] = "stash" /\ pc'[t] = "enqueue"
        /\ \A u \in Threads \ {t} : pc'[u] = pc[u]
    BY <1>3 DEF PushStash, PushEnqueue, Goto, Typed, parking
  <2>2. \A u \in Threads : Sleeps(u)' <=> Sleeps(u)
    BY <2>1 DEF Sleeps
  <2>3. \A u, x \in Threads : InHand(u, x)' <=> InHand(u, x)
    BY <2>1 DEF InHand
  <2> QED
    BY <2>1, <2>2, <2>3, QuietPlaces
<1>4. CASE PushEnqueue(t)
  <2>1. /\ UNCHANGED <<pocket, token, side, task, got>>
        /\ queue' = [queue EXCEPT ![k] = Append(@, t)]
        /\ pc[t] = "enqueue" /\ pc'[t] = "flush"
        /\ \A u \in Threads \ {t} : pc'[u] = pc[u]
    BY <1>1, <1>4 DEF PushEnqueue, Goto, List!Enqueue, Typed
  <2>2. ~Sleeps(t) /\ Sleeps(t)' /\ \A u \in Threads \ {t} : Sleeps(u)' <=> Sleeps(u)
    BY <1>1, <2>1 DEF Sleeps
  <2>3. \A u, x \in Threads : InHand(u, x)' <=> InHand(u, x)
    BY <1>1, <2>1, ThreadsAssumption DEF InHand
  <2>4. /\ \A l \in Sides, u \in Threads :
              OnQueue(l, u)' <=> OnQueue(l, u) \/ (l = k /\ u = t)
        /\ \A l \in Sides, u \in Threads :
              Single(l, u) /\ ~(l = k /\ u = t /\ OnQueue(l, u)) => Single(l, u)'
    BY <1>1, <2>1, Appended
  <2>5. \A l \in Sides, u \in Threads :
          /\ Listed(l, u)' <=> Listed(l, u) \/ (l = k /\ u = t)
          /\ ~(OnQueue(l, u) /\ pocket[l] = u) /\ ~(u = t /\ Listed(l, u))
               => ~(OnQueue(l, u) /\ pocket[l] = u)'
    BY <2>1, <2>4 DEF Listed
  <2> QED
    BY <2>1, <2>2, <2>3, <2>4, <2>5, AsleepPlaces
<1> QED
  BY <1>2, <1>3, <1>4 DEF PushStash

(* pop() takes a thread from the front of a list into the waker's hands.      *)
LEMMA PopPlaces ==
  ASSUME RegisteredInv, NEW t \in Threads, Pop(t)
  PROVE  Places'
<1> USE DEF RegisteredInv
<1> PICK k \in Sides : k = ListOf(t)
  BY ListOfIsSide
<1>1. /\ UNCHANGED <<pocket, token, side, task>>
      /\ pc[t] = "pop" /\ pc'[t] = "flush" /\ task[t] # "suspend"
      /\ \A u \in Threads \ {t} : pc'[u] = pc[u] /\ got'[u] = got[u]
  BY DEF Pop, Goto, List!FindEmpty, List!Dequeue, Typed, Control, WakeTasks
<1>2. \A u \in Threads : Sleeps(u)' <=> Sleeps(u)
  BY <1>1 DEF Sleeps
<1>3. CASE List!FindEmpty(k) /\ got' = [got EXCEPT ![t] = NULL]
  <2>1. UNCHANGED queue /\ got'[t] = NULL
    BY <1>3 DEF List!FindEmpty, Typed
  <2>2. \A u, x \in Threads : InHand(u, x)' <=> InHand(u, x)
    BY <1>1, <2>1, ThreadsAssumption DEF InHand
  <2> QED
    BY <1>1, <1>2, <2>1, <2>2, QuietPlaces
<1>4. CASE List!Dequeue(k) /\ got' = [got EXCEPT ![t] = Head(queue[k])]
  <2> PICK x \in Threads : x = Head(queue[k])
    BY <1>4, Removed DEF List!Dequeue
  <2>1. /\ queue[k] # <<>> /\ queue' = [queue EXCEPT ![k] = Tail(@)] /\ got'[t] = x
    BY <1>4 DEF List!Dequeue, Typed
  <2>2. /\ OnQueue(k, x)
        /\ \A l \in Sides, u \in Threads :
             /\ OnQueue(l, u)' => OnQueue(l, u)
             /\ OnQueue(l, u) => OnQueue(l, u)' \/ (l = k /\ u = x)
             /\ Single(l, u) => Single(l, u)'
        /\ \A u \in Threads : u = x /\ Single(k, u) => ~OnQueue(k, u)'
    <3>1. /\ OnQueue(k, Head(queue[k]))
          /\ \A l \in Sides, u \in Threads :
               /\ OnQueue(l, u)' => OnQueue(l, u)
               /\ OnQueue(l, u) => OnQueue(l, u)' \/ (l = k /\ u = Head(queue[k]))
               /\ Single(l, u) => Single(l, u)'
          /\ \A u \in Threads :
               u = Head(queue[k]) /\ Single(k, u) => ~OnQueue(k, u)'
      BY <2>1, Removed
    <3> QED
      BY <3>1
  <2>3. \A u, v \in Threads : InHand(v, u)' <=> InHand(v, u) \/ (v = t /\ u = x)
    BY <1>1, <2>1 DEF InHand
  <2>4. \A l \in Sides, u \in Threads : /\ Listed(l, u)' => Listed(l, u)
                                        /\ Listed(l, u) => Listed(l, u)' \/ u = x
    BY <1>1, <2>2 DEF Listed
  <2>5. Listed(k, x)
    BY <2>2 DEF Listed
  <2>6. Remembered'
    <3> SUFFICES ASSUME NEW u \in Threads, Sleeps(u)'
                 PROVE  token'[u] \/ Listed(side[u], u)' \/ \E v \in Threads : InHand(v, u)'
      BY DEF Remembered
    <3>1. side[u] \in Sides /\ side'[u] = side[u]
      BY <1>1 DEF Typed
    <3>2. \A l \in Sides : l = side[u] /\ Listed(l, u)' => Listed(side[u], u)'
      BY <3>1
    <3>3. token[u] \/ Listed(side[u], u) \/ \E v \in Threads : InHand(v, u)
      BY <1>2 DEF Places, Remembered
    <3> QED
      BY <1>1, <2>3, <2>4, <3>1, <3>2, <3>3
  <2>7. OwnList'
    BY <1>1, <2>4 DEF Places, OwnList
  <2>8. \A u \in Threads \ Spurious : u = x =>
          /\ Sleeps(u) /\ ~token[u]
          /\ \A l \in Sides : ~Listed(l, u)'
          /\ \A v \in Threads : ~InHand(v, u)
    <3> SUFFICES ASSUME NEW u \in Threads \ Spurious, u = x
                 PROVE  /\ Sleeps(u) /\ ~token[u]
                        /\ \A l \in Sides : ~Listed(l, u)'
                        /\ \A v \in Threads : ~InHand(v, u)
      OBVIOUS
    <3>1. /\ Listed(k, u) /\ Single(k, u) /\ OnQueue(k, u) /\ pocket[k] # u
          /\ Sleeps(u) /\ ~token[u] /\ \A v \in Threads : ~InHand(v, u)
      BY <1>1, <2>2, <2>5 DEF Places, Once
    <3>2. \A l \in Sides : Listed(l, u) => l = k
      BY <1>1, <3>1 DEF Places, OwnList, Roamers
    <3>3. ~Listed(k, u)'
      BY <1>1, <2>2, <3>1 DEF Listed
    <3>4. \A l \in Sides : l = k => ~Listed(l, u)'
      BY <1>1, <2>2, <3>1 DEF Listed
    <3> QED
      BY <2>4, <3>1, <3>2, <3>4
  <2>9. \A l \in Sides, u \in Threads :
          ~(OnQueue(l, u) /\ pocket[l] = u) => ~(OnQueue(l, u) /\ pocket[l] = u)'
    BY <1>1, <2>2
  <2>10. Once'
    BY <1>1, <1>2, <2>2, <2>3, <2>4, <2>8, <2>9 DEF Places, Once
  <2> QED
    BY <2>6, <2>7, <2>10 DEF Places
<1> QED
  BY <1>3, <1>4 DEF Pop

(* release() links the thread it finds in the pocket.                       *)
LEMMA FlushPlaces ==
  ASSUME RegisteredInv, NEW t \in Threads, ReleaseFlush(t)
  PROVE  Places'
<1> USE DEF RegisteredInv
<1> DEFINE k == ListOf(t)
<1>1. /\ k \in Sides /\ UNCHANGED <<token, side, task, got>>
      /\ pc[t] = "flush" /\ pc'[t] = "free"
      /\ \A u \in Threads \ {t} : pc'[u] = pc[u]
      /\ pocket' = [pocket EXCEPT ![k] = NULL]
      /\ queue' = [queue EXCEPT ![k] = IF pocket[k] = NULL THEN @
                                       ELSE Append(@, pocket[k])]
  BY ListOfIsSide DEF ReleaseFlush, Goto, List!Flush, Typed
<1>2. \A u \in Threads : Sleeps(u)' <=> Sleeps(u)
  BY <1>1 DEF Sleeps
<1>3. \A u, x \in Threads : InHand(u, x)' <=> InHand(u, x)
  BY <1>1 DEF InHand
<1>4. \A l \in Sides : pocket'[l] = IF l = k THEN NULL ELSE pocket[l]
  BY <1>1 DEF Typed
<1>5. CASE pocket[k] = NULL
  <2>1. UNCHANGED <<queue, pocket>>
    BY <1>1, <1>5 DEF Typed
  <2> QED
    BY <1>1, <1>2, <1>3, <2>1, QuietPlaces
<1>6. CASE pocket[k] # NULL
  <2> DEFINE x == pocket[k]
  <2>1. x \in Threads /\ queue' = [queue EXCEPT ![k] = Append(@, x)]
    BY <1>1, <1>6 DEF Typed
  <2>2. /\ \A l \in Sides, u \in Threads :
              OnQueue(l, u)' <=> OnQueue(l, u) \/ (l = k /\ u = x)
        /\ \A l \in Sides, u \in Threads :
              Single(l, u) /\ ~(l = k /\ u = x /\ OnQueue(l, u)) => Single(l, u)'
    BY <1>1, <2>1, Appended
  <2> HIDE DEF k
  <2>3. \A l \in Sides, u \in Threads : Listed(l, u)' <=> Listed(l, u)
    BY <1>4, <2>1, <2>2, ThreadsAssumption DEF Listed
  <2>4. Remembered'
    <3> SUFFICES ASSUME NEW u \in Threads, Sleeps(u)'
                 PROVE  token'[u] \/ Listed(side[u], u)' \/ \E v \in Threads : InHand(v, u)'
      BY DEF Remembered
    <3>1. side[u] \in Sides /\ side'[u] = side[u]
      BY <1>1 DEF Typed
    <3>2. \A l \in Sides : l = side[u] /\ Listed(l, u)' => Listed(side[u], u)'
      BY <3>1
    <3>3. token[u] \/ Listed(side[u], u) \/ \E v \in Threads : InHand(v, u)
      BY <1>2 DEF Places, Remembered
    <3> QED
      BY <1>1, <1>3, <2>3, <3>1, <3>2, <3>3
  <2>5. OwnList'
    BY <1>1, <2>3 DEF Places, OwnList
  <2>6. \A l \in Sides, u \in Threads \ Spurious :
          Single(l, u)' /\ ~(OnQueue(l, u) /\ pocket[l] = u)'
    <3> SUFFICES ASSUME NEW l \in Sides, NEW u \in Threads \ Spurious
                 PROVE  Single(l, u)' /\ ~(OnQueue(l, u) /\ pocket[l] = u)'
      OBVIOUS
    <3>1. Single(l, u) /\ ~(OnQueue(l, u) /\ pocket[l] = u)
      BY DEF Places, Once
    <3> QED
      BY <1>1, <1>4, <2>1, <2>2, <3>1, ThreadsAssumption
  <2>7. Once'
    BY <1>1, <1>2, <1>3, <2>3, <2>6 DEF Places, Once
  <2> QED
    BY <2>4, <2>5, <2>7 DEF Places
<1> QED
  BY <1>5, <1>6

(* The thread in a waker's hands is unparked.                               *)
LEMMA UnparkPlaces ==
  ASSUME RegisteredInv, NEW t \in Threads, Unpark(t)
  PROVE  Places'
<1> USE DEF RegisteredInv
<1> PICK x \in Threads : x = got[t]
  BY DEF Typed, Control, Unpark, Goto
<1>1. /\ UNCHANGED <<queue, pocket, side, task, got>>
      /\ token' = [token EXCEPT ![x] = TRUE]
      /\ pc[t] = "unpark" /\ pc'[t] \in {"pop", "store"}
      /\ \A u \in Threads \ {t} : pc'[u] = pc[u]
  BY DEF Unpark, Goto, Typed, parking
<1>2. \A u \in Threads : token'[u] <=> token[u] \/ u = x
  BY <1>1 DEF Typed
<1>3. \A u \in Threads : Sleeps(u)' <=> Sleeps(u)
  BY <1>1 DEF Sleeps
<1>4. InHand(t, x) /\ \A u, v \in Threads : InHand(v, u)' <=> InHand(v, u) /\ v # t
  BY <1>1 DEF InHand
<1>5. \A u \in Threads : InHand(t, u) => u = x
  BY DEF InHand
<1>6. \A k \in Sides, u \in Threads : /\ Listed(k, u)' <=> Listed(k, u)
                                      /\ OnQueue(k, u)' <=> OnQueue(k, u)
                                      /\ Single(k, u)' <=> Single(k, u)
  BY <1>1 DEF Listed, OnQueue, Single
<1>7. Remembered'
  <2> SUFFICES ASSUME NEW u \in Threads, Sleeps(u)'
               PROVE  token'[u] \/ Listed(side[u], u)' \/ \E v \in Threads : InHand(v, u)'
    BY DEF Remembered
  <2>1. Listed(side[u], u) => Listed(side[u], u)'
    BY <1>1 DEF Listed, OnQueue
  <2>2. token[u] \/ Listed(side[u], u) \/ \E v \in Threads : InHand(v, u)
    BY <1>3 DEF Places, Remembered
  <2> QED
    BY <1>2, <1>4, <1>5, <2>1, <2>2
<1>8. OwnList'
  BY <1>1, <1>6 DEF Places, OwnList
<1>9. \A u \in Threads \ Spurious : u = x =>
        /\ Sleeps(u) /\ \A k \in Sides : ~Listed(k, u)
        /\ \A v \in Threads : InHand(v, u) => v = t
  BY <1>4 DEF Places, Once
<1>10. Once'
  BY <1>1, <1>2, <1>3, <1>4, <1>6, <1>9 DEF Places, Once
<1> QED
  BY <1>7, <1>8, <1>10 DEF Places

(* park() returns to a thread that was unparked.                            *)
LEMMA UnparkedPlaces ==
  ASSUME RegisteredInv, NEW t \in Threads, Unparked(t)
  PROVE  Places'
<1> USE DEF RegisteredInv
<1>1. /\ UNCHANGED <<queue, pocket, side, task, got>>
      /\ token[t] /\ token' = [token EXCEPT ![t] = FALSE]
      /\ pc[t] = "parked" /\ pc'[t] = "spin"
      /\ \A u \in Threads \ {t} : pc'[u] = pc[u]
  BY DEF Unparked, Goto, Typed, parking
<1>2. ~token'[t] /\ \A u \in Threads \ {t} : token'[u] <=> token[u]
  BY <1>1 DEF Typed
<1>3. ~Sleeps(t)' /\ \A u \in Threads \ {t} : Sleeps(u)' <=> Sleeps(u)
  BY <1>1 DEF Sleeps
<1>4. \A u, x \in Threads : InHand(u, x)' <=> InHand(u, x)
  BY <1>1 DEF InHand
<1>5. \A k \in Sides, u \in Threads : /\ Listed(k, u)' <=> Listed(k, u)
                                      /\ OnQueue(k, u)' <=> OnQueue(k, u)
                                      /\ Single(k, u)' <=> Single(k, u)
  BY <1>1 DEF Listed, OnQueue, Single
<1>6. Remembered'
  <2> SUFFICES ASSUME NEW u \in Threads, Sleeps(u)'
               PROVE  token'[u] \/ Listed(side[u], u)' \/ \E v \in Threads : InHand(v, u)'
    BY DEF Remembered
  <2>1. u # t /\ Sleeps(u)
    BY <1>3
  <2>2. Listed(side[u], u) => Listed(side[u], u)'
    BY <1>1 DEF Listed, OnQueue
  <2>3. token[u] \/ Listed(side[u], u) \/ \E v \in Threads : InHand(v, u)
    BY <2>1 DEF Places, Remembered
  <2> QED
    BY <1>2, <1>4, <2>1, <2>2, <2>3
<1>7. OwnList'
  BY <1>1, <1>5 DEF Places, OwnList
<1>8. \A u \in Threads \ Spurious : u = t =>
        \A k \in Sides, v \in Threads : ~Listed(k, u) /\ ~InHand(v, u)
  BY <1>1 DEF Places, Once
<1>9. Once'
  BY <1>1, <1>2, <1>3, <1>4, <1>5, <1>8 DEF Places, Once
<1> QED
  BY <1>6, <1>7, <1>9 DEF Places

(* The invariant holds at the start, when nobody sleeps, and every step       *)
(* keeps it.                                                                *)
LEMMA RegisteredInvariant == Spec => []RegisteredInv
<1>1. Init => RegisteredInv
  <2>1. ASSUME Init PROVE Roles /\ Hands /\ Places
    <3>1. \A t \in Threads : ~Sleeps(t) /\ ~token[t] /\ got[t] = NULL /\ pc[t] = "idle"
      BY <2>1 DEF Init, Sleeps
    <3>2. \A k \in Sides : queue[k] = <<>> /\ pocket[k] = NULL
      BY <2>1 DEF Init, List!Init
    <3>3. \A k \in Sides, t \in Threads : ~Listed(k, t) /\ ~OnQueue(k, t) /\ Single(k, t)
      BY <3>2, ThreadsAssumption DEF Listed, OnQueue, Single
    <3>4. \A u, t \in Threads : ~InHand(u, t)
      BY <3>1 DEF InHand
    <3> QED
      BY <3>1, <3>3, <3>4 DEF Roles, Hands, Places, Remembered, OwnList, Once
  <2> QED
    BY <2>1, ShapeInit DEF RegisteredInv
<1>2. RegisteredInv /\ [Next]_vars => RegisteredInv'
  <2> SUFFICES ASSUME RegisteredInv, [Next]_vars PROVE RegisteredInv'
    OBVIOUS
  <2>1. Typed' /\ Control' /\ Roles' /\ Hands'
    BY ShapeStep, RolesStep, HandsStep DEF RegisteredInv
  <2>2. CASE UNCHANGED vars
    <3>1. \A u, t \in Threads : InHand(u, t)' <=> InHand(u, t)
      BY <2>2 DEF vars, local, InHand
    <3>2. \A u \in Threads : Sleeps(u)' <=> Sleeps(u)
      BY <2>2 DEF vars, local, Sleeps
    <3>3. UNCHANGED <<queue, pocket, token, side>>
      BY <2>2 DEF vars, local, parking
    <3>4. Places'
      BY <3>1, <3>2, <3>3, QuietPlaces DEF RegisteredInv
    <3> QED
      BY <2>1, <3>4 DEF RegisteredInv
  <2>3. ASSUME NEW t \in Threads, Begin(t) \/ Call(t) \/ Unlock(t) \/ SpuriousReturn(t)
        PROVE  Places'
    BY <2>3, QuietStep, BeginPlaces, PushPlaces, PopPlaces, FlushPlaces, UnparkPlaces,
       UnparkedPlaces DEF Quiet, Call, Unlock
  <2> QED
    BY <2>1, <2>2, <2>3 DEF Next, RegisteredInv
<1> QED
  BY <1>1, <1>2, PTL DEF Spec

(* How many places there are, when there is at most one.                     *)
LEMMA CountPlaces ==
  ASSUME NEW S, \A y, z \in S : y = z
  PROVE  Cardinality(S) = IF S = {} THEN 0 ELSE 1
<1>1. CASE S = {}
  BY <1>1, FS_EmptySet
<1>2. CASE S # {}
  <2> PICK x \in S : TRUE
    BY <1>2
  <2>1. S = {x}
    OBVIOUS
  <2> QED
    BY <1>2, <2>1, FS_Singleton
<1> QED
  BY <1>1, <1>2

(* Registrations counts three finite sets of places.                         *)
PlacesOn(t) == {i \in DOMAIN queue[side[t]] : queue[side[t]][i] = t}
PlacesIn(t) == {k \in {side[t]} : pocket[k] = t}
PlacesWith(t) == {u \in Threads : got[u] = t /\ pc[u] \in {"flush", "free", "unpark"}}

(* Their sizes tell whether t is registered there.                           *)
LEMMA PlacesCounted ==
  ASSUME Typed, NEW t \in Threads
  PROVE  /\ Registrations(t) = Cardinality(PlacesOn(t)) + Cardinality(PlacesIn(t))
                                                        + Cardinality(PlacesWith(t))
         /\ Cardinality(PlacesOn(t)) \in Nat
         /\ Cardinality(PlacesIn(t)) \in Nat
         /\ Cardinality(PlacesWith(t)) \in Nat
         /\ Cardinality(PlacesOn(t)) = 0 <=> ~OnQueue(side[t], t)
         /\ Cardinality(PlacesIn(t)) = 0 <=> pocket[side[t]] # t
         /\ Cardinality(PlacesWith(t)) = 0 <=> \A u \in Threads : ~InHand(u, t)
<1>1. IsFiniteSet(PlacesOn(t))
  <2>1. queue[side[t]] \in Seq(Threads)
    BY DEF Typed
  <2>2. Len(queue[side[t]]) \in Nat /\ PlacesOn(t) \subseteq 1..Len(queue[side[t]])
    BY <2>1 DEF PlacesOn
  <2>3. IsFiniteSet(1..Len(queue[side[t]]))
    BY <2>2, FS_Interval
  <2> QED
    BY <2>2, <2>3, FS_Subset
<1>2. IsFiniteSet(PlacesIn(t))
  BY FS_Singleton, FS_Subset DEF PlacesIn
<1>3. IsFiniteSet(PlacesWith(t))
  BY ThreadsAssumption, FS_Subset DEF PlacesWith
<1>4. PlacesOn(t) = {} <=> ~OnQueue(side[t], t)
  BY DEF PlacesOn, OnQueue
<1>5. PlacesIn(t) = {} <=> pocket[side[t]] # t
  BY DEF PlacesIn
<1>6. PlacesWith(t) = {} <=> \A u \in Threads : ~InHand(u, t)
  BY DEF PlacesWith, InHand
<1>7. Registrations(t) = Cardinality(PlacesOn(t)) + Cardinality(PlacesIn(t))
                                                 + Cardinality(PlacesWith(t))
  BY DEF Registrations, PlacesOn, PlacesIn, PlacesWith
<1> QED
  BY <1>1, <1>2, <1>3, <1>4, <1>5, <1>6, <1>7, FS_EmptySet, FS_CardinalityType

(* No sleeper is forgotten, and none woken twice: a sleeper that was not       *)
(* unparked is registered, in one place if park() returns to it only when it   *)
(* was, and nobody else is registered; for any number of threads.             *)
THEOREM RegisteredCorrect == Spec => []RegisteredOnce
<1> SUFFICES ASSUME RegisteredInv PROVE RegisteredOnce
  BY RegisteredInvariant, PTL
<1> USE DEF RegisteredInv
<1>1. \A t \in Threads : Sleeps(t) => token[t] \/ Registrations(t) > 0
  <2> SUFFICES ASSUME NEW t \in Threads, Sleeps(t), ~token[t] PROVE Registrations(t) > 0
    OBVIOUS
  <2>1. Listed(side[t], t) \/ \E u \in Threads : InHand(u, t)
    BY DEF Places, Remembered
  <2> DEFINE a == Cardinality(PlacesOn(t))
             b == Cardinality(PlacesIn(t))
             c == Cardinality(PlacesWith(t))
  <2>2. /\ Registrations(t) = a + b + c /\ a \in Nat /\ b \in Nat /\ c \in Nat
        /\ a # 0 \/ b # 0 \/ c # 0
    BY <2>1, PlacesCounted DEF Listed
  <2> HIDE DEF a, b, c
  <2> QED
    BY <2>2
<1>2. ASSUME NEW t \in Threads \ Spurious
      PROVE  Registrations(t) = IF Sleeps(t) /\ ~token[t] THEN 1 ELSE 0
  <2>1. /\ side[t] \in Sides
        /\ Single(side[t], t) /\ ~(OnQueue(side[t], t) /\ pocket[side[t]] = t)
        /\ Listed(side[t], t) => Sleeps(t) /\ ~token[t]
        /\ \A u \in Threads : /\ InHand(u, t) => Sleeps(t) /\ ~token[t]
                             /\ ~(Listed(side[t], t) /\ InHand(u, t))
        /\ \A u, v \in Threads : InHand(u, t) /\ InHand(v, t) => u = v
    BY DEF Typed, Places, Once
  <2>2. /\ \A i, j \in PlacesOn(t) : i = j
        /\ \A i, j \in PlacesIn(t) : i = j
        /\ \A i, j \in PlacesWith(t) : i = j
    BY <2>1 DEF PlacesOn, PlacesIn, PlacesWith, Single, InHand
  <2>3. /\ Cardinality(PlacesOn(t)) \in {0, 1}
        /\ Cardinality(PlacesIn(t)) \in {0, 1}
        /\ Cardinality(PlacesWith(t)) \in {0, 1}
    BY <2>2, CountPlaces
  <2>4. CASE Sleeps(t) /\ ~token[t]
    <3>1. Listed(side[t], t) \/ \E u \in Threads : InHand(u, t)
      BY <2>4 DEF Places, Remembered
    <3>2. /\ OnQueue(side[t], t) => /\ pocket[side[t]] # t
                                    /\ \A u \in Threads : ~InHand(u, t)
          /\ pocket[side[t]] = t => \A u \in Threads : ~InHand(u, t)
      BY <2>1 DEF Listed
    <3> DEFINE a == Cardinality(PlacesOn(t))
               b == Cardinality(PlacesIn(t))
               c == Cardinality(PlacesWith(t))
    <3>3. /\ Registrations(t) = a + b + c
          /\ a \in {0, 1} /\ b \in {0, 1} /\ c \in {0, 1}
          /\ a # 0 \/ b # 0 \/ c # 0
          /\ a # 0 => b = 0 /\ c = 0
          /\ b # 0 => c = 0
      BY <2>3, <3>1, <3>2, PlacesCounted DEF Listed
    <3> HIDE DEF a, b, c
    <3>4. Registrations(t) = 1
      BY <3>3
    <3> QED
      BY <2>4, <3>4
  <2>5. CASE ~(Sleeps(t) /\ ~token[t])
    <3>1. /\ Cardinality(PlacesOn(t)) = 0
          /\ Cardinality(PlacesIn(t)) = 0
          /\ Cardinality(PlacesWith(t)) = 0
      BY <2>1, <2>5, PlacesCounted DEF Listed
    <3> QED
      BY <2>5, <3>1, PlacesCounted
  <2> QED
    BY <2>4, <2>5
<1>3. \A t \in Threads \ Spurious : token[t] => Sleeps(t)
  BY DEF Places, Once
<1>4. \A k \in Sides, t \in Threads \ Roamers :
        pocket[k] = t \/ (\E i \in DOMAIN queue[k] : queue[k][i] = t) => side[t] = k
  BY DEF Places, OwnList, Listed, OnQueue
<1> QED
  BY <1>1, <1>2, <1>3, <1>4 DEF RegisteredOnce

---------------------------------------------------------------------------
(* Somebody is awake, with one group thread: as long as nobody has the lock,  *)
(* some thread has not tried it since, or is at a compare_exchange that will   *)
(* succeed unless another takes the lock first.  The thread that unlocks is   *)
(* such a thread.                                                          *)
Fresh(t) ==
  \/ pc[t] \in {"idle", "spin", "tryDirty", "tryUnlocked"}
  \/ pc[t] = "casUnlocked" /\ state = UNLOCKED
  \/ pc[t] = "casDirty" /\ state = DIRTY
  \/ pc[t] = "load" /\ state = DIRTY /\ locked = 0
  \/ Unlocking(t)

(* While state is DIRTY, which only the group thread stores, the group thread  *)
(* has not been turned away.                                                *)
AwakeInv ==
  /\ state = LOCKED => \E t \in Threads : Holds(t, "e")
  /\ state \in {UNLOCKED, DIRTY} => \E t \in Threads : Fresh(t)
  /\ state = DIRTY => \A t \in Threads : CountedIn(t) => pc[t] \in {"spin", "casDirty"}

(* A step that neither takes nor gives up the lock leaves such a thread: the  *)
(* one that finds the lock DIRTY and a group thread counted leaves it to that  *)
(* one.                                                                     *)
LEMMA FreshStays ==
  ASSUME OneGroup, ExclusionInv, AwakeInv, state \in {UNLOCKED, DIRTY},
         NEW t \in Threads, Neutral(t)
  PROVE  \E u \in Threads : Fresh(u)'
<1> USE DEF ExclusionInv, Typed, Control, WakeTasks, Tasks, Sides, Goto, word,
            UNLOCKED, LOCKED, LOCKED_GROUP, DIRTY
<1>1. state' = state
  BY NeutralStep
<1> PICK f \in Threads : Fresh(f)
  BY DEF AwakeInv
<1>2. CASE LockExclusive(t) \/ LockGroup(t) \/ TryLockExclusive(t)
  <2>1. pc'[t] \in {"spin", "tryDirty", "tryUnlocked"}
    BY <1>2 DEF LockExclusive, LockGroup, TryLockExclusive
  <2> QED
    BY <2>1 DEF Fresh
<1>3. CASE ~(LockExclusive(t) \/ LockGroup(t) \/ TryLockExclusive(t)) /\ f # t
  <2>1. locked' = locked
    BY <1>3, UncountedStep DEF Neutral, Uncounted
  <2>2. pc'[f] = pc[f]
    BY <1>3, InnerStep DEF Neutral, Inner
  <2>3. task'[f] = task[f]
    <3>1. CASE Spin(t) \/ LoadLocked(t)
      BY <1>3, <3>1 DEF Spin, LoadLocked, Retry
    <3>2. CASE Suspend(t) \/ PushPeek(t) \/ PushStash(t) \/ PushEnqueue(t) \/ SuspendStore(t)
      BY <1>3, <3>2 DEF Suspend, PushPeek, PushStash, PushEnqueue, SuspendStore
    <3>3. CASE Unparked(t) \/ SpuriousReturn(t) \/ WakeTake(t) \/ Pop(t)
      BY <1>3, <3>3 DEF Unparked, SpuriousReturn, WakeTake, Pop
    <3>4. CASE ReleaseFlush(t) \/ ReleaseUnlock(t) \/ Unpark(t) \/ WakeStore(t)
      BY <1>3, <3>4 DEF ReleaseFlush, ReleaseUnlock, Unpark, WakeStore
    <3> QED
      BY <1>3, <3>1, <3>2, <3>3, <3>4 DEF Neutral
  <2> QED
    BY <1>1, <2>1, <2>2, <2>3 DEF Fresh, Unlocking
<1>4. CASE f = t /\ Spin(t)
  <2>1. UNCHANGED <<side, locked, task>> /\ \A u \in Threads \ {t} : pc'[u] = pc[u]
    BY <1>4 DEF Spin
  <2>2. pc[t] = "spin" /\ pc'[t] = IF state = UNLOCKED THEN "casUnlocked"
                                   ELSE IF side[t] = "e" THEN "load" ELSE "casDirty"
    BY <1>4 DEF Spin
  <2>3. CASE state = DIRTY /\ side[t] = "e" /\ locked # 0
    <3>1. Inside # {}
      BY <2>3, FS_EmptySet DEF GroupCounted
    <3> PICK g \in Threads : CountedIn(g)
      BY <3>1 DEF Inside
    <3>2. pc[g] \in {"spin", "casDirty"} /\ g # t
      BY <2>3 DEF AwakeInv, CountedIn
    <3> QED
      BY <1>1, <2>1, <2>3, <3>2 DEF Fresh
  <2>4. CASE ~(state = DIRTY /\ side[t] = "e" /\ locked # 0)
    BY <1>1, <2>1, <2>2, <2>4 DEF Fresh
  <2> QED
    BY <2>3, <2>4
<1>5. CASE f = t /\ LoadLocked(t)
  <2>1. pc[t] = "load" /\ task[t] = "none"
    BY <1>5 DEF LoadLocked
  <2>2. state = DIRTY /\ locked = 0
    BY <1>5, <2>1 DEF Fresh, Unlocking
  <2>3. pc'[t] = "casDirty"
    BY <1>5, <2>2 DEF LoadLocked
  <2> QED
    BY <1>1, <2>2, <2>3 DEF Fresh
<1>6. CASE f = t /\ (\/ Suspend(t) \/ PushPeek(t) \/ PushStash(t) \/ PushEnqueue(t)
                     \/ SuspendStore(t) \/ SpuriousReturn(t))
  <2>1. pc[t] \in {"suspend", "peek", "stash", "enqueue", "suspended", "parked"}
    BY <1>6 DEF Suspend, PushPeek, PushStash, PushEnqueue, SuspendStore, SpuriousReturn
  <2>2. ~Fresh(t)
    BY <2>1 DEF Fresh, Unlocking
  <2> QED
    BY <1>6, <2>2
<1>7. CASE Unparked(t)
  <2>1. pc'[t] = "spin"
    BY <1>7 DEF Unparked
  <2> QED
    BY <2>1 DEF Fresh
<1>8. CASE f = t /\ (WakeTake(t) \/ Pop(t) \/ ReleaseFlush(t) \/ ReleaseUnlock(t) \/ Unpark(t))
  <2>1. pc[t] \in {"take", "pop", "flush", "free", "unpark"} /\ task' = task
    BY <1>8 DEF WakeTake, Pop, ReleaseFlush, ReleaseUnlock, Unpark
  <2>2. Unlocking(t)
    BY <1>8, <2>1 DEF Fresh
  <2> QED
    BY <2>1, <2>2 DEF Fresh, Unlocking
<1>9. CASE f = t /\ WakeStore(t)
  <2>1. Unlocking(t)
    BY <1>9 DEF Fresh, WakeStore
  <2>2. task'[t] = "unlockAgain" \/ pc'[t] = "idle"
    BY <1>9, <2>1 DEF WakeStore, Unlocking
  <2> QED
    BY <2>2 DEF Fresh, Unlocking
<1> QED
  BY <1>2, <1>3, <1>4, <1>5, <1>6, <1>7, <1>8, <1>9 DEF Neutral

(* Nor does such a step turn away the group thread while state is DIRTY.      *)
LEMMA DirtyStays ==
  ASSUME OneGroup, ExclusionInv, AwakeInv, state = DIRTY,
         NEW t \in Threads, Neutral(t)
  PROVE  \A u \in Threads : CountedIn(u)' => pc'[u] \in {"spin", "casDirty"}
<1> USE DEF ExclusionInv, Typed, Control, WakeTasks, Tasks, Sides, Goto, word,
            UNLOCKED, LOCKED, LOCKED_GROUP, DIRTY
<1>1. \A u \in Threads : CountedIn(u) => pc[u] \in {"spin", "casDirty"}
  BY DEF AwakeInv
<1>2. CASE LockExclusive(t)
  BY <1>1, <1>2 DEF LockExclusive, CountedIn, Unlocking
<1>3. CASE LockGroup(t)
  BY <1>1, <1>3 DEF LockGroup, CountedIn, Unlocking
<1>4. CASE ~LockExclusive(t) /\ ~LockGroup(t)
  <2>1. \A u \in Threads : CountedIn(u)' => CountedIn(u)
    <3>1. Inside' = Inside
      BY <1>4, UncountedStep DEF Neutral, Uncounted
    <3> QED
      BY <3>1 DEF Inside
  <2>2. \A u \in Threads \ {t} : pc'[u] = pc[u]
    <3>1. CASE TryLockExclusive(t)
      BY <3>1 DEF TryLockExclusive
    <3> QED
      BY <1>4, <3>1, InnerStep DEF Neutral, Inner
  <2>3. CountedIn(t) => pc'[t] \in {"spin", "casDirty"}
    <3> SUFFICES ASSUME CountedIn(t) PROVE pc'[t] \in {"spin", "casDirty"}
      OBVIOUS
    <3>1. pc[t] \in {"spin", "casDirty"} /\ side[t] = "g"
      BY <1>1 DEF CountedIn
    <3>2. Spin(t)
      BY <1>4, <3>1 DEF Neutral, TryLockExclusive, LoadLocked, Suspend, PushPeek, PushStash,
         PushEnqueue, SuspendStore, Unparked, SpuriousReturn, WakeTake, Pop, ReleaseFlush,
         ReleaseUnlock, Unpark, WakeStore
    <3> QED
      BY <3>1, <3>2 DEF Spin
  <2>4. ASSUME NEW u \in Threads, CountedIn(u)' PROVE pc'[u] \in {"spin", "casDirty"}
    <3>1. CountedIn(u)
      BY <2>1, <2>4
    <3>2. CASE u = t
      BY <2>3, <3>1, <3>2
    <3>3. CASE u # t
      BY <1>1, <2>2, <3>1, <3>3
    <3> QED
      BY <3>2, <3>3
  <2> QED
    BY <2>4
<1> QED
  BY <1>2, <1>3, <1>4

(* Every step keeps somebody awake.                                         *)
LEMMA AwakeStep ==
  ASSUME OneGroup, ExclusionInv, AwakeInv, [Next]_vars
  PROVE  AwakeInv'
<1> USE DEF ExclusionInv, Typed, Control, WakeTasks, Tasks, Sides, Goto, UNLOCKED, LOCKED,
            LOCKED_GROUP, DIRTY
<1>1. ASSUME NEW t \in Threads, Neutral(t) PROVE AwakeInv'
  <2>1. state' = state /\ \A u \in Threads : Holds(u, "e")' <=> Holds(u, "e")
    BY <1>1, NeutralStep
  <2> QED
    BY <1>1, <2>1, FreshStays, DirtyStays DEF AwakeInv
<1>2. ASSUME NEW t \in Threads, NEW at, NEW from, CompareExchange(t, at, from),
             \/ at = "casUnlocked" /\ from = UNLOCKED
             \/ at = "casDirty" /\ from = DIRTY
      PROVE  AwakeInv'
  <2>1. pc[t] = at /\ task[t] = "none" /\ UNCHANGED <<side, locked>>
    BY <1>2 DEF CompareExchange
  <2>2. CASE state = from /\ Acquired(t)
    <3>1. CASE side[t] = "e"
      <4>1. state' = LOCKED /\ Holds(t, "e")'
        BY <2>1, <2>2, <3>1 DEF Acquired, Holds
      <4> QED
        BY <4>1 DEF AwakeInv
    <3>2. CASE side[t] = "g"
      <4>1. state' = LOCKED_GROUP
        BY <2>2, <3>2 DEF Acquired
      <4> QED
        BY <4>1 DEF AwakeInv
    <3> QED
      BY <3>1, <3>2
  <2>3. CASE state # from /\ Retry(t) /\ UNCHANGED state
    <3>1. /\ UNCHANGED task /\ pc'[t] \in {"suspend", "spin"}
          /\ \A u \in Threads \ {t} : pc'[u] = pc[u]
      BY <2>3 DEF Retry
    <3>2. ~Fresh(t)
      BY <1>2, <2>1, <2>3 DEF Fresh, Unlocking
    <3>3. \A u \in Threads : Fresh(u) => Fresh(u)'
      BY <2>1, <2>3, <3>1, <3>2 DEF Fresh, Unlocking
    <3>4. \A u \in Threads : Holds(u, "e") => Holds(u, "e")'
      <4>1. ~Holds(t, "e")
        BY <1>2, <2>1 DEF Holds
      <4>2. \A u \in Threads \ {t} : Holds(u, "e") => Holds(u, "e")'
        BY <2>1, <3>1 DEF Holds
      <4> QED
        BY <4>1, <4>2
    <3>5. ASSUME state = DIRTY, NEW u \in Threads, CountedIn(u)'
          PROVE  pc'[u] \in {"spin", "casDirty"}
      <4>1. CountedIn(u)
        <5>1. CASE u = t
          BY <1>2, <2>1, <3>5, <5>1 DEF CountedIn, Unlocking
        <5>2. CASE u # t
          BY <2>1, <3>1, <3>5, <5>2 DEF CountedIn, Unlocking
        <5> QED
          BY <5>1, <5>2
      <4>2. pc[u] \in {"spin", "casDirty"}
        BY <3>5, <4>1 DEF AwakeInv
      <4> QED
        BY <1>2, <2>1, <2>3, <3>1, <3>5, <4>2
    <3> QED
      BY <2>3, <3>3, <3>4, <3>5 DEF AwakeInv
  <2> QED
    BY <1>2, <2>2, <2>3 DEF CompareExchange
<1>3. ASSUME NEW t \in Threads, NEW at \in {"tryUnlocked", "tryDirty"}, NEW from,
             TryCompareExchange(t, at, from)
      PROVE  AwakeInv'
  <2>1. /\ pc[t] = at /\ side[t] = "e" /\ task[t] = "none"
        /\ UNCHANGED <<side, task, locked>> /\ \A u \in Threads \ {t} : pc'[u] = pc[u]
    BY <1>3 DEF TryCompareExchange
  <2>2. CASE state = from
    <3>1. state' = LOCKED /\ Holds(t, "e")'
      BY <1>3, <2>1, <2>2 DEF TryCompareExchange, Holds
    <3> QED
      BY <3>1 DEF AwakeInv
  <2>3. CASE state # from
    <3>1. state' = state /\ pc'[t] = "idle"
      BY <1>3, <2>3 DEF TryCompareExchange
    <3>2. Fresh(t)'
      BY <3>1 DEF Fresh
    <3>3. \A u \in Threads : Holds(u, "e") => Holds(u, "e")'
      BY <2>1, <3>1 DEF Holds
    <3>4. \A u \in Threads : CountedIn(u)' => CountedIn(u) /\ pc'[u] = pc[u]
      BY <2>1, <3>1 DEF CountedIn, Unlocking
    <3> QED
      BY <3>1, <3>2, <3>3, <3>4 DEF AwakeInv
  <2> QED
    BY <2>2, <2>3
<1>4. ASSUME NEW t \in Threads, Reload(t) PROVE AwakeInv'
  BY <1>4 DEF Reload, StateTells
<1>5. ASSUME NEW t \in Threads, FetchSub(t) \/ UnlockGroup(t) \/ UnlockAllGroup(t)
      PROVE  AwakeInv'
  <2>1. Holds(t, "g")
    BY <1>5 DEF FetchSub, UnlockGroup, UnlockAllGroup, Holds
  <2>2. state' = LOCKED_GROUP
    BY <1>5, <2>1 DEF FetchSub, UnlockGroup, UnlockAllGroup, StateTells, InGroup, word
  <2> QED
    BY <2>2 DEF AwakeInv
<1>6. ASSUME NEW t \in Threads, StoreDirty(t) PROVE AwakeInv'
  <2>1. /\ pc[t] = "storeDirty" /\ side[t] = "g" /\ state' = DIRTY /\ UNCHANGED side
        /\ pc' = [pc EXCEPT ![t] = "take"] /\ task' = [task EXCEPT ![t] = "unlock"]
    BY <1>6 DEF StoreDirty
  <2>2. Fresh(t)'
    BY <2>1 DEF Fresh, Unlocking
  <2>3. ASSUME NEW u \in Threads PROVE ~CountedIn(u)'
    <3>1. CASE u = t
      BY <2>1, <3>1 DEF CountedIn, Unlocking
    <3>2. CASE u # t
      <4>1. ~(pc[u] # "idle" /\ side[u] = "g")
        <5>1. t \in Group /\ (pc[u] # "idle" /\ side[u] = "g" => u \in Group)
          BY <2>1 DEF StateTells
        <5> QED
          BY <3>2, <5>1 DEF OneGroup
      <4> QED
        BY <2>1, <3>2, <4>1 DEF CountedIn
    <3> QED
      BY <3>1, <3>2
  <2> QED
    BY <2>1, <2>2, <2>3 DEF AwakeInv
<1>7. ASSUME NEW t \in Threads, UnlockExclusive(t) PROVE AwakeInv'
  <2>1. Holds(t, "e") /\ state = LOCKED
    BY <1>7 DEF UnlockExclusive, Holds, StateTells
  <2>2. state' = UNLOCKED /\ task'[t] = "unlock"
    BY <1>7, <2>1 DEF UnlockExclusive
  <2> QED
    BY <2>2 DEF AwakeInv, Fresh, Unlocking
<1>8. CASE UNCHANGED vars
  BY <1>8 DEF vars, word, local, AwakeInv, Fresh, Holds, CountedIn, Unlocking
<1> QED
  BY <1>1, <1>2, <1>3, <1>4, <1>5, <1>6, <1>7, <1>8
  DEF Next, Begin, Call, Unlock, Neutral, CasUnlocked, CasDirty, TryUnlocked, TryDirty

(* With one group thread and any number of exclusive ones, the threads never   *)
(* all sleep: somebody has the lock and will unlock it, or has not been        *)
(* turned away since it became free.                                        *)
THEOREM SomeoneAwakeCorrect ==
  ASSUME OneGroup, Threads # {}
  PROVE  Spec => []SomeoneAwake
<1>1. Init => AwakeInv
  <2>1. ASSUME Init PROVE state = UNLOCKED /\ \A t \in Threads : Fresh(t)
    BY <2>1 DEF Init, Fresh
  <2> QED
    BY <2>1, Threads # {} DEF AwakeInv, UNLOCKED, LOCKED, DIRTY
<1>2. ExclusionInv /\ AwakeInv /\ [Next]_vars => AwakeInv'
  BY AwakeStep, OneGroup
<1>3. ExclusionInv /\ AwakeInv => SomeoneAwake
  <2> SUFFICES ASSUME ExclusionInv, AwakeInv PROVE \E t \in Threads : pc[t] # "parked"
    BY DEF SomeoneAwake
  <2>1. state \in {UNLOCKED, LOCKED, LOCKED_GROUP, DIRTY}
    BY DEF ExclusionInv, Typed
  <2>2. \A t \in Threads : pc[t] = "parked" =>
          /\ ~Fresh(t) /\ ~Holds(t, "e") /\ ~InGroup(t)
    BY DEF ExclusionInv, Control, Fresh, Holds, InGroup, Unlocking
  <2>3. CASE state \in {UNLOCKED, DIRTY}
    BY <2>2, <2>3 DEF AwakeInv
  <2>4. CASE state = LOCKED
    BY <2>2, <2>4 DEF AwakeInv
  <2>5. CASE state = LOCKED_GROUP
    BY <2>2, <2>5 DEF ExclusionInv, StateTells
  <2> QED
    BY <2>1, <2>3, <2>4, <2>5
<1> QED
  BY <1>1, <1>2, <1>3, ExclusionInvariant, OneGroup, PTL DEF Spec
=============================================================================
