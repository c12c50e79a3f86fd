------------------------------- MODULE Mutex -------------------------------
(***************************************************************************)
(* Mutex, src/src/mutex/mutex.rs: an exclusive / group lock that spins,     *)
(* then parks the thread on one of two AtomicVecs.  The parking lists are   *)
(* PocketQueues, which AtomicVec is shown to implement; every other atomic  *)
(* access is an action, but that unlock_all_group's store takes the load     *)
(* after it along.  spin(10) is the last of its loads, the one whose value    *)
(* it returns.                                                             *)
(*                                                                         *)
(* A thread of Exclusive calls lock_exclusive or try_lock_exclusive and     *)
(* then unlock_exclusive; a thread of Group calls lock_group and then       *)
(* unlock_group or unlock_all_group; over and over.                         *)
(***************************************************************************)
EXTENDS Integers, Sequences, FiniteSets

CONSTANTS Threads, Exclusive, Group, NULL,
          YieldLimit,  \* YIELD_LIMIT of Backoff (10 in the code)
          Spurious,    \* the threads whose park() may return without an unpark
          UnlockAllAtRest,  \* whether unlock_all_group is only called as told there
          QueueBound   \* bound: while so many are registered on a list, it does not

ASSUME ThreadsAssumption == /\ IsFiniteSet(Threads) /\ NULL \notin Threads
                            /\ Exclusive \subseteq Threads /\ Group \subseteq Threads
ASSUME YieldLimitAssumption == YieldLimit \in Nat
ASSUME UnlockAllAssumption == UnlockAllAtRest \in BOOLEAN

Sides == {"e", "g"}     \* MutexType; also the names of the parking lists

UNLOCKED == "UNLOCKED"
LOCKED == "LOCKED"
LOCKED_GROUP == "LOCKED_GROUP"
DIRTY == "DIRTY"

VARIABLES
  state, locked, wake_deadlock,   \* InnerMutex
  queue, pocket, phase,           \* parking_e and parking_g
  token,                          \* token[t]: t was unparked (std::thread)
  pc, side, step,   \* where a thread is, for which MutexType, its backoff
  task,             \* what its use of the parking lists is for
  got               \* the thread its last pop returned

word == <<state, locked>>
parking == <<queue, pocket, phase>>
local == <<pc, side, step, task, got>>
vars == <<word, wake_deadlock, parking, token, local>>

List == INSTANCE PocketQueue WITH Lists <- Sides, Elements <- Threads

Init ==
  /\ state = UNLOCKED
  /\ locked = 0
  /\ wake_deadlock = UNLOCKED
  /\ List!Init
  /\ token = [t \in Threads |-> FALSE]
  /\ pc = [t \in Threads |-> "idle"]
  /\ side = [t \in Threads |-> "e"]
  /\ step = [t \in Threads |-> 0]
  /\ task = [t \in Threads |-> "none"]
  /\ got = [t \in Threads |-> NULL]

Goto(t, from, to) == pc[t] = from /\ pc' = [pc EXCEPT ![t] = to]

---------------------------------------------------------------------------
(* Backoff: is_completed() and snooze(); the yields and pauses do nothing. *)
IsCompleted(t) == step[t] > YieldLimit
Snooze(t) == step' = [step EXCEPT ![t] = IF IsCompleted(t) THEN @ ELSE @ + 1]

(* The end of a turn of the loop of lock_exclusive or lock_group.          *)
Retry(t) ==
  /\ pc' = [pc EXCEPT ![t] = IF IsCompleted(t) THEN "suspend" ELSE "spin"]
  /\ Snooze(t)
  /\ UNCHANGED task

(* lock_exclusive: the call.                                               *)
LockExclusive(t) ==
  /\ t \in Exclusive
  /\ Goto(t, "idle", "spin")
  /\ side' = [side EXCEPT ![t] = "e"]
  /\ step' = [step EXCEPT ![t] = 0]
  /\ UNCHANGED <<word, wake_deadlock, parking, token, task, got>>

(* Mutated form: the thread does not count itself in.                      *)
LockGroupUncounted(t) ==
  /\ t \in Group
  /\ Goto(t, "idle", "spin")
  /\ side' = [side EXCEPT ![t] = "g"]
  /\ step' = [step EXCEPT ![t] = 0]
  /\ UNCHANGED <<word, wake_deadlock, parking, token, task, got>>

(* lock_group: the call, which counts the thread in before it has the lock. *)
LockGroup(t) ==
  /\ t \in Group
  /\ Goto(t, "idle", "spin")
  /\ side' = [side EXCEPT ![t] = "g"]
  /\ step' = [step EXCEPT ![t] = 0]
  /\ locked' = locked + 1
  /\ UNCHANGED <<state, wake_deadlock, parking, token, task, got>>

(* spin(10), and the match on what it returns.                             *)
Spin(t) ==
  /\ Goto(t, "spin",
       CASE state = DIRTY /\ side[t] = "e" -> "load"
         [] state = DIRTY /\ side[t] = "g" -> "casDirty"
         [] state = LOCKED_GROUP /\ side[t] = "g" -> "reload"
         [] OTHER -> "casUnlocked")
  /\ UNCHANGED <<word, wake_deadlock, parking, token, side, step, task, got>>

(* lock_exclusive, DIRTY: locked must be 0.                                *)
LoadLocked(t) ==
  /\ pc[t] = "load"
  /\ \/ /\ locked = 0
        /\ pc' = [pc EXCEPT ![t] = "casDirty"]
        /\ UNCHANGED <<step, task>>
     \/ locked # 0 /\ Retry(t)
  /\ UNCHANGED <<word, wake_deadlock, parking, token, side, got>>

(* Mutated form: a group takes the lock as LOCKED.                         *)
AcquiredAsLocked(t) ==
  /\ state' = LOCKED
  /\ pc' = [pc EXCEPT ![t] = IF side[t] = "e" THEN "hold" ELSE "take"]
  /\ task' = [task EXCEPT ![t] = IF side[t] = "e" THEN "none" ELSE "wakeAll"]
  /\ step' = [step EXCEPT ![t] = 0]

(* The lock is taken: a group goes on to wake_all(Group).                  *)
Acquired(t) ==
  /\ state' = IF side[t] = "e" THEN LOCKED ELSE LOCKED_GROUP
  /\ pc' = [pc EXCEPT ![t] = IF side[t] = "e" THEN "hold" ELSE "take"]
  /\ task' = [task EXCEPT ![t] = IF side[t] = "e" THEN "none" ELSE "wakeAll"]
  /\ step' = [step EXCEPT ![t] = 0]

(* Mutated form: a plain store, on the strength of the load in spin().     *)
StoreInstead(t, at, from) ==
  /\ pc[t] = at
  /\ Acquired(t)
  /\ UNCHANGED <<locked, wake_deadlock, parking, token, side, got>>

(* The compare_exchange of both lock functions, from UNLOCKED or DIRTY.    *)
CompareExchange(t, at, from) ==
  /\ pc[t] = at
  /\ \/ state = from /\ Acquired(t)
     \/ state # from /\ Retry(t) /\ UNCHANGED state
  /\ UNCHANGED <<locked, wake_deadlock, parking, token, side, got>>

CasUnlocked(t) == CompareExchange(t, "casUnlocked", UNLOCKED)
CasDirty(t) == CompareExchange(t, "casDirty", DIRTY)

(* lock_group, LOCKED_GROUP: the thread joins the group whatever the second *)
(* load says; that load only decides whether it wakes a parked member.      *)
Reload(t) ==
  /\ Goto(t, "reload", IF state = LOCKED_GROUP THEN "take" ELSE "hold")
  /\ task' = [task EXCEPT ![t] = IF state = LOCKED_GROUP THEN "join" ELSE "none"]
  /\ UNCHANGED <<word, wake_deadlock, parking, token, side, step, got>>

(* try_lock_exclusive: the load of locked, then one compare_exchange.      *)
TryLockExclusive(t) ==
  /\ t \in Exclusive
  /\ Goto(t, "idle", IF locked = 0 THEN "tryDirty" ELSE "tryUnlocked")
  /\ side' = [side EXCEPT ![t] = "e"]
  /\ UNCHANGED <<word, wake_deadlock, parking, token, step, task, got>>

(* Mutated form: the result of the compare_exchange is not looked at.      *)
TryUnchecked(t, at, from) ==
  /\ Goto(t, at, "hold")
  /\ state' = IF state = from THEN LOCKED ELSE state
  /\ UNCHANGED <<locked, wake_deadlock, parking, token, side, step, task, got>>

TryCompareExchange(t, at, from) ==
  /\ Goto(t, at, IF state = from THEN "hold" ELSE "idle")
  /\ state' = IF state = from THEN LOCKED ELSE state
  /\ UNCHANGED <<locked, wake_deadlock, parking, token, side, step, task, got>>

TryDirty(t) == TryCompareExchange(t, "tryDirty", DIRTY)
TryUnlocked(t) == TryCompareExchange(t, "tryUnlocked", UNLOCKED)

---------------------------------------------------------------------------
(* unlock_exclusive: the compare_exchange, then wake(Group) or else         *)
(* wake(Exclusive); it panics when the state is not LOCKED.                 *)
UnlockExclusive(t) ==
  /\ side[t] = "e"
  /\ Goto(t, "hold", IF state = LOCKED THEN "take" ELSE "panicked")
  /\ state' = IF state = LOCKED THEN UNLOCKED ELSE state
  /\ task' = [task EXCEPT ![t] = IF state = LOCKED THEN "unlock" ELSE "none"]
  /\ UNCHANGED <<locked, wake_deadlock, parking, token, side, step, got>>

(* unlock_group: the load of state and the panic.                          *)
UnlockGroup(t) ==
  /\ side[t] = "g"
  /\ Goto(t, "hold", IF state \in {LOCKED_GROUP, DIRTY} THEN "sub" ELSE "panicked")
  /\ UNCHANGED <<word, wake_deadlock, parking, token, side, step, task, got>>

(* unlock_group: the fetch_sub; the last one out goes on.                  *)
FetchSub(t) ==
  /\ Goto(t, "sub", IF locked = 1 THEN "storeDirty" ELSE "idle")
  /\ locked' = locked - 1
  /\ UNCHANGED <<state, wake_deadlock, parking, token, side, step, task, got>>

(* Mutated form: the last one out does not store DIRTY.                    *)
DirtyForgotten(t) ==
  /\ Goto(t, "storeDirty", "take")
  /\ task' = [task EXCEPT ![t] = "unlock"]
  /\ UNCHANGED <<word, wake_deadlock, parking, token, side, step, got>>

(* unlock_group: the store of DIRTY, then wake(Exclusive) or else           *)
(* wake(Group).                                                            *)
StoreDirty(t) ==
  /\ Goto(t, "storeDirty", "take")
  /\ state' = DIRTY
  /\ task' = [task EXCEPT ![t] = "unlock"]
  /\ UNCHANGED <<locked, wake_deadlock, parking, token, side, step, got>>

(* The members a call of unlock_all_group by t unlocks for: they have the    *)
(* lock and do not unlock any more.  Which they are is the caller's business; *)
(* one that calls it at rest does so when no other group thread is inside a   *)
(* call, and for all that have the lock, as test/mutex.rs:161 does.           *)
Relieved(t) ==
  {others \in SUBSET {u \in Threads \ {t} : side[u] = "g" /\ pc[u] = "hold"} :
     UnlockAllAtRest => \A u \in Threads \ {t} :
                          side[u] = "g" => pc[u] = "idle" \/ u \in others}

(* Mutated form: locked is not set to 1 first.                             *)
UnlockAllKeepsCount(t) ==
  /\ side[t] = "g" /\ pc[t] = "hold"
  /\ \E others \in Relieved(t) :
       pc' = [u \in Threads |-> IF u \in others THEN "idle" ELSE
                               IF u = t THEN "sub" ELSE pc[u]]
  /\ UNCHANGED <<word, wake_deadlock, parking, token, side, step, task, got>>

(* unlock_all_group: the store of 1 to locked, then unlock_group's load and  *)
(* panic.  Nothing in the code keeps it from being called while other group   *)
(* threads are counted in; the store then takes them out of the count, their  *)
(* fetch_sub still follows, and locked, an integer here that stands for the    *)
(* usize equal to it modulo its width, passes below zero.                     *)
UnlockAllGroup(t) ==
  /\ side[t] = "g" /\ pc[t] = "hold"
  /\ locked' = 1
  /\ \E others \in Relieved(t) :
       pc' = [u \in Threads |->
                IF u \in others THEN "idle" ELSE
                IF u # t THEN pc[u] ELSE
                IF state \in {LOCKED_GROUP, DIRTY} THEN "sub" ELSE "panicked"]
  /\ UNCHANGED <<state, wake_deadlock, parking, token, side, step, task, got>>

---------------------------------------------------------------------------
(* Mutated form: both tries of an unlock look at its own MutexType's list.  *)
Same(s) == s

(* The parking list the thread is at.                                      *)
Other(s) == IF s = "e" THEN "g" ELSE "e"
ListOf(t) == CASE task[t] \in {"suspend", "unlockAgain"} -> side[t]
               [] task[t] = "unlock" -> Other(side[t])
               [] OTHER -> "g"

(* Mutated form: the thread parks without having registered.               *)
SuspendAnyway(t) ==
  /\ Goto(t, "suspend", IF wake_deadlock = UNLOCKED THEN "peek" ELSE "parked")
  /\ wake_deadlock' = LOCKED
  /\ task' = [task EXCEPT ![t] = IF wake_deadlock = UNLOCKED THEN "suspend" ELSE @]
  /\ UNCHANGED <<word, parking, token, side, step, got>>

(* suspend: give up when somebody is at the parking lists.                 *)
Suspend(t) ==
  /\ Goto(t, "suspend", IF wake_deadlock = UNLOCKED THEN "peek" ELSE "spin")
  /\ wake_deadlock' = LOCKED
  /\ task' = [task EXCEPT ![t] = IF wake_deadlock = UNLOCKED THEN "suspend" ELSE @]
  /\ UNCHANGED <<word, parking, token, side, step, got>>

(* suspend: AtomicVec::push of the thread.                                 *)
PushPeek(t) ==
  /\ Goto(t, "peek", IF phase[ListOf(t)] = "free" THEN "enqueue" ELSE "stash")
  /\ UNCHANGED <<word, wake_deadlock, parking, token, side, step, task, got>>

(* Mutated form: push goes on to the list after the pocket took the thread. *)
StashFallsThrough(t) ==
  /\ \/ Goto(t, "stash", "enqueue") /\ List!Pocket(ListOf(t), t)
     \/ /\ Goto(t, "stash", "enqueue") /\ pocket[ListOf(t)] # NULL
        /\ UNCHANGED parking
  /\ UNCHANGED <<word, wake_deadlock, token, side, step, task, got>>

PushStash(t) ==
  /\ \/ Goto(t, "stash", "suspended") /\ List!Pocket(ListOf(t), t)
     \/ /\ Goto(t, "stash", "enqueue") /\ pocket[ListOf(t)] # NULL
        /\ UNCHANGED parking
  /\ UNCHANGED <<word, wake_deadlock, token, side, step, task, got>>

PushEnqueue(t) ==
  /\ Goto(t, "enqueue", "flush")
  /\ List!Enqueue(ListOf(t), t)
  /\ UNCHANGED <<word, wake_deadlock, token, side, step, task, got>>

(* suspend: the store to wake_deadlock, then park().                       *)
SuspendStore(t) ==
  /\ Goto(t, "suspended", "parked")
  /\ wake_deadlock' = UNLOCKED
  /\ task' = [task EXCEPT ![t] = "none"]
  /\ UNCHANGED <<word, parking, token, side, step, got>>

(* park() returns, to a thread that was unparked, before or after the call. *)
Unparked(t) ==
  /\ Goto(t, "parked", "spin")
  /\ token[t]
  /\ token' = [token EXCEPT ![t] = FALSE]
  /\ UNCHANGED <<word, wake_deadlock, parking, side, step, task, got>>

(* park() may also return for no reason, as std permits; the thread is then   *)
(* still registered, and suspend() will register it again.                   *)
SpuriousReturn(t) ==
  /\ t \in Spurious /\ Len(queue[side[t]]) < QueueBound
  /\ Goto(t, "parked", "spin")
  /\ UNCHANGED <<word, wake_deadlock, parking, token, side, step, task, got>>

---------------------------------------------------------------------------
(* wake, wake_all: the compare_exchange of wake_deadlock that succeeds.    *)
WakeTake(t) ==
  /\ Goto(t, "take", "pop")
  /\ wake_deadlock = UNLOCKED
  /\ wake_deadlock' = LOCKED
  /\ UNCHANGED <<word, parking, token, side, step, task, got>>

(* AtomicVec::pop.                                                         *)
Pop(t) ==
  /\ Goto(t, "pop", "flush")
  /\ LET k == ListOf(t) IN
       \/ List!FindEmpty(k) /\ got' = [got EXCEPT ![t] = NULL]
       \/ List!Dequeue(k) /\ got' = [got EXCEPT ![t] = Head(queue[k])]
  /\ UNCHANGED <<word, wake_deadlock, token, side, step, task>>

(* AtomicVec::release, after a push or a pop.                              *)
ReleaseFlush(t) ==
  /\ Goto(t, "flush", "free")
  /\ List!Flush(ListOf(t))
  /\ UNCHANGED <<word, wake_deadlock, token, side, step, task, got>>

ReleaseUnlock(t) ==
  /\ Goto(t, "free", CASE task[t] = "suspend" -> "suspended"
                       [] task[t] # "suspend" /\ got[t] # NULL -> "unpark"
                       [] OTHER -> "store")
  /\ List!Unlock(ListOf(t))
  /\ UNCHANGED <<word, wake_deadlock, token, side, step, task, got>>

(* The thread popped is unparked; wake_all's loop pops again.              *)
Unpark(t) ==
  /\ Goto(t, "unpark", IF task[t] = "drain" THEN "pop" ELSE "store")
  /\ token' = [token EXCEPT ![got[t]] = TRUE]
  /\ UNCHANGED <<word, wake_deadlock, parking, side, step, task, got>>

(* Mutated form: wake() stores only when it found a thread.                 *)
StoreIfFound(t) ==
  /\ Goto(t, "store", IF task[t] \in {"unlock", "unlockAgain"} THEN "idle" ELSE "hold")
  /\ task' = [task EXCEPT ![t] = "none"]
  /\ got' = [got EXCEPT ![t] = NULL]
  /\ wake_deadlock' = IF got[t] = NULL THEN wake_deadlock ELSE UNLOCKED
  /\ UNCHANGED <<word, parking, token, side, step>>

(* The store to wake_deadlock.  In wake_all it comes before the loop when   *)
(* a first pop succeeded, and again after the loop, when the lock may by    *)
(* then be another thread's.  An unlock whose first wake found nobody tries *)
(* the other list.                                                         *)
WakeStore(t) ==
  LET drain == task[t] = "wakeAll" /\ got[t] # NULL
      again == task[t] = "unlock" /\ got[t] = NULL
      member == task[t] \in {"join", "wakeAll", "drain"}
  IN  /\ Goto(t, "store", CASE drain -> "pop" [] again -> "take"
                            [] member /\ ~drain -> "hold" [] OTHER -> "idle")
      /\ task' = [task EXCEPT ![t] = CASE drain -> "drain" [] again -> "unlockAgain"
                                       [] OTHER -> "none"]
      /\ got' = [got EXCEPT ![t] = NULL]
      /\ wake_deadlock' = UNLOCKED
      /\ UNCHANGED <<word, parking, token, side, step>>

---------------------------------------------------------------------------
(* Inside a call.                                                          *)
Call(t) ==
  \/ Spin(t) \/ LoadLocked(t) \/ CasUnlocked(t) \/ CasDirty(t) \/ Reload(t)
  \/ TryDirty(t) \/ TryUnlocked(t) \/ FetchSub(t) \/ StoreDirty(t)
  \/ Suspend(t) \/ PushPeek(t) \/ PushStash(t) \/ PushEnqueue(t)
  \/ SuspendStore(t) \/ Unparked(t)
  \/ WakeTake(t) \/ Pop(t) \/ ReleaseFlush(t) \/ ReleaseUnlock(t)
  \/ Unpark(t) \/ WakeStore(t)

Unlock(t) == UnlockExclusive(t) \/ UnlockGroup(t) \/ UnlockAllGroup(t)
Begin(t) == LockExclusive(t) \/ LockGroup(t) \/ TryLockExclusive(t)

Next == \E t \in Threads : Begin(t) \/ Call(t) \/ Unlock(t) \/ SpuriousReturn(t)

Spec == Init /\ [][Next]_vars

(* Every thread inside a call goes on, and every holder unlocks in the end; *)
(* nobody has to lock.                                                     *)
Fairness == \A t \in Threads : WF_vars(Call(t)) /\ WF_vars(Unlock(t))
FairSpec == Spec /\ Fairness
=============================================================================
