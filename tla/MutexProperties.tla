-------------------------- MODULE MutexProperties --------------------------
(***************************************************************************)
(* What must hold of Mutex, what its tests and comments say of it, and its *)
(* refinement of GroupLock for programs with one group thread.             *)
(***************************************************************************)
EXTENDS Mutex

Locations == {"idle", "spin", "load", "casUnlocked", "casDirty", "reload",
              "tryDirty", "tryUnlocked", "hold", "sub", "storeDirty", "suspend",
              "peek", "stash", "enqueue", "flush", "free", "suspended", "parked",
              "take", "pop", "unpark", "store", "panicked"}
Tasks == {"none", "suspend", "join", "wakeAll", "drain", "unlock", "unlockAgain"}

Typed ==
  /\ state \in {UNLOCKED, LOCKED, LOCKED_GROUP, DIRTY}
  /\ locked \in Int
  /\ wake_deadlock \in {UNLOCKED, LOCKED}
  /\ queue \in [Sides -> Seq(Threads)]
  /\ pocket \in [Sides -> Threads \cup {NULL}]
  /\ phase \in [Sides -> {"free", "taken", "flushed"}]
  /\ token \in [Threads -> BOOLEAN]
  /\ pc \in [Threads -> Locations]
  /\ side \in [Threads -> Sides]
  /\ step \in [Threads -> 0..(YieldLimit + 1)]
  /\ task \in [Threads -> Tasks]
  /\ got \in [Threads -> Threads \cup {NULL}]

(* Every variable has its type, and locked, a usize, does not go below zero as *)
(* long as unlock_all_group is only called at rest (UnlockAllAtRest): then     *)
(* unlock_group subtracts no more often than lock_group added.  Called while    *)
(* another group thread waits, unlock_all_group lets it wrap.                  *)
TypeOK == Typed /\ locked \in Nat

Unlocking(t) == task[t] \in {"unlock", "unlockAgain"}

(* From the success of the compare_exchange, or of the join, to the unlock. *)
Holds(t, s) ==
  /\ side[t] = s
  /\ \/ pc[t] \in {"hold", "sub"}
     \/ task[t] \in {"join", "wakeAll", "drain"}

(* Between the fetch_add of lock_group and the fetch_sub of unlock_group.   *)
CountedIn(t) ==
  side[t] = "g" /\ pc[t] \notin {"idle", "storeDirty"} /\ ~Unlocking(t)

Inside == {t \in Threads : CountedIn(t)}

(* locked counts the group threads that are waiting or inside, as long as    *)
(* unlock_all_group is only called at rest: it is what tells the last one     *)
(* out, and lock_exclusive that no group wants the lock.                      *)
GroupCounted == locked = Cardinality(Inside)

---------------------------------------------------------------------------
(* A thread that is registered to be woken, or is about to be, and sleeps    *)
(* or is about to.                                                          *)
Sleeps(t) == \/ pc[t] \in {"suspended", "parked"}
             \/ pc[t] \in {"flush", "free"} /\ task[t] = "suspend"

(* The number of places where t is registered: its own parking list, that    *)
(* list's pocket, and the hands of a waker that popped it.                   *)
Registrations(t) ==
  Cardinality({i \in DOMAIN queue[side[t]] : queue[side[t]][i] = t})
  + Cardinality({k \in {side[t]} : pocket[k] = t})
  + Cardinality({u \in Threads : got[u] = t /\ pc[u] \in {"flush", "free", "unpark"}})

(* The threads that may be left on the list of the other MutexType: those    *)
(* that lock both ways, when park() returned to them for no reason.           *)
Roamers == Spurious \cap Exclusive \cap Group

(* No sleeper is forgotten: a thread that sleeps has been unparked already, or *)
(* is registered, on the parking list where wake() and wake_all() for its      *)
(* MutexType look.  Nor is one woken twice: unless park() returns for no        *)
(* reason, a sleeper is registered in one place only, and a thread that does   *)
(* not sleep is registered nowhere and has no unpark pending, so that the next *)
(* park() will not return at once.  A thread is on the list of its MutexType   *)
(* only, unless it is one of Roamers.                                         *)
RegisteredOnce ==
  /\ \A t \in Threads : Sleeps(t) => token[t] \/ Registrations(t) > 0
  /\ \A t \in Threads \ Spurious :
       Registrations(t) = IF Sleeps(t) /\ ~token[t] THEN 1 ELSE 0
  /\ \A t \in Threads \ Spurious : token[t] => Sleeps(t)
  /\ \A k \in Sides, t \in Threads \ Roamers :
       pocket[k] = t \/ (\E i \in DOMAIN queue[k] : queue[k][i] = t) => side[t] = k

(* An exclusive holder is alone.  With one group thread this holds (proved in *)
(* MutexProofs); with two it does not.  Exclusive against group, its test is   *)
(* exclusive_blocks_others, with one group thread                             *)
(* ("assert!(!entered_group.load(Ordering::Acquire))", test/mutex.rs:122).     *)
MutualExclusion ==
  \A t, u \in Threads : t # u /\ Holds(t, "e") => ~Holds(u, "e") /\ ~Holds(u, "g")

(* Nobody who holds the lock panics when unlocking it.                        *)
NoPanic == \A t \in Threads : pc[t] # "panicked"

(* The threads do not all sleep: somebody is left to unlock, or to lock       *)
(* again, and so to wake the others ("if there are some thread suspended now  *)
(* we must wake them up", mutex.rs:243).                                      *)
SomeoneAwake == \E t \in Threads : pc[t] # "parked" \/ token[t]

---------------------------------------------------------------------------
(* Mutex implements GroupLock: the lock is acquired by the compare_exchange   *)
(* or the join, in one step, and released by the compare_exchange of          *)
(* unlock_exclusive or the fetch_sub of unlock_group.                         *)
HoldOf(t) == CASE Holds(t, "e") -> "e" [] Holds(t, "g") -> "g" [] OTHER -> "none"

Abstract == INSTANCE GroupLock WITH holds <- [t \in Threads |-> HoldOf(t)]

Refines == Abstract!Spec

---------------------------------------------------------------------------
(* wake_deadlock is never kept: wake() and wake_all() spin on it without      *)
(* end only if others keep taking it.                                         *)
ParkingListsComeFree == []<>(wake_deadlock = UNLOCKED)

(* As long as the lock goes on being unlocked, every sleeper is woken: the    *)
(* parking list is a queue, each unlock wakes its first, and an unlock that   *)
(* finds one list empty tries the other.  With one exclusive thread: beside   *)
(* several, an unlock_exclusive that always finds a group thread asleep       *)
(* passes over the exclusive ones.                                           *)
UnlocksWakeSleepers ==
  ([]<>\E u \in Threads : task[u] = "unlock") =>
     \A t \in Threads : pc[t] = "parked" ~> pc[t] = "spin"

(* Every sleeper is woken, whatever the others do after they unlock ("if there *)
(* are some thread suspended now we must wake them up", mutex.rs:260, and the  *)
(* te.join() of test/mutex.rs:128).  A thread whose suspend() pushes it after  *)
(* the last unlock has looked at the parking list refutes it: suspend() does   *)
(* not look at state again before it parks.                                   *)
SleepersWake == \A t \in Threads : pc[t] = "parked" ~> pc[t] = "spin"
=============================================================================
