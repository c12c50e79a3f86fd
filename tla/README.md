# Acar: TLA+ models, checks and proofs

Acar is a Rust crate of concurrent containers and smart pointers built directly
on atomics: `AtomicVec`, `Mutex` (an exclusive / group lock), `Arw` and `WeakArw`,
`AnyRef` and `WeakAnyRef`, and `AtomicHashMap`. This directory models its
algorithms in TLA+, checks them on small instances with TLC, and proves with TLAPS,
for any number of threads, items, keys and handles, every safety property and every
refinement that the passing runs check, some under hypotheses on who uses the group
lock that section 4 names; liveness stays with TLC. Everything here is read from the code under `src/src/`; the
comments and tests are used only for what they promise.

To reproduce: `tlc -workers 2 -config <X>.cfg <module>` for each line of the
table "The runs"; `tlapm MutexProofs.tla`, and the same for `ArwProofs`, `AnyRefProofs`,
`LinkedListProofs`, `AtomicVecProofs`, `AtomicVecRefinement`, `AtomicHashMapProofs` and
`AtomicHashMapRefinement`, for the proofs.

## 1. The system

| component | source (under `src/src/`) | state it keeps | operations |
|---|---|---|---|
| AtomicVec | `collections/atomic_vec.rs` | a linked list (`head`, `tail`, `next`), a pocket `t_tail`, `len`, a spin lock `state`, `ref_count` | `push`, `pop`, `clone`, `drop`; `lock`, `release`, `update_tail` inside; `len`, `is_empty`, `is_busy` read |
| Mutex | `mutex/mutex.rs` | `state` (UNLOCKED, LOCKED, LOCKED_GROUP, DIRTY), `locked`, `wake_deadlock`, two AtomicVecs of parked threads, `ref_count` | `lock_exclusive`, `lock_group`, `try_lock_exclusive`, `unlock_exclusive`, `unlock_group`, `unlock_all_group`, `clone`, `drop`; `spin`, `suspend`, `wake`, `wake_all` inside; `is_locked*` read |
| Backoff | `mutex/backoff.rs` | a step counter, per call | `snooze`, `spin`, `is_completed`, `reset` |
| Arw, WeakArw | `arw/` | `strong`, `weak`, the value, a Mutex | `new`, `clone`, `downgrade`, `upgrade`, `is_unique`, `as_ref`, `as_mut`, `fill`, `try_unwrap`, `into_raw`, `from_raw`, `drop` |
| AnyRef, WeakAnyRef | `any_ref/` | as Arw, and the type of the value (`type_id`, and inside the `Box<dyn Any>`) | as Arw; `try_downcast_ref`, `try_downcast_mut`, `as_ref`, `as_mut`; `fill`, which may change the type |
| AtomicHashMap, Iter | `collections/atomic_hashmap.rs` | an array of buckets (list, spin lock, a Mutex for the guards), a Mutex for the map, `len`, `ref_count` | `insert`, `get`, `get_mut`, `remove`, `iter` and `next`, `clone`, `drop` |
| WatchGuardRef, WatchGuardMut | `mutex/watch_guard_ref.rs`, `watch_guard_mut.rs` | a Mutex handle and a borrow | `drop` unlocks |
| WatchGuard (owned) | `mutex/watch_guard.rs` | a Mutex handle and a value | `lock`, `unlock`; `drop` unlocks |
| utils | `utils.rs` | none | allocation, a polling helper |

How they meet: a `Mutex` parks threads by pushing their handles on an
`AtomicVec` and wakes them by popping; `Arw`, `AnyRef` and `AtomicHashMap` lock a
`Mutex` and hand it to a guard, whose drop unlocks it, possibly on another
thread; all of them are reached through reference-counted handles, and the last
handle to go frees what they share. There is no I/O, nothing is persisted and
nothing is sent: what is hard is the interleaving of threads.

What makes each one hard, and what makes it correct:

* **AtomicVec**. A push that finds the vec busy does not wait: it leaves its item
  in the one-place pocket `t_tail`, for the owner to take in on its way out, and
  returns. The owner may already have looked. *Correct*: no item is lost, freed
  twice or linked twice; the list stays a list; `len` accounts for the list; the
  order is FIFO but for what the pocket bends, and by how much; the spin lock
  comes free; the last handle frees the list.
* **Mutex**. The lock is two words, `state` and `locked`, read and written
  separately; a thread that gives up spinning registers itself on a parking list
  and sleeps, guarded by a third word, `wake_deadlock`. *Correct*: an exclusive
  holder is alone; unlocks of the holder do not panic; `locked` counts the group
  threads; a sleeper is registered in exactly one place; not everybody sleeps;
  sleepers are woken.
* **Arw**. Two counts, of which `weak` doubles as a lock (`usize::MAX`) for
  `is_unique`; `upgrade` races with the last `drop`; `try_unwrap` takes the value
  from under everybody. *Correct*: the counts count, the value lives as long as a
  strong handle, the allocation as long as any handle, nothing is resurrected,
  `is_unique` means unique, guards exclude each other.
* **AtomicHashMap**. Three levels of lock: the map's Mutex (calls share it, an
  iterator excludes them), the bucket's spin lock, the bucket's Mutex for the
  guards that outlive the call. `insert` counts its item, and `remove` frees its
  own, after the bucket is released. *Correct*: the lists stay sound; calls are
  linearizable; `len` comes out right; a value under a guard, or given out by an
  iterator, is not dropped, freed or written by others; everybody who waits for a
  guard gets through.
* **AnyRef**. As Arw; in addition a cast compares `type_id` before it has the
  lock, while `fill` may be writing it, and casts the value once it has the lock;
  every guard owns a handle of the lock. *Correct*: a guard is on a value of the
  type asked for, for as long as it lives; a refusal has a reason; what a failed
  cast has taken it gives back; the lock lives as long as its owners.

`PROJECT.json` lists the hazards line by line, with the properties that cover
each of them and, where none does, why.

## 2. The modules

| module | role |
|---|---|
| `PocketQueue` | abstract: what AtomicVec promises, a FIFO queue with a one-place pocket, its owner's phases, and the discard by the last drop; a family of them, indexed by `Lists` |
| `LinkedLists` | the list that pointers make: `Walk`, what a walk along `next` meets, for the lists of AtomicVec and AtomicHashMap |
| `LinkedListProofs` | what `Walk` computes, and how a list changes when an item is linked or unlinked |
| `AtomicVec`, `AtomicVecProperties` | detailed: `atomic_vec.rs`, one action per access to `t_tail`, `len`, `state` or `ref_count`; its properties and the refinement of `PocketQueue` |
| `AtomicVecOrder` | AtomicVec with a history of which push returned before which began, for the two properties of order |
| `GroupLock` | abstract: what Mutex is for |
| `Mutex`, `MutexProperties` | detailed: `mutex.rs` and the counter of `backoff.rs`; the parking lists are two `PocketQueue`s; the properties and the refinement of `GroupLock` |
| `MutexProofs` | the theorems about Mutex: its counts, exclusion, that it implements `GroupLock`, who is registered, and that not everybody sleeps |
| `AtomicVecProofs` | the invariants of AtomicVec |
| `AtomicVecRefinement` | that AtomicVec implements `PocketQueue`, and the order of its list |
| `Arw`, `ArwProperties` | `arw/`; the lock inside is a GroupLock |
| `ArwProofs` | the theorems about Arw |
| `TypedCell` | abstract: a value of some type, views of it by those who ask for its type, and its replacement |
| `AnyRef`, `AnyRefProperties` | `any_ref/`: the actions of `Arw`, by INSTANCE, and the casts, `fill` and the handles of the lock; the properties and the refinement of `TypedCell` |
| `AnyRefProofs` | the theorems about AnyRef: that it implements `Arw`, that its casts are safe, and that it implements `TypedCell` |
| `ConcurrentMap` | abstract: a set of keys and calls that take effect in one step each |
| `AtomicHashMap`, `AtomicHashMapProperties` | detailed: `atomic_hashmap.rs`; the Mutexes are GroupLocks; the properties and the refinement of `ConcurrentMap` |
| `AtomicHashMapProofs` | the invariants of AtomicHashMap |
| `AtomicHashMapRefinement` | that AtomicHashMap implements `ConcurrentMap` |
| `MCAtomicVec`, `MCMutex`, `MCArw`, `MCAnyRef`, `MCAtomicHashMap` | instances for TLC |

The components are joined at their abstract specifications. `Mutex` is built from
the actions of `PocketQueue`, which `AtomicVec` is proved to implement. `Arw`,
`AnyRef` and `AtomicHashMap` assume the promise of `GroupLock`, which `Mutex` is
checked to implement when one thread at most uses the group lock (run
`mutex_one_group`), and proved to, for any number of others. `Arw` and `AnyRef`
say which condition they rely on: `Readers` are the handles whose owners take the
group lock on the value (`as_ref`, `try_downcast_ref`; any handle may), and the lock
excludes in the model when there is one of them at most (`OneReader`), and keeps
nobody out when there are several, as `mutex_exclusion` shows the Mutex of this commit
not to. `AtomicHashMap` cannot stay inside it, since its calls are the group threads
of the map's Mutex: what is shown of it is the correctness of the map's own code on
a Mutex that works. Only the safety of GroupLock is assumed anywhere: a thread that
waits in a Mutex is never assumed to get through (see Fairness).

### How state and actions correspond to the code

Variables have the names of the fields they model. A thread's `pc` says where in
a call it is, and is named for what comes next; an action moves it on. One action
is one atomic access, or several when no other thread can tell them apart:

* `AtomicVec`: `head`, `tail` and the items' `next` are touched by the owner of the
  spin lock only (`LockExclusive`, checked and proved), so its work on them between two
  accesses to `t_tail`, `len` or `state` is one action. Failed `compare_exchange`s
  of `lock()` only spin and are left out; that of `t_tail` is `PushStashFull`.
  Items are addresses, freed and allocated again.
* `Mutex`: every load, `compare_exchange`, `fetch_add` and store of `state`,
  `locked` and `wake_deadlock` is an action, and so is a `park()` that returns
  without an `unpark` (`SpuriousReturn`, for the threads in `Spurious`). `spin(10)`
  is the last of its loads, the one it returns. `CompareExchange` serves both lock
  functions, as their loops differ only in the first `match`. `task` says for what
  purpose a thread is at the parking lists: `suspend`, the wake of a `join`,
  `wakeAll` and its loop `drain`, `unlock` and its second try `unlockAgain`. `token`
  is the token of `thread::park` and `unpark` (external).
* `Arw`: the actors are handles, as Rust's ownership has it: a handle is used by
  one owner, and borrowed (`borrow`) by one guard or one `is_unique` at a time,
  while other calls go on through the same handle by reference; what consumes the
  handle waits for the borrow to end. `fill` is `AsMut` followed by `DropGuard`.
  `mem::forget` is an action, since the check of `MAX_REFCOUNT` exists for it.
  `clone` aborts when it finds the count above `AbortAbove`: `MAX_REFCOUNT - 1` in
  `Arw`, whose test is `>=`, and `MAX_REFCOUNT` in `AnyRef`, whose test is `>`.
* `AnyRef`: every call that `Arw` has too performs the action of Arw of that name,
  and leaves the rest alone. `cast` says where a handle is in a cast (`load`,
  `lockRef` or `lockMut`, `check`, `guard`, `unref`) or in `fill` (`fillData`,
  `fillType`, `fillUnlock`), and `want` which type it is about. `Seen` is what a cast
  may read in `type_id`, two words that `fill` writes without atomics: while it
  does, the old type, the new one, or neither (NONE). That is a data race; the
  model takes it for a choice among these. `data` is the type the Box itself
  knows, and `locks` is `InnerMutex.ref_count`.
* `AtomicHashMap`: the same reading of the bucket's spin lock as in AtomicVec, but
  the walk along the list is one action per item. A call is merged with the group
  lock it takes first, and `Bucket::lock` with the load of `head` behind it. Values
  are abstracted to `"there"` and `"gone"`, which is what dropping, overwriting
  and freeing tell apart.

## 3. The runs

Each passing run checks deadlock too. `Gone` is the stutter of a structure whose
last handle was dropped.

| run | instance | distinct states | shows |
|---|---|---|---|
| `atomic_vec` | 3 threads, 3 items alive at once | 418,671 | no item lost, freed or linked twice, `tail` last (`Conservation`); the spin lock is one (`LockExclusive`); `len` is off by the operations under way only (`LenAccounts`); the handles are counted and the last frees the list (`HandlesCounted`); the order is bent by the pocket only, and an item in it is overtaken once at most (`ListOrder`); AtomicVec implements PocketQueue (`Refines`); the lock comes free (`LockComesFree`) |
| `mutex_one_group` | 3 exclusive threads, one of them also locks as a group, and may call `unlock_all_group` whenever it has the lock; `park()` of the other two may return for no reason | 571,996 | `MutualExclusion`, `NoPanic`; every sleeper is registered (`RegisteredOnce`) and somebody is awake (`SomeoneAwake`); Mutex implements GroupLock (`Refines`) |
| `mutex_groups` | 1 exclusive and 2 group threads; `unlock_all_group` at rest only (`UnlockAllAtRest`) | 162,378 | with several group threads still: `locked` counts (`GroupCounted`) and does not wrap (`TypeOK`), a sleeper is registered once and nobody else is (`RegisteredOnce`), `wake_deadlock` comes free again and again (`ParkingListsComeFree`), and as long as the lock goes on being unlocked every sleeper is woken (`UnlocksWakeSleepers`) |
| `arw` | 4 handles, `MAX_REFCOUNT` 3 | 36,648 | the counts, the value and the allocation (`CountsExact`, `ValueWithStrong`, `FreedWithLast`); `GuardsExclude`; `UniqueMeansAlone`; `LastFinishes` |
| `any_ref` | 3 handles, 2 types, `MAX_REFCOUNT` 2 | 60,222 | a guard is on a value of its type (`CastsSafe`); the lock has the handles its owners have, and goes with the last (`LockCounted`); AnyRef implements TypedCell (`Refines`); who has locked ends in a guard or unlocks (`LockReturned`) |
| `atomic_hash_map` | 3 threads, 2 keys in 1 bucket, 3 items | 903,932 | `Conservation`, `LenAccounts`, `GuardedValues`, `YieldedValues`; the calls are linearizable (`Refines`) |
| `atomic_hash_map_live` | 2 threads, 2 keys in 2 buckets, 3 items | 41,794 | an iterator gives every item once (`IterCoversMap`) and gets to the end (`IterReachesEnd`); `HandlesCounted`; `BucketsComeFree` |

Five runs are expected to find a violation; each is a disagreement between the
code and something the repository says of it.

| run | violated | what happens |
|---|---|---|
| `atomic_vec_len` | `LenExactWhenQuiet` | a push sees the vec busy; the owner swaps `t_tail`, finds nothing, and only then the push fills it; the owner stores AVAILABLE. The item is in `t_tail`, not in `len` and not in reach of `pop`, until somebody else takes the lock. The field's comment and two tests take `len` for the number of items. |
| `mutex_exclusion` | `MutualExclusion` | with two group threads: one joins on the LOCKED_GROUP that `spin()` saw, although the group has left since; or the last one out counts itself out and another group, or an exclusive thread, has the lock by the time it stores DIRTY. |
| `mutex_lost_wakeup` | `SleepersWake` | a thread finds the lock busy and registers itself; the unlock looked for sleepers in between. `suspend()` does not look at `state` again before it parks. |
| `mutex_deadlock` | `SomeoneAwake` | a group thread is counted in `locked` before it has the lock; it fails its `compare_exchange` and parks while another group thread is inside. The unlock of that one then takes `locked` from 2 to 1, so it is not the last: it stores no DIRTY and wakes nobody. The lock stays LOCKED_GROUP with nobody inside, and the exclusive threads, whose `compare_exchange` expects UNLOCKED, park too. |
| `arw_unwrap` | `DestroyedOnce` | `try_unwrap` reads the value out with `ptr::read` and then drops it in place. |

Each property of a passing run has a mutant: a plausible bug in one definition
(`LockUntested`, `StoreInstead`, `UpgradeFromZero`, ... stand before the operator
they change) under which the same run finds that property violated.

### Bounds, and why they are enough

* Three threads on `AtomicVec`: an owner, a push in the pocket, and a third that
  comes between them; three items make the pocketed item, the one that overtakes
  it and one more on the list. Two threads and two items show the violation of
  `len`.
* The Mutex runs need a holder, a sleeper and a waker. Two exclusive threads and
  an `eg` that uses both ways give every pair of roles; two group threads are
  needed to join and to leave together, and the violations beyond them appear
  with three and four threads. `YieldLimit` is the `YIELD_LIMIT` of the backoff, 10
  in the code. It decides only how many turns a thread makes before it parks: with
  0 or 1 every turn up to the park and beyond occurs, and the run of the lost
  wake-up uses 10, to show that it does not come from the small value.
* `Arw`: the counts are driven past `MaxRefcount` by forgotten handles, so each of
  clone's abort and the refusals of `downgrade` and `upgrade` is reached; `UMax`, the
  locked value of `weak`, is out of reach of four more clones, as `usize::MAX` is of
  clones that begin past `isize::MAX` (`CountsAssumption`).
* `SpuriousReturn` is bounded by `QueueBound`: it happens while fewer than two
  threads are on the list of the one it happens to. That is enough for a thread to
  be registered twice, to be woken while it is awake, and to pop itself.
* `AnyRef`: two types, since a third differs from the two as they do from each
  other; three handles make one that casts, one that fills and one that clones,
  drops or unwraps. One handle may read, here and in `arw`: with two the lock keeps
  nobody out, and what is then still claimed is proved, not run.
* `UnlockAllAtRest` says whether `unlock_all_group` is called only while no other
  group thread is inside a call, as in the test that uses it, or at any time, as the
  code allows. It is TRUE in the runs with several group threads, where it matters:
  called while one is counted and waiting, the store of 1 erases its count, its
  `fetch_sub` follows all the same, and `locked` wraps below zero.
* `AtomicHashMap`: one bucket brings every call on it into conflict; two keys make
  a list of two, walked past and unlinked in the middle or at the head; the third
  item lets an item that is being removed coexist with a new one of the same key.
  Two buckets are for the iterator, `advance_bucket` and the liveness. `len` wraps
  at `UMax + 1`, and does in the runs: `LenAccounts` is stated modulo that.

No other counter needs a bound of its own: items, handles and threads are finite sets.

Symmetry is used for the invariants and refinements of `MCMutex` and
`MCAtomicHashMap` (threads of the same role, and addresses, are interchangeable;
of the two that `park()` may leave for no reason, both), never with a liveness
property: `mutex_groups` and `any_ref` have none.

### Fairness

Weak fairness of the steps of a call that has begun, per thread: the scheduler
runs every thread that can run. Nobody has to start a call, clone a handle or
drop one. Two things are asked of a program that uses the library: whoever has a
lock unlocks in the end (`Unlock` in `Mutex`, `DropGuard` in `AtomicHashMap`), and
an iterator that is at an item is asked for the next one or dropped (`IterNext`).
Nobody has to drop a guard of AnyRef, and no `park()` has to return for no reason.

Outside of `Mutex` itself no wake-up by a Mutex is assumed. `GroupLock` promises safety
only, and `mutex_lost_wakeup` shows a thread that waits in `lock_exclusive` asleep for
good with the lock free. So the fairness of `AtomicHashMap` leaves out the wait for the
Mutex of a value (`WaitsForGuards`: `get`, `get_mut`, `insert` and `remove` at
`ref_locked`), that of `AnyRef` leaves out `LockRef` and `LockMut`, and that of `Arw`
asks only for steps that wait for nothing. The wait for the map's own Mutex comes
first in a call or an `iter()`, which nobody has to begin. `BucketsComeFree` says
accordingly that a bucket's spin lock comes free again and again unless its owner
stays at the Mutex of a value from some time on: every other way through the four calls
ends in `release()`, and an owner that gets the Mutex releases the bucket.
`IterReachesEnd` needs no such exception: an iterator spins on `is_locked_exclusive`
and does not park.

No strong fairness anywhere: a `compare_exchange` may lose its race for ever, so
nothing is claimed of a single thread that spins, only of the lock it spins on
(`LockComesFree`, `ParkingListsComeFree`, `BucketsComeFree`). `UnlocksWakeSleepers`
has the unlocks it needs as a hypothesis, and is claimed for one exclusive thread:
an `unlock_exclusive` tries the group's list first, so that beside several exclusive
threads group sleepers that come back every time would keep the others waiting.
`SleepersWake`, without the hypothesis, is what the code does not keep.

## 4. The proofs

Each theorem holds for every value of the constants that the assumptions named at
the end of its paragraph allow. TLC evaluates the assumptions in every run of the
component.

`MutexProofs` proves, for any finite set of threads with any roles and any
`YieldLimit`:

* `CountCorrect`: `Spec => []GroupCounted`, `locked` is the number of group threads
  waiting or inside, under `UnlockAllAtRest`.
* `TypeCorrect`: `Spec => []TypeOK`, so that `locked` never wraps below zero, under
  `UnlockAllAtRest`; without it, it does.
* `RegisteredCorrect`: `Spec => []RegisteredOnce`, whichever threads `park()` may
  leave for no reason.

and, under `OneGroup` (at most one thread uses the group lock; any number lock
exclusively):

* `ExclusionCorrect`: `Spec => []MutualExclusion`.
* `UnlockNeverPanics`: `Spec => []NoPanic`.
* `ImplementsGroupLock`: `Spec => Refines`.
* `SomeoneAwakeCorrect`: `Spec => []SomeoneAwake`, if there are threads at all.

`OneGroup` is a hypothesis and no more: without it the runs `mutex_exclusion` and
`mutex_deadlock` refute `MutualExclusion` and `SomeoneAwake`. Assumptions:
`ThreadsAssumption` (the threads are finitely many, `NULL` is none of them),
`YieldLimitAssumption`, and `UnlockAllAssumption`, that `UnlockAllAtRest` is TRUE or
FALSE: the theorems under `OneGroup`, and `RegisteredCorrect`, hold for both.

`AtomicVecProofs` proves of AtomicVec, for any finite sets of threads and items,
`LockCorrect` (`LockExclusive`), `HandlesCorrect` (`HandlesCounted`),
`ConservationCorrect`, `LenCorrect` (`LenAccounts`) and `TypeCorrect`;
`AtomicVecRefinement` proves `OrderCorrect` (`ListOrder`), and `ImplementsPocketQueue`
(`Spec => Refines`). Assumptions: `ThreadsAssumption` and `ItemsAssumption`.

`AtomicHashMapProofs` proves of AtomicHashMap, for any finite sets of threads and
items, any keys, any number of buckets and any hash, every invariant of its two
runs: `TypeCorrect`, `HandlesCorrect`, `ConservationCorrect`, `LenCorrect`,
`GuardedCorrect`, `YieldedCorrect` and `IterCorrect` (`IterCoversMap`). They are
about the map's code on a Mutex that keeps GroupLock. `TypeCorrect` says of `len` only
that it is a `usize`: the code takes it below zero for a while, when a `remove`
subtracts before the `insert` has added, and it wraps around; `LenCorrect` says what it
is worth then.
`AtomicHashMapRefinement` proves `ImplementsConcurrentMap` (`Spec => Refines`): the
calls are linearizable. Assumptions: `SetsAssumption`, `BucketsAssumption`, and
`UMaxAssumption`, that `len` does not wrap all the way round.

`ArwProofs` proves of Arw, for any finite set of handles, any of them readers, either test of `clone` and any `MAX_REFCOUNT` far enough below
`usize::MAX`, every property of the run `arw` but its liveness: `TypeCorrect`,
`CountsCorrect`, `FreeCorrect`, `ValueCorrect`, `GuardsCorrect`, `UniqueIsAlone`; and
`NeverResurrected`, that no step takes `strong` away from zero. Assumptions:
`HandlesAssumption`, `ReadersAssumption` (readers are handles), `CountsAssumption`,
`AbortAssumption`. `GuardsCorrect` has `OneReader` as a hypothesis besides, that one
handle at most is a reader: any handle may call `as_ref`, but with two of them the
Mutex does not exclude (`mutex_exclusion`), and nothing is claimed of the guards.

`AnyRefProofs` proves of AnyRef, for any finite set of handles, any of them readers,
any set of types, and any `MAX_REFCOUNT` as above:

* `ImplementsArw`: `Spec => Count!Spec`, every behaviour is one of Arw's.
* `CountsCorrect`: `Spec => []Count!CountsExact`, by way of Arw's own theorem.
* `LockCorrect`: `Spec => []LockCounted`.

and, under `OneReader`, since beside several readers the Mutex may let `fill` in with a
guard, or with another `fill`:

* `CastsCorrect`: `Spec => []CastsSafe`.
* `TypeCorrect`: `Spec => []TypeOK`.
* `ImplementsTypedCell`: `Spec => Refines`.

Assumptions: those of Arw but the last, and `TypesAssumption`, that `NONE` is no type.

*Lists.* AtomicVec and AtomicHashMap say what they do with pointers, and their
properties speak of the list these make, `Walk(p, next)`. `Chain` is a recursive
function on numbers, and what it computes is shown by induction over a set of
numbers, those up to which the claim holds (`Least` and `Induction`, from the
well-foundedness of `<`), so that no induction theorem with an operator parameter is
needed. `WalkIs` is what all the rest uses: if some sequence without repetitions
starts at `p`, goes along `next` and ends where `next` leads nowhere
(`IsList(s, p, next, end)`), then it is the walk. There is then one lemma for each
thing the code does with pointers: an item linked at the end (`ListAppended`) or at
the head (`ListPrepended`), unlinked in the middle (`ListUnlinked`), taken off the
front (`ListRest`), two lists walked one after the other (`ListJoined`), and a write
elsewhere (`ListKept`).

*Mutex: the counting invariant.* `GroupCounted` alone is not inductive: that a thread in
`unlock_group`'s `fetch_sub` is counted depends on its being a group thread, and
whether one that runs through `wake` is still counted depends on what it wakes
for. `Control` ties `pc`, `task` and `side` together so that every step tells. Then
`CountInv == Typed /\ Control /\ GroupCounted` is inductive if `unlock_all_group` leaves
no counted thread behind, at rest (`AtRestLeavesNone`) or because there is no other
group thread (`OneGroupLeavesNone`): `ShapeStep` has one step
per action for the first two, `UncountedStep` shows that twenty-four of the actions
change neither `locked` nor the set it counts, and `CountStep` does the three that
change both.

*Mutex: exclusion.* With one group thread the state word tells who has the
lock: LOCKED exactly when an exclusive thread has it, and only one; LOCKED_GROUP
exactly when the group thread does, up to and including its store of DIRTY, which
may be late but then finds LOCKED_GROUP still there; and the second load of
`lock_group` is never reached (`StateTells`). That is inductive with the counting
invariant (`NeutralStep`, `CasStep`, `TryStep`, `StateTellsStep`). With two group
threads each part of it fails, in the way `mutex_exclusion` shows.

*Mutex: the refinement of GroupLock.* With `StateTells`, and `Roles` (who waits in
`lock_group` is the group thread), a successful `compare_exchange` maps to the
acquisition by a thread while nobody else holds; the `compare_exchange` of
`unlock_exclusive`, or the `fetch_sub` of `unlock_group`, maps to the release; every
other step changes nobody's hold (`MutexStep`).

*Mutex: who is registered.* A registration is on a queue, in a pocket or in the hands
of a waker between its `pop` and its `unpark`, and `RegisteredOnce` counts the three
together. The inductive invariant, `RegisteredInv`, says instead where a thread may
be: a sleeper is in some such place or has its token (`Remembered`); it is on no list
but that of a MutexType it locks with (`OwnList`); and, unless `park()` may leave it
for no reason, it is in one place at most, once, and in none when it has its token or
is awake (`Once`). One lemma per action that moves a registration carries the three
parts over; `QuietPlaces` does the actions that move none. The counts follow from
the places only at the end. The attempt showed that one conjunct of
`RegisteredOnce` had been stated for too many threads: one that locks both ways and
that `park()` leaves for no reason (`Roamers`) may still be on the list of the other
type. The instances have no such thread; the property now excludes them.

*Mutex: somebody is awake.* `AwakeInv`: while the lock is taken its holder is awake;
while it is not, some thread has not been turned away since it became free
(`Fresh`): it is unlocking, or before its look at `state`, or at a `compare_exchange`
that expects the value there is. A thread that is turned away while the lock is free
was beaten by another, or has found DIRTY with the group thread counted, and the
group thread is then itself at `spin` or at the `compare_exchange` of DIRTY. With two
group threads there is a case more, a lock that is LOCKED_GROUP with nobody inside, the
counted thread having been turned away and parked; then nobody is `Fresh`, as
`mutex_deadlock` shows.

*AtomicVec: lock and handles.* `LockExclusive` and `HandlesCounted` need of the rest
only that every thread is at some location (`Placed`); `StepKinds` sorts the actions
into those that take the lock, keep it, give it back, are outside of it, or make and
drop handles. The two invariants are then inductive as they stand.

*AtomicVec: conservation.* `VecInv` is inductive given `LockExclusive`: what a thread
has in hand, by where it is (`HandsTell`); that no item is in two places, whether
hands, pocket or list (`Apart`); that an item still to be linked leads nowhere
(`Unlinked`), or linking it would link what follows; and that the pointers make a
list, which ends at `tail`, and that what is allocated is on it, in the pocket or in
some hands (`ListInv`). `Conservation` counts the places of an item, and follows. For
`LenAccounts`, `ListMoves` says which actions change the list and by how much, and
`Balance` what each leaves the thread owing.

*AtomicVec: the refinement of PocketQueue.* `ViewIs` turns the abstract queue, which
looks at what the owner is about to do, into a case of the owner's location; each
action then maps to one of PocketQueue or changes nothing it sees. `RefInv` is
`VecInv` with the lock and the handles: after the last drop the abstract queue is
empty, while the freeing of the list goes on.

*AtomicVec: order.* `OrderInv` follows an item that has been overtaken: what was
pushed before an item that was moved out of the pocket is on the list by then
(`MovedOrder`); an item whose push has returned is on the list, in the pocket or
moved (`PushedWhere`); what is on the list and was pushed later has overtaken it
once (`LinkedAfter`); and the one in the pocket is overtaken only by an owner that is
about to take it in (`PocketOrder`).

*AtomicHashMap.* `FullInv` is inductive. `MapInv` has no lists in it: where a thread
is and what it then holds (`Placing`, `Holding`), that the Mutexes and the spin locks
exclude (`HoldExclusive`, `BucketExclusive`), and the handles. As long as the map is
there, `Contents` says that every bucket is a list of items that hash to it, no key
twice (`Lists`); that what is allocated and not listed is with one `remove`
(`Removals`); that a walk under the spin lock is at some place of the list, and has
met other keys before it (`Walks`), so that what it finds is the item of its key and
what it does not find is not there; that guards are on live values (`Finds`,
`Values`), which follows from the bucket's Mutex and not from the spin lock; and that
`len` is right but for the counts still owed (`Accounted`). An iterator, and the
last drop, has the rest of the map before it, bucket after bucket (`Iters`, `Frees`:
`ListJoined` glues the buckets). The lemmas `SameLists`, `OtherLists` and `LinksItem`
keep the actions that do not touch the pointers, or touch another bucket's, out of
the rest. `FullInv` was checked by TLC on the instances of both runs before it was
proved.

*AtomicHashMap: the refinement of ConcurrentMap.* A call takes effect, in the
abstract map, when it finds its item, when it comes to the end of the list, or
when it links or unlinks; `Around` collects what `FullInv` says on both sides of such
a step, and each action maps to the start of a call, its effect, its return, or a
stutter. The proof found that the answer of a call had been stated with a `CASE` whose
guards overlapped, of which TLA+ leaves open which is meant, though TLC takes the
first; it is an `IF` now, with the same runs.

*Arw.* The counts are compared with cardinalities of sets of handles by kind (`Of`),
and `Move` says how they change when one handle changes its kind. `IInv` adds to
the properties what they need to be inductive: only a strong handle is borrowed;
two `is_unique` never overlap, and while one runs there is no weak handle; the
counts pass `MAX_REFCOUNT` by one and the aborted clones only, which keeps `weak`
from reaching its locked value by counting; a handle on its way out is alone, the
strong count being zero. There is one lemma per action, or group of like actions.

*AnyRef.* Every step is a step of Arw or leaves Arw's variables alone (`ArwStep`),
so that an instance of `ArwProofs` gives Arw's invariant for nothing. `CastInv` adds
what the casts need: a cast from its second comparison on has the lock, and `fill`
has it exclusively (`CastLocks`), which Arw's invariant turns into the exclusion of
one by the other if there is one reader at most; then a guard's type is that of the value, and `type_id` is too unless a
`fill` is between its two writes (`TypesTell`); `try_unwrap` copies the value only
when it is the last to reach it (`CopiedLast`). `LockInv` compares `locks` with the
cardinality of the set of owners, one more for the inner struct as long as the value
is there. The refinement shows a cast's second comparison, which the code makes
under the lock, to be the step in which the view is given or refused, and a refusal
by the first one, made without it, to be justified by the value there is or the one
`fill` is replacing (`RefusedRightly`).

Left to TLC: all liveness under fairness, and `ENABLED`, which the prover does not
reach. That is `LockComesFree`, `ParkingListsComeFree`, `UnlocksWakeSleepers`,
`LastFinishes`, `LockReturned`, `BucketsComeFree` and `IterReachesEnd`, and that no
instance deadlocks.

## 5. What the models leave out

* The memory orderings: the models are sequentially consistent. The code uses
  Acquire / Release and, in places, Relaxed; nothing here says that these are
  enough.
* Returns of `park()` without an `unpark` beside several group threads: the run
  `mutex_one_group` has them, for two of its threads, `mutex_groups` does not; with
  them it is too large to be searched to the end.
* Of `unlock_all_group`, that whoever it unlocks for (`Relieved`) unlocks again
  afterwards. That it is called while other group threads are inside a call, which
  wraps `locked`, is in the model (`UnlockAllAtRest` FALSE) but beside several group
  threads in no run: no line of the repository says that it may be.
* What readers beside readers do to the guards of Arw and AnyRef: the lock then keeps
  nobody out, so the counts are proved, and nothing else is claimed. The panic of an
  unlock that finds its state changed is not in those models.
* `clone` and `drop` of a `Mutex` handle are modelled where it matters when the last
  one goes, in AnyRef (`locks`). The guards of Arw and AtomicHashMap make the same
  calls. In `Mutex` every thread keeps its handle until its call returns.
* An item left in `t_tail` when the last handle of an AtomicVec goes is leaked, here
  as in the code; `Conservation` keeps account of it.
* Dangling weak handles (`WeakArw::new`), `From`, `Default`, `map` and formatting; hashing
  and the resizing there is none of; `with_capacity(0)`, excluded by
  `BucketsAssumption`.
* In Arw and AnyRef, a `clone` that aborts keeps its handle for good and the others go
  on: an abort is the end of the process, so this allows more than can happen.
  `mem::forget` is modelled for handles, not for guards.
* `AnyRef::as_cast_ptr`, unsafe and without a lock, and `type_name`, which `fill` leaves
  as it was: no step depends on it. `AnyRef::try_unwrap` reads the value out and
  drops it as Arw's does; the finding is reported for Arw (`arw_unwrap`).
* In `AtomicHashMap` a thread makes no call while it keeps a guard or an iterator:
  the calls wait for guards, so it could wait for itself, and the code offers no way
  out of that.
* References that outlive the iterator that gave them: `YieldedValues` covers them
  up to the iterator's drop, after which no lock protects them.
* The owned `WatchGuard`: nothing in the crate makes one, and its drop calls
  `unlock_group` whichever way its Mutex was locked, or not, so that there is no
  protocol to state. `utils` has no state.

## 6. The plan

Done, in this order, the most widely used first: PocketQueue and AtomicVec, Mutex
and GroupLock, the proofs about Mutex, Arw, AtomicHashMap and ConcurrentMap, the
proofs about AtomicVec and Arw; then AnyRef and TypedCell with the handle counts of
the guards' Mutex, their proofs, and returns of `park()` without an `unpark`; then
what a walk of a list computes, and with it the rest of AtomicVec and AtomicHashMap,
their refinements, and who is registered and awake in Mutex.

To do:

1. Proofs: action properties beyond those a run checks, such as that nothing but
   a `remove` of its key takes an item out of the map; what remains of `MutualExclusion`
   with several group threads, on the behaviours in which none leaves while another
   joins; shorter proofs where a lemma serves two components.
2. The owned `WatchGuard`, once something in the crate makes one and so says what
   must be locked.
