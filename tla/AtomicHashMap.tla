--------------------------- MODULE AtomicHashMap ---------------------------
(***************************************************************************)
(* AtomicHashMap, src/src/collections/atomic_hashmap.rs: an array of        *)
(* buckets, each a linked list behind a spin lock, with a Mutex per bucket  *)
(* for the guards given out on its values, and a Mutex for the whole map    *)
(* that an iterator takes exclusively and every other call as a group.      *)
(*                                                                         *)
(* Both kinds of Mutex are taken to keep the promise of GroupLock: what is  *)
(* shown here is about the map's own code.  A thread has one guard or       *)
(* iterator at a time and makes no call while it has it: the calls wait for *)
(* the guards, so a thread that did otherwise could wait for itself.        *)
(*                                                                         *)
(* The values are abstracted to being there or not.  Items are addresses,   *)
(* as in AtomicVec.tla.                                                    *)
(***************************************************************************)
EXTENDS Integers, FiniteSets

CONSTANTS Threads, Items, Keys, NULL,
          BucketCount,   \* buckets.len()
          Hash,          \* Hash[k]: the hash of key k
          UMax           \* usize::MAX

ASSUME SetsAssumption == /\ IsFiniteSet(Threads) /\ IsFiniteSet(Items)
                         /\ NULL \notin Items \cup Keys
(* with_capacity(0) would make find_bucket divide by zero.                 *)
ASSUME BucketsAssumption == BucketCount \in Nat \ {0} /\ Hash \in [Keys -> Nat]
ASSUME UMaxAssumption == UMax \in Nat /\ Cardinality(Items) + Cardinality(Threads) < UMax

Buckets == 0 .. BucketCount - 1
Ptr == Items \cup {NULL}
Operations == {"insert", "get", "get_mut", "remove"}
Locks == Buckets \cup {BucketCount}   \* ref_locked of each bucket, lock of the map
Whole == BucketCount

VARIABLES
  head, busy,           \* head and state of each Bucket; busy: BUCKET_UPDATING
  hold,                 \* hold[l][t]: how t holds the Mutex l
  len, ref_count,       \* AtomicInner
  key, value, next,     \* the Items
  live, inner,          \* the items allocated; AtomicInner is
  pc, op, arg,          \* where a thread is, in which call, for which key
  first, prev, cur,     \* head as read, and the two pointers of the walk
  seen                  \* the items an iterator has given its caller

counts == <<len, ref_count>>
items == <<key, value, next>>
heap == <<live, inner>>
walk == <<first, prev, cur>>
vars == <<head, busy, hold, counts, items, heap, pc, op, arg, walk, seen>>

(* with_capacity().                                                        *)
Init ==
  /\ head = [b \in Buckets |-> NULL] /\ busy = [b \in Buckets |-> FALSE]
  /\ hold = [l \in Locks |-> [t \in Threads |-> "none"]]
  /\ len = 0 /\ ref_count = 1
  /\ key = [x \in Items |-> NULL] /\ next = [x \in Items |-> NULL]
  /\ value = [x \in Items |-> "gone"]
  /\ live = {} /\ inner = TRUE
  /\ \E t \in Threads : pc = [u \in Threads |-> IF u = t THEN "idle" ELSE "none"]
  /\ op = [t \in Threads |-> "none"] /\ arg = [t \in Threads |-> NULL]
  /\ first = [t \in Threads |-> NULL] /\ prev = [t \in Threads |-> NULL]
  /\ cur = [t \in Threads |-> NULL]
  /\ seen = [t \in Threads |-> {}]

Goto(t, from, to) == pc[t] = from /\ pc' = [pc EXCEPT ![t] = to]

(* find_bucket.                                                            *)
BucketOf(k) == Hash[k] % BucketCount
Bucket(t) == BucketOf(arg[t])

(* The Mutexes, by the promise of GroupLock: one step to lock, one to unlock. *)
(* It is a promise of safety only.  Mutex may leave a thread asleep though    *)
(* nobody holds it (run mutex_lost_wakeup): FairSpec assumes of no thread that *)
(* one of these steps ever lets it in.                                       *)
LockGroup(l, t) ==
  /\ \A u \in Threads : hold[l][u] # "e"
  /\ hold' = [hold EXCEPT ![l][t] = "g"]
LockExclusive(l, t) ==
  /\ \A u \in Threads : hold[l][u] = "none"
  /\ hold' = [hold EXCEPT ![l][t] = "e"]
Unlock(l, t) == hold' = [hold EXCEPT ![l][t] = "none"]

---------------------------------------------------------------------------
(* insert, get, get_mut or remove is called and takes the group lock on the  *)
(* map, which an iterator keeps away.                                      *)
Enter(t) ==
  /\ Goto(t, "idle", "lock")
  /\ \E o \in Operations : op' = [op EXCEPT ![t] = o]
  /\ \E k \in Keys : arg' = [arg EXCEPT ![t] = k]
  /\ LockGroup(Whole, t)
  /\ UNCHANGED <<head, busy, counts, items, heap, walk, seen>>

(* Mutated form: state is not compared first.                              *)
LockUntested(t) ==
  /\ Goto(t, "lock", "search")
  /\ busy' = [busy EXCEPT ![Bucket(t)] = TRUE]
  /\ first' = [first EXCEPT ![t] = head[Bucket(t)]]
  /\ cur' = [cur EXCEPT ![t] = head[Bucket(t)]]
  /\ UNCHANGED <<head, hold, counts, items, heap, op, arg, prev, seen>>

(* Bucket::lock, and the load of head.                                     *)
LockBucket(t) ==
  /\ Goto(t, "lock", "search")
  /\ ~busy[Bucket(t)]
  /\ busy' = [busy EXCEPT ![Bucket(t)] = TRUE]
  /\ first' = [first EXCEPT ![t] = head[Bucket(t)]]
  /\ cur' = [cur EXCEPT ![t] = head[Bucket(t)]]
  /\ UNCHANGED <<head, hold, counts, items, heap, op, arg, prev, seen>>

Here(t) == pc[t] = "search" /\ cur[t] # NULL /\ key[cur[t]] = arg[t]
Nowhere(t) == pc[t] = "search" /\ cur[t] = NULL

(* One turn of the walk.                                                   *)
Advance(t) ==
  /\ pc[t] = "search" /\ ~Here(t) /\ ~Nowhere(t)
  /\ prev' = [prev EXCEPT ![t] = cur[t]]
  /\ cur' = [cur EXCEPT ![t] = next[cur[t]]]
  /\ UNCHANGED <<head, busy, hold, counts, items, heap, pc, op, arg, first, seen>>

(* Mutated form: the new item does not lead to the old ones.               *)
LinkAlone(t) ==
  /\ op[t] = "insert" /\ Nowhere(t)
  /\ Goto(t, "search", "release")
  /\ \E x \in Items \ live :
       /\ live' = live \cup {x}
       /\ key' = [key EXCEPT ![x] = arg[t]]
       /\ value' = [value EXCEPT ![x] = "there"]
       /\ next' = [next EXCEPT ![x] = NULL]
       /\ head' = [head EXCEPT ![Bucket(t)] = x]
  /\ UNCHANGED <<busy, hold, counts, inner, op, arg, walk, seen>>

(* insert: a new item, in front of the head that was read.                 *)
Link(t) ==
  /\ op[t] = "insert" /\ Nowhere(t)
  /\ Goto(t, "search", "release")
  /\ \E x \in Items \ live :
       /\ live' = live \cup {x}
       /\ key' = [key EXCEPT ![x] = arg[t]]
       /\ value' = [value EXCEPT ![x] = "there"]
       /\ next' = [next EXCEPT ![x] = first[t]]
       /\ head' = [head EXCEPT ![Bucket(t)] = x]
  /\ UNCHANGED <<busy, hold, counts, inner, op, arg, walk, seen>>

(* remove: the item is unlinked and uncounted.                             *)
Unlink(t) ==
  /\ op[t] = "remove" /\ Here(t)
  /\ Goto(t, "search", "release")
  /\ IF prev[t] = NULL
     THEN /\ head' = [head EXCEPT ![Bucket(t)] = next[cur[t]]]
          /\ UNCHANGED next
     ELSE /\ next' = [next EXCEPT ![prev[t]] = next[cur[t]]]
          /\ UNCHANGED head
  /\ len' = (len - 1) % (UMax + 1)
  /\ UNCHANGED <<busy, hold, ref_count, key, value, heap, op, arg, walk, seen>>

---------------------------------------------------------------------------
(* get: the group lock of the guard.                                       *)
LockShared(t) ==
  /\ op[t] = "get" /\ Here(t)
  /\ Goto(t, "search", "release")
  /\ LockGroup(Bucket(t), t)
  /\ UNCHANGED <<head, busy, counts, items, heap, op, arg, walk, seen>>

AfterLock == [insert |-> "replace", get_mut |-> "release", remove |-> "take"]
Excludes(t) == (op[t] \in {"insert", "get_mut"} /\ Here(t)) \/ pc[t] = "reclaim"

(* Mutated form: the guards are not waited for.                            *)
LockValueAtOnce(t) ==
  /\ Excludes(t)
  /\ pc' = [pc EXCEPT ![t] = AfterLock[op[t]]]
  /\ hold' = [hold EXCEPT ![Bucket(t)][t] = "e"]
  /\ UNCHANGED <<head, busy, counts, items, heap, op, arg, walk, seen>>

(* get_mut: the exclusive lock of the guard.  insert and remove take it to   *)
(* wait for the guards; remove has released the bucket by then.            *)
LockValue(t) ==
  /\ Excludes(t)
  /\ pc' = [pc EXCEPT ![t] = AfterLock[op[t]]]
  /\ LockExclusive(Bucket(t), t)
  /\ UNCHANGED <<head, busy, counts, items, heap, op, arg, walk, seen>>

(* insert: the old value is dropped under the lock, the new one written     *)
(* after it.                                                               *)
DropOld(t) ==
  /\ Goto(t, "replace", "write")
  /\ value' = [value EXCEPT ![cur[t]] = "gone"]
  /\ Unlock(Bucket(t), t)
  /\ UNCHANGED <<head, busy, counts, key, next, heap, op, arg, walk, seen>>

Write(t) ==
  /\ Goto(t, "write", "release")
  /\ value' = [value EXCEPT ![cur[t]] = "there"]
  /\ UNCHANGED <<head, busy, hold, counts, key, next, heap, op, arg, walk, seen>>

(* An item is freed: what it held is gone.                                 *)
Free(x) ==
  /\ live' = live \ {x}
  /\ key' = [key EXCEPT ![x] = NULL]
  /\ value' = [value EXCEPT ![x] = "gone"]
  /\ next' = [next EXCEPT ![x] = NULL]

(* remove: the value is read out and the item freed.                       *)
Take(t) ==
  /\ Goto(t, "take", "leave")
  /\ Free(cur[t])
  /\ Unlock(Bucket(t), t)
  /\ UNCHANGED <<head, busy, counts, inner, op, arg, walk, seen>>

Inserted(t) == op[t] = "insert" /\ cur[t] = NULL
Guarded(t) == op[t] \in {"get", "get_mut"} /\ cur[t] # NULL
Done(t) == pc[t] = "release" \/ (op[t] # "insert" /\ Nowhere(t))
AfterRelease(t) == CASE Inserted(t) -> "count"
                     [] op[t] = "remove" /\ cur[t] # NULL -> "reclaim"
                     [] OTHER -> "leave"

(* Mutated form: insert keeps the bucket when it replaced a value.          *)
ReleaseForgotten(t) ==
  /\ Done(t)
  /\ pc' = [pc EXCEPT ![t] = AfterRelease(t)]
  /\ busy' = [busy EXCEPT ![Bucket(t)] = op[t] = "insert" /\ cur[t] # NULL]
  /\ UNCHANGED <<head, hold, counts, items, heap, op, arg, walk, seen>>

(* Bucket::release: of a get, get_mut or remove that found nothing, or when    *)
(* the call has done its work on the list.                                 *)
Release(t) ==
  /\ Done(t)
  /\ pc' = [pc EXCEPT ![t] = AfterRelease(t)]
  /\ busy' = [busy EXCEPT ![Bucket(t)] = FALSE]
  /\ UNCHANGED <<head, hold, counts, items, heap, op, arg, walk, seen>>

(* Mutated form: the new item is not counted.                              *)
CountForgotten(t) ==
  /\ Goto(t, "count", "leave")
  /\ UNCHANGED <<head, busy, hold, counts, items, heap, op, arg, walk, seen>>

(* insert: the new item is counted, with the bucket released already.       *)
Count(t) ==
  /\ Goto(t, "count", "leave")
  /\ len' = (len + 1) % (UMax + 1)
  /\ UNCHANGED <<head, busy, hold, ref_count, items, heap, op, arg, walk, seen>>

(* The call is over: its variables go.                                     *)
Return(t) ==
  /\ pc' = [pc EXCEPT ![t] = "idle"]
  /\ op' = [op EXCEPT ![t] = "none"]
  /\ arg' = [arg EXCEPT ![t] = NULL]
  /\ cur' = [cur EXCEPT ![t] = NULL]

(* The call gives the group lock back and returns, maybe with a guard.      *)
Leave(t) ==
  /\ pc[t] = "leave"
  /\ Unlock(Whole, t)
  /\ \/ Guarded(t) /\ Goto(t, "leave", "guard") /\ UNCHANGED <<op, arg, cur>>
     \/ ~Guarded(t) /\ Return(t)
  /\ first' = [first EXCEPT ![t] = NULL] /\ prev' = [prev EXCEPT ![t] = NULL]
  /\ UNCHANGED <<head, busy, counts, items, heap, seen>>

(* Mutated form: the guard goes without unlocking.                         *)
GuardForgotten(t) ==
  /\ pc[t] = "guard" /\ Return(t)
  /\ UNCHANGED <<head, busy, hold, counts, items, heap, first, prev, seen>>

(* The WatchGuardRef or WatchGuardMut is dropped.                          *)
DropGuard(t) ==
  /\ pc[t] = "guard" /\ Return(t)
  /\ Unlock(Bucket(t), t)
  /\ UNCHANGED <<head, busy, counts, items, heap, first, prev, seen>>

---------------------------------------------------------------------------
(* advance_bucket: the first item from bucket b on, NULL at the end.        *)
FirstFrom(b) ==
  IF \A c \in Buckets : c >= b => head[c] = NULL THEN NULL
  ELSE head[CHOOSE c \in Buckets : /\ c >= b /\ head[c] # NULL
                                   /\ \A d \in b .. c - 1 : head[d] = NULL]
After(x) == IF next[x] # NULL THEN next[x] ELSE FirstFrom(BucketOf(key[x]) + 1)

(* Mutated form: the iterator takes the map's lock as a group does.         *)
IterateShared(t) ==
  /\ Goto(t, "idle", "iter")
  /\ LockGroup(Whole, t)
  /\ cur' = [cur EXCEPT ![t] = FirstFrom(0)]
  /\ UNCHANGED <<head, busy, counts, items, heap, op, arg, first, prev, seen>>

(* iter().                                                                 *)
Iterate(t) ==
  /\ Goto(t, "idle", "iter")
  /\ LockExclusive(Whole, t)
  /\ cur' = [cur EXCEPT ![t] = FirstFrom(0)]
  /\ UNCHANGED <<head, busy, counts, items, heap, op, arg, first, prev, seen>>

(* Mutated form: the guards are not waited for.                            *)
IterNextAtOnce(t) ==
  /\ pc[t] = "iter" /\ cur[t] # NULL
  /\ seen' = [seen EXCEPT ![t] = @ \cup {cur[t]}]
  /\ cur' = [cur EXCEPT ![t] = After(cur[t])]
  /\ UNCHANGED <<head, busy, hold, counts, items, heap, pc, op, arg, first, prev>>

(* Iter::next, once ref_locked.is_locked_exclusive() is false: that is true *)
(* of a group's lock as well.                                              *)
IterNext(t) ==
  /\ pc[t] = "iter" /\ cur[t] # NULL
  /\ \A u \in Threads : hold[BucketOf(key[cur[t]])][u] = "none"
  /\ seen' = [seen EXCEPT ![t] = @ \cup {cur[t]}]
  /\ cur' = [cur EXCEPT ![t] = After(cur[t])]
  /\ UNCHANGED <<head, busy, hold, counts, items, heap, pc, op, arg, first, prev>>

(* The iterator is dropped, at its end or before.                          *)
DropIter(t) ==
  /\ Goto(t, "iter", "idle")
  /\ Unlock(Whole, t)
  /\ cur' = [cur EXCEPT ![t] = NULL]
  /\ seen' = [seen EXCEPT ![t] = {}]
  /\ UNCHANGED <<head, busy, counts, items, heap, op, arg, first, prev>>

---------------------------------------------------------------------------
(* Mutated form: the copy is not counted.                                  *)
CloneUncounted(t, u) ==
  /\ pc[t] = "idle"
  /\ Goto(u, "none", "idle")
  /\ UNCHANGED <<head, busy, hold, counts, items, heap, op, arg, walk, seen>>

(* clone(): t makes a handle and hands it to u.                            *)
Clone(t, u) ==
  /\ pc[t] = "idle"
  /\ Goto(u, "none", "idle")
  /\ ref_count' = ref_count + 1
  /\ UNCHANGED <<head, busy, hold, len, items, heap, op, arg, walk, seen>>

(* drop(): the last handle frees the items, bucket after bucket.           *)
DropHandle(t) ==
  /\ Goto(t, "idle", IF ref_count = 1 THEN "free" ELSE "none")
  /\ ref_count' = ref_count - 1
  /\ cur' = [cur EXCEPT ![t] = IF ref_count = 1 THEN FirstFrom(0) ELSE NULL]
  /\ UNCHANGED <<head, busy, hold, len, items, heap, op, arg, first, prev, seen>>

DropItem(t) ==
  /\ Goto(t, "free", "free")
  /\ cur[t] # NULL
  /\ Free(cur[t])
  /\ cur' = [cur EXCEPT ![t] = After(cur[t])]
  /\ UNCHANGED <<head, busy, hold, counts, inner, op, arg, first, prev, seen>>

DropInner(t) ==
  /\ Goto(t, "free", "none")
  /\ cur[t] = NULL
  /\ inner' = FALSE
  /\ UNCHANGED <<head, busy, hold, counts, items, live, op, arg, walk, seen>>

(* Every handle is gone.                                                   *)
Gone == ~inner /\ UNCHANGED vars

(* The steps of a call, a guard or an iterator that is under way.          *)
Proceed(t) ==
  \/ LockBucket(t) \/ Advance(t) \/ Link(t) \/ Unlink(t) \/ LockShared(t) \/ LockValue(t) \/ DropOld(t) \/ Write(t)
  \/ Take(t) \/ Release(t) \/ Count(t) \/ Leave(t) \/ DropGuard(t)
  \/ IterNext(t) \/ DropItem(t) \/ DropInner(t)

Begin(t) ==
  \/ Enter(t) \/ Iterate(t) \/ DropIter(t) \/ DropHandle(t)
  \/ \E u \in Threads : Clone(t, u)

Next == Gone \/ \E t \in Threads : Proceed(t) \/ Begin(t)

Spec == Init /\ [][Next]_vars

(* A call that is at the Mutex of its bucket.                              *)
WaitsForGuards(t) == Excludes(t) \/ (op[t] = "get" /\ Here(t))

(* A call goes on, but for its wait at a Mutex, which may last for ever, free  *)
(* or not; a guard is dropped in the end, an iterator is asked for its next    *)
(* item or dropped.                                                         *)
FairSpec == Spec /\ \A t \in Threads : WF_vars(Proceed(t) /\ ~WaitsForGuards(t))
=============================================================================
