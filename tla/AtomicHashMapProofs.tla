------------------------ MODULE AtomicHashMapProofs ------------------------
(***************************************************************************)
(* Theorems about AtomicHashMap, for any number of threads, items, keys and *)
(* buckets, on a Mutex that keeps GroupLock.                               *)
(***************************************************************************)
EXTENDS AtomicHashMapProperties, LinkedListProofs

Move(t) == Proceed(t) \/ Begin(t)

(* A call is under way; its thread has the spin lock of its bucket.         *)
Calling == {"lock", "search", "reclaim", "replace", "write", "take", "release", "count", "leave"}
Section == {"search", "replace", "write", "release"}

(* A thread that has the guards' lock of its bucket to itself, and one whose *)
(* guard gives access to a value.                                          *)
Latches(t) ==
  \/ op[t] = "get_mut" /\ cur[t] # NULL /\ pc[t] \in {"release", "leave", "guard"}
  \/ pc[t] \in {"replace", "take"}
Guarding(t) == Reads(t) \/ (Writes(t) /\ op[t] = "get_mut")

Typed ==
  /\ head \in [Buckets -> Ptr] /\ busy \in [Buckets -> BOOLEAN]
  /\ hold \in [Locks -> [Threads -> {"none", "g", "e"}]]
  /\ len \in 0 .. UMax
  /\ key \in [Items -> Keys \cup {NULL}] /\ next \in [Items -> Ptr]
  /\ value \in [Items -> {"there", "gone"}]
  /\ live \subseteq Items /\ inner \in BOOLEAN
  /\ pc \in [Threads -> Places] /\ op \in [Threads -> Operations \cup {"none"}]
  /\ arg \in [Threads -> Keys \cup {NULL}]
  /\ first \in [Threads -> Ptr] /\ prev \in [Threads -> Ptr] /\ cur \in [Threads -> Ptr]
  /\ seen \in [Threads -> SUBSET Items]

(* What a thread has, by where it is.                                       *)
Place(t) ==
  /\ pc[t] \in {"none", "idle", "iter", "free"} <=> op[t] = "none"
  /\ op[t] # "none" => arg[t] \in Keys
  /\ pc[t] \in {"none", "idle", "lock", "count"} => cur[t] = NULL
  /\ pc[t] \in {"none", "idle", "lock", "guard", "iter", "free"} => prev[t] = NULL
  /\ pc[t] \in {"replace", "write"} => op[t] = "insert" /\ cur[t] # NULL
  /\ pc[t] \in {"reclaim", "take"} => op[t] = "remove" /\ cur[t] # NULL
  /\ pc[t] = "count" => op[t] = "insert"
  /\ pc[t] = "guard" => op[t] \in {"get", "get_mut"} /\ cur[t] # NULL
  /\ pc[t] = "release" => op[t] = "insert" \/ cur[t] # NULL
  /\ pc[t] # "iter" => seen[t] = {}
Placing == \A t \in Threads : Place(t)

(* A call holds the map's lock with its group, an iterator exclusively; those  *)
(* whose guards give access to a value, or wait for the others', the bucket's. *)
Held(t) ==
  /\ hold[Whole][t] = IF pc[t] \in Calling THEN "g" ELSE IF pc[t] = "iter" THEN "e" ELSE "none"
  /\ \A b \in Buckets : hold[b][t] = IF Reads(t) /\ Bucket(t) = b THEN "g"
                                     ELSE IF Latches(t) /\ Bucket(t) = b THEN "e" ELSE "none"
Holding == \A t \in Threads : Held(t)

(* The Mutexes exclude.                                                     *)
HoldExclusive == \A l \in Locks : \A t, u \in Threads : t # u /\ hold[l][t] = "e" => hold[l][u] = "none"

(* And so do the spin locks.                                                *)
BucketExclusive ==
  /\ \A t \in Threads : pc[t] \in Section => busy[Bucket(t)]
  /\ \A t, u \in Threads : pc[t] \in Section /\ pc[u] \in Section /\ Bucket(t) = Bucket(u) => t = u

(* ref_count counts the handles; who frees the map is alone with it.         *)
Owners == {t \in Threads : pc[t] \notin {"none", "free"}}
Handles ==
  /\ ref_count = Cardinality(Owners)
  /\ \A t \in Threads : pc[t] = "free" => \A u \in Threads \ {t} : pc[u] = "none"
  /\ inner <=> \E t \in Threads : pc[t] # "none"

---------------------------------------------------------------------------
(* The bucket of a key.                                                    *)
LEMMA BucketType == \A k \in Keys : BucketOf(k) \in Buckets
<1>1. ASSUME NEW M \in Nat \ {0}, NEW a \in Nat PROVE a % M \in 0 .. M - 1
  OBVIOUS
<1> QED
  BY <1>1, BucketsAssumption DEF BucketOf, Buckets

(* The lock of the map is none of the buckets'.                             *)
LEMMA LocksApart == Whole \in Locks /\ Whole \notin Buckets /\ Buckets \subseteq Locks
BY BucketsAssumption DEF Locks, Whole, Buckets

(* A step of t leaves the local state of the others alone, but for the thread *)
(* that gets a handle.                                                     *)
LEMMA Others ==
  ASSUME Typed, NEW t \in Threads, Move(t), NEW u \in Threads, u # t
  PROVE  /\ op'[u] = op[u] /\ arg'[u] = arg[u] /\ first'[u] = first[u]
         /\ prev'[u] = prev[u] /\ cur'[u] = cur[u] /\ seen'[u] = seen[u]
         /\ pc'[u] = pc[u] \/ (pc[u] = "none" /\ pc'[u] = "idle")
         /\ \A l \in Locks : hold'[l][u] = hold[l][u]
<1> USE DEF Typed, Goto, walk, counts, items, heap
<1>1. CASE Enter(t)
  BY <1>1 DEF Enter, LockGroup
<1>2. CASE LockBucket(t) \/ Advance(t) \/ Link(t) \/ Unlink(t)
  BY <1>2 DEF LockBucket, Advance, Link, Unlink
<1>3. CASE LockShared(t) \/ LockValue(t)
  BY <1>3 DEF LockShared, LockValue, LockGroup, LockExclusive
<1>4. CASE DropOld(t) \/ Write(t) \/ Take(t)
  BY <1>4 DEF DropOld, Write, Take, Unlock
<1>5. CASE Release(t) \/ Count(t) \/ Leave(t) \/ DropGuard(t)
  BY <1>5 DEF Release, Count, Leave, DropGuard, Unlock, Return
<1>6. CASE Iterate(t) \/ IterNext(t) \/ DropIter(t)
  BY <1>6 DEF Iterate, IterNext, DropIter, Unlock, LockExclusive
<1>7. CASE DropHandle(t) \/ DropItem(t) \/ DropInner(t)
  BY <1>7 DEF DropHandle, DropItem, DropInner
<1>8. CASE \E v \in Threads : Clone(t, v)
  BY <1>8 DEF Clone
<1> QED
  BY <1>1, <1>2, <1>3, <1>4, <1>5, <1>6, <1>7, <1>8 DEF Move, Proceed, Begin

(* Every step keeps the table of the places.                                *)
LEMMA PlacingStep ==
  ASSUME Typed, Placing, NEW t \in Threads, Move(t)
  PROVE  Placing'
<1>1. ASSUME NEW u \in Threads \ {t} PROVE Place(u)'
  BY <1>1, Others DEF Placing, Place
<1>2. Place(t)'
  <2> USE DEF Typed, Goto, walk, counts, items, heap, Placing, Place, Operations
  <2>1. CASE Enter(t) \/ LockBucket(t) \/ Advance(t)
    BY <2>1 DEF Enter, LockGroup, LockBucket, Advance
  <2>2. CASE Link(t) \/ Unlink(t)
    BY <2>2 DEF Link, Unlink, Here
  <2>3. CASE LockShared(t) \/ LockValue(t)
    BY <2>3 DEF LockShared, LockValue, Excludes, Here, AfterLock
  <2>4. CASE DropOld(t) \/ Write(t) \/ Take(t)
    BY <2>4 DEF DropOld, Write, Take
  <2>5. CASE Release(t)
    BY <2>5 DEF Release, Done, AfterRelease, Inserted, Nowhere
  <2>6. CASE Count(t) \/ Leave(t) \/ DropGuard(t)
    BY <2>6 DEF Count, Leave, DropGuard, Return, Guarded
  <2>7. CASE Iterate(t) \/ IterNext(t) \/ DropIter(t)
    BY <2>7 DEF Iterate, IterNext, DropIter
  <2>8. CASE DropHandle(t) \/ DropItem(t) \/ DropInner(t)
    BY <2>8 DEF DropHandle, DropItem, DropInner
  <2>9. CASE \E v \in Threads : Clone(t, v)
    BY <2>9 DEF Clone
  <2> QED
    BY <2>1, <2>2, <2>3, <2>4, <2>5, <2>6, <2>7, <2>8, <2>9 DEF Move, Proceed, Begin
<1> QED
  BY <1>1, <1>2 DEF Placing

(* The Mutexes are held as the places say.                                  *)
LEMMA HoldingStep ==
  ASSUME Typed, Placing, Holding, NEW t \in Threads, Move(t)
  PROVE  Holding'
<1> USE DEF Bucket
<1>1. ASSUME NEW u \in Threads \ {t} PROVE Held(u)'
  <2>1. /\ op'[u] = op[u] /\ arg'[u] = arg[u] /\ cur'[u] = cur[u]
        /\ pc'[u] = pc[u] \/ (pc[u] = "none" /\ pc'[u] = "idle")
        /\ \A l \in Locks : hold'[l][u] = hold[l][u]
    BY Others
  <2>2. (Reads(u) <=> Reads(u)') /\ (Latches(u) <=> Latches(u)')
    BY <2>1 DEF Reads, Latches
  <2>3. hold'[Whole][u] = hold[Whole][u] /\ \A b \in Buckets : hold'[b][u] = hold[b][u]
    BY <2>1, LocksApart
  <2> QED
    BY <2>1, <2>2, <2>3 DEF Holding, Held, Calling
<1>2. Held(t)'
  <2>1. /\ op[t] # "none" => Bucket(t) \in Buckets
        /\ Held(t) /\ Place(t)
    BY BucketType DEF Placing, Place, Holding
  <2> USE LocksApart DEF Typed, Goto, walk, counts, items, heap, Calling, Held, Place, Reads, Latches
  <2>2. CASE Enter(t) \/ LockBucket(t) \/ Advance(t)
    BY <2>1, <2>2 DEF Enter, LockGroup, LockBucket, Advance
  <2>3. CASE Link(t) \/ Unlink(t)
    BY <2>1, <2>3 DEF Link, Unlink, Here, Nowhere
  <2>4. CASE LockShared(t)
    BY <2>1, <2>4 DEF LockShared, LockGroup, Here
  <2>5. CASE LockValue(t)
    BY <2>1, <2>5 DEF LockValue, LockExclusive, Excludes, Here, AfterLock
  <2>6. CASE DropOld(t) \/ Write(t) \/ Take(t)
    <3>1. CASE DropOld(t)
      BY <2>1, <3>1 DEF DropOld, Unlock
    <3>2. CASE Write(t)
      BY <2>1, <3>2 DEF Write
    <3>3. CASE Take(t)
      BY <2>1, <3>3 DEF Take, Unlock
    <3> QED
      BY <2>6, <3>1, <3>2, <3>3
  <2>7. CASE Release(t)
    BY <2>1, <2>7 DEF Release, Done, AfterRelease, Inserted, Nowhere
  <2>8. CASE Count(t) \/ Leave(t) \/ DropGuard(t)
    BY <2>1, <2>8 DEF Count, Leave, DropGuard, Return, Guarded, Unlock
  <2>9. CASE Iterate(t) \/ IterNext(t) \/ DropIter(t)
    BY <2>1, <2>9 DEF Iterate, IterNext, DropIter, LockExclusive, Unlock
  <2>10. CASE DropHandle(t) \/ DropItem(t) \/ DropInner(t)
    BY <2>1, <2>10 DEF DropHandle, DropItem, DropInner
  <2>11. CASE \E v \in Threads : Clone(t, v)
    BY <2>1, <2>11 DEF Clone
  <2> QED
    BY <2>2, <2>3, <2>4, <2>5, <2>6, <2>7, <2>8, <2>9, <2>10, <2>11 DEF Move, Proceed, Begin
<1> QED
  BY <1>1, <1>2 DEF Holding

(* A Mutex is given to nobody while somebody else has it to himself.        *)
LEMMA HoldExclusiveStep ==
  ASSUME Typed, HoldExclusive, NEW t \in Threads, Move(t)
  PROVE  HoldExclusive'
<1> DEFINE Kept == \A l \in Locks : \A u \in Threads \ {t} :
                      /\ hold'[l][t] = "e" => hold[l][u] = "none"
                      /\ hold'[l][t] # "none" => hold[l][u] # "e"
<1>1. \A l \in Locks : \A u \in Threads \ {t} : hold'[l][u] = hold[l][u]
  BY Others
<1>2. hold \in [Locks -> [Threads -> {"none", "g", "e"}]]
  BY DEF Typed
<1>3. ASSUME NEW l, LockGroup(l, t) PROVE Kept
  BY <1>2, <1>3 DEF LockGroup, HoldExclusive
<1>4. ASSUME NEW l, LockExclusive(l, t) PROVE Kept
  BY <1>2, <1>4 DEF LockExclusive, HoldExclusive
<1>5. ASSUME NEW l, Unlock(l, t) PROVE Kept
  BY <1>2, <1>5 DEF Unlock, HoldExclusive
<1>6. ASSUME UNCHANGED hold PROVE Kept
  BY <1>2, <1>6 DEF HoldExclusive
<1> HIDE DEF Kept
<1>7. Kept
  <2>1. CASE Enter(t) \/ LockShared(t) \/ LockValue(t) \/ Iterate(t)
    BY <1>3, <1>4, <2>1 DEF Enter, LockShared, LockValue, Iterate
  <2>2. CASE DropOld(t) \/ Take(t) \/ Leave(t) \/ DropGuard(t) \/ DropIter(t)
    BY <1>5, <2>2 DEF DropOld, Take, Leave, DropGuard, DropIter
  <2>3. CASE \/ LockBucket(t) \/ Advance(t) \/ Link(t) \/ Unlink(t) \/ Write(t) \/ Release(t) \/ Count(t)
             \/ IterNext(t) \/ (\E u \in Threads : Clone(t, u)) \/ DropHandle(t) \/ DropItem(t) \/ DropInner(t)
    <3>1. UNCHANGED hold
      BY <2>3 DEF LockBucket, Advance, Link, Unlink, Write, Release, Count, IterNext, Clone, DropHandle,
         DropItem, DropInner
    <3> QED
      BY <1>6, <3>1
  <2> QED
    BY <2>1, <2>2, <2>3 DEF Move, Proceed, Begin
<1> QED
  BY <1>1, <1>7 DEF Kept, HoldExclusive

(* The section is entered by lock() only.                                   *)
LEMMA SectionMoves ==
  ASSUME Typed, Placing, NEW t \in Threads, Move(t)
  PROVE  pc'[t] \in Section => arg'[t] = arg[t] /\ (pc[t] \in Section \/ LockBucket(t))
<1> USE DEF Typed, Goto, Section
<1>1. CASE Enter(t) \/ LockBucket(t) \/ Advance(t) \/ Link(t) \/ Unlink(t)
  BY <1>1 DEF Enter, LockBucket, Advance, Link, Unlink
<1>2. CASE LockShared(t) \/ LockValue(t)
  BY <1>2 DEF LockShared, LockValue, Excludes, Here, AfterLock, Placing, Place
<1>3. CASE DropOld(t) \/ Write(t) \/ Take(t) \/ Release(t) \/ Count(t)
  BY <1>3 DEF DropOld, Write, Take, Release, AfterRelease, Count
<1>4. CASE Leave(t) \/ DropGuard(t)
  BY <1>4 DEF Leave, DropGuard, Return
<1>5. CASE Iterate(t) \/ IterNext(t) \/ DropIter(t)
  BY <1>5 DEF Iterate, IterNext, DropIter
<1>6. CASE DropHandle(t) \/ DropItem(t) \/ DropInner(t)
  BY <1>6 DEF DropHandle, DropItem, DropInner
<1>7. CASE \E v \in Threads : Clone(t, v)
  BY <1>7 DEF Clone
<1> QED
  BY <1>1, <1>2, <1>3, <1>4, <1>5, <1>6, <1>7 DEF Move, Proceed, Begin

(* A bucket is locked by one thread at a time.                              *)
LEMMA BucketExclusiveStep ==
  ASSUME Typed, Placing, BucketExclusive, NEW t \in Threads, Move(t)
  PROVE  BucketExclusive'
<1> USE DEF BucketExclusive, Section, Bucket
<1>1. \A u \in Threads \ {t} : pc'[u] \in Section => pc[u] \in Section /\ arg'[u] = arg[u]
  BY Others
<1>2. \A u \in Threads : pc[u] \in Section => Bucket(u) \in Buckets
  BY BucketType DEF Placing, Place
<1>3. pc'[t] \in Section => arg'[t] = arg[t] /\ (pc[t] \in Section \/ LockBucket(t))
  BY SectionMoves
<1>4. CASE LockBucket(t)
  <2>1. /\ ~busy[Bucket(t)] /\ busy' = [busy EXCEPT ![Bucket(t)] = TRUE] /\ arg' = arg
        /\ Bucket(t) \in Buckets /\ busy \in [Buckets -> BOOLEAN]
    BY <1>4, BucketType DEF LockBucket, Typed, Goto, Placing, Place
  <2>2. \A b \in Buckets : busy[b] => busy'[b]
    BY <2>1, Zenon
  <2>3. busy'[Bucket(t)]
    BY <2>1, Zenon
  <2> QED
    BY <1>1, <1>2, <2>1, <2>2, <2>3
<1>5. CASE Release(t)
  <2>1. /\ busy' = [busy EXCEPT ![Bucket(t)] = FALSE] /\ arg' = arg
        /\ pc[t] \in Section /\ pc'[t] \notin Section
    BY <1>5 DEF Release, Done, Nowhere, AfterRelease, Typed, Placing, Place
  <2>2. \A b \in Buckets \ {Bucket(t)} : busy'[b] = busy[b]
    BY <2>1, Zenon DEF Typed
  <2> QED
    BY <1>1, <1>2, <2>1, <2>2
<1>6. CASE UNCHANGED busy /\ ~LockBucket(t)
  BY <1>1, <1>2, <1>3, <1>6
<1> QED
  BY <1>4, <1>5, <1>6 DEF Move, Proceed, Begin, Enter, Advance, Link, Unlink, LockShared, LockValue,
     DropOld, Write, Take, Count, Leave, DropGuard, IterNext, Iterate, DropIter, Clone, DropHandle,
     DropItem, DropInner

---------------------------------------------------------------------------
(* The owners of handles.                                                  *)
LEMMA OwnersFinite == IsFiniteSet(Owners) /\ Cardinality(Owners) \in Nat
BY SetsAssumption, FS_Subset, FS_CardinalityType DEF Owners

(* A thread with a handle finds the map in one piece.                       *)
LEMMA OwnerIntact == Handles => \A t \in Threads : pc[t] \notin {"none", "free"} => Intact
BY DEF Handles, Intact, Freeing

(* And after a step.                                                       *)
LEMMA NextOwnerIntact == Handles' => \A t \in Threads : pc'[t] \notin {"none", "free"} => Intact'
BY DEF Handles, Intact, Freeing

(* Only the thread that frees the map is outside a call, at its end; the    *)
(* others move within their handle.                                        *)
LEMMA OwnSteps ==
  ASSUME Typed, Placing, NEW t \in Threads, Move(t)
  PROVE  \/ /\ pc[t] \notin {"none", "free"} /\ pc'[t] \notin {"none", "free"}
            /\ UNCHANGED <<ref_count, inner>> /\ \A u \in Threads \ {t} : pc'[u] = pc[u]
         \/ \E u \in Threads : Clone(t, u)
         \/ DropHandle(t) \/ DropItem(t) \/ DropInner(t)
<1> USE DEF Typed, Goto, counts, heap
<1>1. CASE Enter(t) \/ LockBucket(t) \/ Advance(t) \/ Link(t) \/ Unlink(t)
  BY <1>1 DEF Enter, LockBucket, Advance, Link, Unlink
<1>2. CASE LockShared(t) \/ LockValue(t)
  BY <1>2 DEF LockShared, LockValue, Excludes, Here, AfterLock, Placing, Place
<1>3. CASE DropOld(t) \/ Write(t) \/ Take(t) \/ Count(t)
  BY <1>3 DEF DropOld, Write, Take, Count
<1>4. CASE Release(t)
  BY <1>4 DEF Release, Done, Nowhere, AfterRelease
<1>5. CASE Leave(t) \/ DropGuard(t)
  BY <1>5 DEF Leave, DropGuard, Return
<1>6. CASE Iterate(t) \/ IterNext(t) \/ DropIter(t)
  BY <1>6 DEF Iterate, IterNext, DropIter
<1> QED
  BY <1>1, <1>2, <1>3, <1>4, <1>5, <1>6 DEF Move, Proceed, Begin

(* The handles are counted.                                                *)
LEMMA HandlesStep ==
  ASSUME Typed, Placing, Handles, NEW t \in Threads, Move(t)
  PROVE  Handles'
<1>1. /\ pc \in [Threads -> Places] /\ IsFiniteSet(Threads)
      /\ Owners \subseteq Threads /\ Owners' \subseteq Threads
  BY SetsAssumption DEF Typed, Owners
<1>2. CASE /\ pc[t] \notin {"none", "free"} /\ pc'[t] \notin {"none", "free"}
           /\ UNCHANGED <<ref_count, inner>> /\ \A u \in Threads \ {t} : pc'[u] = pc[u]
  <2>1. Owners' = Owners
    BY <1>2 DEF Owners
  <2> QED
    BY <1>1, <1>2, <2>1 DEF Handles
<1>3. CASE \E u \in Threads : Clone(t, u)
  <2>1. PICK u \in Threads : /\ pc[t] = "idle" /\ pc[u] = "none" /\ pc' = [pc EXCEPT ![u] = "idle"]
                             /\ ref_count' = ref_count + 1 /\ inner' = inner
    BY <1>3 DEF Clone, Goto, heap
  <2>2. \A v \in Threads \ {u} : v \in Owners' <=> v \in Owners
    BY <1>1, <2>1 DEF Owners
  <2>3. u \in Owners' /\ u \notin Owners
    BY <1>1, <2>1 DEF Owners
  <2>4. Cardinality(Owners') = Cardinality(Owners) + 1
    BY <1>1, <2>2, <2>3, Recount
  <2> QED
    BY <1>1, <2>1, <2>4 DEF Handles
<1>4. CASE DropHandle(t)
  <2>1. /\ pc[t] = "idle" /\ pc' = [pc EXCEPT ![t] = IF ref_count = 1 THEN "free" ELSE "none"]
        /\ ref_count' = ref_count - 1 /\ inner' = inner
    BY <1>4 DEF DropHandle, Goto, heap
  <2>2. \A v \in Threads \ {t} : v \in Owners' <=> v \in Owners
    BY <1>1, <2>1 DEF Owners
  <2>3. t \in Owners /\ t \notin Owners'
    BY <1>1, <2>1 DEF Owners
  <2>4. Cardinality(Owners') = Cardinality(Owners) - 1
    BY <1>1, <2>2, <2>3, Recount, OwnersFinite
  <2>5. ASSUME ref_count = 1, NEW u \in Threads \ {t} PROVE pc[u] = "none"
    <3>1. Cardinality(Owners) = 1 /\ IsFiniteSet(Owners)
      BY <2>5, OwnersFinite DEF Handles
    <3>2. Owners = {t}
      BY <2>3, <3>1, FS_Singleton
    <3> QED
      BY <2>1, <3>2 DEF Owners, Handles
  <2>6. ASSUME ref_count # 1 PROVE \E u \in Threads \ {t} : pc[u] \notin {"none", "free"}
    <3>1. Owners # {t}
      BY <2>6, FS_Singleton DEF Handles
    <3> QED
      BY <2>3, <3>1 DEF Owners
  <2>7. CASE ref_count = 1
    BY <1>1, <2>1, <2>4, <2>5, <2>7 DEF Handles
  <2>8. CASE ref_count # 1
    BY <1>1, <2>1, <2>4, <2>6, <2>8 DEF Handles
  <2> QED
    BY <2>7, <2>8
<1>5. CASE DropItem(t) \/ DropInner(t)
  <2>1. pc[t] = "free" /\ UNCHANGED ref_count
    BY <1>5 DEF DropItem, DropInner, Goto, counts
  <2>2. /\ \A u \in Threads \ {t} : pc[u] = "none" /\ pc'[u] = "none"
        /\ (pc'[t] = "free" /\ inner' = inner) \/ (pc'[t] = "none" /\ inner' = FALSE)
    BY <1>1, <1>5, <2>1 DEF Handles, DropItem, DropInner, Goto
  <2>3. Owners' = Owners
    BY <2>1, <2>2 DEF Owners
  <2> QED
    BY <1>1, <2>1, <2>2, <2>3 DEF Handles
<1> QED
  BY <1>2, <1>3, <1>4, <1>5, OwnSteps

---------------------------------------------------------------------------
(* advance_bucket finds the first bucket that is not empty.                 *)
LEMMA FirstIs ==
  ASSUME NEW b \in Nat
  PROVE  \/ FirstFrom(b) = NULL /\ \A c \in Buckets : c >= b => head[c] = NULL
         \/ \E c \in Buckets : /\ c >= b /\ head[c] # NULL /\ FirstFrom(b) = head[c]
                               /\ \A d \in b .. c - 1 : head[d] = NULL
<1> DEFINE T == {c \in Buckets : c >= b /\ head[c] # NULL}
           Is(c) == /\ c >= b /\ head[c] # NULL
                    /\ \A d \in b .. c - 1 : head[d] = NULL
<1>1. CASE T = {}
  BY <1>1 DEF FirstFrom
<1>2. CASE T # {}
  <2>1. T \in SUBSET Nat
    BY BucketsAssumption DEF Buckets
  <2>2. PICK c \in T : \A d \in T : c <= d
    BY <1>2, <2>1, Least
  <2>3. \A d \in b .. c - 1 : d \in Buckets /\ d \notin T
    BY <2>1, <2>2, BucketsAssumption DEF Buckets
  <2>4. Is(c)
    BY <2>2, <2>3
  <2>5. Is(CHOOSE k \in Buckets : Is(k)) /\ (CHOOSE k \in Buckets : Is(k)) \in Buckets
    BY <2>2, <2>4
  <2>6. FirstFrom(b) = head[CHOOSE k \in Buckets : Is(k)]
    BY <2>2 DEF FirstFrom
  <2> QED
    BY <2>5, <2>6
<1> QED
  BY <1>1, <1>2

---------------------------------------------------------------------------
(* The lists of the buckets: each holds the items of the keys that hash to it, *)
(* one of each key.                                                        *)
Lists ==
  /\ \A b \in Buckets : IsList(List(b), head[b], next, NULL)
  /\ \A b \in Buckets : \A x \in InList(b) : key[x] \in Keys /\ BucketOf(key[x]) = b
  /\ \A x, y \in InMap : key[x] = key[y] => x = y

(* What is allocated is in the map, or in the hands of one remove.          *)
Removals ==
  /\ \A x \in Items : x \in live <=> x \in InMap \/ \E t \in Threads : Removing(t) /\ cur[t] = x
  /\ \A t \in Threads : Removing(t) => cur[t] \notin InMap /\ key[cur[t]] = arg[t]
  /\ \A t, u \in Threads : Removing(t) /\ Removing(u) /\ cur[t] = cur[u] => t = u

(* t is at the i-th item of its bucket, having met other keys only.         *)
At(t, i) ==
  /\ cur[t] = Nth(List(Bucket(t)), i, NULL)
  /\ prev[t] = IF i = 1 THEN NULL ELSE List(Bucket(t))[i - 1]
  /\ \A j \in 1 .. i - 1 : key[List(Bucket(t))[j]] # arg[t]
Walks == \A t \in Threads : pc[t] = "search" =>
  /\ first[t] = head[Bucket(t)]
  /\ \E i \in 1 .. Len(List(Bucket(t))) + 1 : At(t, i)

MapInv == Typed /\ Placing /\ Holding /\ HoldExclusive /\ BucketExclusive /\ Handles
MapLists == Lists /\ Removals /\ Walks

(* The list of a bucket is the one the pointers make.                       *)
LEMMA ListIs ==
  ASSUME Typed, NEW b \in Buckets, NEW s, IsList(s, head[b], next, NULL)
  PROVE  List(b) = s /\ InList(b) = Elems(s)
<1>1. DOMAIN next = Items /\ IsFiniteSet(DOMAIN next)
  BY SetsAssumption DEF Typed
<1>2. List(b) = s
  BY <1>1, WalkIs DEF List
<1> QED
  BY <1>2 DEF InList, Elems

(* And after a step.                                                       *)
LEMMA NextListIs ==
  ASSUME next' \in [Items -> Ptr], NEW b \in Buckets, NEW s, IsList(s, head'[b], next', NULL)
  PROVE  List(b)' = s /\ InList(b)' = Elems(s)
<1>1. DOMAIN next' = Items /\ IsFiniteSet(DOMAIN next')
  BY SetsAssumption
<1>2. Walk(head'[b], next') = s
  BY <1>1, WalkIs
<1>3. List(b)' = s
  BY <1>2 DEF List
<1> QED
  BY <1>3 DEF InList, Elems

(* The items of a list, as a set and in their order.                        *)
LEMMA ListTells ==
  ASSUME Typed, Lists, NEW b \in Buckets
  PROVE  /\ InList(b) = Elems(List(b)) /\ InList(b) \subseteq Items /\ InList(b) \subseteq InMap
         /\ List(b) \in Seq(Items) /\ Len(List(b)) \in Nat /\ DOMAIN List(b) = 1 .. Len(List(b))
         /\ \A i \in 1 .. Len(List(b)) : List(b)[i] \in InList(b) /\ List(b)[i] # NULL
<1>1. List(b) \in Seq(Items)
  BY DEF Lists, IsList, Typed
<1>2. InList(b) = Elems(List(b)) /\ InList(b) \subseteq InMap
  BY DEF InList, Elems, InMap
<1>3. InList(b) \subseteq Items /\ NULL \notin Items
  BY <1>1, SetsAssumption DEF InList
<1> QED
  BY <1>1, <1>2, <1>3 DEF InList

(* An item is on one list.                                                 *)
LEMMA ListsApart ==
  ASSUME Lists, NEW b \in Buckets, NEW c \in Buckets, b # c
  PROVE  InList(b) \cap InList(c) = {}
BY DEF Lists

(* A step that leaves the head of a list and its items alone leaves the list. *)
LEMMA ListStays ==
  ASSUME Typed, next' \in [Items -> Ptr], Lists, NEW b \in Buckets,
         head'[b] = head[b], \A x \in InList(b) : next'[x] = next[x]
  PROVE  List(b)' = List(b) /\ InList(b)' = InList(b) /\ IsList(List(b)', head'[b], next', NULL)
<1>1. IsList(List(b), head[b], next, NULL) /\ InList(b) = Elems(List(b))
  BY ListTells DEF Lists
<1>2. DOMAIN next = Items /\ DOMAIN next' = Items
  BY DEF Typed
<1>3. IsList(List(b), head'[b], next', NULL)
  BY <1>1, <1>2, ListKept
<1> QED
  BY <1>1, <1>3, NextListIs

(* What a walk has found.                                                  *)
LEMMA WalkTells ==
  ASSUME Typed, Lists, Walks, Placing, NEW t \in Threads, pc[t] = "search"
  PROVE  /\ Bucket(t) \in Buckets /\ arg[t] \in Keys /\ first[t] = head[Bucket(t)]
         /\ cur[t] = NULL => \A x \in InMap : key[x] # arg[t]
         /\ cur[t] # NULL => \E i \in 1 .. Len(List(Bucket(t))) : At(t, i) /\ cur[t] = List(Bucket(t))[i]
<1> DEFINE b == Bucket(t)  s == List(Bucket(t))
<1>1. b \in Buckets /\ arg[t] \in Keys
  BY BucketType DEF Placing, Place, Bucket
<1>2. PICK i \in 1 .. Len(s) + 1 : At(t, i)
  BY DEF Walks
<1>3. /\ Len(s) \in Nat /\ DOMAIN s = 1 .. Len(s)
      /\ \A j \in 1 .. Len(s) : s[j] \in InList(b) /\ s[j] # NULL
  BY <1>1, ListTells
<1>4. CASE cur[t] # NULL
  <2>1. i \in 1 .. Len(s) /\ cur[t] = s[i]
    BY <1>2, <1>3, <1>4 DEF At, Nth
  <2> QED
    BY <1>1, <1>2, <1>4, <2>1 DEF Walks
<1>5. CASE cur[t] = NULL
  <2>1. i = Len(s) + 1
    BY <1>2, <1>3, <1>5 DEF At, Nth
  <2>2. \A x \in InList(b) : key[x] # arg[t]
    BY <1>2, <1>3, <2>1 DEF At, InList
  <2>3. ASSUME NEW x \in InMap, key[x] = arg[t] PROVE FALSE
    <3>1. PICK c \in Buckets : x \in InList(c)
      BY DEF InMap
    <3>2. BucketOf(key[x]) = c
      BY <3>1 DEF Lists
    <3> QED
      BY <2>2, <2>3, <3>1, <3>2 DEF Bucket
  <2> QED
    BY <1>1, <1>5, <2>3 DEF Walks
<1> QED
  BY <1>4, <1>5

---------------------------------------------------------------------------
(* The lists stay as they are.                                             *)
SameLists ==
  /\ \A c \in Buckets : List(c)' = List(c) /\ InList(c)' = InList(c) /\ head'[c] = head[c]
  /\ InMap' = InMap /\ \A x \in InMap : key'[x] = key[x]

(* But for the bucket that t has locked.                                    *)
OtherLists(t) ==
  \A c \in Buckets \ {Bucket(t)} : List(c)' = List(c) /\ InList(c)' = InList(c) /\ head'[c] = head[c]

(* Most steps do not touch them.                                            *)
LEMMA QuietLists ==
  ASSUME Lists, UNCHANGED <<head, next, key>>
  PROVE  Lists' /\ SameLists
<1>1. \A c \in Buckets : List(c)' = List(c)
  BY DEF List
<1>2. \A c \in Buckets : InList(c)' = InList(c)
  BY <1>1 DEF InList
<1>3. InMap' = InMap
  BY <1>2 DEF InMap
<1> QED
  BY <1>1, <1>2, <1>3 DEF Lists, SameLists

(* A new item comes in front of its list.                                   *)
LinksItem(t, x) ==
  /\ x \in Items \ live /\ live' = live \cup {x}
  /\ key' = [key EXCEPT ![x] = arg[t]] /\ value' = [value EXCEPT ![x] = "there"]
  /\ \A b \in Buckets : b = Bucket(t) => InList(b)' = InList(b) \cup {x}
  /\ InMap' = InMap \cup {x} /\ x \notin InMap

(* What such a step does to the lists.                                      *)
LEMMA LinkLists ==
  ASSUME Typed, Typed', Placing, MapLists, NEW t \in Threads, Link(t)
  PROVE  Lists' /\ OtherLists(t) /\ \E x \in Items : LinksItem(t, x)
<1>1. /\ pc[t] = "search" /\ cur[t] = NULL
  BY DEF Link, Nowhere
<1>2. PICK b \in Buckets : /\ b = Bucket(t) /\ arg[t] \in Keys /\ first[t] = head[b]
                           /\ \A y \in InMap : key[y] # arg[t]
  BY <1>1, WalkTells DEF MapLists
<1>3. PICK x \in Items \ live :
        /\ live' = live \cup {x}
        /\ key' = [key EXCEPT ![x] = arg[t]] /\ value' = [value EXCEPT ![x] = "there"]
        /\ next' = [next EXCEPT ![x] = first[t]]
        /\ head' = [head EXCEPT ![b] = x]
  BY <1>2 DEF Link
<1>4. \A c \in Buckets : IsList(List(c), head[c], next, NULL) /\ InList(c) = Elems(List(c)) /\ InList(c) \subseteq InMap
  BY ListTells DEF MapLists, Lists
<1>5. x \notin InMap
  BY <1>3 DEF MapLists, Removals
<1>6. /\ DOMAIN next = Items /\ next' \in [Items -> Ptr] /\ head \in [Buckets -> Ptr]
      /\ key \in [Items -> Keys \cup {NULL}]
  BY DEF Typed
<1>7. \A c \in Buckets \ {b} : head'[c] = head[c] /\ \A y \in InList(c) : next'[y] = next[y]
  BY <1>3, <1>4, <1>5, <1>6
<1>8. /\ \A c \in Buckets \ {b} : IsList(List(c)', head'[c], next', NULL)
      /\ OtherLists(t)
  BY <1>2, <1>6, <1>7, ListStays DEF OtherLists, MapLists
<1>9. \E s : IsList(s, head'[b], next', NULL) /\ Elems(s) = InList(b) \cup {x}
  <2>1. IsList(List(b), head[b], next, NULL) /\ InList(b) = Elems(List(b)) /\ x \notin Elems(List(b))
    BY <1>2, <1>4, <1>5
  <2>2. x \in DOMAIN next /\ next' = [next EXCEPT ![x] = head[b]] /\ head'[b] = x
    BY <1>2, <1>3, <1>6
  <2>3. \A y \in Elems(List(b)) : next'[y] = next[y]
    BY <2>1, <2>2, <1>6
  <2>4. /\ x \in DOMAIN next /\ DOMAIN next' = DOMAIN next /\ next'[x] = head[b]
    BY <1>6, <2>2
  <2>5. \E s : IsList(s, x, next', NULL) /\ Elems(s) = Elems(List(b)) \cup {x}
    BY <2>1, <2>3, <2>4, ListPrepended
  <2> QED
    BY <2>1, <2>2, <2>5
<1>10. IsList(List(b)', head'[b], next', NULL) /\ InList(b)' = InList(b) \cup {x}
  BY <1>2, <1>6, <1>9, NextListIs
<1>11. InMap' = InMap \cup {x}
  BY <1>2, <1>8, <1>10 DEF InMap, OtherLists
<1>12. LinksItem(t, x)
  BY <1>2, <1>3, <1>5, <1>10, <1>11 DEF LinksItem
<1>13. Lists'
  <2>1. \A c \in Buckets : IsList(List(c)', head'[c], next', NULL)
    BY <1>2, <1>8, <1>10
  <2>2. (\A y \in InMap : key'[y] = key[y]) /\ key'[x] = arg[t]
    BY <1>3, <1>5, <1>6
  <2>3. \A c \in Buckets : \A y \in InList(c)' : key'[y] \in Keys /\ BucketOf(key'[y]) = c
    <3>1. ASSUME NEW c \in Buckets, NEW y \in InList(c)' PROVE key'[y] \in Keys /\ BucketOf(key'[y]) = c
      <4>1. CASE y = x /\ c = b
        BY <1>2, <2>2, <4>1 DEF Bucket
      <4>2. CASE y \in InList(c)
        BY <1>4, <2>2, <4>2 DEF MapLists, Lists
      <4> QED
        BY <1>2, <1>8, <1>10, <3>1, <4>1, <4>2 DEF OtherLists
    <3> QED
      BY <3>1
  <2>4. \A y, z \in InMap' : key'[y] = key'[z] => y = z
    BY <1>2, <1>11, <2>2 DEF MapLists, Lists
  <2>5. \A c \in Buckets : \A y \in InList(c)' : (key[y])' = key'[y] /\ BucketOf(key[y])' = BucketOf(key'[y])
    BY DEF BucketOf
  <2> QED
    BY <2>1, <2>3, <2>4, <2>5 DEF Lists
<1> QED
  BY <1>8, <1>12, <1>13

(* An item is taken off its list.                                           *)
LEMMA UnlinkLists ==
  ASSUME Typed, Typed', Placing, MapLists, NEW t \in Threads, Unlink(t)
  PROVE  /\ Lists' /\ OtherLists(t) /\ key' = key
         /\ cur[t] \in InMap /\ key[cur[t]] = arg[t]
         /\ \A b \in Buckets : b = Bucket(t) => InList(b)' = InList(b) \ {cur[t]}
         /\ InMap' = InMap \ {cur[t]}
<1>1. /\ pc[t] = "search" /\ cur[t] # NULL /\ key[cur[t]] = arg[t] /\ key' = key
  BY DEF Unlink, Here
<1>2. PICK b \in Buckets : b = Bucket(t)
  BY <1>1, WalkTells DEF MapLists
<1> DEFINE s == List(b)
<1>3. PICK k \in 1 .. Len(s) : At(t, k) /\ cur[t] = s[k]
  BY <1>1, <1>2, WalkTells DEF MapLists
<1>4. \A c \in Buckets : IsList(List(c), head[c], next, NULL) /\ InList(c) = Elems(List(c)) /\ InList(c) \subseteq InMap
  BY ListTells DEF MapLists, Lists
<1>5. Len(s) \in Nat /\ \A i \in 1 .. Len(s) : s[i] \in InList(b) /\ s[i] # NULL
  BY <1>2, ListTells DEF MapLists
<1>6. /\ DOMAIN next = Items /\ next' \in [Items -> Ptr] /\ head \in [Buckets -> Ptr]
  BY DEF Typed
<1>7. /\ head' = IF k = 1 THEN [head EXCEPT ![b] = next[s[k]]] ELSE head
      /\ next' = IF k = 1 THEN next ELSE [next EXCEPT ![s[k - 1]] = next[s[k]]]
  <2>1. CASE k = 1
    BY <1>2, <1>3, <2>1 DEF Unlink, At
  <2>2. CASE k # 1
    BY <1>2, <1>3, <1>5, <2>2 DEF Unlink, At
  <2> QED
    BY <2>1, <2>2
<1>8. \A c \in Buckets \ {b} : head'[c] = head[c] /\ \A y \in InList(c) : next'[y] = next[y]
  <2>1. \A c \in Buckets \ {b} : head'[c] = head[c]
    BY <1>6, <1>7
  <2>2. ASSUME NEW c \in Buckets \ {b}, NEW y \in InList(c) PROVE next'[y] = next[y]
    <3>1. k # 1 => s[k - 1] \in InList(b)
      BY <1>5
    <3>2. k # 1 => y # s[k - 1]
      BY <1>2, <2>2, <3>1, ListsApart DEF MapLists
    <3> QED
      BY <1>6, <1>7, <3>2
  <2> QED
    BY <2>1, <2>2
<1>9. /\ \A c \in Buckets \ {b} : IsList(List(c)', head'[c], next', NULL)
      /\ OtherLists(t)
  BY <1>2, <1>6, <1>8, ListStays DEF OtherLists, MapLists
<1>10. \E r : IsList(r, head'[b], next', NULL) /\ Elems(r) = InList(b) \ {s[k]}
  <2>1. IsList(s, head[b], next, NULL) /\ InList(b) = Elems(s)
    BY <1>2, <1>4
  <2>2. head'[b] = IF k = 1 THEN next[s[k]] ELSE head[b]
    BY <1>2, <1>6, <1>7
  <2> DEFINE rest == [i \in 1 .. Len(s) - 1 |-> IF i < k THEN s[i] ELSE s[i + 1]]
  <2>3. IsList(rest, head'[b], next', NULL) /\ Elems(rest) = Elems(s) \ {s[k]}
    BY <1>7, <2>1, <2>2, ListUnlinked
  <2> QED
    BY <2>1, <2>3
<1>11. IsList(List(b)', head'[b], next', NULL) /\ InList(b)' = InList(b) \ {cur[t]}
  BY <1>2, <1>3, <1>6, <1>10, NextListIs
<1>12. cur[t] \in InList(b) /\ cur[t] \in InMap
  BY <1>2, <1>3, <1>4, <1>5
<1>13. InMap' = InMap \ {cur[t]}
  <2>1. \A c \in Buckets \ {b} : cur[t] \notin InList(c)
    BY <1>2, <1>12, ListsApart DEF MapLists
  <2> QED
    BY <1>2, <1>9, <1>11, <2>1 DEF InMap, OtherLists
<1>14. Lists'
  <2>1. \A c \in Buckets : IsList(List(c)', head'[c], next', NULL) /\ InList(c)' \subseteq InList(c)
    BY <1>2, <1>9, <1>11 DEF OtherLists
  <2>2. InMap' \subseteq InMap
    BY <1>13
  <2> QED
    BY <1>1, <2>1, <2>2 DEF Lists, MapLists
<1> QED
  BY <1>1, <1>2, <1>9, <1>11, <1>12, <1>13, <1>14

(* The item that a remove frees is on none.                                 *)
LEMMA FreeLists ==
  ASSUME Typed, Typed', MapLists, NEW x \in Items \ InMap, Free(x), UNCHANGED head
  PROVE  Lists' /\ SameLists
<1>1. /\ next' \in [Items -> Ptr] /\ DOMAIN next = Items /\ DOMAIN key = Items
      /\ next' = [next EXCEPT ![x] = NULL] /\ key' = [key EXCEPT ![x] = NULL]
  BY DEF Typed, Free
<1>2. \A c \in Buckets : InList(c) \subseteq InMap
  BY DEF InMap
<1>3. \A y \in InMap : next'[y] = next[y] /\ key'[y] = key[y]
  <2>1. InMap \subseteq Items
    BY ListTells DEF InMap, MapLists
  <2> QED
    BY <1>1, <2>1
<1>4. \A c \in Buckets : /\ List(c)' = List(c) /\ InList(c)' = InList(c) /\ head'[c] = head[c]
                         /\ IsList(List(c)', head'[c], next', NULL)
  BY <1>1, <1>2, <1>3, ListStays DEF MapLists
<1>5. InMap' = InMap
  BY <1>4 DEF InMap
<1>6. SameLists
  BY <1>3, <1>4, <1>5 DEF SameLists
<1>7. Lists'
  <2>1. \A c \in Buckets : \A y \in InList(c)' : key'[y] \in Keys /\ BucketOf(key'[y]) = c
    BY <1>2, <1>3, <1>4 DEF MapLists, Lists
  <2>2. \A c \in Buckets : \A y \in InList(c)' : BucketOf(key[y])' = BucketOf(key'[y])
    BY DEF BucketOf
  <2>3. \A y, z \in InMap' : key'[y] = key'[z] => y = z
    BY <1>3, <1>5 DEF MapLists, Lists
  <2> QED
    BY <1>4, <2>1, <2>2, <2>3 DEF Lists
<1> QED
  BY <1>6, <1>7

(* The steps that do neither.                                               *)
LEMMA QuietSteps ==
  ASSUME NEW t \in Threads, Move(t), ~Link(t), ~Unlink(t), ~Take(t), ~DropItem(t)
  PROVE  UNCHANGED <<head, next, key, live>>
<1> USE DEF items, heap
<1>1. CASE Enter(t) \/ LockBucket(t) \/ Advance(t) \/ LockShared(t) \/ LockValue(t)
  BY <1>1 DEF Enter, LockBucket, Advance, LockShared, LockValue
<1>2. CASE DropOld(t) \/ Write(t) \/ Release(t) \/ Count(t) \/ Leave(t) \/ DropGuard(t)
  BY <1>2 DEF DropOld, Write, Release, Count, Leave, DropGuard
<1>3. CASE Iterate(t) \/ IterNext(t) \/ DropIter(t) \/ DropHandle(t) \/ DropInner(t)
  BY <1>3 DEF Iterate, IterNext, DropIter, DropHandle, DropInner
<1>4. CASE \E u \in Threads : Clone(t, u)
  BY <1>4 DEF Clone
<1> QED
  BY <1>1, <1>2, <1>3, <1>4 DEF Move, Proceed, Begin

(* What a step does to the lists.                                           *)
LEMMA ListSteps ==
  ASSUME Typed, Typed', Placing, MapLists, NEW t \in Threads, Move(t), ~DropItem(t)
  PROVE  /\ Lists' /\ OtherLists(t) /\ \A x \in InMap : key'[x] = key[x]
         /\ ~Link(t) /\ ~Unlink(t) => SameLists
<1>1. CASE Link(t)
  <2>1. PICK x \in Items : LinksItem(t, x)
    BY <1>1, LinkLists
  <2>2. \A y \in InMap : y \in Items
    BY ListTells DEF InMap, MapLists
  <2> QED
    BY <1>1, <2>1, <2>2, LinkLists DEF LinksItem, Typed
<1>2. CASE Unlink(t)
  BY <1>2, UnlinkLists
<1>3. CASE Take(t)
  <2>1. Removing(t) /\ cur[t] \in Items
    BY <1>3 DEF Take, Goto, Removing, Placing, Place, Typed, Ptr
  <2>2. cur[t] \notin InMap
    BY <2>1 DEF MapLists, Removals
  <2>3. Lists' /\ SameLists
    BY <1>3, <2>1, <2>2, FreeLists DEF Take
  <2> QED
    BY <2>3 DEF SameLists, OtherLists
<1>4. CASE ~Link(t) /\ ~Unlink(t) /\ ~Take(t)
  <2>1. UNCHANGED <<head, next, key>>
    BY <1>4, QuietSteps
  <2>2. Lists' /\ SameLists
    BY <2>1, QuietLists DEF MapLists
  <2> QED
    BY <2>2 DEF SameLists, OtherLists
<1> QED
  BY <1>1, <1>2, <1>3, <1>4

(* The removes under way, and their items, are the same but for a step that   *)
(* begins or ends one's work.                                               *)
LEMMA SameRemoving ==
  ASSUME Typed, Placing, NEW t \in Threads, Move(t), ~Unlink(t), ~Take(t), NEW u \in Threads
  PROVE  /\ Removing(u)' <=> Removing(u)
         /\ Removing(u) => cur'[u] = cur[u] /\ arg'[u] = arg[u]
<1>1. CASE u # t
  BY <1>1, Others DEF Removing
<1>2. CASE u = t
  <2> USE <1>2 DEF Removing, Typed, Goto, walk, counts, items, heap, Placing, Place
  <2>1. CASE Enter(t) \/ LockBucket(t) \/ Advance(t) \/ Link(t)
    BY <2>1 DEF Enter, LockBucket, Advance, Link
  <2>2. CASE LockShared(t) \/ LockValue(t)
    BY <2>2 DEF LockShared, LockValue, Excludes, Here, AfterLock
  <2>3. CASE DropOld(t) \/ Write(t) \/ Count(t)
    BY <2>3 DEF DropOld, Write, Count
  <2>4. CASE Release(t)
    BY <2>4 DEF Release, Done, AfterRelease, Inserted, Nowhere
  <2>5. CASE Leave(t) \/ DropGuard(t)
    BY <2>5 DEF Leave, DropGuard, Return, Guarded
  <2>6. CASE Iterate(t) \/ IterNext(t) \/ DropIter(t)
    BY <2>6 DEF Iterate, IterNext, DropIter
  <2>7. CASE DropHandle(t) \/ DropItem(t) \/ DropInner(t)
    BY <2>7 DEF DropHandle, DropItem, DropInner
  <2>8. CASE \E v \in Threads : Clone(t, v)
    BY <2>8 DEF Clone
  <2> QED
    BY <2>1, <2>2, <2>3, <2>4, <2>5, <2>6, <2>7, <2>8 DEF Move, Proceed, Begin
<1> QED
  BY <1>1, <1>2

(* No item is lost: what leaves a list is in the hands of its remove.        *)
LEMMA RemovalsStep ==
  ASSUME Typed, Typed', Placing, MapLists, NEW t \in Threads, Move(t), ~DropItem(t)
  PROVE  Removals'
<1>1. \A u \in Threads : Removing(u) => cur[u] \in live /\ cur[u] \in Items /\ cur[u] \notin InMap
  BY DEF MapLists, Removals, Removing, Typed, Ptr
<1>2. InMap \subseteq Items
  BY ListTells DEF InMap, MapLists
<1>3. CASE Link(t)
  <2>1. \A u \in Threads : /\ Removing(u)' <=> Removing(u)
                           /\ Removing(u) => cur'[u] = cur[u] /\ arg'[u] = arg[u]
    BY <1>3, SameRemoving DEF Link, Unlink, Take, Goto, Nowhere, Here
  <2>2. PICK x \in Items : LinksItem(t, x)
    BY <1>3, LinkLists
  <2>3. \A u \in Threads : Removing(u) => cur[u] # x /\ key'[cur[u]] = key[cur[u]]
    BY <1>1, <2>2 DEF LinksItem, Typed
  <2>4. \A y \in Items : y \in live' <=> y \in InMap' \/ \E u \in Threads : Removing(u)' /\ cur'[u] = y
    BY <2>1, <2>2 DEF LinksItem, MapLists, Removals
  <2>5. \A u \in Threads : Removing(u)' => cur'[u] \notin InMap' /\ key'[cur'[u]] = arg'[u]
    BY <2>1, <2>2, <2>3 DEF LinksItem, MapLists, Removals
  <2>6. \A u, v \in Threads : Removing(u)' /\ Removing(v)' /\ cur'[u] = cur'[v] => u = v
    BY <2>1 DEF MapLists, Removals
  <2> QED
    BY <2>4, <2>5, <2>6 DEF Removals
<1>4. CASE Unlink(t)
  <2>1. /\ cur[t] \in InMap /\ key[cur[t]] = arg[t] /\ key' = key /\ InMap' = InMap \ {cur[t]}
    BY <1>4, UnlinkLists
  <2>2. /\ live' = live /\ cur' = cur /\ arg' = arg /\ op' = op
        /\ pc[t] = "search" /\ pc'[t] = "release" /\ op[t] = "remove" /\ cur[t] # NULL
    BY <1>4 DEF Unlink, heap, walk, Here, Goto, Typed
  <2>3. /\ Removing(t)' /\ ~Removing(t)
        /\ \A u \in Threads \ {t} : Removing(u)' <=> Removing(u)
    <3>1. \A u \in Threads \ {t} : Removing(u)' <=> Removing(u)
      BY Others DEF Removing
    <3> QED
      BY <2>2, <3>1 DEF Removing
  <2>4. \A y \in Items : y \in live' <=> y \in InMap' \/ \E u \in Threads : Removing(u)' /\ cur'[u] = y
    BY <1>1, <2>1, <2>2, <2>3 DEF MapLists, Removals
  <2>5. \A u \in Threads : Removing(u)' => cur'[u] \notin InMap' /\ key'[cur'[u]] = arg'[u]
    BY <2>1, <2>2, <2>3 DEF MapLists, Removals
  <2>6. \A u, v \in Threads : Removing(u)' /\ Removing(v)' /\ cur'[u] = cur'[v] => u = v
    BY <1>1, <2>1, <2>2, <2>3 DEF MapLists, Removals
  <2> QED
    BY <2>4, <2>5, <2>6 DEF Removals
<1>5. CASE Take(t)
  <2>1. /\ live' = live \ {cur[t]} /\ cur' = cur /\ arg' = arg /\ key' = [key EXCEPT ![cur[t]] = NULL]
        /\ Removing(t) /\ pc'[t] = "leave"
    BY <1>5 DEF Take, Free, walk, Goto, Removing, Typed, Placing, Place
  <2>2. InMap' = InMap
    BY <1>5, ListSteps DEF SameLists, Take, Goto, Link, Unlink, Here, Nowhere
  <2>3. ~Removing(t)' /\ \A u \in Threads \ {t} : Removing(u)' <=> Removing(u)
    <3>1. \A u \in Threads \ {t} : Removing(u)' <=> Removing(u)
      BY Others DEF Removing
    <3> QED
      BY <2>1, <3>1 DEF Removing
  <2>4. \A y \in Items : y \in live' <=> y \in InMap' \/ \E u \in Threads : Removing(u)' /\ cur'[u] = y
    BY <1>1, <2>1, <2>2, <2>3 DEF MapLists, Removals
  <2>5. \A u \in Threads : Removing(u)' => cur'[u] \notin InMap' /\ key'[cur'[u]] = arg'[u]
    <3>1. \A u \in Threads \ {t} : Removing(u) => key'[cur[u]] = key[cur[u]]
      BY <1>1, <2>1 DEF Typed, MapLists, Removals
    <3> QED
      BY <2>1, <2>2, <2>3, <3>1 DEF MapLists, Removals
  <2>6. \A u, v \in Threads : Removing(u)' /\ Removing(v)' /\ cur'[u] = cur'[v] => u = v
    BY <2>1, <2>3 DEF MapLists, Removals
  <2> QED
    BY <2>4, <2>5, <2>6 DEF Removals
<1>6. CASE ~Link(t) /\ ~Unlink(t) /\ ~Take(t)
  <2>1. \A u \in Threads : /\ Removing(u)' <=> Removing(u)
                           /\ Removing(u) => cur'[u] = cur[u] /\ arg'[u] = arg[u]
    BY <1>6, SameRemoving
  <2>2. InMap' = InMap /\ live' = live /\ key' = key
    BY <1>6, ListSteps, QuietSteps DEF SameLists
  <2> QED
    BY <2>1, <2>2 DEF MapLists, Removals
<1> QED
  BY <1>3, <1>4, <1>5, <1>6

(* A walk meets the items of its bucket in order, whatever the others do.     *)
LEMMA WalksStep ==
  ASSUME Typed, Typed', Placing, BucketExclusive, MapLists, NEW t \in Threads, Move(t), ~DropItem(t)
  PROVE  Walks'
<1>1. \A x \in InMap : key'[x] = key[x]
  BY ListSteps
<1>2. ASSUME NEW u \in Threads \ {t}, pc'[u] = "search"
      PROVE  first'[u] = head'[Bucket(u)'] /\ \E i \in 1 .. Len(List(Bucket(u))') + 1 : At(u, i)'
  <2>1. /\ pc[u] = "search" /\ arg'[u] = arg[u] /\ first'[u] = first[u] /\ cur'[u] = cur[u] /\ prev'[u] = prev[u]
    BY <1>2, Others
  <2>2. PICK c \in Buckets : c = Bucket(u) /\ c = Bucket(u)'
    BY <2>1, WalkTells DEF MapLists, Bucket, BucketOf
  <2>3. List(c)' = List(c) /\ head'[c] = head[c]
    <3>1. CASE Link(t) \/ Unlink(t)
      <4>1. c # Bucket(t)
        BY <2>1, <2>2, <3>1 DEF BucketExclusive, Section, Link, Unlink, Here, Nowhere
      <4> QED
        BY <4>1, ListSteps DEF OtherLists
    <3>2. CASE ~Link(t) /\ ~Unlink(t)
      BY <3>2, ListSteps DEF SameLists
    <3> QED
      BY <3>1, <3>2
  <2>4. PICK i \in 1 .. Len(List(c)) + 1 : At(u, i)
    BY <2>1, <2>2 DEF MapLists, Walks
  <2>5. \A j \in 1 .. Len(List(c)) : key'[List(c)[j]] = key[List(c)[j]]
    BY <1>1, ListTells DEF MapLists
  <2>6. Len(List(c)) \in Nat
    BY ListTells DEF MapLists
  <2>7. At(u, i)'
    <3>1. \A j \in 1 .. i - 1 : key'[List(c)[j]] # arg'[u]
      BY <2>1, <2>2, <2>4, <2>5, <2>6 DEF At
    <3> QED
      BY <2>1, <2>2, <2>3, <2>4, <3>1 DEF At
  <2> QED
    BY <2>1, <2>2, <2>3, <2>4, <2>7 DEF MapLists, Walks
<1>3. ASSUME pc'[t] = "search"
      PROVE  first'[t] = head'[Bucket(t)'] /\ \E i \in 1 .. Len(List(Bucket(t))') + 1 : At(t, i)'
  <2>1. LockBucket(t) \/ Advance(t)
    BY <1>3 DEF Typed, Placing, Place, Goto, Move, Proceed, Begin, Enter, Advance, Link, Unlink, LockShared,
       LockValue, AfterLock, Excludes, Here, DropOld, Write, Take, Release, AfterRelease, Count, Leave,
       DropGuard, Return, Iterate, IterNext, DropIter, Clone, DropHandle, DropItem, DropInner
  <2>2. /\ pc[t] \in {"lock", "search"} /\ arg' = arg
        /\ ~Link(t) /\ ~Unlink(t)
    BY <1>3, <2>1 DEF LockBucket, Advance, Goto, Link, Unlink, Typed
  <2>3. PICK c \in Buckets : c = Bucket(t) /\ c = Bucket(t)'
    BY <2>2, BucketType DEF Bucket, BucketOf, Placing, Place
  <2>4. /\ List(c)' = List(c) /\ head'[c] = head[c]
        /\ IsList(List(c), head[c], next, NULL) /\ Len(List(c)) \in Nat
        /\ \A j \in 1 .. Len(List(c)) : key'[List(c)[j]] = key[List(c)[j]] /\ List(c)[j] # NULL
    BY <1>1, <2>2, <2>3, ListSteps, ListTells DEF SameLists, MapLists, Lists
  <2>5. CASE LockBucket(t)
    <3>1. first'[t] = head[c] /\ cur'[t] = head[c] /\ prev'[t] = NULL
      BY <2>3, <2>5 DEF LockBucket, Typed, Placing, Place, Goto
    <3>2. At(t, 1)'
      BY <2>3, <2>4, <3>1 DEF At, IsList
    <3> QED
      BY <2>3, <2>4, <3>1, <3>2
  <2>6. CASE Advance(t)
    <3>1. /\ pc[t] = "search" /\ cur[t] # NULL /\ key[cur[t]] # arg[t] /\ first'[t] = first[t]
          /\ prev'[t] = cur[t] /\ cur'[t] = next[cur[t]]
      BY <2>6 DEF Advance, Here, Nowhere, Typed
    <3>2. PICK i \in 1 .. Len(List(c)) : At(t, i) /\ cur[t] = List(c)[i]
      BY <2>3, <3>1, WalkTells DEF MapLists
    <3>3. cur'[t] = Nth(List(c), i + 1, NULL)
      BY <2>4, <3>1, <3>2 DEF IsList
    <3>4. \A j \in 1 .. i : key'[List(c)[j]] # arg[t]
      BY <2>3, <2>4, <3>1, <3>2 DEF At
    <3>5. At(t, i + 1)'
      BY <2>2, <2>3, <2>4, <3>1, <3>2, <3>3, <3>4 DEF At
    <3>6. first'[t] = head'[c] /\ i + 1 \in 1 .. Len(List(c)') + 1
      <4>1. first[t] = head[c]
        BY <2>3, <3>1, WalkTells DEF MapLists
      <4>2. i + 1 \in 1 .. Len(List(c)) + 1
        BY <2>4, <3>2
      <4> QED
        BY <2>4, <3>1, <4>1, <4>2
    <3> QED
      BY <2>3, <3>5, <3>6
  <2> QED
    BY <2>1, <2>5, <2>6
<1> QED
  BY <1>2, <1>3 DEF Walks

---------------------------------------------------------------------------
(* A call that replaces a value has found it on its list; a guard's value is   *)
(* there, on its list or in the hands of a remove that waits for the guard.   *)
Finds == \A t \in Threads :
  /\ pc[t] \in {"replace", "write"} => cur[t] \in InMap /\ key[cur[t]] = arg[t]
  /\ Guarding(t) => cur[t] \in live /\ value[cur[t]] = "there" /\ key[cur[t]] = arg[t]

(* Only the value that is being replaced is not there, and it has no guards. *)
Values ==
  /\ \A x \in live : value[x] = "there" \/ \E t \in Threads : pc[t] = "write" /\ cur[t] = x
  /\ \A t, u \in Threads : pc[t] = "write" /\ Guarding(u) => Bucket(u) # Bucket(t)

(* Where guards come from.                                                 *)
LEMMA GuardMoves ==
  ASSUME Typed, Placing, NEW t \in Threads, Move(t)
  PROVE  /\ Guarding(t)' => /\ arg'[t] = arg[t] /\ cur'[t] = cur[t] /\ op'[t] \in {"get", "get_mut"}
                            /\ Guarding(t) \/ Here(t)
         /\ pc'[t] \in {"replace", "write"} =>
              arg'[t] = arg[t] /\ cur'[t] = cur[t] /\ (Here(t) \/ DropOld(t)) /\ op'[t] = "insert"
<1> USE DEF Typed, Goto, walk, counts, items, heap, Placing, Place, Guarding, Reads, Writes
<1>1. CASE Enter(t) \/ LockBucket(t) \/ Advance(t) \/ Link(t) \/ Unlink(t)
  BY <1>1 DEF Enter, LockBucket, Advance, Link, Unlink, Nowhere
<1>2. CASE LockShared(t) \/ LockValue(t)
  BY <1>2 DEF LockShared, LockValue, Excludes, Here, AfterLock
<1>3. CASE DropOld(t) \/ Write(t) \/ Take(t) \/ Count(t)
  BY <1>3 DEF DropOld, Write, Take, Count
<1>4. CASE Release(t)
  BY <1>4 DEF Release, Done, AfterRelease, Inserted, Nowhere
<1>5. CASE Leave(t) \/ DropGuard(t)
  BY <1>5 DEF Leave, DropGuard, Return, Guarded
<1>6. CASE Iterate(t) \/ IterNext(t) \/ DropIter(t)
  BY <1>6 DEF Iterate, IterNext, DropIter
<1>7. CASE DropHandle(t) \/ DropItem(t) \/ DropInner(t)
  BY <1>7 DEF DropHandle, DropItem, DropInner
<1>8. CASE \E v \in Threads : Clone(t, v)
  BY <1>8 DEF Clone
<1> QED
  BY <1>1, <1>2, <1>3, <1>4, <1>5, <1>6, <1>7, <1>8 DEF Move, Proceed, Begin

(* The values that a step changes.                                          *)
LEMMA ValueMoves ==
  ASSUME Typed, Placing, NEW t \in Threads, Move(t), ~DropItem(t)
  PROVE  \/ UNCHANGED <<value, live, key>>
         \/ Link(t)
         \/ DropOld(t) /\ UNCHANGED <<live, key>> /\ value' = [value EXCEPT ![cur[t]] = "gone"]
         \/ Write(t) /\ UNCHANGED <<live, key>> /\ value' = [value EXCEPT ![cur[t]] = "there"]
         \/ /\ Take(t) /\ live' = live \ {cur[t]} /\ value' = [value EXCEPT ![cur[t]] = "gone"]
            /\ key' = [key EXCEPT ![cur[t]] = NULL]
<1> USE DEF items, heap
<1>1. CASE Enter(t) \/ LockBucket(t) \/ Advance(t) \/ Link(t) \/ Unlink(t) \/ LockShared(t) \/ LockValue(t)
  BY <1>1 DEF Enter, LockBucket, Advance, Unlink, LockShared, LockValue
<1>2. CASE DropOld(t) \/ Write(t) \/ Take(t)
  BY <1>2 DEF DropOld, Write, Take, Free
<1>3. CASE Release(t) \/ Count(t) \/ Leave(t) \/ DropGuard(t)
  BY <1>3 DEF Release, Count, Leave, DropGuard
<1>4. CASE Iterate(t) \/ IterNext(t) \/ DropIter(t) \/ DropHandle(t) \/ DropInner(t)
  BY <1>4 DEF Iterate, IterNext, DropIter, DropHandle, DropInner
<1>5. CASE \E u \in Threads : Clone(t, u)
  BY <1>5 DEF Clone
<1> QED
  BY <1>1, <1>2, <1>3, <1>4, <1>5 DEF Move, Proceed, Begin

(* What a call finds is there.                                              *)
LEMMA HereTells ==
  ASSUME Typed, Placing, BucketExclusive, MapLists, Finds, Values, NEW t \in Threads, Here(t)
  PROVE  cur[t] \in InMap /\ cur[t] \in live /\ value[cur[t]] = "there" /\ key[cur[t]] = arg[t]
<1>1. pc[t] = "search" /\ cur[t] # NULL /\ key[cur[t]] = arg[t]
  BY DEF Here
<1>2. PICK b \in Buckets : b = Bucket(t)
  BY <1>1, WalkTells DEF MapLists
<1>3. cur[t] \in InMap /\ cur[t] \in Items
  BY <1>1, <1>2, WalkTells, ListTells DEF MapLists
<1>4. cur[t] \in live
  BY <1>3 DEF MapLists, Removals
<1>5. ~ \E u \in Threads : pc[u] = "write" /\ cur[u] = cur[t]
  BY <1>1 DEF Finds, BucketExclusive, Section, Bucket
<1> QED
  BY <1>1, <1>3, <1>4, <1>5 DEF Values

(* A value whose guards are waited for, or that is in the section of another, *)
(* is no other thread's.                                                   *)
LEMMA Excluded ==
  ASSUME Typed, Placing, Holding, HoldExclusive, NEW t \in Threads, NEW u \in Threads, t # u,
         pc[t] \in {"replace", "take"}, Guarding(u)
  PROVE  arg[u] # arg[t]
<1>1. Bucket(t) \in Buckets /\ Bucket(t) \in Locks
  BY BucketType, LocksApart DEF Placing, Place, Bucket
<1>2. hold[Bucket(t)][t] = "e"
  BY <1>1 DEF Holding, Held, Latches, Reads, Placing, Place
<1>3. Guarding(u) => Reads(u) \/ Latches(u)
  BY DEF Guarding, Reads, Writes, Latches, Placing, Place
<1>4. Bucket(u) = Bucket(t) => hold[Bucket(t)][u] # "none"
  BY <1>1, <1>3 DEF Holding, Held
<1> QED
  BY <1>1, <1>2, <1>4 DEF HoldExclusive, Bucket

(* What was found stays.                                                   *)
LEMMA FindsStep ==
  ASSUME Typed, Typed', Placing, Holding, HoldExclusive, BucketExclusive, MapLists, Finds, Values,
         NEW t \in Threads, Move(t), ~DropItem(t)
  PROVE  Finds'
<1>1. \A x \in InMap : key'[x] = key[x]
  BY ListSteps
<1>2. InMap \subseteq Items
  BY ListTells DEF InMap, MapLists
<1>3. ASSUME NEW u \in Threads, u # t, pc[u] \in {"replace", "write"}
      PROVE  cur[u] \in InMap'
  <2>1. cur[u] \in InMap /\ key[cur[u]] = arg[u]
    BY <1>3 DEF Finds
  <2>2. CASE Link(t)
    BY <2>1, <2>2, LinkLists DEF LinksItem
  <2>3. CASE Unlink(t)
    <3>1. pc[t] = "search" /\ arg[u] # arg[t]
      BY <1>3, <2>3 DEF Unlink, Here, BucketExclusive, Section, Bucket
    <3> QED
      BY <2>1, <2>3, <3>1, UnlinkLists
  <2>4. CASE ~Link(t) /\ ~Unlink(t)
    BY <2>1, <2>4, ListSteps DEF SameLists
  <2> QED
    BY <2>2, <2>3, <2>4
<1>4. ASSUME NEW u \in Threads, u # t, Guarding(u)
      PROVE  cur[u] \in live' /\ value'[cur[u]] = "there" /\ key'[cur[u]] = arg[u]
  <2>1. cur[u] \in live /\ value[cur[u]] = "there" /\ key[cur[u]] = arg[u] /\ cur[u] \in Items
    BY <1>4 DEF Finds, Typed
  <2>2. CASE Link(t)
    <3>1. PICK x \in Items : LinksItem(t, x)
      BY <2>2, LinkLists
    <3> QED
      BY <2>1, <3>1 DEF LinksItem, Typed
  <2>3. CASE DropOld(t) \/ Take(t)
    <3>1. pc[t] \in {"replace", "take"} /\ ~Link(t)
      BY <2>3 DEF DropOld, Take, Goto, Link, Nowhere
    <3>2. arg[u] # arg[t]
      BY <1>4, <3>1, Excluded
    <3>3. key[cur[t]] = arg[t]
      BY <3>1 DEF Finds, MapLists, Removals, Removing, Placing, Place
    <3>4. cur[u] # cur[t]
      BY <2>1, <3>2, <3>3
    <3>5. /\ live' = live \/ live' = live \ {cur[t]}
          /\ key' = key \/ key' = [key EXCEPT ![cur[t]] = NULL]
          /\ value' = [value EXCEPT ![cur[t]] = "gone"]
      BY <2>3 DEF DropOld, Take, Free, heap
    <3> QED
      BY <2>1, <3>4, <3>5 DEF Typed
  <2>4. CASE ~Link(t) /\ ~DropOld(t) /\ ~Take(t)
    BY <2>1, <2>4, ValueMoves DEF Typed
  <2> QED
    BY <2>2, <2>3, <2>4
<1>5. ASSUME NEW u \in Threads, u # t
      PROVE  /\ pc'[u] \in {"replace", "write"} => cur'[u] \in InMap' /\ key'[cur'[u]] = arg'[u]
             /\ Guarding(u)' => cur'[u] \in live' /\ value'[cur'[u]] = "there" /\ key'[cur'[u]] = arg'[u]
  <2>1. /\ op'[u] = op[u] /\ arg'[u] = arg[u] /\ cur'[u] = cur[u]
        /\ pc'[u] = pc[u] \/ (pc[u] = "none" /\ pc'[u] = "idle")
    BY <1>5, Others
  <2>2. Guarding(u)' <=> Guarding(u)
    BY <2>1 DEF Guarding, Reads, Writes
  <2> QED
    BY <1>1, <1>3, <1>4, <1>5, <2>1, <2>2 DEF Finds
<1>6. pc'[t] \in {"replace", "write"} => cur'[t] \in InMap' /\ key'[cur'[t]] = arg'[t]
  <2>1. SUFFICES ASSUME pc'[t] \in {"replace", "write"} PROVE cur'[t] \in InMap' /\ key'[cur'[t]] = arg'[t]
    OBVIOUS
  <2>2. arg'[t] = arg[t] /\ cur'[t] = cur[t] /\ (Here(t) \/ DropOld(t)) /\ op'[t] = "insert"
    BY <2>1, GuardMoves
  <2>3. cur[t] \in InMap /\ key[cur[t]] = arg[t]
    BY <2>2, HereTells DEF Finds, DropOld, Goto
  <2>4. InMap' = InMap
    <3>1. ~Link(t) /\ ~Unlink(t)
      BY <2>1 DEF Link, Unlink, Goto, Typed
    <3> QED
      BY <3>1, ListSteps DEF SameLists
  <2> QED
    BY <1>1, <2>2, <2>3, <2>4
<1>7. Guarding(t)' => cur'[t] \in live' /\ value'[cur'[t]] = "there" /\ key'[cur'[t]] = arg'[t]
  <2>1. SUFFICES ASSUME Guarding(t)' PROVE cur'[t] \in live' /\ value'[cur'[t]] = "there" /\ key'[cur'[t]] = arg'[t]
    OBVIOUS
  <2>2. /\ arg'[t] = arg[t] /\ cur'[t] = cur[t] /\ (Guarding(t) \/ Here(t))
        /\ op'[t] \in {"get", "get_mut"}
    BY <2>1, GuardMoves
  <2>3. cur[t] \in live /\ value[cur[t]] = "there" /\ key[cur[t]] = arg[t]
    BY <2>2, HereTells DEF Finds
  <2>4. UNCHANGED <<value, live, key>>
    <3>1. ~Link(t) /\ ~DropOld(t) /\ ~Write(t) /\ ~Take(t)
      BY <2>2 DEF Link, DropOld, Write, Take, Goto, Placing, Place
    <3> QED
      BY <3>1, ValueMoves
  <2> QED
    BY <2>2, <2>3, <2>4
<1> QED
  BY <1>5, <1>6, <1>7 DEF Finds

(* And only the value being replaced is gone.                               *)
LEMMA ValuesStep ==
  ASSUME Typed, Typed', Placing, Placing', Holding, HoldExclusive, BucketExclusive, MapLists, Finds, Values,
         NEW t \in Threads, Move(t), ~DropItem(t)
  PROVE  Values'
<1>1. \A u \in Threads \ {t} :
        /\ op'[u] = op[u] /\ arg'[u] = arg[u] /\ cur'[u] = cur[u] /\ (pc'[u] = "write" <=> pc[u] = "write")
        /\ Guarding(u)' <=> Guarding(u)
  <2>1. ASSUME NEW u \in Threads \ {t}
        PROVE  /\ op'[u] = op[u] /\ arg'[u] = arg[u] /\ cur'[u] = cur[u]
               /\ pc'[u] = pc[u] \/ (pc[u] = "none" /\ pc'[u] = "idle")
    BY <2>1, Others
  <2> QED
    BY <2>1 DEF Guarding, Reads, Writes
<1>2. ASSUME NEW x \in live' PROVE value'[x] = "there" \/ \E u \in Threads : pc'[u] = "write" /\ cur'[u] = x
  <2>1. CASE Link(t)
    <3>1. PICK y \in Items : LinksItem(t, y)
      BY <2>1, LinkLists
    <3>2. pc[t] # "write"
      BY <2>1 DEF Link, Nowhere
    <3>3. CASE x = y
      BY <3>1, <3>3 DEF LinksItem, Typed
    <3>4. CASE x # y
      <4>1. x \in live /\ value'[x] = value[x]
        BY <1>2, <3>1, <3>4 DEF LinksItem, Typed
      <4> QED
        BY <1>1, <3>2, <4>1 DEF Values
    <3> QED
      BY <3>3, <3>4
  <2>2. CASE DropOld(t)
    <3>1. pc[t] = "replace" /\ pc'[t] = "write" /\ cur' = cur /\ live' = live
      BY <2>2 DEF DropOld, Goto, walk, heap, Typed
    <3>2. value' = [value EXCEPT ![cur[t]] = "gone"]
      BY <2>2 DEF DropOld
    <3> QED
      BY <1>1, <1>2, <3>1, <3>2 DEF Values, Typed
  <2>3. CASE Write(t)
    <3>1. cur' = cur /\ live' = live /\ value' = [value EXCEPT ![cur[t]] = "there"]
      BY <2>3 DEF Write, walk, heap
    <3> QED
      BY <1>1, <1>2, <3>1 DEF Values, Typed
  <2>4. CASE ~Link(t) /\ ~DropOld(t) /\ ~Write(t)
    <3>1. pc[t] # "write"
      BY <2>4 DEF Typed, Placing, Place, Goto, Move, Proceed, Begin, Enter, LockBucket, Advance, Link, Unlink, LockShared,
         LockValue, Excludes, Here, Nowhere, DropOld, Take, Release, Done, Count, Leave,
         DropGuard, Iterate, IterNext, DropIter, Clone, DropHandle, DropItem, DropInner
    <3>2. x \in live /\ value'[x] = value[x]
      BY <1>2, <2>4, ValueMoves DEF Typed
    <3> QED
      BY <1>1, <3>1, <3>2 DEF Values
  <2> QED
    BY <2>1, <2>2, <2>3, <2>4
<1>3. ASSUME NEW w \in Threads, NEW u \in Threads, pc'[w] = "write", Guarding(u)'
      PROVE  Bucket(u)' # Bucket(w)'
  <2>1. CASE w # t /\ u # t
    BY <1>1, <1>3, <2>1 DEF Values, Bucket, BucketOf
  <2>2. CASE w = t
    <3>1. arg'[t] = arg[t] /\ (Here(t) \/ DropOld(t)) /\ op'[t] = "insert"
      BY <1>3, <2>2, GuardMoves
    <3>2. DropOld(t) /\ pc[t] = "replace"
      BY <1>3, <2>2, <3>1 DEF Here, DropOld, Goto, Typed, Placing, Place, Move, Proceed, Begin, Enter, LockBucket,
         Advance, Link, Unlink, LockShared, LockValue, AfterLock, Write, Take, Release, AfterRelease, Count, Leave,
         DropGuard, Return, Iterate, IterNext, DropIter, Clone, DropHandle, DropItem, DropInner
    <3>3. u # t
      BY <1>3, <3>1, GuardMoves
    <3>4. Bucket(u) # Bucket(t)
      <4>1. Bucket(t) \in Buckets /\ Bucket(t) \in Locks
        BY <3>2, BucketType, LocksApart DEF Placing, Place, Bucket
      <4>2. hold[Bucket(t)][t] = "e"
        BY <3>2, <4>1 DEF Holding, Held, Latches, Reads, Placing, Place
      <4>3. Guarding(u) => Reads(u) \/ Latches(u)
        BY DEF Guarding, Reads, Writes, Latches, Placing, Place
      <4> QED
        BY <1>1, <1>3, <3>3, <4>1, <4>2, <4>3 DEF Holding, Held, HoldExclusive
    <3> QED
      BY <1>1, <2>2, <3>1, <3>3, <3>4 DEF Bucket, BucketOf
  <2>3. CASE u = t /\ w # t
    <3>1. arg'[t] = arg[t] /\ (Guarding(t) \/ Here(t))
      BY <1>3, <2>3, GuardMoves
    <3>2. Bucket(t) # Bucket(w)
      BY <1>1, <1>3, <2>3, <3>1 DEF Values, Here, BucketExclusive, Section
    <3> QED
      BY <1>1, <2>3, <3>1, <3>2 DEF Bucket, BucketOf
  <2> QED
    BY <2>1, <2>2, <2>3
<1> QED
  BY <1>2, <1>3 DEF Values

(* So a guard's value is safe.                                              *)
LEMMA FoundIsGuarded ==
  ASSUME Typed, Placing, Holding, HoldExclusive, BucketExclusive, Handles,
         Intact => MapLists /\ Finds /\ Values
  PROVE  GuardedValues
<1>1. \A t \in Threads : Reads(t) \/ Writes(t) => pc[t] \notin {"none", "free"}
  BY DEF Reads, Writes
<1>2. ASSUME NEW t \in Threads, Guarding(t) PROVE cur[t] \in live /\ value[cur[t]] = "there"
  BY <1>1, <1>2, OwnerIntact DEF Finds, Guarding
<1>3. ASSUME NEW t \in Threads, Writes(t), NEW u \in Threads \ {t}, Reads(u) \/ Writes(u), cur[u] = cur[t]
      PROVE  FALSE
  <2>1. MapLists /\ Finds /\ Values
    BY <1>1, <1>3, OwnerIntact
  <2>2. \A v \in Threads : Reads(v) \/ Writes(v) => Guarding(v) \/ pc[v] \in {"replace", "write", "take"}
    BY DEF Guarding, Writes
  <2>3. \A v \in Threads : pc[v] = "take" => cur[v] \notin InMap /\ key[cur[v]] = arg[v]
    BY <2>1 DEF MapLists, Removals, Removing, Placing, Place
  <2>4. \A v \in Threads : Reads(v) \/ Writes(v) => key[cur[v]] = arg[v]
    BY <2>1, <2>2, <2>3 DEF Finds
  <2>5. arg[u] = arg[t] /\ Bucket(u) = Bucket(t)
    BY <1>3, <2>4 DEF Bucket
  <2>6. \A v \in Threads : (Reads(v) \/ Writes(v)) /\ pc[v] # "write" => Reads(v) \/ Latches(v)
    BY DEF Writes, Latches
  <2>7. Bucket(t) \in Buckets /\ Bucket(t) \in Locks
    BY <1>3, BucketType, LocksApart DEF Writes, Placing, Place, Bucket
  <2>8. CASE pc[t] # "write" /\ pc[u] # "write"
    <3>1. hold[Bucket(t)][t] = "e"
      BY <1>3, <2>7, <2>8 DEF Holding, Held, Writes, Latches, Reads, Placing, Place
    <3>2. hold[Bucket(t)][u] # "none"
      BY <1>3, <2>5, <2>6, <2>7, <2>8 DEF Holding, Held
    <3> QED
      BY <1>3, <2>7, <3>1, <3>2 DEF HoldExclusive
  <2>9. ASSUME NEW v \in Threads, NEW w \in Threads \ {v}, pc[v] = "write", Reads(w) \/ Writes(w),
               cur[w] = cur[v], Bucket(w) = Bucket(v)
        PROVE  FALSE
    <3>1. cur[v] \in InMap
      BY <2>1, <2>9 DEF Finds
    <3>2. CASE Guarding(w)
      BY <2>1, <2>9, <3>2 DEF Values
    <3>3. CASE pc[w] \in {"replace", "write"}
      BY <2>9, <3>3 DEF BucketExclusive, Section
    <3>4. CASE pc[w] = "take"
      BY <2>3, <2>9, <3>1, <3>4
    <3> QED
      BY <2>2, <2>9, <3>2, <3>3, <3>4
  <2> QED
    BY <1>3, <2>5, <2>8, <2>9
<1> QED
  BY <1>2, <1>3 DEF GuardedValues, Guarding

---------------------------------------------------------------------------
(* What advance_bucket finds from one bucket on, and from the next.          *)
LEMMA FirstStep ==
  ASSUME NEW b \in Buckets
  PROVE  FirstFrom(b) = IF head[b] # NULL THEN head[b] ELSE FirstFrom(b + 1)
<1>1. b \in Nat /\ b + 1 \in Nat /\ Buckets \subseteq Nat
  BY BucketsAssumption DEF Buckets
<1> DEFINE At1(c, n) == /\ c >= n /\ head[c] # NULL /\ FirstFrom(n) = head[c]
                        /\ \A d \in n .. c - 1 : head[d] = NULL
           None(n) == FirstFrom(n) = NULL /\ \A c \in Buckets : c >= n => head[c] = NULL
<1>2. \A n \in Nat : None(n) \/ \E c \in Buckets : At1(c, n)
  BY FirstIs
<1>3. CASE head[b] # NULL
  <2>1. PICK c \in Buckets : At1(c, b)
    BY <1>1, <1>2, <1>3
  <2>2. c = b
    <3>1. c > b => b \in b .. c - 1
      BY <1>1
    <3> QED
      BY <1>1, <1>3, <2>1, <3>1
  <2> QED
    BY <1>3, <2>1, <2>2
<1>4. CASE head[b] = NULL
  <2>1. CASE None(b + 1)
    <3>1. \A c \in Buckets : c >= b => head[c] = NULL
      BY <1>1, <1>4, <2>1
    <3>2. FirstFrom(b) = NULL
      BY <3>1 DEF FirstFrom
    <3> QED
      BY <1>4, <2>1, <3>2
  <2>2. CASE ~None(b + 1)
    <3>1. PICK c \in Buckets : At1(c, b + 1)
      BY <1>1, <1>2, <2>2
    <3>2. PICK d \in Buckets : At1(d, b)
      BY <1>1, <1>2, <3>1
    <3>3. d # b
      BY <1>4, <3>2
    <3>4. d < c => d \in b + 1 .. c - 1
      BY <1>1, <3>2, <3>3
    <3>5. c < d => c \in b .. d - 1
      BY <1>1, <3>1
    <3>6. c = d
      BY <1>1, <3>1, <3>2, <3>4, <3>5
    <3> QED
      BY <1>4, <3>1, <3>2, <3>6
  <2> QED
    BY <2>1, <2>2
<1> QED
  BY <1>3, <1>4

(* The items of the buckets from n on.                                      *)
ListsFrom(n) == UNION {InList(c) : c \in {d \in Buckets : d >= n}}

(* From the first bucket on, an iterator meets all the lists, one after the   *)
(* other.                                                                  *)
LEMMA OnwardFrom ==
  ASSUME Typed, Lists, InMap \subseteq live
  PROVE  \E s : IsList(s, FirstFrom(0), Onward, NULL) /\ Elems(s) = InMap
<1> DEFINE Goal(n) == \E s : IsList(s, FirstFrom(n), Onward, NULL) /\ Elems(s) = ListsFrom(n)
           S == {k \in Nat : k <= BucketCount => Goal(BucketCount - k)}
<1>1. BucketCount \in Nat \ {0} /\ Buckets = 0 .. BucketCount - 1
  BY BucketsAssumption DEF Buckets
<1>2. DOMAIN Onward = Items /\ DOMAIN next = Items /\ NULL \notin Items
  BY SetsAssumption DEF Onward, Typed
<1>3. Goal(BucketCount)
  <2>1. FirstFrom(BucketCount) = NULL /\ ListsFrom(BucketCount) = {}
    BY <1>1 DEF FirstFrom, ListsFrom
  <2>2. IsList(<<>>, NULL, Onward, NULL) /\ Elems(<<>>) = {}
    BY <1>2 DEF IsList, Nth, Distinct, Elems
  <2> QED
    BY <2>1, <2>2
<1>4. ASSUME NEW n \in Buckets, Goal(n + 1) PROVE Goal(n)
  <2>1. PICK r : IsList(r, FirstFrom(n + 1), Onward, NULL) /\ Elems(r) = ListsFrom(n + 1)
    BY <1>4
  <2>2. IsList(List(n), head[n], next, NULL) /\ InList(n) = Elems(List(n))
    BY ListTells DEF Lists
  <2>3. ListsFrom(n) = InList(n) \cup ListsFrom(n + 1)
    BY <1>1 DEF ListsFrom
  <2>4. InList(n) \cap ListsFrom(n + 1) = {}
    <3>1. \A c \in Buckets : c >= n + 1 => InList(n) \cap InList(c) = {}
      BY <1>1, ListsApart
    <3> QED
      BY <3>1 DEF ListsFrom
  <2>5. \A x \in InList(n) : Onward[x] = IF next[x] = NULL THEN FirstFrom(n + 1) ELSE next[x]
    <3>1. ASSUME NEW x \in InList(n) PROVE x \in Items /\ x \in live /\ BucketOf(key[x]) = n
      BY <3>1, ListTells DEF Lists
    <3> QED
      BY <3>1 DEF Onward, After
  <2>6. FirstFrom(n) = IF head[n] = NULL THEN FirstFrom(n + 1) ELSE head[n]
    BY FirstStep
  <2>7. /\ IsList(List(n) \o r, FirstFrom(n), Onward, NULL)
        /\ Elems(List(n) \o r) = Elems(List(n)) \cup Elems(r)
    BY <1>2, <2>1, <2>2, <2>4, <2>5, <2>6, ListJoined
  <2> QED
    BY <2>1, <2>2, <2>3, <2>7
<1>5. 0 \in S
  BY <1>1, <1>3
<1>6. ASSUME NEW k \in Nat, k \in S PROVE k + 1 \in S
  <2>1. SUFFICES ASSUME k + 1 <= BucketCount PROVE Goal(BucketCount - (k + 1))
    OBVIOUS
  <2>2. BucketCount - (k + 1) \in Buckets /\ (BucketCount - (k + 1)) + 1 = BucketCount - k
    BY <1>1, <2>1
  <2>3. Goal(BucketCount - k)
    BY <1>1, <1>6, <2>1
  <2> HIDE DEF Goal
  <2>4. Goal((BucketCount - (k + 1)) + 1)
    BY <2>2, <2>3
  <2> QED
    BY <1>4, <2>2, <2>4
<1> HIDE DEF S
<1>7. BucketCount \in S
  BY <1>1, <1>5, <1>6, Induction
<1>8. Goal(0)
  BY <1>1, <1>7 DEF S
<1>9. ListsFrom(0) = InMap
  BY <1>1 DEF ListsFrom, InMap
<1> QED
  BY <1>8, <1>9

---------------------------------------------------------------------------
(* An iterator has the rest of the map before it, and nobody has a guard on    *)
(* what it has given; the last drop has before it all that is allocated.      *)
Iters == \A t \in Threads : pc[t] = "iter" =>
  /\ IsList(Rest(t), cur[t], Onward, NULL)
  /\ seen[t] \cap Elems(Rest(t)) = {} /\ seen[t] \cup Elems(Rest(t)) = InMap
  /\ \A x \in seen[t] : \A u \in Threads : hold[BucketOf(key[x])][u] = "none"
Frees == \A t \in Threads : pc[t] = "free" =>
  IsList(Rest(t), cur[t], Onward, NULL) /\ live = Elems(Rest(t))
Drained == ~inner => live = {}

(* The rest is the list the pointers make.                                  *)
LEMMA RestIs ==
  ASSUME NEW t \in Threads, NEW s, IsList(s, cur[t], Onward, NULL)
  PROVE  Rest(t) = s
<1>1. DOMAIN Onward = Items /\ IsFiniteSet(DOMAIN Onward)
  BY SetsAssumption DEF Onward
<1> QED
  BY <1>1, WalkIs DEF Rest

(* And after a step.                                                       *)
LEMMA NextRestIs ==
  ASSUME NEW t \in Threads, NEW s, IsList(s, cur'[t], Onward', NULL)
  PROVE  Rest(t)' = s
<1>1. DOMAIN Onward' = Items /\ IsFiniteSet(DOMAIN Onward')
  BY SetsAssumption DEF Onward
<1>2. Walk(cur'[t], Onward') = s
  BY <1>1, WalkIs
<1> QED
  BY <1>2 DEF Rest

(* The walk of the buckets looks at these only.                             *)
LEMMA SameOnward ==
  ASSUME UNCHANGED <<head, next, key, live>>
  PROVE  Onward' = Onward
<1>1. \A b : FirstFrom(b)' = FirstFrom(b)
  BY DEF FirstFrom
<1>2. \A x \in Items : After(x)' = After(x)
  BY <1>1 DEF After, BucketOf
<1> QED
  BY <1>2 DEF Onward

(* The end of the walk, and where it starts and goes, are pointers.          *)
LEMMA FirstPtr == Typed => FirstFrom(0) \in Ptr
BY FirstIs DEF Typed, Ptr

(* The next one.                                                           *)
LEMMA AfterPtr ==
  ASSUME NEW t \in Threads, cur[t] # NULL, IsList(Rest(t), cur[t], Onward, NULL), Elems(Rest(t)) \subseteq live
  PROVE  /\ cur[t] \in Elems(Rest(t)) /\ Onward[cur[t]] = After(cur[t]) /\ After(cur[t]) \in Ptr
         /\ IsList(Tail(Rest(t)), After(cur[t]), Onward, NULL)
         /\ Elems(Tail(Rest(t))) = Elems(Rest(t)) \ {cur[t]}
<1>1. /\ IsList(Tail(Rest(t)), Onward[cur[t]], Onward, NULL) /\ cur[t] \in Elems(Rest(t))
      /\ Elems(Tail(Rest(t))) = Elems(Rest(t)) \ {cur[t]}
  BY ListRest
<1>2. cur[t] \in Items /\ cur[t] \in live
  BY <1>1 DEF IsList, Elems, Onward
<1>3. Onward[cur[t]] = After(cur[t])
  BY <1>2 DEF Onward
<1>4. \A s : \A p : IsList(s, p, Onward, NULL) => p \in Ptr
  BY DEF IsList, Nth, Onward, Ptr
<1> QED
  BY <1>1, <1>3, <1>4

(* While somebody iterates there is no call.                                *)
LEMMA IterAlone ==
  ASSUME MapInv, NEW w \in Threads, pc[w] = "iter", NEW u \in Threads \ {w}
  PROVE  pc[u] \in {"none", "idle", "guard"}
<1>1. hold[Whole][w] = "e" /\ hold[Whole][u] = "none"
  BY LocksApart DEF MapInv, Holding, Held, Calling, HoldExclusive
<1>2. pc[u] # "free"
  BY DEF MapInv, Handles
<1> QED
  BY <1>1, <1>2 DEF MapInv, Holding, Held, Calling, Typed, Places

(* The map does not change, and nobody gets a guard.                         *)
LEMMA IterQuiet ==
  ASSUME MapInv, NEW t \in Threads, Move(t), NEW w \in Threads, pc[w] = "iter"
  PROVE  /\ UNCHANGED <<head, next, key, live>>
         /\ w # t => \A l \in Locks : \A u \in Threads : hold[l][u] = "none" => hold'[l][u] = "none"
<1>1. ~Link(t) /\ ~Unlink(t) /\ ~Take(t) /\ ~DropItem(t)
  <2>1. pc[t] \in {"none", "idle", "guard", "iter"}
    BY IterAlone
  <2> QED
    BY <2>1 DEF Link, Unlink, Take, DropItem, Goto, Here, Nowhere
<1>2. ASSUME w # t, NEW l \in Locks, NEW u \in Threads, hold[l][u] = "none" PROVE hold'[l][u] = "none"
  <2>1. pc[t] \in {"none", "idle", "guard"} /\ hold[Whole][w] = "e"
    BY <1>2, IterAlone DEF MapInv, Holding, Held, Calling
  <2>2. ~Enter(t) /\ ~Iterate(t)
    BY <2>1, <1>2 DEF Enter, Iterate, LockGroup, LockExclusive
  <2>3. DropGuard(t) \/ DropHandle(t) \/ \E v \in Threads : Clone(t, v)
    BY <2>1, <2>2 DEF Move, Proceed, Begin, LockBucket, Advance, Link, Unlink, LockShared, LockValue, Excludes,
       Here, Nowhere, DropOld, Write, Take, Release, Done, Count, Leave, IterNext, DropIter, DropItem,
       DropInner, Goto
  <2>4. CASE DropGuard(t)
    BY <1>2, <2>4 DEF DropGuard, Unlock, MapInv, Typed
  <2>5. CASE ~DropGuard(t)
    BY <1>2, <2>3, <2>5 DEF DropHandle, Clone
  <2> QED
    BY <2>4, <2>5
<1> QED
  BY <1>1, <1>2, QuietSteps

(* With no remove under way, what is allocated is what the map holds.         *)
LEMMA AllInMap ==
  ASSUME Typed, Lists, Removals, \A u \in Threads : ~Removing(u)
  PROVE  live = InMap
<1>1. InMap \subseteq Items
  BY ListTells DEF InMap
<1> QED
  BY <1>1 DEF Removals, Typed

(* An iterator begins at the first item, goes on to the next, and nothing     *)
(* changes on its way.                                                     *)
LEMMA ItersStep ==
  ASSUME MapInv, Intact => MapLists, Iters, NEW t \in Threads, Move(t)
  PROVE  Iters'
<1>1. SUFFICES ASSUME NEW w \in Threads, pc'[w] = "iter"
      PROVE  /\ IsList(Rest(w)', cur'[w], Onward', NULL)
             /\ seen'[w] \cap Elems(Rest(w)') = {} /\ seen'[w] \cup Elems(Rest(w)') = InMap'
             /\ \A x \in seen'[w] : \A u \in Threads : hold'[BucketOf(key[x])'][u] = "none"
  BY DEF Iters
<1>2. CASE pc[w] # "iter"
  <2>1. Iterate(t) /\ w = t
    <3>1. w = t
      BY <1>1, <1>2, Others DEF MapInv
    <3> QED
      BY <1>1, <1>2, <3>1 DEF MapInv, Typed, Placing, Place, Goto, Move, Proceed, Begin, Enter, LockBucket, Advance, Link,
         Unlink, LockShared, LockValue, AfterLock, Excludes, Here, DropOld, Write, Take, Release, AfterRelease, Count, Leave,
         DropGuard, Return, IterNext, DropIter, Clone, DropHandle, DropItem, DropInner
  <2>2. /\ pc[t] = "idle" /\ \A u \in Threads : hold[Whole][u] = "none"
        /\ cur'[t] = FirstFrom(0) /\ seen'[t] = {} /\ UNCHANGED <<head, next, key, live>>
    BY <2>1 DEF Iterate, Goto, LockExclusive, MapInv, Typed, Placing, Place, items, heap
  <2>3. MapLists
    BY <2>2, OwnerIntact DEF MapInv
  <2>4. \A u \in Threads : ~Removing(u)
    BY <2>2 DEF MapInv, Holding, Held, Calling, Removing
  <2>5. live = InMap
    BY <2>3, <2>4, AllInMap DEF MapInv, MapLists
  <2>6. PICK s : IsList(s, FirstFrom(0), Onward, NULL) /\ Elems(s) = InMap
    BY <2>3, <2>5, OnwardFrom DEF MapInv, MapLists
  <2>7. Onward' = Onward /\ InMap' = InMap
    BY <2>2, <2>3, SameOnward, QuietLists DEF MapLists, SameLists
  <2>8. Rest(t)' = s
    BY <2>2, <2>6, <2>7, NextRestIs
  <2> QED
    BY <2>1, <2>2, <2>6, <2>7, <2>8
<1>3. CASE pc[w] = "iter"
  <2>1. /\ IsList(Rest(w), cur[w], Onward, NULL)
        /\ seen[w] \cap Elems(Rest(w)) = {} /\ seen[w] \cup Elems(Rest(w)) = InMap
        /\ \A x \in seen[w] : \A u \in Threads : hold[BucketOf(key[x])][u] = "none"
    BY <1>3 DEF Iters
  <2>2. MapLists /\ UNCHANGED <<head, next, key, live>>
    BY <1>3, OwnerIntact, IterQuiet DEF MapInv
  <2>3. /\ Onward' = Onward /\ InMap' = InMap
        /\ \A x \in InMap : BucketOf(key[x])' = BucketOf(key[x]) /\ BucketOf(key[x]) \in Locks
    <3>1. \A x \in InMap : BucketOf(key[x]) \in Buckets
      BY <2>2 DEF MapLists, Lists, InMap
    <3> QED
      BY <2>2, <3>1, SameOnward, QuietLists, LocksApart DEF MapLists, SameLists, BucketOf
  <2>4. CASE w # t
    <3>1. cur'[w] = cur[w] /\ seen'[w] = seen[w]
      BY <2>4, Others DEF MapInv
    <3>2. Rest(w)' = Rest(w)
      BY <2>1, <2>3, <3>1, NextRestIs
    <3>3. \A l \in Locks : \A u \in Threads : hold[l][u] = "none" => hold'[l][u] = "none"
      BY <1>3, <2>4, IterQuiet
    <3>4. \A x \in seen[w] : \A u \in Threads : hold'[BucketOf(key[x])'][u] = "none"
      BY <2>1, <2>3, <3>3
    <3> QED
      BY <2>1, <2>3, <3>1, <3>2, <3>4
  <2>5. CASE w = t
    <3>1. IterNext(t)
      BY <1>1, <1>3, <2>5 DEF MapInv, Typed, Goto, Move, Proceed, Begin, Enter, LockBucket, Advance, Link,
         Unlink, LockShared, LockValue, Excludes, Here, Nowhere, DropOld, Write, Take, Release, Done, Count, Leave,
         DropGuard, Iterate, DropIter, Clone, DropHandle, DropItem, DropInner
    <3>2. /\ cur[t] # NULL /\ seen'[t] = seen[t] \cup {cur[t]} /\ cur'[t] = After(cur[t]) /\ hold' = hold
          /\ \A u \in Threads : hold[BucketOf(key[cur[t]])][u] = "none"
      BY <3>1 DEF IterNext, MapInv, Typed
    <3>3. Elems(Rest(t)) \subseteq live
      <4>1. InMap \subseteq live
        BY <2>2, ListTells DEF MapInv, MapLists, Removals, InMap
      <4> QED
        BY <2>1, <2>5, <4>1
    <3>4. /\ cur[t] \in Elems(Rest(t))
          /\ IsList(Tail(Rest(t)), After(cur[t]), Onward, NULL)
          /\ Elems(Tail(Rest(t))) = Elems(Rest(t)) \ {cur[t]}
      BY <2>1, <2>5, <3>2, <3>3, AfterPtr
    <3>5. Rest(t)' = Tail(Rest(t))
      <4>1. IsList(Tail(Rest(t)), cur'[t], Onward', NULL)
        BY <2>3, <3>2, <3>4
      <4> QED
        BY <4>1, NextRestIs
    <3>6. \A x \in seen'[t] : x \in InMap /\ \A u \in Threads : hold[BucketOf(key[x])][u] = "none"
      BY <2>1, <2>5, <3>2, <3>4
    <3>7. \A x \in seen'[t] : \A u \in Threads : hold'[BucketOf(key[x])'][u] = "none"
      BY <2>3, <3>2, <3>6
    <3> QED
      BY <2>1, <2>3, <2>5, <3>2, <3>4, <3>5, <3>7
  <2> QED
    BY <2>4, <2>5
<1> QED
  BY <1>2, <1>3

(* The last drop frees what it has behind it.                               *)
LEMMA FreesStep ==
  ASSUME MapInv, Intact => MapLists, Frees, NEW t \in Threads, Move(t)
  PROVE  Frees'
<1>1. SUFFICES ASSUME NEW w \in Threads, pc'[w] = "free"
      PROVE  IsList(Rest(w)', cur'[w], Onward', NULL) /\ live' = Elems(Rest(w)')
  BY DEF Frees
<1>2. w = t
  <2>1. SUFFICES ASSUME w # t PROVE FALSE
    OBVIOUS
  <2>2. pc[w] = "free"
    BY <1>1, <2>1, Others DEF MapInv
  <2>3. pc[t] = "none"
    BY <2>1, <2>2 DEF MapInv, Handles
  <2> QED
    BY <2>3 DEF Goto, Move, Proceed, Begin, Enter, LockBucket, Advance, Link,
       Unlink, LockShared, LockValue, Excludes, Here, Nowhere, DropOld, Write, Take, Release, Done, Count, Leave,
       DropGuard, Iterate, IterNext, DropIter, Clone, DropHandle, DropItem, DropInner
<1>3. CASE DropHandle(t)
  <2>1. /\ pc[t] = "idle" /\ ref_count = 1 /\ cur'[t] = FirstFrom(0) /\ UNCHANGED <<head, next, key, live>>
    BY <1>1, <1>2, <1>3 DEF DropHandle, Goto, MapInv, Typed, items, heap
  <2>2. MapLists
    BY <2>1, OwnerIntact DEF MapInv
  <2>3. \A u \in Threads : ~Removing(u)
    <3>1. Cardinality(Owners) = 1 /\ IsFiniteSet(Owners)
      BY <2>1, OwnersFinite DEF MapInv, Handles
    <3>2. Owners = {t}
      BY <2>1, <3>1, FS_Singleton DEF Owners
    <3> QED
      BY <2>1, <3>2 DEF Owners, Removing
  <2>4. live = InMap
    BY <2>2, <2>3, AllInMap DEF MapInv, MapLists
  <2>5. PICK s : IsList(s, FirstFrom(0), Onward, NULL) /\ Elems(s) = InMap
    BY <2>2, <2>4, OnwardFrom DEF MapInv, MapLists
  <2>6. Onward' = Onward
    BY <2>1, SameOnward
  <2>7. Rest(t)' = s
    BY <2>1, <2>5, <2>6, NextRestIs
  <2> QED
    BY <1>2, <2>1, <2>4, <2>5, <2>6, <2>7
<1>4. CASE DropItem(t)
  <2>1. /\ cur[t] # NULL /\ cur'[t] = After(cur[t]) /\ live' = live \ {cur[t]} /\ head' = head /\ pc[t] = "free"
        /\ next' = [next EXCEPT ![cur[t]] = NULL] /\ key' = [key EXCEPT ![cur[t]] = NULL]
    BY <1>4 DEF DropItem, Free, Goto, MapInv, Typed
  <2>2. IsList(Rest(t), cur[t], Onward, NULL) /\ live = Elems(Rest(t))
    BY <2>1 DEF Frees
  <2>3. /\ IsList(Tail(Rest(t)), After(cur[t]), Onward, NULL)
        /\ Elems(Tail(Rest(t))) = live'
    BY <2>1, <2>2, AfterPtr
  <2>4. \A x \in live' : Onward'[x] = Onward[x]
    <3>1. ASSUME NEW x \in live' PROVE Onward'[x] = Onward[x]
      <4>1. x \in Items /\ x \in live /\ next'[x] = next[x] /\ key'[x] = key[x]
        BY <2>1, <3>1 DEF MapInv, Typed
      <4>2. \A b : FirstFrom(b)' = FirstFrom(b)
        BY <2>1 DEF FirstFrom
      <4>3. After(x)' = After(x)
        BY <4>1, <4>2 DEF After, BucketOf
      <4> QED
        BY <3>1, <4>1, <4>3 DEF Onward
    <3> QED
      BY <3>1
  <2>5. DOMAIN Onward = Items /\ DOMAIN Onward' = Items
    BY DEF Onward
  <2>6. IsList(Tail(Rest(t)), cur'[t], Onward', NULL)
    BY <2>1, <2>3, <2>4, <2>5, ListKept
  <2>7. Rest(t)' = Tail(Rest(t))
    BY <2>6, NextRestIs
  <2> QED
    BY <1>2, <2>3, <2>6, <2>7
<1> QED
  BY <1>1, <1>2, <1>3, <1>4 DEF MapInv, Typed, Placing, Place, Goto, Move, Proceed, Begin, Enter, LockBucket, Advance, Link,
     Unlink, LockShared, LockValue, AfterLock, Excludes, Here, Nowhere, DropOld, Write, Take, Release, Done, AfterRelease,
     Count, Leave, DropGuard, Return, Iterate, IterNext, DropIter, Clone, DropInner

(* And leaves nothing.                                                     *)
LEMMA DrainedStep ==
  ASSUME MapInv, Frees, Drained, NEW t \in Threads, Move(t)
  PROVE  Drained'
<1>1. CASE DropInner(t)
  <2>1. pc[t] = "free" /\ cur[t] = NULL /\ live' = live
    BY <1>1 DEF DropInner, Goto
  <2>2. IsList(Rest(t), NULL, Onward, NULL) /\ live = Elems(Rest(t))
    BY <2>1 DEF Frees
  <2>3. Elems(Rest(t)) = {}
    BY <2>2 DEF IsList, Nth, Elems
  <2> QED
    BY <2>1, <2>2, <2>3 DEF Drained
<1>2. CASE ~DropInner(t)
  <2>1. inner
    BY <1>2, OwnSteps DEF MapInv, Handles, Clone, DropHandle, DropItem, Goto
  <2>2. inner'
    BY <1>2, <2>1, OwnSteps DEF MapInv, Clone, DropHandle, DropItem, Free, heap
  <2> QED
    BY <2>2 DEF Drained
<1> QED
  BY <1>1, <1>2

(* Every variable keeps its type.                                          *)
LEMMA TypedStep ==
  ASSUME MapInv, Intact => MapLists, Iters, Frees, NEW t \in Threads, Move(t)
  PROVE  Typed'
<1> USE DEF MapInv, Typed, Goto, walk, counts, items, heap, Places, Operations
<1>0. ASSUME NEW l, LockGroup(l, t) \/ LockExclusive(l, t) \/ Unlock(l, t)
      PROVE  hold' \in [Locks -> [Threads -> {"none", "g", "e"}]]
  BY <1>0 DEF LockGroup, LockExclusive, Unlock
<1>1. CASE Enter(t)
  <2>1. op' \in [Threads -> Operations \cup {"none"}] /\ arg' \in [Threads -> Keys \cup {NULL}]
    BY <1>1 DEF Enter
  <2>2. pc' \in [Threads -> Places]
    BY <1>1 DEF Enter
  <2> QED
    BY <1>0, <1>1, <2>1, <2>2 DEF Enter
<1>2. CASE LockBucket(t)
  BY <1>2, BucketType DEF LockBucket, Bucket, Placing, Place
<1>3. CASE Advance(t)
  BY <1>3 DEF Advance, Nowhere, Ptr
<1>4. CASE Link(t)
  <2>1. PICK x \in Items \ live :
           /\ live' = live \cup {x}
           /\ key' = [key EXCEPT ![x] = arg[t]]
           /\ value' = [value EXCEPT ![x] = "there"]
           /\ next' = [next EXCEPT ![x] = first[t]]
           /\ head' = [head EXCEPT ![Bucket(t)] = x]
    BY <1>4 DEF Link
  <2>2. arg[t] \in Keys \cup {NULL} /\ first[t] \in Ptr /\ x \in Ptr
    BY DEF Ptr
  <2>3. /\ head' \in [Buckets -> Ptr] /\ next' \in [Items -> Ptr] /\ key' \in [Items -> Keys \cup {NULL}]
        /\ value' \in [Items -> {"there", "gone"}] /\ live' \subseteq Items
    BY <2>1, <2>2
  <2> QED
    BY <1>4, <2>3 DEF Link
<1>5. CASE Unlink(t)
  <2>1. len' \in 0 .. UMax
    <3>1. ASSUME NEW a \in 0 .. UMax PROVE (a - 1) % (UMax + 1) \in 0 .. UMax
      BY UMaxAssumption
    <3> QED
      BY <1>5, <3>1 DEF Unlink
  <2>2. next[cur[t]] \in Ptr
    BY <1>5 DEF Unlink, Here, Ptr
  <2> QED
    BY <1>5, <2>1, <2>2 DEF Unlink
<1>6. CASE LockShared(t)
  BY <1>0, <1>6 DEF LockShared
<1>7. CASE LockValue(t)
  <2>1. AfterLock[op[t]] \in Places
    BY <1>7 DEF LockValue, Excludes, Here, AfterLock, Placing, Place
  <2> QED
    BY <1>0, <1>7, <2>1 DEF LockValue
<1>8. CASE DropOld(t) \/ Write(t)
  <2>1. CASE DropOld(t)
    BY <1>0, <2>1 DEF DropOld
  <2>2. CASE Write(t)
    BY <2>2 DEF Write
  <2> QED
    BY <1>8, <2>1, <2>2
<1>9. CASE Take(t)
  BY <1>0, <1>9 DEF Take, Free, Ptr
<1>10. CASE Release(t)
  BY <1>10 DEF Release, AfterRelease
<1>11. CASE Count(t)
  <2>1. len' \in 0 .. UMax
    <3>1. ASSUME NEW a \in 0 .. UMax PROVE (a + 1) % (UMax + 1) \in 0 .. UMax
      BY UMaxAssumption
    <3> QED
      BY <1>11, <3>1 DEF Count
  <2> QED
    BY <1>11, <2>1 DEF Count
<1>12. CASE Leave(t) \/ DropGuard(t)
  <2>1. hold' \in [Locks -> [Threads -> {"none", "g", "e"}]]
    BY <1>0, <1>12 DEF Leave, DropGuard
  <2>2. /\ pc' \in [Threads -> Places] /\ op' \in [Threads -> Operations \cup {"none"}]
        /\ arg' \in [Threads -> Keys \cup {NULL}] /\ cur' \in [Threads -> Ptr]
    BY <1>12 DEF Leave, DropGuard, Return, Ptr
  <2>3. first' \in [Threads -> Ptr] /\ prev' \in [Threads -> Ptr]
    BY <1>12 DEF Leave, DropGuard, Ptr
  <2> QED
    BY <1>12, <2>1, <2>2, <2>3 DEF Leave, DropGuard
<1>13. CASE Iterate(t)
  BY <1>0, <1>13, FirstPtr DEF Iterate
<1>14. CASE IterNext(t)
  <2>1. pc[t] = "iter" /\ cur[t] # NULL /\ cur'= [cur EXCEPT ![t] = After(cur[t])]
        /\ seen' = [seen EXCEPT ![t] = seen[t] \cup {cur[t]}]
    BY <1>14 DEF IterNext
  <2>2. Elems(Rest(t)) \subseteq InMap /\ InMap \subseteq live
    BY <2>1, OwnerIntact, ListTells DEF Iters, MapLists, Removals, InMap
  <2>3. After(cur[t]) \in Ptr /\ cur[t] \in Items
    BY <2>1, <2>2, AfterPtr DEF Iters, Ptr
  <2>4. cur' \in [Threads -> Ptr]
    BY <2>1, <2>3
  <2>5. seen' \in [Threads -> SUBSET Items]
    BY <2>1, <2>3
  <2> QED
    BY <1>14, <2>4, <2>5 DEF IterNext
<1>15. CASE DropIter(t)
  BY <1>0, <1>15 DEF DropIter, Ptr
<1>16. CASE DropHandle(t)
  <2>1. (IF ref_count = 1 THEN FirstFrom(0) ELSE NULL) \in Ptr
    BY FirstPtr DEF Ptr
  <2> QED
    BY <1>16, <2>1 DEF DropHandle
<1>17. CASE DropItem(t)
  <2>1. After(cur[t]) \in Ptr
    BY <1>17, AfterPtr DEF DropItem, Frees
  <2> QED
    BY <1>17, <2>1 DEF DropItem, Free, Ptr
<1>18. CASE DropInner(t)
  BY <1>18 DEF DropInner
<1>19. CASE \E u \in Threads : Clone(t, u)
  BY <1>19 DEF Clone
<1> QED
  BY <1>1, <1>2, <1>3, <1>4, <1>5, <1>6, <1>7, <1>8, <1>9, <1>10, <1>11, <1>12, <1>13, <1>14, <1>15, <1>16, <1>17,
     <1>18, <1>19 DEF Move, Proceed, Begin

---------------------------------------------------------------------------
(* The inserts that have still to count their items.                        *)
LEMMA CountingMoves ==
  ASSUME Typed, Placing, NEW t \in Threads, Move(t)
  PROVE  /\ \A u \in Threads \ {t} : u \in Counting' <=> u \in Counting
         /\ Link(t) => t \notin Counting /\ t \in Counting'
         /\ Count(t) => t \in Counting /\ t \notin Counting'
         /\ ~Link(t) /\ ~Count(t) => (t \in Counting' <=> t \in Counting)
<1>1. \A u \in Threads \ {t} : u \in Counting' <=> u \in Counting
  <2>1. ASSUME NEW u \in Threads \ {t}
        PROVE  /\ op'[u] = op[u] /\ cur'[u] = cur[u]
               /\ pc'[u] = pc[u] \/ (pc[u] = "none" /\ pc'[u] = "idle")
    BY <2>1, Others
  <2> QED
    BY <2>1 DEF Counting, Inserted
<1>2. /\ Link(t) => t \notin Counting /\ t \in Counting'
      /\ Count(t) => t \in Counting /\ t \notin Counting'
      /\ ~Link(t) /\ ~Count(t) => (t \in Counting' <=> t \in Counting)
  <2> USE DEF Typed, Goto, walk, counts, items, heap, Placing, Place, Counting, Inserted
  <2>1. CASE Link(t) \/ Count(t)
    BY <2>1 DEF Link, Count, Nowhere
  <2>2. CASE Enter(t) \/ LockBucket(t) \/ Advance(t) \/ Unlink(t)
    BY <2>2 DEF Enter, LockBucket, Advance, Unlink, Link, Count
  <2>3. CASE LockShared(t) \/ LockValue(t)
    BY <2>3 DEF LockShared, LockValue, Excludes, Here, AfterLock, Link, Count, Nowhere
  <2>4. CASE DropOld(t) \/ Write(t) \/ Take(t)
    BY <2>4 DEF DropOld, Write, Take, Link, Count
  <2>5. CASE Release(t)
    BY <2>5 DEF Release, Done, AfterRelease, Nowhere, Link, Count
  <2>6. CASE Leave(t) \/ DropGuard(t)
    BY <2>6 DEF Leave, DropGuard, Return, Link, Count, Nowhere
  <2>7. CASE Iterate(t) \/ IterNext(t) \/ DropIter(t)
    BY <2>7 DEF Iterate, IterNext, DropIter, Link, Count, Nowhere
  <2>8. CASE DropHandle(t) \/ DropItem(t) \/ DropInner(t)
    BY <2>8 DEF DropHandle, DropItem, DropInner, Link, Count, Nowhere
  <2>9. CASE \E v \in Threads : Clone(t, v)
    BY <2>9 DEF Clone, Link, Count, Nowhere
  <2> QED
    BY <2>1, <2>2, <2>3, <2>4, <2>5, <2>6, <2>7, <2>8, <2>9 DEF Move, Proceed, Begin
<1> QED
  BY <1>1, <1>2

(* The items of the map are so many.                                        *)
LEMMA MapFinite ==
  ASSUME Typed, Lists
  PROVE  /\ InMap \subseteq Items /\ IsFiniteSet(InMap) /\ Cardinality(InMap) \in Nat
         /\ Cardinality(InMap) <= Cardinality(Items)
         /\ IsFiniteSet(Counting) /\ Cardinality(Counting) \in Nat /\ Cardinality(Counting) <= Cardinality(Threads)
<1>1. InMap \subseteq Items /\ Counting \subseteq Threads
  BY ListTells DEF InMap, Counting
<1> QED
  BY <1>1, SetsAssumption, FS_Subset, FS_CardinalityType

(* len wraps around once at most.                                           *)
LEMMA Wraps ==
  ASSUME NEW M \in Nat \ {0}, NEW a \in 0 .. 2 * M - 1, NEW n \in 0 .. M - 1
  PROVE  a % M = n <=> a = n \/ a = n + M
<1>1. CASE a < M
  <2>1. a % M = a
    BY <1>1
  <2> QED
    BY <1>1, <2>1
<1>2. CASE a >= M
  <2>1. a % M = a - M
    BY <1>2
  <2> QED
    BY <1>2, <2>1
<1> QED
  BY <1>1, <1>2

Accounted == (len + Cardinality(Counting)) % (UMax + 1) = Cardinality(InMap)

(* What the account says.                                                  *)
LEMMA AccountedIs ==
  ASSUME Typed, Lists
  PROVE  /\ Accounted <=> \/ len + Cardinality(Counting) = Cardinality(InMap)
                          \/ len + Cardinality(Counting) = Cardinality(InMap) + UMax + 1
         /\ Cardinality(Counting) \in 0 .. UMax - 1 - Cardinality(InMap) /\ Cardinality(InMap) \in Nat
<1>1. /\ Cardinality(Items) \in Nat /\ Cardinality(Threads) \in Nat
  BY SetsAssumption, FS_CardinalityType
<1> DEFINE c == Cardinality(Counting)  n == Cardinality(InMap)
<1>2. c \in Nat /\ n \in Nat /\ c + n < UMax /\ UMax \in Nat /\ len \in 0 .. UMax
  BY <1>1, MapFinite, UMaxAssumption DEF Typed
<1> HIDE DEF c, n
<1>3. len + c \in 0 .. 2 * (UMax + 1) - 1 /\ n \in 0 .. (UMax + 1) - 1 /\ UMax + 1 \in Nat \ {0}
  BY <1>2
<1>4. (len + c) % (UMax + 1) = n <=> len + c = n \/ len + c = n + (UMax + 1)
  BY <1>3, Wraps
<1>5. n + (UMax + 1) = n + UMax + 1 /\ c \in 0 .. UMax - 1 - n
  BY <1>2
<1>6. (len + c) % (UMax + 1) = n <=> len + c = n \/ len + c = n + UMax + 1
  BY <1>4, <1>5, Zenon
<1> QED
  BY <1>2, <1>5, <1>6, Zenon DEF Accounted, c, n

(* And after a step.                                                       *)
LEMMA NextAccountedIs ==
  (Typed /\ Lists =>
     /\ Accounted <=> \/ len + Cardinality(Counting) = Cardinality(InMap)
                      \/ len + Cardinality(Counting) = Cardinality(InMap) + UMax + 1
     /\ Cardinality(Counting) \in 0 .. UMax - 1 - Cardinality(InMap) /\ Cardinality(InMap) \in Nat)'
<1>1. Typed /\ Lists =>
        /\ Accounted <=> \/ len + Cardinality(Counting) = Cardinality(InMap)
                         \/ len + Cardinality(Counting) = Cardinality(InMap) + UMax + 1
        /\ Cardinality(Counting) \in 0 .. UMax - 1 - Cardinality(InMap) /\ Cardinality(InMap) \in Nat
  BY AccountedIs
<1> QED
  BY <1>1, PTL

(* Each step that links, unlinks or counts keeps the account.                *)
LEMMA AccountedStep ==
  ASSUME Typed, Typed', Placing, MapLists, Accounted, NEW t \in Threads, Move(t), ~DropItem(t)
  PROVE  Accounted'
<1> DEFINE c == Cardinality(Counting)  n == Cardinality(InMap)
           d == Cardinality(Counting') m == Cardinality(InMap')
<1>1. /\ c \in 0 .. UMax - 1 - n /\ n \in Nat /\ UMax \in Nat
      /\ len + c = n \/ len + c = n + UMax + 1
  BY AccountedIs, UMaxAssumption DEF MapLists
<1>2. Lists'
  BY ListSteps
<1>3. /\ d \in 0 .. UMax - 1 - m /\ m \in Nat
      /\ len' + d = m \/ len' + d = m + UMax + 1 => Accounted'
  BY <1>2, NextAccountedIs
<1>4. d = c + (IF t \in Counting' THEN 1 ELSE 0) - (IF t \in Counting THEN 1 ELSE 0)
  <2>1. Counting \in SUBSET Threads /\ Counting' \in SUBSET Threads
    BY DEF Counting
  <2> QED
    BY <2>1, CountingMoves, SetsAssumption, Recount
<1>5. len \in 0 .. UMax /\ len' \in 0 .. UMax
  BY DEF Typed
<1>6. IsFiniteSet(InMap)
  BY MapFinite DEF MapLists
<1>7. CASE Link(t)
  <2>1. len' = len
    BY <1>7 DEF Link, counts
  <2>2. d = c + 1
    BY <1>1, <1>4, <1>7, CountingMoves
  <2>3. m = n + 1
    <3>1. PICK x \in Items : InMap' = InMap \cup {x} /\ x \notin InMap
      BY <1>7, LinkLists DEF LinksItem
    <3> QED
      BY <1>6, <3>1, FS_AddElement
  <2> HIDE DEF c, n, d, m
  <2> QED
    BY <1>1, <1>3, <1>5, <2>1, <2>2, <2>3
<1>8. CASE Unlink(t)
  <2>1. len' = (len - 1) % (UMax + 1)
    BY <1>8 DEF Unlink
  <2>2. d = c
    <3>1. ~Link(t) /\ ~Count(t)
      BY <1>8 DEF Unlink, Link, Count, Goto, Here, Nowhere
    <3> QED
      BY <1>1, <1>4, <3>1, CountingMoves
  <2>3. m = n - 1
    <3>1. InMap' = InMap \ {cur[t]} /\ cur[t] \in InMap
      BY <1>8, UnlinkLists
    <3> QED
      BY <1>6, <3>1, FS_RemoveElement
  <2> HIDE DEF c, n, d, m
  <2>4. CASE len = 0
    <3>1. len' = UMax
      BY <1>1, <2>1, <2>4
    <3> QED
      BY <1>1, <1>3, <2>2, <2>3, <2>4, <3>1
  <2>5. CASE len # 0
    <3>1. len' = len - 1
      BY <1>1, <1>5, <2>1, <2>5
    <3> QED
      BY <1>1, <1>3, <1>5, <2>2, <2>3, <3>1
  <2> QED
    BY <2>4, <2>5
<1>9. CASE ~Link(t) /\ ~Unlink(t)
  <2>1. m = n
    BY <1>9, ListSteps DEF SameLists
  <2>2. CASE Count(t)
    <3>1. len' = (len + 1) % (UMax + 1)
      BY <2>2 DEF Count
    <3>2. d = c - 1
      BY <1>1, <1>4, <2>2, CountingMoves
    <3> HIDE DEF c, n, d, m
    <3>3. CASE len = UMax
      <4>1. len' = 0
        BY <1>1, <3>1, <3>3
      <4> QED
        BY <1>1, <1>3, <2>1, <3>2, <3>3, <4>1
    <3>4. CASE len # UMax
      <4>1. len' = len + 1
        BY <1>1, <1>5, <3>1, <3>4
      <4> QED
        BY <1>1, <1>3, <1>5, <2>1, <3>2, <4>1
    <3> QED
      BY <3>3, <3>4
  <2>3. CASE ~Count(t)
    <3>1. len' = len
      BY <1>9, <2>3 DEF Move, Proceed, Begin, Enter, LockBucket, Advance, LockShared, LockValue, DropOld, Write, Take,
         Release, Leave, DropGuard, Iterate, IterNext, DropIter, Clone, DropHandle, DropItem, DropInner, counts
    <3>2. d = c
      BY <1>1, <1>4, <1>9, <2>3, CountingMoves
    <3> HIDE DEF c, n, d, m
    <3> QED
      BY <1>1, <1>3, <2>1, <3>1, <3>2
  <2> QED
    BY <2>2, <2>3
<1> QED
  BY <1>7, <1>8, <1>9

---------------------------------------------------------------------------
(* The invariant: the locks, the contents of a map in one piece, and the ways   *)
(* through it.                                                             *)
Contents == MapLists /\ Finds /\ Values /\ Accounted
FullInv == MapInv /\ (Intact => Contents) /\ Iters /\ Frees /\ Drained

(* A map that is in one piece after a step was so before.                    *)
LEMMA IntactBefore ==
  ASSUME MapInv, NEW t \in Threads, Move(t), Intact'
  PROVE  Intact /\ ~DropItem(t)
<1>1. inner' /\ pc'[t] # "free"
  BY DEF Intact, Freeing
<1>2. ~DropItem(t) /\ ~DropInner(t)
  BY <1>1 DEF DropItem, DropInner, Goto, MapInv, Typed
<1>3. pc[t] \notin {"none", "free"}
  BY <1>2, OwnSteps DEF MapInv, Clone, DropHandle, Goto
<1> QED
  BY <1>2, <1>3, OwnerIntact DEF MapInv

(* Every step keeps the invariant.                                          *)
LEMMA FullInvMove ==
  ASSUME FullInv, NEW t \in Threads, Move(t)
  PROVE  FullInv'
<1>1. MapInv /\ (Intact => MapLists /\ Finds /\ Values /\ Accounted) /\ Iters /\ Frees /\ Drained
  BY DEF FullInv, Contents
<1>2. Typed'
  BY <1>1, TypedStep
<1>3. Placing' /\ Holding' /\ HoldExclusive' /\ BucketExclusive' /\ Handles'
  BY <1>1, PlacingStep, HoldingStep, HoldExclusiveStep, BucketExclusiveStep, HandlesStep DEF MapInv
<1>4. Iters' /\ Frees' /\ Drained'
  BY <1>1, ItersStep, FreesStep, DrainedStep
<1>5. ASSUME Intact' PROVE Contents'
  <2>1. MapLists /\ Finds /\ Values /\ Accounted /\ ~DropItem(t)
    BY <1>1, <1>5, IntactBefore
  <2>2. Lists' /\ Removals' /\ Walks'
    BY <1>1, <1>2, <2>1, ListSteps, RemovalsStep, WalksStep DEF MapInv
  <2>3. Finds'
    BY <1>1, <1>2, <2>1, FindsStep DEF MapInv
  <2>4. Values'
    BY <1>1, <1>2, <1>3, <2>1, ValuesStep DEF MapInv
  <2>5. Accounted'
    BY <1>1, <1>2, <2>1, AccountedStep DEF MapInv
  <2> QED
    BY <2>2, <2>3, <2>4, <2>5 DEF Contents, MapLists
<1> QED
  BY <1>2, <1>3, <1>4, <1>5 DEF FullInv, MapInv

(* And so does a step that changes nothing.                                  *)
LEMMA FullInvStutter ==
  ASSUME FullInv, UNCHANGED vars
  PROVE  FullInv'
<1>1. /\ UNCHANGED <<head, busy, hold, len, ref_count, key, value, next, live, inner, pc, op, arg>>
      /\ UNCHANGED <<first, prev, cur, seen>>
  BY DEF vars, counts, items, heap, walk
<1>2. \A c \in Buckets : List(c)' = List(c) /\ InList(c)' = InList(c)
  <2>1. \A c \in Buckets : List(c)' = List(c)
    BY <1>1 DEF List
  <2> QED
    BY <2>1 DEF InList
<1>3. InMap' = InMap
  BY <1>2 DEF InMap
<1>4. Onward' = Onward /\ \A t \in Threads : Rest(t)' = Rest(t)
  <2>1. Onward' = Onward
    BY <1>1, SameOnward
  <2> QED
    BY <1>1, <2>1 DEF Rest
<1>5. MapInv'
  <2>1. Typed' /\ Placing'
    BY <1>1 DEF FullInv, MapInv, Typed, Placing, Place
  <2>2. Holding' /\ HoldExclusive'
    BY <1>1 DEF FullInv, MapInv, Holding, Held, HoldExclusive, Reads, Latches, Bucket, BucketOf
  <2>3. BucketExclusive' /\ Handles'
    <3>1. Owners' = Owners
      BY <1>1 DEF Owners
    <3> QED
      BY <1>1, <3>1 DEF FullInv, MapInv, BucketExclusive, Bucket, BucketOf, Handles
  <2> QED
    BY <2>1, <2>2, <2>3 DEF MapInv
<1>6. Iters' /\ Frees' /\ Drained'
  BY <1>1, <1>3, <1>4 DEF FullInv, Iters, Frees, Drained, BucketOf
<1>7. ASSUME Intact' PROVE Contents'
  <2>1. MapLists /\ Finds /\ Values /\ Accounted
    BY <1>1, <1>7 DEF FullInv, Contents, Intact, Freeing
  <2>2. \A t \in Threads : Removing(t)' <=> Removing(t)
    BY <1>1 DEF Removing
  <2>3. Lists'
    BY <1>1, <2>1, QuietLists DEF MapLists
  <2>4. Removals'
    BY <1>1, <1>3, <2>1, <2>2 DEF MapLists, Removals
  <2>5. Walks'
    <3>1. ASSUME NEW t \in Threads, pc'[t] = "search"
          PROVE  first'[t] = head'[Bucket(t)'] /\ \E i \in 1 .. Len(List(Bucket(t))') + 1 : At(t, i)'
      <4>1. PICK c \in Buckets : c = Bucket(t) /\ c = Bucket(t)'
        BY <1>1, <2>1, <3>1, WalkTells DEF MapLists, FullInv, MapInv, Bucket, BucketOf
      <4>2. first[t] = head[c] /\ \E i \in 1 .. Len(List(c)) + 1 : At(t, i)
        BY <1>1, <2>1, <3>1, <4>1 DEF MapLists, Walks
      <4> QED
        BY <1>1, <1>2, <4>1, <4>2 DEF At
    <3> QED
      BY <3>1 DEF Walks
  <2>6. Finds' /\ Values'
    <3>1. \A t \in Threads : Guarding(t)' <=> Guarding(t)
      BY <1>1 DEF Guarding, Reads, Writes
    <3> QED
      BY <1>1, <1>3, <2>1, <3>1 DEF Finds, Values, Bucket, BucketOf
  <2>7. Accounted'
    <3>1. Counting' = Counting
      BY <1>1 DEF Counting, Inserted
    <3> QED
      BY <1>1, <1>3, <2>1, <3>1 DEF Accounted
  <2> QED
    BY <2>3, <2>4, <2>5, <2>6, <2>7 DEF Contents, MapLists
<1> QED
  BY <1>5, <1>6, <1>7 DEF FullInv

(* A map is empty at first, and one thread has it.                            *)
LEMMA FullInvInit == Init => FullInv
<1> SUFFICES ASSUME Init PROVE FullInv
  OBVIOUS
<1>1. PICK t \in Threads : pc = [u \in Threads |-> IF u = t THEN "idle" ELSE "none"]
  BY DEF Init
<1>2. /\ head = [b \in Buckets |-> NULL] /\ next = [x \in Items |-> NULL] /\ live = {} /\ len = 0
      /\ inner /\ ref_count = 1 /\ \A u \in Threads : op[u] = "none" /\ pc[u] \in {"idle", "none"}
  BY <1>1 DEF Init
<1>3. Typed
  BY <1>1, UMaxAssumption DEF Init, Typed, Places, Ptr
<1>4. Placing
  BY <1>1 DEF Init, Placing, Place
<1>5. Holding /\ HoldExclusive
  BY <1>2, LocksApart DEF Init, Holding, Held, HoldExclusive, Reads, Latches, Calling
<1>6. BucketExclusive
  BY <1>2 DEF BucketExclusive, Section
<1>7. Handles
  <2>1. Owners = {t}
    BY <1>1 DEF Owners
  <2> QED
    BY <1>1, <1>2, <2>1, FS_Singleton DEF Handles
<1>8. \A b \in Buckets : IsList(<<>>, head[b], next, NULL) /\ List(b) = <<>> /\ InList(b) = {}
  <2>1. ASSUME NEW b \in Buckets PROVE IsList(<<>>, head[b], next, NULL) /\ Elems(<<>>) = {}
    BY <1>2, SetsAssumption DEF IsList, Nth, Distinct, Elems
  <2> QED
    BY <1>3, <2>1, ListIs
<1>9. InMap = {}
  BY <1>8 DEF InMap
<1>10. Lists /\ Removals /\ Walks
  <2>1. Lists
    BY <1>8, <1>9 DEF Lists
  <2>2. Removals /\ Walks
    BY <1>2, <1>9 DEF Removals, Removing, Walks
  <2> QED
    BY <2>1, <2>2
<1>11. Finds /\ Values
  BY <1>2 DEF Finds, Values, Guarding, Reads, Writes
<1>12. Accounted
  <2>1. Counting = {}
    BY <1>2 DEF Counting
  <2>2. len + Cardinality(Counting) = Cardinality(InMap)
    BY <1>2, <1>9, <2>1, FS_EmptySet
  <2> QED
    BY <1>3, <1>10, <2>2, AccountedIs
<1>13. Iters /\ Frees /\ Drained
  BY <1>2 DEF Iters, Frees, Drained
<1> QED
  BY <1>3, <1>4, <1>5, <1>6, <1>7, <1>10, <1>11, <1>12, <1>13 DEF FullInv, MapInv, Contents, MapLists

(* The invariant holds throughout.                                          *)
LEMMA MapCorrect == Spec => []FullInv
<1>1. FullInv /\ [Next]_vars => FullInv'
  BY FullInvMove, FullInvStutter DEF Next, Gone, Move
<1> QED
  BY <1>1, FullInvInit, PTL DEF Spec

---------------------------------------------------------------------------
(* Every variable has its type: ref_count is never taken below zero, and no     *)
(* pointer or walk leaves the items.  Of len it says only that it is a usize:  *)
(* the code takes it below zero for a while, and there it wraps around          *)
(* (LenAccounts says what it is worth then).                                 *)
THEOREM TypeCorrect == Spec => []TypeOK
<1>1. FullInv => TypeOK
  BY OwnersFinite DEF FullInv, MapInv, Typed, Handles, TypeOK
<1> QED
  BY <1>1, MapCorrect, PTL

(* ref_count counts the handles; who frees the map has it alone, and frees all   *)
(* of it.                                                                  *)
THEOREM HandlesCorrect == Spec => []HandlesCounted
<1>1. FullInv => HandlesCounted
  BY DEF FullInv, MapInv, Handles, Drained, HandlesCounted, Owners, Freeing
<1> QED
  BY <1>1, MapCorrect, PTL

(* The lists stay in order for any number of threads, items, keys and buckets:  *)
(* no item is lost, freed on its list, or freed by two removes, and no key has   *)
(* two.                                                                    *)
THEOREM ConservationCorrect == Spec => []Conservation
<1>1. ASSUME FullInv, Intact
      PROVE  LET map == InMap
                 removers == {t \in Threads : Removing(t)}
                 hands == {cur[t] : t \in removers}
             IN  /\ live = map \cup hands
                 /\ map \cap hands = {}
                 /\ Cardinality(hands) = Cardinality(removers)
                 /\ \A b \in Buckets : /\ Chain(head[b], next)[Cardinality(Items)] = NULL
                                       /\ \A x \in InList(b) : BucketOf(key[x]) = b
                 /\ \A x, y \in map : key[x] = key[y] => x = y
  <2> DEFINE removers == {t \in Threads : Removing(t)}
             hands == {cur[t] : t \in removers}
             f == [t \in removers |-> cur[t]]
  <2>1. Typed /\ Lists /\ Removals
    BY <1>1 DEF FullInv, MapInv, Contents, MapLists
  <2>2. live = InMap \cup hands /\ InMap \cap hands = {}
    <3>1. InMap \subseteq Items /\ hands \subseteq Items
      BY <2>1, MapFinite DEF Typed, Ptr, Removing
    <3> QED
      BY <2>1, <3>1 DEF Removals, Typed
  <2>3. Cardinality(hands) = Cardinality(removers)
    <3>1. f \in Injection(removers, hands)
      BY <2>1 DEF Injection, IsInjective, Removals
    <3>2. f \in Surjection(removers, hands)
      BY DEF Surjection
    <3>3. ExistsBijection(removers, hands)
      BY <3>1, <3>2 DEF Bijection, ExistsBijection
    <3>4. IsFiniteSet(removers)
      BY SetsAssumption, FS_Subset
    <3> QED
      BY <3>3, <3>4, FS_Bijection
  <2>4. ASSUME NEW b \in Buckets
        PROVE  Chain(head[b], next)[Cardinality(Items)] = NULL /\ \A x \in InList(b) : BucketOf(key[x]) = b
    <3>1. IsList(List(b), head[b], next, NULL) /\ DOMAIN next = Items /\ IsFiniteSet(DOMAIN next)
      BY <2>1, SetsAssumption DEF Lists, Typed
    <3>2. Chain(head[b], next)[Cardinality(DOMAIN next)] = NULL
      BY <3>1, WalkIs
    <3> QED
      BY <2>1, <3>1, <3>2 DEF Lists
  <2>5. \A x, y \in InMap : key[x] = key[y] => x = y
    BY <2>1 DEF Lists
  <2> QED
    BY <2>2, <2>3, <2>4, <2>5
<1>2. FullInv => Conservation
  BY <1>1 DEF Conservation
<1> QED
  BY <1>2, MapCorrect, PTL

(* len differs from the number of items by the inserts that have still to count *)
(* theirs, modulo usize::MAX + 1, however the calls interleave.               *)
THEOREM LenCorrect == Spec => []LenAccounts
<1>1. FullInv => LenAccounts
  BY DEF FullInv, Contents, Accounted, LenAccounts
<1> QED
  BY <1>1, MapCorrect, PTL

(* No call disturbs the value that a guard gives access to.                   *)
THEOREM GuardedCorrect == Spec => []GuardedValues
<1>1. FullInv => GuardedValues
  BY FoundIsGuarded DEF FullInv, MapInv, Contents
<1> QED
  BY <1>1, MapCorrect, PTL

(* Nor one that an iterator has given its caller.                             *)
THEOREM YieldedCorrect == Spec => []YieldedValues
<1>1. ASSUME FullInv, NEW t \in Threads, pc[t] = "iter", NEW x \in seen[t]
      PROVE  /\ x \in live /\ value[x] = "there"
             /\ \A u \in Threads : Writes(u) => cur[u] # x
  <2>1. MapInv /\ MapLists /\ Finds /\ Values
    BY <1>1, OwnerIntact DEF FullInv, Contents, MapInv
  <2>2. x \in InMap /\ \A u \in Threads : hold[BucketOf(key[x])][u] = "none"
    BY <1>1 DEF FullInv, Iters
  <2>3. \A u \in Threads : pc[u] \in {"none", "idle", "guard", "iter"}
    BY <1>1, <2>1, IterAlone
  <2>4. x \in live
    BY <2>1, <2>2, MapFinite DEF MapLists, Removals, MapInv
  <2>5. value[x] = "there"
    BY <2>1, <2>3, <2>4 DEF Values
  <2>6. ASSUME NEW u \in Threads, Writes(u), cur[u] = x PROVE FALSE
    <3>1. pc[u] = "guard" /\ op[u] = "get_mut" /\ cur[u] # NULL
      BY <2>3, <2>6 DEF Writes
    <3>2. key[x] = arg[u]
      BY <2>1, <2>6, <3>1 DEF Finds, Guarding, Reads, Writes
    <3>3. hold[Bucket(u)][u] = "e" /\ BucketOf(key[x]) = Bucket(u)
      BY <2>1, <3>1, <3>2, BucketType DEF MapInv, Holding, Held, Latches, Reads, Placing, Place, Bucket
    <3> QED
      BY <2>2, <3>3
  <2> QED
    BY <2>4, <2>5, <2>6
<1>2. FullInv => YieldedValues
  BY <1>1 DEF YieldedValues
<1> QED
  BY <1>2, MapCorrect, PTL

(* An iterator gives every item of the map once, over any number of buckets.   *)
THEOREM IterCorrect == Spec => []IterCoversMap
<1>1. ASSUME FullInv, NEW t \in Threads, pc[t] = "iter"
      PROVE  /\ seen[t] \cup {Rest(t)[i] : i \in DOMAIN Rest(t)} = InMap
             /\ Cardinality(seen[t]) + Len(Rest(t)) = Cardinality(InMap)
  <2>1. /\ IsList(Rest(t), cur[t], Onward, NULL)
        /\ seen[t] \cap Elems(Rest(t)) = {} /\ seen[t] \cup Elems(Rest(t)) = InMap
    BY <1>1 DEF FullInv, Iters
  <2>2. Typed /\ Lists
    BY <1>1, OwnerIntact DEF FullInv, Contents, MapInv, MapLists
  <2>3. IsFiniteSet(seen[t]) /\ Cardinality(seen[t]) \in Nat
    <3>1. seen[t] \subseteq InMap
      BY <2>1
    <3> QED
      BY <2>2, <3>1, MapFinite, FS_Subset, FS_CardinalityType
  <2>4. IsFiniteSet(Elems(Rest(t))) /\ Cardinality(Elems(Rest(t))) = Len(Rest(t)) /\ Len(Rest(t)) \in Nat
    BY <2>1, DistinctLength DEF IsList
  <2>5. Cardinality(InMap) = Cardinality(seen[t]) + Len(Rest(t))
    <3> DEFINE S == seen[t]  R == Elems(Rest(t))
    <3>1. S \cap R = {} /\ S \cup R = InMap /\ IsFiniteSet(S) /\ IsFiniteSet(R)
      BY <2>1, <2>3, <2>4
    <3> HIDE DEF S, R
    <3>2. Cardinality(S \cup R) = Cardinality(S) + Cardinality(R) - Cardinality(S \cap R)
      BY <3>1, FS_Union
    <3>3. Cardinality({}) = 0
      BY FS_EmptySet
    <3>4. Cardinality(InMap) = Cardinality(S) + Cardinality(R) - 0
      BY <3>1, <3>2, <3>3
    <3> QED
      BY <2>3, <2>4, <3>4 DEF S, R
  <2> QED
    BY <2>1, <2>5 DEF Elems
<1>2. FullInv => IterCoversMap
  BY <1>1 DEF IterCoversMap
<1> QED
  BY <1>2, MapCorrect, PTL
=============================================================================
