---------------------- MODULE AtomicHashMapProperties ----------------------
(* What must hold of AtomicHashMap, and its refinement of ConcurrentMap.   *)
EXTENDS AtomicHashMap, LinkedLists

Places == {"none", "idle", "lock", "search", "reclaim", "replace", "write", "take", "release", "count", "leave",
           "guard", "iter", "free"}

(* Every variable has its type; no handle is dropped more often than counted. *)
TypeOK ==
  /\ head \in [Buckets -> Ptr] /\ busy \in [Buckets -> BOOLEAN]
  /\ hold \in [Locks -> [Threads -> {"none", "g", "e"}]]
  /\ len \in 0 .. UMax /\ ref_count \in Nat
  /\ key \in [Items -> Keys \cup {NULL}] /\ next \in [Items -> Ptr]
  /\ value \in [Items -> {"there", "gone"}]
  /\ live \subseteq Items /\ inner \in BOOLEAN
  /\ pc \in [Threads -> Places] /\ op \in [Threads -> Operations \cup {"none"}]
  /\ arg \in [Threads -> Keys \cup {NULL}]
  /\ {first, prev, cur} \subseteq [Threads -> Ptr]
  /\ seen \in [Threads -> SUBSET Items]

---------------------------------------------------------------------------
Freeing == {t \in Threads : pc[t] = "free"}
Intact == inner /\ Freeing = {}

(* The list of bucket b.                                                   *)
List(b) == Walk(head[b], next)
InList(b) == {List(b)[i] : i \in DOMAIN List(b)}
InMap == UNION {InList(b) : b \in Buckets}

(* The item a remove has taken out and not yet freed.                      *)
Removing(t) == /\ op[t] = "remove" /\ cur[t] # NULL
               /\ pc[t] \in {"release", "reclaim", "take"}

(* The lists stay in order under every interleaving: each item is on the list *)
(* its key hashes to, once, no two items have the same key, and the items     *)
(* allocated are those on the lists and those that a remove has unlinked and   *)
(* still has to free, each by one remove.                                     *)
Conservation ==
  Intact =>
    LET map == InMap
        removers == {t \in Threads : Removing(t)}
        hands == {cur[t] : t \in removers}
    IN  /\ live = map \cup hands
        /\ map \cap hands = {}
        /\ Cardinality(hands) = Cardinality(removers)
        /\ \A b \in Buckets : /\ Chain(head[b], next)[Cardinality(Items)] = NULL
                              /\ \A x \in InList(b) : BucketOf(key[x]) = b
        /\ \A x, y \in map : key[x] = key[y] => x = y

(* len differs from the number of items by the inserts that have linked an     *)
(* item and not yet counted it, modulo usize::MAX + 1: a remove that comes     *)
(* between the two may take it below zero, and it comes back.  When no call is *)
(* under way it is exact (test/atomic_map.rs:176-177).                         *)
Counting == {t \in Threads : Inserted(t) /\ pc[t] \in {"release", "count"}}
LenAccounts ==
  Intact => (len + Cardinality(Counting)) % (UMax + 1) = Cardinality(InMap)

(* A thread that a guard, or the lock of one, gives access to a value.      *)
Reads(t) == op[t] = "get" /\ cur[t] # NULL /\ pc[t] \in {"release", "leave", "guard"}
Writes(t) ==
  \/ op[t] = "get_mut" /\ cur[t] # NULL /\ pc[t] \in {"release", "leave", "guard"}
  \/ pc[t] \in {"replace", "write", "take"}

(* A guard keeps its value: while it lasts, no insert drops or overwrites the  *)
(* value, no remove frees the item, though either may have found it before,    *)
(* and a guard that can write has the value to itself.                         *)
GuardedValues ==
  \A t \in Threads :
    /\ Reads(t) \/ (Writes(t) /\ op[t] = "get_mut") =>
         cur[t] \in live /\ value[cur[t]] = "there"
    /\ Writes(t) => \A u \in Threads \ {t} :
                      (Reads(u) \/ Writes(u)) => cur[u] # cur[t]

(* What an iterator has given its caller stays as it is until the iterator is  *)
(* dropped: no guard can write it, nobody replaces or frees it.               *)
YieldedValues ==
  \A t \in Threads : pc[t] = "iter" =>
    \A x \in seen[t] :
      /\ x \in live /\ value[x] = "there"
      /\ \A u \in Threads : Writes(u) => cur[u] # x

(* The items an iterator, or the last drop, has still before it.             *)
Onward == [x \in Items |-> IF x \in live THEN After(x) ELSE NULL]
Rest(t) == Walk(cur[t], Onward)

(* An iterator gives every item once: what it has given, and what it still     *)
(* will, are at any time the items of the map, which does not change meanwhile. *)
IterCoversMap ==
  \A t \in Threads : pc[t] = "iter" =>
    /\ seen[t] \cup {Rest(t)[i] : i \in DOMAIN Rest(t)} = InMap
    /\ Cardinality(seen[t]) + Len(Rest(t)) = Cardinality(InMap)

(* ref_count counts the handles, so the thread that frees the items is alone   *)
(* with them, and frees them all.                                             *)
HandlesCounted ==
  /\ ref_count = Cardinality({t \in Threads : pc[t] \notin {"none", "free"}})
  /\ \A t \in Freeing : \A u \in Threads \ {t} : pc[u] = "none"
  /\ ~inner => live = {}

---------------------------------------------------------------------------
(* Refinement.  An insert that replaces a value takes effect where it finds    *)
(* the item, a new one where it is linked; a remove where it unlinks.          *)
Answer(t) == IF pc[t] \in {"lock", "search"} THEN "pending"
             ELSE IF cur[t] # NULL THEN "found" ELSE "absent"

CallOf(t) == IF pc[t] \in {"none", "idle", "guard", "iter", "free"} THEN [op |-> "none"]
             ELSE [op |-> op[t], key |-> arg[t], answer |-> Answer(t)]

(* Every call on the map takes effect in one step, on one key, and answers for  *)
(* that step: the map is linearizable.                                         *)
Abstract == INSTANCE ConcurrentMap WITH
  present <- IF ref_count = 0 THEN {} ELSE {key[x] : x \in InMap},
  call <- [t \in Threads |-> CallOf(t)]

Refines == Abstract!Spec

---------------------------------------------------------------------------
(* A call that has its bucket, and waits at the bucket's Mutex though nobody     *)
(* holds it.                                                                *)
KeptOut(t) == /\ pc[t] = "search" /\ WaitsForGuards(t)
              /\ \A u \in Threads : hold[Bucket(t)][u] = "none"

(* A bucket comes free again and again, unless the Mutex of its guards fails:    *)
(* the calls never wait for each other or for guards without end, since guards   *)
(* cannot be renewed without the bucket.  What can keep a bucket for good is a   *)
(* call that its Mutex leaves asleep after the last guard has gone, which is     *)
(* what run mutex_lost_wakeup shows Mutex to do.                               *)
BucketsComeFree ==
  \A b \in Buckets :
    []<>~busy[b] \/ <>[]\E t \in Threads : KeptOut(t) /\ Bucket(t) = b

(* An iterator that waits for a guard in its way gets past it, to the end: it    *)
(* spins and does not sleep, and no call can take another guard meanwhile.      *)
IterReachesEnd == \A t \in Threads : pc[t] = "iter" ~> (pc[t] # "iter" \/ cur[t] = NULL)
=============================================================================
