------------------------ MODULE AtomicVecProperties ------------------------
(***************************************************************************)
(* What must hold of AtomicVec, and its refinement of PocketQueue.         *)
(***************************************************************************)
EXTENDS AtomicVec, LinkedLists

Locations == {"none", "idle", "stash", "pushLock", "link", "count", "swap",
              "relink", "recount", "unlock", "unlink", "take", "uncount", "free"}

(* The section between lock() and the store that ends release().           *)
Owning == {"link", "count", "swap", "relink", "recount", "unlock", "unlink"}

(* Every variable has its type; in particular len, a usize, is never        *)
(* decremented below zero by the fetch_sub that pop makes after release().  *)
TypeOK ==
  /\ {head, tail, t_tail} \subseteq Ptr
  /\ len \in Nat /\ ref_count \in Nat
  /\ state \in BOOLEAN /\ inner \in BOOLEAN
  /\ next \in [Items -> Ptr]
  /\ live \subseteq Items
  /\ pc \in [Threads -> Locations]
  /\ cur \in [Threads -> Ptr] /\ moved \in [Threads -> Ptr]

(* lock()/release() make a lock: state is UPDATING exactly when a thread is *)
(* in the section they delimit, and then only one is.                       *)
LockExclusive ==
  /\ (state = UPDATING) <=> (\E t \in Threads : pc[t] \in Owning)
  /\ \A t, u \in Threads : pc[t] \in Owning /\ pc[u] \in Owning => t = u

(* ref_count counts the handles, so the thread that frees the list is alone *)
(* with it.                                                                 *)
HandlesCounted ==
  /\ ref_count = Cardinality({t \in Threads : pc[t] \notin {"none", "free"}})
  /\ \A t \in Threads : pc[t] = "free" => \A u \in Threads \ {t} : pc[u] = "none"
  /\ (\E t \in Threads : pc[t] # "none") <=> inner

---------------------------------------------------------------------------
(* The first item a walk of the list would meet.                           *)
Front == CASE ~inner -> NULL
           [] \E t \in Threads : pc[t] = "free" ->
                cur[CHOOSE t \in Threads : pc[t] = "free"]
           [] OTHER -> head

(* The list as a sequence.                                                  *)
List == Walk(Front, next)

InList == {List[i] : i \in DOMAIN List}
InHand(t) == (IF pc[t] = "free" THEN {} ELSE {cur[t]}) \cup {moved[t]}
InHands == (UNION {InHand(t) : t \in Threads}) \ {NULL}
InPocket == {t_tail} \ {NULL}

(* No item is lost, reached after it is freed, or reachable twice: the       *)
(* allocated items are those on the list, in t_tail and in some thread's     *)
(* hands, each in one place only.  The list's pointers lead through          *)
(* allocated items to tail, behind which the next one is linked.  When the   *)
(* last handle is gone, so is the list, and an item in t_tail is leaked.     *)
Conservation ==
  /\ live = InList \cup InPocket \cup InHands
  /\ Cardinality(live) = Len(List) + Cardinality(InPocket)
       + Cardinality({h \in Threads \X Items : h[2] \in InHand(h[1])})
  /\ (inner /\ \A t \in Threads : pc[t] # "free") =>
       tail = IF List = <<>> THEN NULL ELSE List[Len(List)]

(* len is off the number of items on the list by the operations under way:   *)
(* it lags while an item linked is still to be counted, and runs ahead while  *)
(* an item popped is still to be subtracted.  So it never wraps below zero,   *)
(* and it is exact for the list (not for t_tail) when nobody is inside.       *)
LenAccounts ==
  inner /\ (\A t \in Threads : pc[t] # "free") =>
    len + Cardinality({t \in Threads : pc[t] \in {"count", "recount"}})
      = Len(List)
        + Cardinality({t \in Threads :
             \/ pc[t] \in {"take", "uncount"}
             \/ pc[t] \in {"swap", "relink", "recount", "unlock"} /\ cur[t] # NULL})

(* What the comment on the field ("numbers of items in the vec",             *)
(* atomic_vec.rs:23) and two tests (test/atomic_vec.rs:109 and :188, len()    *)
(* equals pushes minus pops once the threads are done) say of len.  An item   *)
(* put in t_tail after the owner's swap refutes it: it stays there, uncounted. *)
LenExactWhenQuiet ==
  inner /\ (\A t \in Threads : pc[t] \in {"idle", "none"}) => len = Cardinality(live)

---------------------------------------------------------------------------
(* Refinement.  The pointer work an owner of the lock has still to do counts *)
(* as done from the moment it took the lock, or took the item from t_tail.   *)
Waiting == \E t \in Threads : pc[t] \in {"link", "relink", "unlink"}
Worker == CHOOSE t \in Threads : pc[t] \in {"link", "relink", "unlink"}

AbstractQueue ==
  CASE ref_count = 0 -> <<>>
    [] ref_count # 0 /\ ~Waiting -> List
    [] OTHER -> CASE pc[Worker] = "link" -> Append(List, cur[Worker])
                  [] pc[Worker] = "relink" -> Append(List, moved[Worker])
                  [] OTHER -> IF List = <<>> THEN <<>> ELSE Tail(List)

AbstractPhase ==
  CASE \E t \in Threads : pc[t] \in {"link", "count", "swap", "unlink"} -> "taken"
    [] \E t \in Threads : pc[t] \in {"relink", "recount", "unlock"} -> "flushed"
    [] OTHER -> "free"

(* AtomicVec is a FIFO queue with a one-place pocket: pushes and pops take    *)
(* effect, in one step each, on the queue PocketQueue describes.             *)
Abstract == INSTANCE PocketQueue WITH
  Lists <- {"vec"}, Elements <- Items,
  queue <- [k \in {"vec"} |-> AbstractQueue],
  pocket <- [k \in {"vec"} |-> IF ref_count = 0 THEN NULL ELSE t_tail],
  phase <- [k \in {"vec"} |-> AbstractPhase]

Refines == Abstract!Spec

---------------------------------------------------------------------------
(* Nobody keeps the spin lock: every owner reaches the store that ends        *)
(* release(), so lock() never spins on an owner that has stopped.            *)
LockComesFree == []<>(state = AVAILABLE)
=============================================================================
