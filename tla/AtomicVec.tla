----------------------------- MODULE AtomicVec -----------------------------
(***************************************************************************)
(* AtomicVec, src/src/collections/atomic_vec.rs: a linked list behind a    *)
(* spin lock, used by several threads through reference-counted handles.   *)
(* One action per atomic access that another thread can tell apart.  head, *)
(* tail and the items' next fields are read and written by the owner of    *)
(* the spin lock only (LockExclusive below), so its accesses to them       *)
(* between two accesses to t_tail, len or state are one action.            *)
(*                                                                         *)
(* Items are heap addresses: an address is allocated by push, freed by pop *)
(* or by the last drop, and may then be allocated again.  Their number is  *)
(* the bound on the items alive at once.                                   *)
(***************************************************************************)
EXTENDS Integers, Sequences, FiniteSets

CONSTANTS Threads, Items, NULL

ASSUME ThreadsAssumption == IsFiniteSet(Threads)
ASSUME ItemsAssumption == IsFiniteSet(Items) /\ NULL \notin Items

Ptr == Items \cup {NULL}

VARIABLES
  head, tail, t_tail, len, state, ref_count,   \* AtomicInner
  next,    \* next[x]: the Item at x
  live,    \* the items allocated and not freed
  inner,   \* AtomicInner is allocated
  pc,      \* where each thread is; "none": it has no handle
  cur,     \* the item a push or a pop of the thread has in hand
  moved    \* the item release() took out of t_tail

fields == <<head, tail, t_tail, len, state, ref_count>>
links == <<head, tail, next>>
heap == <<live, inner>>
local == <<pc, cur, moved>>
vars == <<fields, next, heap, local>>

AVAILABLE == TRUE
UPDATING == FALSE

(* new(): one handle, owned by some thread.                                *)
Init ==
  /\ head = NULL /\ tail = NULL /\ t_tail = NULL
  /\ len = 0
  /\ state = AVAILABLE
  /\ ref_count = 1
  /\ next = [x \in Items |-> NULL]
  /\ live = {}
  /\ inner = TRUE
  /\ \E t \in Threads : pc = [u \in Threads |-> IF u = t THEN "idle" ELSE "none"]
  /\ cur = [t \in Threads |-> NULL]
  /\ moved = [t \in Threads |-> NULL]

Goto(t, from, to) == pc[t] = from /\ pc' = [pc EXCEPT ![t] = to]

---------------------------------------------------------------------------
(* push: the item is allocated and state is read.                          *)
PushPeek(t) ==
  /\ pc[t] = "idle"
  /\ pc' = [pc EXCEPT ![t] = IF state = UPDATING THEN "stash" ELSE "pushLock"]
  /\ \E x \in Items \ live :
       /\ live' = live \cup {x}
       /\ next' = [next EXCEPT ![x] = NULL]
       /\ cur' = [cur EXCEPT ![t] = x]
  /\ UNCHANGED <<fields, inner, moved>>

(* Mutated form: the item is stored over whatever t_tail holds.            *)
StashOverwrites(t) ==
  /\ Goto(t, "stash", "idle")
  /\ t_tail' = cur[t]
  /\ cur' = [cur EXCEPT ![t] = NULL]
  /\ UNCHANGED <<links, len, state, ref_count, heap, moved>>

(* The queue looked busy: compare_exchange of t_tail from null, and done.  *)
PushStash(t) ==
  /\ Goto(t, "stash", "idle")
  /\ t_tail = NULL
  /\ t_tail' = cur[t]
  /\ cur' = [cur EXCEPT ![t] = NULL]
  /\ UNCHANGED <<links, len, state, ref_count, heap, moved>>

(* That compare_exchange failed: take the long way.                        *)
PushStashFull(t) ==
  /\ Goto(t, "stash", "pushLock")
  /\ t_tail # NULL
  /\ UNCHANGED <<fields, next, heap, cur, moved>>

(* Mutated form: a store of UPDATING that does not look at state first.    *)
LockUntested(t, from, to) ==
  /\ Goto(t, from, to)
  /\ state' = UPDATING
  /\ UNCHANGED <<links, t_tail, len, ref_count, heap, cur, moved>>

(* lock(): the compare_exchange that succeeds; those that fail only spin.  *)
Lock(t, from, to) ==
  /\ Goto(t, from, to)
  /\ state = AVAILABLE
  /\ state' = UPDATING
  /\ UNCHANGED <<links, t_tail, len, ref_count, heap, cur, moved>>

PushLock(t) == Lock(t, "pushLock", "link")

(* Mutated form: the item goes in front.                                   *)
LinkInFront(item) ==
  /\ next' = [next EXCEPT ![item] = head]
  /\ head' = item
  /\ tail' = IF tail = NULL THEN item ELSE tail

(* update_tail(item), up to the fetch_add of len.                          *)
UpdateTail(item) ==
  /\ next' = IF tail = NULL THEN next ELSE [next EXCEPT ![tail] = item]
  /\ tail' = item
  /\ head' = IF head = NULL THEN item ELSE head

PushLink(t) ==
  /\ Goto(t, "link", "count")
  /\ UpdateTail(cur[t])
  /\ cur' = [cur EXCEPT ![t] = NULL]
  /\ UNCHANGED <<t_tail, len, state, ref_count, heap, moved>>

PushCount(t) ==
  /\ Goto(t, "count", "swap")
  /\ len' = len + 1
  /\ UNCHANGED <<links, t_tail, state, ref_count, heap, cur, moved>>

---------------------------------------------------------------------------
(* Mutated forms: t_tail is read but not cleared; it is not looked at.     *)
SwapKeeps(t) ==
  /\ Goto(t, "swap", IF t_tail = NULL THEN "unlock" ELSE "relink")
  /\ moved' = [moved EXCEPT ![t] = t_tail]
  /\ UNCHANGED <<links, t_tail, len, state, ref_count, heap, cur>>

SwapSkipped(t) ==
  /\ Goto(t, "swap", "unlock")
  /\ UNCHANGED <<fields, next, heap, cur, moved>>

(* release(): empty t_tail into the list, then give the lock back.         *)
ReleaseSwap(t) ==
  /\ Goto(t, "swap", IF t_tail = NULL THEN "unlock" ELSE "relink")
  /\ moved' = [moved EXCEPT ![t] = t_tail]
  /\ t_tail' = NULL
  /\ UNCHANGED <<links, len, state, ref_count, heap, cur>>

ReleaseLink(t) ==
  /\ Goto(t, "relink", "recount")
  /\ UpdateTail(moved[t])
  /\ moved' = [moved EXCEPT ![t] = NULL]
  /\ UNCHANGED <<t_tail, len, state, ref_count, heap, cur>>

(* Mutated form: the item taken from t_tail is not counted.                *)
RecountForgotten(t) ==
  /\ Goto(t, "recount", "unlock")
  /\ UNCHANGED <<fields, next, heap, cur, moved>>

ReleaseCount(t) ==
  /\ Goto(t, "recount", "unlock")
  /\ len' = len + 1
  /\ UNCHANGED <<links, t_tail, state, ref_count, heap, cur, moved>>

(* A pop that unlinked an item still has it in hand.                       *)
ReleaseStore(t) ==
  /\ Goto(t, "unlock", IF cur[t] = NULL THEN "idle" ELSE "take")
  /\ state' = AVAILABLE
  /\ UNCHANGED <<links, t_tail, len, ref_count, heap, cur, moved>>

---------------------------------------------------------------------------
PopLock(t) == Lock(t, "idle", "unlink")

(* Mutated form: a pop of an empty list returns without release().         *)
UnlinkReturns(t) ==
  /\ Goto(t, "unlink", IF head = NULL THEN "idle" ELSE "swap")
  /\ cur' = [cur EXCEPT ![t] = head]
  /\ head' = IF head = NULL THEN NULL ELSE next[head]
  /\ tail' = IF head = tail THEN NULL ELSE tail
  /\ UNCHANGED <<next, t_tail, len, state, ref_count, heap, moved>>

(* pop: the head is unlinked; an empty list goes straight to release().    *)
PopUnlink(t) ==
  /\ Goto(t, "unlink", "swap")
  /\ cur' = [cur EXCEPT ![t] = head]
  /\ head' = IF head = NULL THEN NULL ELSE next[head]
  /\ tail' = IF head = tail THEN NULL ELSE tail
  /\ UNCHANGED <<next, t_tail, len, state, ref_count, heap, moved>>

(* After release(): the value is read out of the item and the item freed.  *)
PopTake(t) ==
  /\ Goto(t, "take", "uncount")
  /\ live' = live \ {cur[t]}
  /\ cur' = [cur EXCEPT ![t] = NULL]
  /\ UNCHANGED <<fields, next, inner, moved>>

PopUncount(t) ==
  /\ Goto(t, "uncount", "idle")
  /\ len' = len - 1
  /\ UNCHANGED <<links, t_tail, state, ref_count, heap, cur, moved>>

---------------------------------------------------------------------------
(* Mutated form: the copy is not counted.                                  *)
CloneUncounted(t, u) ==
  /\ pc[t] = "idle"
  /\ Goto(u, "none", "idle")
  /\ UNCHANGED <<fields, next, heap, cur, moved>>

(* clone(): t makes a handle and hands it to u.                            *)
Clone(t, u) ==
  /\ pc[t] = "idle"
  /\ Goto(u, "none", "idle")
  /\ ref_count' = ref_count + 1
  /\ UNCHANGED <<links, t_tail, len, state, heap, cur, moved>>

(* drop(): the last handle goes on to free the list from the head.         *)
DropHandle(t) ==
  /\ Goto(t, "idle", IF ref_count = 1 THEN "free" ELSE "none")
  /\ ref_count' = ref_count - 1
  /\ cur' = [cur EXCEPT ![t] = IF ref_count = 1 THEN head ELSE NULL]
  /\ UNCHANGED <<links, t_tail, len, state, heap, moved>>

DropItem(t) ==
  /\ Goto(t, "free", "free")
  /\ cur[t] # NULL
  /\ cur' = [cur EXCEPT ![t] = next[cur[t]]]
  /\ live' = live \ {cur[t]}
  /\ UNCHANGED <<fields, next, inner, moved>>

DropInner(t) ==
  /\ Goto(t, "free", "none")
  /\ cur[t] = NULL
  /\ inner' = FALSE
  /\ UNCHANGED <<fields, next, live, cur, moved>>

(* Every handle is gone: nothing is left to do.                            *)
Gone == ~inner /\ UNCHANGED vars

Step(t) ==
  \/ PushPeek(t) \/ PushStash(t) \/ PushStashFull(t)
  \/ PushLock(t) \/ PushLink(t) \/ PushCount(t)
  \/ ReleaseSwap(t) \/ ReleaseLink(t) \/ ReleaseCount(t) \/ ReleaseStore(t)
  \/ PopLock(t) \/ PopUnlink(t) \/ PopTake(t) \/ PopUncount(t)
  \/ \E u \in Threads : Clone(t, u)
  \/ DropHandle(t) \/ DropItem(t) \/ DropInner(t)

Next == Gone \/ \E t \in Threads : Step(t)

(* A thread inside a call goes on; nobody has to start one.                *)
Finish(t) == pc[t] # "idle" /\ Step(t)
Fairness == \A t \in Threads : WF_vars(Finish(t))

Spec == Init /\ [][Next]_vars
FairSpec == Spec /\ Fairness
=============================================================================
