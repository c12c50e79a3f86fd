--------------------------- MODULE AtomicVecOrder ---------------------------
(***************************************************************************)
(* AtomicVec with a record of who was pushed before whom, to say how far   *)
(* the pocket t_tail bends the FIFO order.                                 *)
(***************************************************************************)
EXTENDS AtomicVecProperties

VARIABLES
  pushed,     \* items whose push has returned, not popped yet
  before,     \* before[x]: the items in pushed when the push of x began
  overtaken   \* overtaken[x]: items of a later push linked while x was not

orderVars == <<pushed, before, overtaken>>

OrderInit ==
  /\ Init
  /\ pushed = {}
  /\ before = [x \in Items |-> {}]
  /\ overtaken = [x \in Items |-> 0]

(* x is linked now: the earlier items still off the list are overtaken.    *)
Linked(x) ==
  overtaken' = [y \in Items |-> IF y \in before[x] \ InList THEN overtaken[y] + 1
                                                            ELSE overtaken[y]]

Begins(t) == \E x \in live' \ live :
  /\ before' = [before EXCEPT ![x] = pushed]
  /\ overtaken' = [overtaken EXCEPT ![x] = 0]
  /\ UNCHANGED pushed

(* An item popped is forgotten: its address may be pushed again.           *)
Forget(x) ==
  /\ pushed' = pushed \ {x}
  /\ before' = [y \in Items |-> before[y] \ {x}]
  /\ UNCHANGED overtaken

(* The push of an item linked by its own thread returns after ReleaseStore; *)
(* counting it as returned once linked orders more pairs, never fewer.      *)
Returned(x) == pushed' = pushed \cup {x}

OrderNext ==
  \/ Gone /\ UNCHANGED orderVars
  \/ \E t \in Threads :
       \/ PushPeek(t) /\ Begins(t)
       \/ PushStash(t) /\ Returned(cur[t]) /\ UNCHANGED <<before, overtaken>>
       \/ PushLink(t) /\ Returned(cur[t]) /\ Linked(cur[t]) /\ UNCHANGED before
       \/ ReleaseLink(t) /\ Linked(moved[t]) /\ UNCHANGED <<pushed, before>>
       \/ PopUnlink(t) /\ Forget(head)
       \/ /\ \/ PushStashFull(t) \/ PushLock(t) \/ PushCount(t)
             \/ ReleaseSwap(t) \/ ReleaseCount(t) \/ ReleaseStore(t)
             \/ PopLock(t) \/ PopTake(t) \/ PopUncount(t)
             \/ \E u \in Threads : Clone(t, u)
             \/ DropHandle(t) \/ DropItem(t) \/ DropInner(t)
          /\ UNCHANGED orderVars

OrderSpec == OrderInit /\ [][OrderNext]_<<vars, orderVars>>
FairOrderSpec == OrderSpec /\ Fairness

---------------------------------------------------------------------------
(* The order of the list is the order of the pushes but for what t_tail bends: *)
(* of two items on the list, one whose push began after the other's returned   *)
(* comes first only by having overtaken it in t_tail; and an item in t_tail is  *)
(* overtaken once at most, since the release() of the push that overtakes it   *)
(* empties t_tail behind its own item.                                        *)
ListOrder ==
  /\ \A x \in pushed : overtaken[x] <= 1
  /\ \A i, j \in DOMAIN List :
       i < j /\ List[j] \in before[List[i]] => overtaken[List[j]] = 1
=============================================================================
