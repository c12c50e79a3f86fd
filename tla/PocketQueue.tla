---------------------------- MODULE PocketQueue ----------------------------
(***************************************************************************)
(* What AtomicVec (src/src/collections/atomic_vec.rs) promises its users.  *)
(* It is a FIFO queue with a one-place pocket beside it: a push that finds *)
(* the queue busy may leave its element in the pocket and return at once,  *)
(* and whoever owns the queue empties the pocket into it on the way out.   *)
(* An element pocketed after the owner looked stays there until the next   *)
(* owner comes by.  The element is then neither counted nor poppable, and  *)
(* the next owner's own element goes in front of it.                       *)
(*                                                                         *)
(* The module holds a family of such queues, one per member of Lists, so   *)
(* that Mutex.tla can build its two parking lists from these actions.      *)
(* AtomicVec.tla, the pointer-level model, implements it for one list.     *)
(***************************************************************************)
EXTENDS Sequences

CONSTANTS Lists,     \* names of the queues
          Elements,  \* what can be pushed
          NULL       \* the empty pocket, no element

VARIABLES queue,   \* queue[k]: the elements of k that a pop can reach, in order
          pocket,  \* pocket[k]: the element waiting to be taken in, or NULL
          phase    \* phase[k]: "free", or how far the owner of k has come

vars == <<queue, pocket, phase>>

Init == /\ queue = [k \in Lists |-> <<>>]
        /\ pocket = [k \in Lists |-> NULL]
        /\ phase = [k \in Lists |-> "free"]

(* A push that found the queue busy leaves x in the empty pocket.  Its look *)
(* at the phase may be stale by now.                                       *)
Pocket(k, x) ==
  /\ pocket[k] = NULL
  /\ pocket' = [pocket EXCEPT ![k] = x]
  /\ UNCHANGED <<queue, phase>>

(* A push takes the queue and links x at its end.                          *)
Enqueue(k, x) ==
  /\ phase[k] = "free"
  /\ phase' = [phase EXCEPT ![k] = "taken"]
  /\ queue' = [queue EXCEPT ![k] = Append(@, x)]
  /\ UNCHANGED pocket

(* A pop takes the queue and unlinks the first element.                    *)
Dequeue(k) ==
  /\ phase[k] = "free"
  /\ queue[k] # <<>>
  /\ phase' = [phase EXCEPT ![k] = "taken"]
  /\ queue' = [queue EXCEPT ![k] = Tail(@)]
  /\ UNCHANGED pocket

(* A pop takes the queue and finds nothing: it will return None, whatever  *)
(* the pocket holds.                                                       *)
FindEmpty(k) ==
  /\ phase[k] = "free"
  /\ queue[k] = <<>>
  /\ phase' = [phase EXCEPT ![k] = "taken"]
  /\ UNCHANGED <<queue, pocket>>

(* The owner moves the pocketed element, if any, to the end of the queue.  *)
Flush(k) ==
  /\ phase[k] = "taken"
  /\ phase' = [phase EXCEPT ![k] = "flushed"]
  /\ queue' = [queue EXCEPT ![k] = IF pocket[k] = NULL THEN @
                                   ELSE Append(@, pocket[k])]
  /\ pocket' = [pocket EXCEPT ![k] = NULL]

(* The owner lets the queue go.                                            *)
Unlock(k) ==
  /\ phase[k] = "flushed"
  /\ phase' = [phase EXCEPT ![k] = "free"]
  /\ UNCHANGED <<queue, pocket>>

(* The last handle is dropped: what is left in the queue and in the pocket is *)
(* out of reach.                                                             *)
Discard(k) ==
  /\ phase[k] = "free"
  /\ queue' = [queue EXCEPT ![k] = <<>>]
  /\ pocket' = [pocket EXCEPT ![k] = NULL]
  /\ UNCHANGED phase

Next == \E k \in Lists :
          \/ \E x \in Elements : Pocket(k, x) \/ Enqueue(k, x)
          \/ Dequeue(k) \/ FindEmpty(k) \/ Flush(k) \/ Unlock(k) \/ Discard(k)

Spec == Init /\ [][Next]_vars
=============================================================================
