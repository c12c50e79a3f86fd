--------------------------- MODULE ConcurrentMap ---------------------------
(***************************************************************************)
(* What AtomicHashMap (src/src/collections/atomic_hashmap.rs) promises: a   *)
(* call on a key takes effect in one step between its start and its end,    *)
(* and answers whether the key was present then.                           *)
(***************************************************************************)
CONSTANTS Threads, Keys, Operations

VARIABLES present,   \* the keys in the map
          call       \* call[t]: the call t is in, if any, and its answer

vars == <<present, call>>

NoCall == [op |-> "none"]
Pending(o, k) == [op |-> o, key |-> k, answer |-> "pending"]

Init == present = {} /\ call = [t \in Threads |-> NoCall]

Start(t) ==
  /\ call[t] = NoCall
  /\ UNCHANGED present
  /\ \E o \in Operations, k \in Keys : call' = [call EXCEPT ![t] = Pending(o, k)]

(* The call takes effect: get and get_mut leave the keys alone.             *)
Effect(t) ==
  /\ call[t] # NoCall
  /\ call[t].answer = "pending"
  /\ LET k == call[t].key
     IN  /\ call' = [call EXCEPT ![t].answer = IF k \in present THEN "found" ELSE "absent"]
         /\ present' = CASE call[t].op = "insert" -> present \cup {k}
                         [] call[t].op = "remove" -> present \ {k}
                         [] OTHER -> present

Finish(t) ==
  /\ call[t] # NoCall
  /\ call[t].answer # "pending"
  /\ call' = [call EXCEPT ![t] = NoCall]
  /\ UNCHANGED present

(* The last handle of the map is dropped.                                  *)
Discard ==
  /\ \A t \in Threads : call[t] = NoCall
  /\ present' = {}
  /\ UNCHANGED call

Next == Discard \/ \E t \in Threads : Start(t) \/ Effect(t) \/ Finish(t)

Spec == Init /\ [][Next]_vars
=============================================================================
