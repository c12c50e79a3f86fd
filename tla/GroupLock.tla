----------------------------- MODULE GroupLock -----------------------------
(***************************************************************************)
(* What Mutex is for: an exclusive thread has it alone, group threads have  *)
(* it together.  Nothing is said of waiting.                               *)
(***************************************************************************)
CONSTANTS Threads, Exclusive, Group

VARIABLE holds   \* holds[t]: the side ("e" or "g") t has the lock on, or "none"

Init == holds = [t \in Threads |-> "none"]

AcquireExclusive(t) ==
  /\ t \in Exclusive
  /\ \A u \in Threads : holds[u] = "none"
  /\ holds' = [holds EXCEPT ![t] = "e"]

AcquireGroup(t) ==
  /\ t \in Group
  /\ holds[t] = "none"
  /\ \A u \in Threads : holds[u] # "e"
  /\ holds' = [holds EXCEPT ![t] = "g"]

Release(t) ==
  /\ holds[t] # "none"
  /\ holds' = [holds EXCEPT ![t] = "none"]

Next == \E t \in Threads : AcquireExclusive(t) \/ AcquireGroup(t) \/ Release(t)

Spec == Init /\ [][Next]_holds
=============================================================================
