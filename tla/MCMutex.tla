------------------------------ MODULE MCMutex ------------------------------
(* Mutex with a few exclusive and group threads, alike when their roles are.  *)
EXTENDS MutexProperties, TLC

Symmetry == Permutations(Exclusive \ Group) \cup Permutations(Group \ Exclusive)
=============================================================================
