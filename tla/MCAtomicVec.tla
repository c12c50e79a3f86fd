---------------------------- MODULE MCAtomicVec ----------------------------
(* AtomicVec, with the record of the order of its pushes, on a few threads   *)
(* and addresses.                                                          *)
EXTENDS AtomicVecOrder
=============================================================================
