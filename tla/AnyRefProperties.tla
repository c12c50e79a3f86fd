-------------------------- MODULE AnyRefProperties --------------------------
(* What must hold of AnyRef and WeakAnyRef, and the refinement of TypedCell. *)
EXTENDS AnyRef

Casts == {"none", "load", "lockRef", "lockMut", "check", "guard", "unref",
          "fillData", "fillType", "fillUnlock"}

(* Every variable has its type.                                            *)
TypeOK ==
  /\ Count!TypeOK
  /\ type_id \in Types /\ data \in Types
  /\ locks \in Nat
  /\ cast \in [Handles -> Casts]
  /\ want \in [Handles -> Types \cup {NONE}]

(* A guard of type U is on a value of type U, for as long as it lives, though  *)
(* other handles fill in values of other types and drop or unwrap it: the     *)
(* type was compared before the lock was taken, and may have changed since.   *)
CastsSafe ==
  \A h \in Handles : cast[h] = "guard" =>
    /\ data = want[h]
    /\ value = "there" /\ copies = 0

(* The owners of the lock: the inner struct, until it is disposed of, and     *)
(* every cast from the clone of the lock to the drop of the guard.            *)
Owners == {h \in Handles : cast[h] \in {"lockRef", "lockMut", "check", "guard", "unref"}}

(* The lock lives as long as anybody has it, and no longer: guards give their *)
(* handles of it back, and the last to go is that of the inner struct.        *)
LockCounted ==
  /\ locks = Cardinality(Owners) + (IF value = "there" THEN 1 ELSE 0)
  /\ value = "dropped" => Owners = {}

(* AnyRef keeps what TypedCell promises: its casts are linearizable.  A cast  *)
(* takes effect when the value's own type is compared under the lock, or when *)
(* type_id is read and is another, or is being written.                      *)
Asking(h) == cast[h] \in {"load", "lockRef", "lockMut", "check"}

Cell == INSTANCE TypedCell WITH
  cell <- IF value = "there" /\ copies = 0 THEN data ELSE NONE,
  was <- IF \E h \in Handles : cast[h] = "fillType" THEN type_id ELSE NONE,
  ask <- [h \in Handles |-> IF Asking(h) THEN want[h] ELSE NONE],
  view <- [h \in Handles |-> IF cast[h] = "guard" THEN borrow[h] ELSE "none"]

Refines == Cell!Spec

(* A cast that has the lock ends in a guard or gives the lock back, and fill  *)
(* gives it back: None leaves nothing locked.                                *)
LockReturned ==
  \A h \in Handles :
    borrow[h] \in {"read", "write"} /\ cast[h] # "guard"
      ~> borrow[h] = "none" \/ cast[h] = "guard"
=============================================================================
