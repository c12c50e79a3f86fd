----------------------------- MODULE TypedCell -----------------------------
(***************************************************************************)
(* What AnyRef promises of the value it keeps: a cell with a value of some  *)
(* type.  Who asks for a type gets a view of the cell while its value is of *)
(* that type and nobody replaces it, or is refused, which may happen only   *)
(* while the type is another one or is being changed from another one.  The *)
(* value is replaced, and in the end removed, when nobody views it.         *)
(***************************************************************************)
CONSTANTS Handles, Types, NONE

VARIABLES
  cell,   \* the type of the value; NONE once it is removed
  was,    \* the type it had, while it is being replaced; else NONE
  ask,    \* ask[h]: the type h asks for; NONE if it does not
  view    \* view[h]: "none", "read" or "write"

vars == <<cell, was, ask, view>>

Unviewed == \A h \in Handles : view[h] = "none"

Init ==
  /\ cell \in Types
  /\ was = NONE
  /\ ask = [h \in Handles |-> NONE]
  /\ view = [h \in Handles |-> "none"]

Ask(h, U) ==
  /\ cell # NONE /\ ask[h] = NONE /\ view[h] = "none"
  /\ ask' = [ask EXCEPT ![h] = U]
  /\ UNCHANGED <<cell, was, view>>

(* Some(guard): readers share the value, a writer is alone with it.         *)
View(h) ==
  /\ ask[h] = cell /\ ask[h] # NONE /\ was = NONE
  /\ \E mode \in {"read", "write"} :
       /\ \A g \in Handles : view[g] # "none" => mode = "read" /\ view[g] = "read"
       /\ view' = [view EXCEPT ![h] = mode]
  /\ ask' = [ask EXCEPT ![h] = NONE]
  /\ UNCHANGED <<cell, was>>

(* None.                                                                   *)
Refuse(h) ==
  /\ ask[h] # NONE
  /\ ask[h] # cell \/ was \notin {NONE, ask[h]}
  /\ ask' = [ask EXCEPT ![h] = NONE]
  /\ UNCHANGED <<cell, was, view>>

Close(h) ==
  /\ view[h] # "none"
  /\ view' = [view EXCEPT ![h] = "none"]
  /\ UNCHANGED <<cell, was, ask>>

Replace(U) ==
  /\ Unviewed /\ cell # NONE /\ was = NONE
  /\ cell' = U
  /\ was' = cell
  /\ UNCHANGED <<ask, view>>

Settle ==
  /\ was # NONE
  /\ was' = NONE
  /\ UNCHANGED <<cell, ask, view>>

(* The last handle drops the value or takes it out: nobody asks any more.   *)
Remove ==
  /\ Unviewed /\ cell # NONE /\ was = NONE
  /\ \A h \in Handles : ask[h] = NONE
  /\ cell' = NONE
  /\ UNCHANGED <<was, ask, view>>

Next ==
  \/ \E h \in Handles : View(h) \/ Refuse(h) \/ Close(h) \/ \E U \in Types : Ask(h, U)
  \/ \E U \in Types : Replace(U)
  \/ Settle \/ Remove

Spec == Init /\ [][Next]_vars
=============================================================================
