------------------------------ MODULE MCAnyRef ------------------------------
(* AnyRef with a few handles and two types.                                 *)
EXTENDS AnyRefProperties
=============================================================================
