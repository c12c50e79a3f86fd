------------------------------- MODULE MCArw -------------------------------
(* Arw with a few handles.                                                 *)
EXTENDS ArwProperties
=============================================================================
