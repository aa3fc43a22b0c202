------------------------------ MODULE NoValue ------------------------------
(***************************************************************************)
(* The absence of a value (a nil, a NULL, a row that is not there), shared *)
(* by the modules that are checked together.                               *)
(***************************************************************************)
CONSTANT None
=============================================================================
