-------------------------------- MODULE Shared --------------------------------
(***************************************************************************)
(* What modules that are checked together have in common: the value of a   *)
(* field, a column or a parameter that is not set.                         *)
(***************************************************************************)
CONSTANT None
=============================================================================
