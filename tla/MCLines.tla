-------------------------------- MODULE MCLines --------------------------------
(* Model-checking instances of Lines. *)
EXTENDS Lines
=============================================================================
