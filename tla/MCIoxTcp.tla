---------------------------- MODULE MCIoxTcp ----------------------------
(* Model-checking instances of IoxTcp. *)
EXTENDS IoxTcp
=============================================================================
