---------------------------- MODULE MCModbusTcp ----------------------------
(* Model-checking instances of ModbusTcp. *)
EXTENDS ModbusTcp
=============================================================================
