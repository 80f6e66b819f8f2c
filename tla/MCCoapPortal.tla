---------------------------- MODULE MCCoapPortal ----------------------------
(* Model-checking instances of CoapPortal. *)
EXTENDS CoapPortal
=============================================================================
