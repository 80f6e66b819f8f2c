---------------------------- MODULE MCHttpd ----------------------------
(* Model-checking instances of Httpd. *)
EXTENDS Httpd
=============================================================================
