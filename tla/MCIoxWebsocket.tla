----------------------------- MODULE MCIoxWebsocket -----------------------------
(* Model-checking instances of IoxWebsocket. *)
EXTENDS IoxWebsocket
=============================================================================
