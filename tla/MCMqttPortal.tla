---------------------------- MODULE MCMqttPortal ----------------------------
(* Model-checking instances of MqttPortal. *)
EXTENDS MqttPortal

CONSTANTS c1, t1

\* One subscriber.
OneCaller == [c \in {c1} |-> t1]
=============================================================================
