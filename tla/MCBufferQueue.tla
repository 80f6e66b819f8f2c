---------------------------- MODULE MCBufferQueue ----------------------------
(* Model-checking instances of BufferQueue. *)
EXTENDS BufferQueue
=============================================================================
