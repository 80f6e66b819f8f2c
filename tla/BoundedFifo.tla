---------------------------- MODULE BoundedFifo ------------------------------
(***************************************************************************)
(* What a bounded queue promises to its callers, with no threads, slots or *)
(* condition variables: an element goes in at the back while there is      *)
(* room and comes out at the front, once.                                  *)
(***************************************************************************)
EXTENDS Naturals, Sequences

CONSTANTS Capacity, Elements

VARIABLES items,  \* the elements in the queue, oldest first
          taken   \* the elements taken out so far

Init == items = <<>> /\ taken = <<>>

Put(e) ==
    /\ Len(items) < Capacity
    /\ items' = Append(items, e)
    /\ UNCHANGED taken

Get ==
    /\ items # <<>>
    /\ taken' = Append(taken, Head(items))
    /\ items' = Tail(items)

Next == (\E e \in Elements : Put(e)) \/ Get

Spec == Init /\ [][Next]_<<items, taken>>
=============================================================================
