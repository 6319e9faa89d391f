----------------------------- MODULE BoundedFifo -----------------------------
(***************************************************************************)
(* A first-in first-out buffer of at most Bound values, the promise of the *)
(* ring buffer of src/include/spsc.h and of src/include/AsyncEventQueue.h. *)
(* out is the value that was handed out last.                              *)
(***************************************************************************)
EXTENDS Integers, Sequences

CONSTANTS Values, NoValue, Bound

VARIABLES q, out

Init == q = <<>> /\ out = NoValue

Put(v) == /\ Len(q) < Bound
          /\ q' = Append(q, v)
          /\ UNCHANGED out

Get == /\ q # <<>>
       /\ out' = Head(q)
       /\ q' = Tail(q)

Clear == q' = <<>> /\ UNCHANGED out

Next == Get \/ Clear \/ \E v \in Values : Put(v)

Spec == Init /\ [][Next]_<<q, out>>
==============================================================================
