------------------------------ MODULE MCSpscRing -----------------------------
(* A ring of four slots, so three places, and two values.                   *)
EXTENDS SpscRing
==============================================================================
