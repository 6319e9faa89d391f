----------------------------- MODULE MCNamedLock -----------------------------
(* NamedLock with two threads of two lock objects each and a third that    *)
(* only cleans up and counts, two keys, and one address more than can be   *)
(* in use.                                                                 *)
EXTENDS NamedLock, TLC

CONSTANTS t1, t2, t3, h1, h2, h3, h4

MCOwner == h1 :> t1 @@ h2 :> t1 @@ h3 :> t2 @@ h4 :> t2
MCAfter == {<<1, 2>>}

EntrySymmetry == Permutations(Entries)
==============================================================================
