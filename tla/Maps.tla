--------------------------------- MODULE Maps ----------------------------------
(***************************************************************************)
(* A std::unordered_map as a function of the keys it holds.                *)
(***************************************************************************)

Empty == [k \in {} |-> 0]

\* emplace or operator[], and erase
With(f, k, x)  == [l \in DOMAIN f \cup {k} |-> IF l = k THEN x ELSE f[l]]
Without(f, ks) == [k \in DOMAIN f \ ks |-> f[k]]
================================================================================
