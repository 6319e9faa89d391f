--------------------------------- MODULE Lists ---------------------------------
(***************************************************************************)
(* Erasing from a std::list, as the caches and the timer wheel do.  It is  *)
(* defined without SelectSeq, which the proofs could not expand.           *)
(***************************************************************************)
EXTENDS Naturals, FiniteSets, Sequences

\* A list without the members of a set, in the order of the list: the kth that
\* is left is the one with k of those left up to it.
Skipping(list, xs) ==
    LET left    == {n \in DOMAIN list : list[n] \notin xs}
        Rank(n) == Cardinality({i \in left : i <= n})
    IN  [k \in 1 .. Cardinality(left) |-> list[CHOOSE n \in left : Rank(n) = k]]

\* x has a place in the list that is before one of y.
Ahead(list, x, y) == \E i, j \in DOMAIN list : i < j /\ list[i] = x /\ list[j] = y

\* Any two members of s are in t as well, in the same order, or the other way
\* round.
Follows(s, t) == \A i, j \in DOMAIN s : i < j => Ahead(t, s[i], s[j])
Mirrors(s, t) == \A i, j \in DOMAIN s : i < j => Ahead(t, s[j], s[i])
================================================================================
