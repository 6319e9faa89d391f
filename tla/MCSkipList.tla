------------------------------ MODULE MCSkipList ------------------------------
(* Two lists of one level above the lowest, written by one thread and         *)
(* searched by another; one pool block holds two nodes, the cache one.        *)
EXTENDS SkipList, TLC

\* Lists are alike, and so are places.  Block chooses places, but only such as
\* belong to no pool: as long as none has been destroyed, nothing is in those and
\* nothing leads to them, so that another choice gives the same state with places
\* exchanged.  That needs ~Outlived.
SkipListSymmetry == Permutations(Lists) \cup Permutations(Memory)
===============================================================================
