----------------------------- MODULE BoundedCache -----------------------------
(***************************************************************************)
(* What a cache of bounded size promises: it answers with the last value   *)
(* put under a key, and when a new key needs room the victim is the key    *)
(* the replacement policy names, judged by the whole history of calls:     *)
(* LRU the one whose last use is longest ago, FIFO the one inserted first, *)
(* LFU the one used least often since it came in, and among these the one  *)
(* whose last use is longest ago.                                          *)
(***************************************************************************)
EXTENDS Naturals, FiniteSets, Sequences, Lists, Maps

CONSTANTS Keys, Values, Capacity, MaxUses

VARIABLES
    policy,   \* the replacement policy, fixed at construction
    content,  \* the cached keys and their values
    born,     \* the cached keys in the order they came in
    recent,   \* the cached keys in the order of their last use, oldest first
    uses      \* LFU: how often each cached key was put or found since it came in

vars == <<policy, content, born, recent, uses>>

Init == /\ policy \in {"LRU", "FIFO", "LFU"}
        /\ content = Empty /\ uses = Empty
        /\ born = <<>> /\ recent = <<>>

Cached == DOMAIN content

LeastUsed == {k \in Cached : \A l \in Cached : uses[k] <= uses[l]}

Victim == CASE policy = "FIFO" -> Head(born)
            [] policy = "LRU"  -> Head(recent)
            [] policy = "LFU"  -> CHOOSE k \in LeastUsed :
                                     \A l \in LeastUsed \ {k} : Ahead(recent, k, l)

Use(k) == /\ recent' = Append(Skipping(recent, {k}), k)
          /\ \/ /\ policy = "LFU" /\ uses[k] < MaxUses
                /\ uses' = [uses EXCEPT ![k] = @ + 1]
             \/ policy # "LFU" /\ UNCHANGED uses

Update(k, v) == /\ k \in Cached
                /\ content' = [content EXCEPT ![k] = v]
                /\ Use(k)
                /\ UNCHANGED <<policy, born>>

Insert(k, v) ==
    LET gone == IF Cardinality(Cached) = Capacity THEN {Victim} ELSE {}
    IN  /\ k \notin Cached
        /\ content' = With(Without(content, gone), k, v)
        /\ uses'    = With(Without(uses, gone), k, 1)
        /\ born'    = Append(Skipping(born, gone), k)
        /\ recent'  = Append(Skipping(recent, gone), k)
        /\ UNCHANGED policy

Find(k) == /\ k \in Cached
           /\ Use(k)
           /\ UNCHANGED <<policy, content, born>>

Discard(ks) == /\ ks \subseteq Cached
               /\ content' = Without(content, ks)
               /\ uses'    = Without(uses, ks)
               /\ born'    = Skipping(born, ks)
               /\ recent'  = Skipping(recent, ks)
               /\ UNCHANGED policy

Next == \/ \E k \in Keys, v \in Values : Update(k, v) \/ Insert(k, v)
        \/ \E k \in Keys : Find(k) \/ Discard({k})
        \/ Discard(Cached)

Spec == Init /\ [][Next]_vars
=============================================================================
