---------------------------- MODULE ThreadSafeCache ----------------------------
(***************************************************************************)
(* ThreadSafeCache of src/include/thread_safe_cache.hpp.  Every operation  *)
(* holds mutex_ from its first to its last line, so each is one step.      *)
(*                                                                         *)
(* Beside the values the cache keeps a structure per policy: a list of     *)
(* keys for LRU (front: used last), a queue for FIFO, and for LFU a list   *)
(* of frequency nodes, each with its keys (front: used last), with a map   *)
(* from a key to its node.  A list iterator stands for the element it      *)
(* names: the key, and for a node its frequency.                           *)
(***************************************************************************)
EXTENDS Naturals, FiniteSets, SequencesExt, Lists, Maps

CONSTANTS
    Keys, Values,
    Capacity,      \* capacity_
    MaxUses        \* bound: LFU counts no more uses than this

ASSUME CapacityAssumption == Capacity \in Nat \ {0}
ASSUME MaxUsesAssumption  == MaxUses \in Nat \ {0}

VARIABLES
    policy,     \* policy_
    data,       \* cache_data_
    lruOrder,   \* lru_order_
    located,    \* the keys of lru_key_to_iter_
    fifo,       \* fifo_order_
    freqs,      \* lfu_frequency_list_
    node,       \* lfu_key_to_node_and_iter_: the frequency of a key's node
    born,       \* history: the cached keys in the order they came in
    recent,     \* history: the cached keys by last use, oldest first
    uses        \* history: LFU: the uses of each cached key since it came in

orders  == <<lruOrder, located, fifo, freqs, node>>
history == <<born, recent, uses>>
entryVars    == <<policy, data, orders, history>>

EntriesInit == /\ policy \in {"LRU", "FIFO", "LFU"}
               /\ data = Empty
               /\ lruOrder = <<>> /\ located = {} /\ fifo = <<>>
               /\ freqs = <<>> /\ node = Empty
               /\ born = <<>> /\ recent = <<>> /\ uses = Empty

Cached == DOMAIN data
-----------------------------------------------------------------------------
(***************************************************************************)
(* The list of frequency nodes.                                            *)
(***************************************************************************)

NodeAt(k) == CHOOSE i \in DOMAIN freqs : freqs[i].frequency = node[k]

\* The nodes with node i left with these keys; an empty node is erased.
Keep(i, keys) == IF keys = <<>> THEN RemoveAt(freqs, i)
                 ELSE [freqs EXCEPT ![i].keys = keys]

Unlink(k) == Keep(NodeAt(k), Skipping(freqs[NodeAt(k)].keys, {k}))

\* A mutant: a key found again keeps its place among the keys of its frequency's node.
LinkBehind(nodes, i, f, k) ==
    IF i \in DOMAIN nodes /\ nodes[i].frequency = f
    THEN [nodes EXCEPT ![i].keys = Append(@, k)]
    ELSE InsertAt(nodes, i, [frequency |-> f, keys |-> <<k>>])

\* k goes to the front of the node of frequency f, which is nodes[i] or comes to be it.
Link(nodes, i, f, k) ==
    IF i \in DOMAIN nodes /\ nodes[i].frequency = f
    THEN [nodes EXCEPT ![i].keys = <<k>> \o @]
    ELSE InsertAt(nodes, i, [frequency |-> f, keys |-> <<k>>])

\* A mutant: the node of the next frequency is taken for the wanted one unseen.
IncrementIntoNext(k) ==
    LET rest == Unlink(k)
        next == IF Len(rest) < Len(freqs) THEN NodeAt(k) ELSE NodeAt(k) + 1
    IN  IF next \in DOMAIN rest THEN Link(rest, next, rest[next].frequency, k)
        ELSE Link(rest, next, node[k] + 1, k)

IncrementFrequency(k) ==
    LET rest == Unlink(k)
        next == IF Len(rest) < Len(freqs) THEN NodeAt(k) ELSE NodeAt(k) + 1
    IN  Link(rest, next, node[k] + 1, k)

EvictLfu == Keep(1, Front(freqs[1].keys))
-----------------------------------------------------------------------------
(***************************************************************************)
(* The operations.  MaxUses stops the frequencies, which nothing else      *)
(* does.                                                                   *)
(***************************************************************************)

RecordAccess(k) ==
    /\ \/ /\ policy = "LRU" /\ k \in located
          /\ lruOrder' = <<k>> \o Skipping(lruOrder, {k})
          /\ UNCHANGED <<freqs, node, uses>>
       \/ /\ policy = "FIFO"
          /\ UNCHANGED <<lruOrder, freqs, node, uses>>
       \/ /\ policy = "LFU" /\ k \in DOMAIN node
          /\ uses[k] < MaxUses
          /\ freqs' = IncrementFrequency(k)
          /\ node' = [node EXCEPT ![k] = @ + 1]
          /\ uses' = [uses EXCEPT ![k] = @ + 1]
          /\ UNCHANGED lruOrder
    /\ recent' = Append(Skipping(recent, {k}), k)
    /\ UNCHANGED <<policy, located, fifo, born>>

PutPresent(k, v) == /\ k \in Cached
                    /\ data' = [data EXCEPT ![k] = v]
                    /\ RecordAccess(k)

Victim == CASE policy = "LRU"  -> Last(lruOrder)
            [] policy = "FIFO" -> Head(fifo)
            [] policy = "LFU"  -> Last(freqs[1].keys)

\* evict, when the cache is full, and the insertion of the new key.
PutAbsent(k, v) ==
    LET full == Cardinality(Cached) >= Capacity
        gone == IF full THEN {Victim} ELSE {}
    IN  /\ k \notin Cached
        /\ data' = With(Without(data, gone), k, v)
        /\ \/ /\ policy = "LRU"
              /\ lruOrder' = <<k>> \o (IF full THEN Front(lruOrder) ELSE lruOrder)
              /\ located' = (located \ gone) \cup {k}
              /\ UNCHANGED <<fifo, freqs, node>>
           \/ /\ policy = "FIFO"
              /\ fifo' = Append(IF full THEN Tail(fifo) ELSE fifo, k)
              /\ UNCHANGED <<lruOrder, located, freqs, node>>
           \/ /\ policy = "LFU"
              /\ freqs' = Link(IF full THEN EvictLfu ELSE freqs, 1, 1, k)
              /\ node' = With(Without(node, gone), k, 1)
              /\ UNCHANGED <<lruOrder, located, fifo>>
        /\ born' = Append(Skipping(born, gone), k)
        /\ recent' = Append(Skipping(recent, gone), k)
        /\ uses' = With(Without(uses, gone), k, 1)
        /\ UNCHANGED policy

Get(k) == /\ k \in Cached
          /\ RecordAccess(k)
          /\ UNCHANGED data

Forget(ks) == /\ born' = Skipping(born, ks)
              /\ recent' = Skipping(recent, ks)
              /\ uses' = Without(uses, ks)

Erase(k) == /\ k \in Cached
            /\ data' = Without(data, {k})
            /\ \/ /\ policy = "LRU"
                  /\ lruOrder' = Skipping(lruOrder, {k}) /\ located' = located \ {k}
                  /\ UNCHANGED <<fifo, freqs, node>>
               \/ /\ policy = "FIFO"
                  /\ fifo' = Skipping(fifo, {k})
                  /\ UNCHANGED <<lruOrder, located, freqs, node>>
               \/ /\ policy = "LFU"
                  /\ freqs' = Unlink(k) /\ node' = Without(node, {k})
                  /\ UNCHANGED <<lruOrder, located, fifo>>
            /\ Forget({k})
            /\ UNCHANGED policy

Clear == /\ data' = Empty
         /\ \/ /\ policy = "LRU"
               /\ lruOrder' = <<>> /\ located' = {}
               /\ UNCHANGED <<fifo, freqs, node>>
            \/ /\ policy = "FIFO"
               /\ fifo' = <<>>
               /\ UNCHANGED <<lruOrder, located, freqs, node>>
            \/ /\ policy = "LFU"
               /\ freqs' = <<>> /\ node' = Empty
               /\ UNCHANGED <<lruOrder, located, fifo>>
         /\ Forget(Cached)
         /\ UNCHANGED policy

EntriesNext == \/ \E k \in Keys, v \in Values : PutPresent(k, v) \/ PutAbsent(k, v)
               \/ \E k \in Keys : Get(k) \/ Erase(k)
               \/ Clear

EntriesSpec == EntriesInit /\ [][EntriesNext]_entryVars
-----------------------------------------------------------------------------
(***************************************************************************)
(* Properties.                                                             *)
(***************************************************************************)

Names(s, ks) == s \in Seq(ks) /\ IsInjective(s) /\ ks \subseteq ToSet(s)

LruExact  == Names(lruOrder, Cached) /\ located = Cached /\ Mirrors(lruOrder, recent)
FifoExact == Names(fifo, Cached) /\ Follows(fifo, born)

\* Ascending nodes, each with the keys of its frequency, used last to used first.
Ascending == \A i, j \in DOMAIN freqs : i < j => freqs[i].frequency < freqs[j].frequency
NodeExact(i) == /\ freqs[i].keys # <<>>
                /\ Names(freqs[i].keys, {k \in Cached : node[k] = freqs[i].frequency})
                /\ Mirrors(freqs[i].keys, recent)
LfuExact  == /\ node = uses
             /\ Ascending /\ \A i \in DOMAIN freqs : NodeExact(i)
             /\ \A k \in Cached : \E i \in DOMAIN freqs : freqs[i].frequency = node[k]

EntriesTypeOK ==
    /\ policy \in {"LRU", "FIFO", "LFU"}
    /\ Cached \subseteq Keys /\ \A k \in Cached : data[k] \in Values
    /\ IsFiniteSet(Cached) /\ Cardinality(Cached) <= Capacity
    /\ Names(born, Cached) /\ Names(recent, Cached) /\ uses \in [Cached -> Nat \ {0}]
    /\ freqs \in Seq([frequency : Nat \ {0}, keys : Seq(Keys)])

\* The inductive invariant: the cache never holds more than Capacity keys, and
\* the structure of its policy names exactly the cached keys, each once and in
\* the order of the history: evict, erase and the moves between frequency nodes
\* leave no key behind, no empty node, and the nodes in ascending order.  The
\* structures of the other policies stay unused.
OrdersExact ==
    /\ EntriesTypeOK
    /\ IF policy = "LRU"  THEN LruExact  ELSE lruOrder = <<>> /\ located = {}
    /\ IF policy = "FIFO" THEN FifoExact ELSE fifo = <<>>
    /\ IF policy = "LFU"  THEN LfuExact  ELSE freqs = <<>> /\ node = Empty

Bounded == INSTANCE BoundedCache WITH content <- data

\* Whatever calls came before, the cache answers with the value put last, and
\* a new key that needs room drives out exactly the key the policy names by
\* the whole history: no access is forgotten by the lists, and none invented.
ImplementsBoundedCache == Bounded!Spec
=============================================================================
