------------------------------- MODULE SkipList -------------------------------
(***************************************************************************)
(* SkipList of src/include/skiplist.h with its MemoryPool, for lists of    *)
(* one element type.                                                       *)
(*                                                                         *)
(* One thread writes.  Its inserts may overlap with searches of other      *)
(* threads; everything else has its list to itself, as nodes are freed at  *)
(* once (remove, clear) or the finger is trusted at an equal key           *)
(* (insert_or_assign, find).  A search loads one pointer at a time, and an *)
(* insert links one level at a time; the writer's own search for its place *)
(* is one step, for nobody else writes what it reads but finger_.          *)
(* compare_exchange_weak does not fail spuriously (as on x86).  Elements   *)
(* are their keys.  Freed nodes go to a cache of the thread, which all     *)
(* lists of the element type share, or to the free list of their list.     *)
(***************************************************************************)
EXTENDS Integers, FiniteSets, Sequences, SequencesExt

CONSTANTS
    Lists, NoList,
    Readers,        \* the threads that search
    Keys, NoKey,    \* NoKey: the header's
    MaxLevel,       \* effective_max_level_
    Memory, Null,   \* places for nodes
    BlockSize,      \* BLOCK_SIZE
    CacheMax,       \* THREAD_LOCAL_CACHE_MAX_SIZE
    Outlived        \* whether lists are in use after another has been destroyed

ASSUME KeyAssumption == Keys \subseteq Int
ASSUME MemoryAssumption == IsFiniteSet(Memory)
ASSUME SizeAssumption == /\ MaxLevel \in Nat /\ CacheMax \in Nat
                         /\ BlockSize \in Nat \ {0} /\ Outlived \in BOOLEAN
ASSUME NoneAssumption == NoList \notin Lists /\ NoKey \notin Keys /\ Null \notin Memory

VARIABLES
    head, level, finger,      \* header, currentLevel and finger_ of each list
    value, height, forward,   \* of the nodes: value, node_level and forward
    cache,      \* tl_cache of the writer
    free,       \* each pool's free list, its head first
    owner,      \* the pool whose blocks_ a place is in
    used,       \* history: the list whose node is in a place
    ended,      \* history: a list has been destroyed
    writer,     \* the insert under way
    reader      \* the search each reader has under way

nodes == <<value, height, forward>>
pool  == <<cache, free, owner>>
vars  == <<head, level, finger, nodes, pool, used, ended, writer, reader>>

Levels == 0 .. MaxLevel
Unlinked == [i \in Levels |-> Null]
Idle == [pc |-> "idle"]
Exists(l) == head[l] # Null
Searching(l) == {r \in Readers : reader[r] # Idle /\ reader[r].list = l}
Alone(l) == Exists(l) /\ writer = Idle /\ Searching(l) = {}

NodesOf(l) == {n \in Memory : used[n] = l}

Init == /\ head = [l \in Lists |-> Null] /\ level = [l \in Lists |-> 0]
        /\ finger = [l \in Lists |-> Null]
        /\ value = [n \in Memory |-> NoKey] /\ height = [n \in Memory |-> 0]
        /\ forward = [n \in Memory |-> Unlinked]
        /\ cache = <<>> /\ free = [l \in Lists |-> <<>>]
        /\ owner = [n \in Memory |-> NoList] /\ used = [n \in Memory |-> NoList]
        /\ ended = FALSE
        /\ writer = Idle /\ reader = [r \in Readers |-> Idle]
-----------------------------------------------------------------------------
(***************************************************************************)
(* The memory pool.                                                        *)
(***************************************************************************)

Unowned == {n \in Memory : owner[n] = NoList}
Block   == CHOOSE s \in [1 .. BlockSize -> Unowned] : IsInjective(s)
FreeOf(l) == IF free[l] # <<>> THEN free[l] ELSE Reverse(Block)
Room(l) == cache # <<>> \/ free[l] # <<>> \/ Cardinality(Unowned) >= BlockSize

\* allocate: from the thread's cache, or the pool's free list, or a new block.
Allocated(l) == IF cache # <<>> THEN Last(cache) ELSE Head(FreeOf(l))

TakeFromCache == /\ cache # <<>>
                 /\ cache' = Front(cache)
                 /\ UNCHANGED <<free, owner>>
TakeFromPool(l) == /\ cache = <<>>
                   /\ free' = [free EXCEPT ![l] = Tail(FreeOf(l))]
                   /\ owner' = [n \in Memory |-> IF n \in ToSet(FreeOf(l)) THEN l ELSE owner[n]]
                   /\ UNCHANGED cache

\* A node is made in the place allocated.
Make(l, key, h) == /\ Room(l)
                   /\ TakeFromCache \/ TakeFromPool(l)
                   /\ value' = [value EXCEPT ![Allocated(l)] = key]
                   /\ height' = [height EXCEPT ![Allocated(l)] = h]
                   /\ used' = [used EXCEPT ![Allocated(l)] = l]

\* The destructors of nodes; links are the pointers that the others have by now.
Destruct(gone, links) ==
    /\ value' = [n \in Memory |-> IF n \in gone THEN NoKey ELSE value[n]]
    /\ height' = [n \in Memory |-> IF n \in gone THEN 0 ELSE height[n]]
    /\ forward' = [n \in Memory |-> IF n \in gone THEN Unlinked ELSE links[n]]
    /\ used' = [n \in Memory |-> IF n \in gone THEN NoList ELSE used[n]]

\* deallocate, of each of these nodes in turn.
Cached(gone) == LET room == CacheMax - Len(cache)
                IN  SubSeq(gone, 1, IF room < Len(gone) THEN room ELSE Len(gone))
Deallocate(l, gone, links) ==
    /\ cache' = cache \o Cached(gone)
    /\ free' = [free EXCEPT ![l] =
                   Reverse(SubSeq(gone, Len(Cached(gone)) + 1, Len(gone))) \o @]
    /\ Destruct(ToSet(gone), links)
-----------------------------------------------------------------------------
(***************************************************************************)
(* Finding a place.                                                        *)
(***************************************************************************)

\* A mutant: the finger is trusted wherever it stands.
StartsAnywhere(l, k) == {head[l], finger[l]}

\* Where a search for k starts: every call first sets finger_ to the header.  It
\* is a plain pointer, so the call may go on with the header, or with what another
\* has set it to since, if that is before k.
Starts(l, k) == {head[l]} \cup {f \in {finger[l]} : f # head[l] /\ value[f] < k}

StartLevel(l, f) == IF f = head[l] \/ level[l] < height[f] THEN level[l] ELSE height[f]

Precedes(n, k) == n # Null /\ value[n] < k

\* The last node at level i before k, from n on.
Before(n, i, k) ==
    LET walk[m \in Memory] == IF Precedes(forward[m][i], k) THEN walk[forward[m][i]] ELSE m
    IN  walk[n]

\* The array update, filled from f down, and for the levels above f from the
\* header; it names the header for the levels that are not in use yet.
Update(l, f, k) ==
    LET start == StartLevel(l, f)
        below[i \in 0 .. start] == Before(IF i = start THEN f ELSE below[i + 1], i, k)
        above[i \in start + 1 .. level[l]] ==
            Before(IF i = level[l] THEN head[l] ELSE above[i + 1], i, k)
    IN  [i \in Levels |-> IF i <= start THEN below[i]
                          ELSE IF i <= level[l] THEN above[i] ELSE head[l]]

Found(update, k) == LET n == forward[update[0]][0] IN n # Null /\ value[n] = k
-----------------------------------------------------------------------------
(***************************************************************************)
(* insert, and insert_or_assign, which has the list to itself.             *)
(***************************************************************************)

StartInsert(l, k, alone) ==
    /\ Exists(l) /\ writer = Idle
    /\ alone => Alone(l)
    /\ finger' = [finger EXCEPT ![l] = head[l]]
    /\ writer' = [pc |-> "find", list |-> l, key |-> k, alone |-> alone]
    /\ UNCHANGED <<head, level, nodes, pool, used, ended, reader>>

\* The key is there: nothing is inserted.  (Assigning changes no key.)
Refuse(f) ==
    LET l == writer.list
        update == Update(l, f, writer.key)
    IN  /\ Found(update, writer.key)
        /\ finger' = [finger EXCEPT ![l] = update[0]]
        /\ writer' = Idle
        /\ UNCHANGED <<head, level, nodes, pool, used, ended, reader>>

\* The level h is drawn, currentLevel raised, and the node made.
Draw(f, h) ==
    LET l == writer.list
        update == Update(l, f, writer.key)
    IN  /\ ~Found(update, writer.key)
        /\ level' = [level EXCEPT ![l] = IF h > @ THEN h ELSE @]
        /\ Make(l, writer.key, h)
        /\ forward' = [forward EXCEPT ![Allocated(l)] = Unlinked]
        /\ writer' = [pc |-> "link", list |-> l, alone |-> writer.alone,
                      node |-> Allocated(l), update |-> update, at |-> 0]
        /\ UNCHANGED <<head, finger, ended, reader>>

FindPlace == /\ writer.pc = "find"
             /\ \E f \in Starts(writer.list, writer.key) :
                    Refuse(f) \/ \E h \in Levels : Draw(f, h)

\* The node is linked at the next level, and after the last the insert is done.
Link ==
    /\ writer.pc = "link"
    /\ LET i    == writer.at
           n    == writer.node
           pred == writer.update[i]
       IN  /\ forward' = [forward EXCEPT ![n][i] = forward[pred][i], ![pred][i] = n]
           /\ \/ /\ i < height[n]
                 /\ writer' = [writer EXCEPT !.at = i + 1]
                 /\ UNCHANGED finger
              \/ /\ i = height[n]
                 /\ writer' = Idle
                 /\ finger' = [finger EXCEPT ![writer.list] = writer.update[0]]
           /\ reader' = [r \in Readers |->
                  IF i = 0 /\ reader[r] # Idle /\ reader[r].pc = "look" /\ reader[r].node = pred
                  THEN [reader[r] EXCEPT !.sure = FALSE] ELSE reader[r]]
    /\ UNCHANGED <<head, level, value, height, pool, used, ended>>
-----------------------------------------------------------------------------
(***************************************************************************)
(* search, beside the writer's inserts.  Its last look loads the pointer   *)
(* anew, and so it misses its key if a node has been linked before it      *)
(* since; sure records that the key is in the list from the start and that *)
(* this has not happened.                                                  *)
(***************************************************************************)

Read(r, s) == reader' = [reader EXCEPT ![r] = s]

\* The keys in the list.
Held(l) == {value[n] : n \in {forward[m][0] : m \in NodesOf(l)} \ {Null}}

StartSearch(r, l, k) ==
    /\ Exists(l) /\ reader[r] = Idle
    /\ writer # Idle => ~(writer.list = l /\ writer.alone)
    /\ finger' = [finger EXCEPT ![l] = head[l]]
    /\ Read(r, [pc |-> "start", list |-> l, key |-> k,
                sure |-> k \in Held(l)])
    /\ UNCHANGED <<head, level, nodes, pool, used, ended, writer>>

BeginSearch(r) ==
    /\ reader[r].pc = "start"
    /\ LET s == reader[r]
       IN  \E f \in Starts(s.list, s.key) :
              Read(r, [pc |-> "walk", list |-> s.list, key |-> s.key, sure |-> s.sure,
                       node |-> f, at |-> StartLevel(s.list, f)])
    /\ UNCHANGED <<head, level, finger, nodes, pool, used, ended, writer>>

\* One load of a forward pointer: on, or one level down, or to the last look.
Walk(r) ==
    /\ reader[r].pc = "walk"
    /\ LET s == reader[r]
           next == forward[s.node][s.at]
       IN  \/ /\ Precedes(next, s.key)
              /\ Read(r, [s EXCEPT !.node = next])
           \/ /\ ~Precedes(next, s.key)
              /\ Read(r, IF s.at > 0 THEN [s EXCEPT !.at = @ - 1] ELSE [s EXCEPT !.pc = "look"])
    /\ UNCHANGED <<head, level, finger, nodes, pool, used, ended, writer>>

Answer(r) ==
    /\ reader[r].pc = "look"
    /\ finger' = [finger EXCEPT ![reader[r].list] = reader[r].node]
    /\ Read(r, Idle)
    /\ UNCHANGED <<head, level, nodes, pool, used, ended, writer>>
-----------------------------------------------------------------------------
(***************************************************************************)
(* What has a list to itself.                                              *)
(***************************************************************************)

Construct(l) ==
    /\ ~Exists(l) /\ writer = Idle
    /\ ended => Outlived
    /\ Make(l, NoKey, MaxLevel)
    /\ forward' = [forward EXCEPT ![Allocated(l)] = Unlinked]
    /\ head' = [head EXCEPT ![l] = Allocated(l)]
    /\ finger' = [finger EXCEPT ![l] = Allocated(l)]
    /\ level' = [level EXCEPT ![l] = 0]
    /\ UNCHANGED <<ended, writer, reader>>

\* A mutant: the node is unlinked at the lowest level only.
UnlinkLowest(target, update) == [forward EXCEPT ![update[0]][0] = forward[target][0]]

Unlink(target, update) ==
    [n \in Memory |-> [i \in Levels |->
        IF i <= height[target] /\ n = update[i] /\ forward[n][i] = target
        THEN forward[target][i] ELSE forward[n][i]]]

\* currentLevel is lowered past the levels that are empty now.
Lowered(l, links) ==
    CHOOSE i \in 0 .. level[l] :
        /\ i = 0 \/ links[head[l]][i] # Null
        /\ \A j \in i + 1 .. level[l] : links[head[l]][j] = Null

\* A key that is not there changes nothing but the finger.
RemoveKey(l, k) ==
    LET update == Update(l, head[l], k)
        target == forward[update[0]][0]
    IN  /\ Alone(l)
        /\ finger' = [finger EXCEPT ![l] = update[0]]
        /\ \/ /\ Found(update, k)
              /\ Deallocate(l, <<target>>, Unlink(target, update))
              /\ level' = [level EXCEPT ![l] = Lowered(l, forward')]
           \/ /\ ~Found(update, k)
              /\ UNCHANGED <<level, nodes, cache, free, used>>
        /\ UNCHANGED <<head, owner, ended, writer, reader>>

\* The nodes of a list in their order, from n on.
From(n) == LET rest[m \in Memory] ==
                   IF forward[m][0] = Null THEN <<m>> ELSE <<m>> \o rest[forward[m][0]]
           IN  rest[n]

Clear(l) ==
    /\ Alone(l)
    /\ Deallocate(l, Tail(From(head[l])), [forward EXCEPT ![head[l]] = Unlinked])
    /\ level' = [level EXCEPT ![l] = 0]
    /\ finger' = [finger EXCEPT ![l] = head[l]]
    /\ UNCHANGED <<head, owner, ended, writer, reader>>

\* The destructor; the pool goes with its list, and takes its blocks along.
Destroy(l) ==
    /\ Alone(l)
    /\ Outlived \/ \A m \in Lists \ {l} : ~Exists(m)
    /\ cache' = cache \o Cached(Tail(From(head[l])) \o <<head[l]>>)
    /\ free' = [free EXCEPT ![l] = <<>>]
    /\ Destruct(NodesOf(l), forward)
    /\ owner' = [n \in Memory |-> IF owner[n] = l THEN NoList ELSE owner[n]]
    /\ head' = [head EXCEPT ![l] = Null] /\ finger' = [finger EXCEPT ![l] = Null]
    /\ level' = [level EXCEPT ![l] = 0]
    /\ ended' = TRUE
    /\ UNCHANGED <<writer, reader>>
-----------------------------------------------------------------------------
Next == \/ \E l \in Lists : Construct(l) \/ Clear(l) \/ Destroy(l)
        \/ \E l \in Lists, k \in Keys : \/ \E alone \in BOOLEAN : StartInsert(l, k, alone)
                                        \/ RemoveKey(l, k)
        \/ FindPlace \/ Link
        \/ \E r \in Readers :
              \/ \E l \in Lists, k \in Keys : StartSearch(r, l, k)
              \/ BeginSearch(r) \/ Walk(r) \/ Answer(r)

Spec == Init /\ [][Next]_vars
-----------------------------------------------------------------------------
(***************************************************************************)
(* Properties.                                                             *)
(***************************************************************************)

Inserts  == [pc : {"find"}, list : Lists, key : Keys, alone : BOOLEAN]
            \cup [pc : {"link"}, list : Lists, alone : BOOLEAN, node : Memory,
                  update : [Levels -> Memory], at : Levels]
Searches == [pc : {"start"}, list : Lists, key : Keys, sure : BOOLEAN]
            \cup [pc : {"walk", "look"}, list : Lists, key : Keys, sure : BOOLEAN,
                  node : Memory, at : Levels]

TypeOK == /\ head \in [Lists -> Memory \cup {Null}] /\ finger \in [Lists -> Memory \cup {Null}]
          /\ level \in [Lists -> Levels]
          /\ value \in [Memory -> Keys \cup {NoKey}] /\ height \in [Memory -> Levels]
          /\ forward \in [Memory -> [Levels -> Memory \cup {Null}]]
          /\ cache \in Seq(Memory) /\ free \in [Lists -> Seq(Memory)]
          /\ owner \in [Memory -> Lists \cup {NoList}]
          /\ used \in [Memory -> Lists \cup {NoList}]
          /\ ended \in BOOLEAN
          /\ writer \in Inserts \cup {Idle}
          /\ reader \in [Readers -> Searches \cup {Idle}]

Made  == {n \in Memory : used[n] # NoList}
Spare == UNION {ToSet(free[l]) : l \in Lists}

\* Whoever makes, frees and reuses nodes: each place of a pool is in one list,
\* once in the thread's cache, or once in one free list.
PoolExact ==
    /\ IsInjective(cache) /\ \A l \in Lists : IsInjective(free[l])
    /\ \A l, m \in Lists : l # m => ToSet(free[l]) \cap ToSet(free[m]) = {}
    /\ ToSet(cache) \cap Spare = {} /\ Made \cap (ToSet(cache) \cup Spare) = {}
    /\ ~ended => Made \cup Spare \cup ToSet(cache) = Memory \ Unowned

\* Only lists that are there have nodes, and what is free leads nowhere.
MadeExact == /\ \A n \in Memory : IF used[n] = NoList THEN forward[n] = Unlinked
                                  ELSE Exists(used[n])
             /\ ended /\ ~Outlived => \A l \in Lists : ~Exists(l)

Keyed(l)      == NodesOf(l) \ {head[l]}
Pending(n, i) == writer.pc = "link" /\ writer.node = n /\ writer.at <= i
Linked(l, i)  == {n \in Keyed(l) : height[n] >= i /\ ~Pending(n, i)}

\* The nodes that a pointer of n at level i may lead to, by their keys
Later(l, n, i) == {m \in Linked(l, i) : n = head[l] \/ value[n] < value[m]}

LeadsOn(l, n, i) ==
    LET next == forward[n][i]
    IN  IF i > height[n] \/ Pending(n, i) THEN next = Null
        ELSE IF next = Null THEN Later(l, n, i) = {}
        ELSE next \in Later(l, n, i) /\ \A m \in Later(l, n, i) : value[next] <= value[m]

\* At each level every pointer leads to the next, by its key, of the nodes that are
\* so high, and the last one nowhere; no key is there twice; currentLevel is the
\* height of the highest node.
ChainExact(l) ==
    /\ head[l] \in NodesOf(l) /\ height[head[l]] = MaxLevel
    /\ finger[l] \in {head[l]} \cup Linked(l, 0)
    /\ \A n \in Keyed(l) : value[n] \in Keys /\ height[n] <= level[l]
    /\ \A m, n \in Keyed(l) : value[m] = value[n] => m = n
    /\ \A n \in NodesOf(l), i \in Levels : LeadsOn(l, n, i)
    /\ level[l] = 0 \/ \E n \in Keyed(l) : height[n] = level[l]

ChainsExact == \A l \in Lists : Exists(l) => ChainExact(l)

\* m is the last node before the key k at level i.
IsBefore(l, m, i, k) == /\ m \in {head[l]} \cup Linked(l, i)
                        /\ m # head[l] => value[m] < k
                        /\ forward[m][i] # Null => value[forward[m][i]] > k

\* What is still to be linked has its place kept free.
WriterExact ==
    writer # Idle =>
        LET l == writer.list
            n == writer.node
        IN  /\ Exists(l)
            /\ writer.pc = "link" =>
                  /\ n \in Keyed(l) /\ writer.at <= height[n]
                  /\ writer.update[0] \in {head[l]} \cup Linked(l, 0)
                  /\ \A i \in writer.at .. height[n] :
                        IsBefore(l, writer.update[i], i, value[n])

\* A search is at a node before its key, one that is linked at the lowest level.
SearchExact(s) ==
    /\ Exists(s.list)
    /\ s.sure => \E n \in Linked(s.list, 0) : value[n] = s.key
    /\ s.pc # "start" =>
          /\ s.node \in {head[s.list]} \cup Linked(s.list, 0)
          /\ s.node # head[s.list] => value[s.node] < s.key
          /\ s.at <= height[s.node]
    /\ s.pc = "look" => s.at = 0

ReadersExact == \A r \in Readers : reader[r] # Idle => SearchExact(reader[r])

\* A search finds a key that was in the list when it began, whatever fingers
\* other searches leave it and levels an insert has linked so far, unless the
\* insert links a node between its last two loads.
SearchFinds ==
    \A r \in Readers : reader[r].pc = "look" /\ reader[r].sure =>
        LET found == forward[reader[r].node][0]
        IN  found # Null /\ value[found] = reader[r].key

\* Pools and chains are exact through every insert, removal and clearing, and
\* every call under way is at a place in its list.
IInv == TypeOK /\ PoolExact /\ MadeExact /\ ChainsExact /\ WriterExact /\ ReadersExact

\* The nodes of a list are in memory that a pool holds: "Node from tl_cache is
\* raw memory".
NodesInMemory == \A n \in Memory : used[n] # NoList => owner[n] # NoList
===============================================================================
