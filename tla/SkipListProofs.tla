---------------------------- MODULE SkipListProofs ----------------------------
(***************************************************************************)
(* Proofs about SkipList, for any keys, levels, lists and readers and any  *)
(* finite memory, as long as no list is used after another was destroyed   *)
(* (~Outlived): pools and chains are exact through every call, and a       *)
(* search that runs beside inserts finds what was there before it.         *)
(***************************************************************************)
EXTENDS SkipList, ListProofs

\* A function of a finite set that is not empty has a highest value.
LEMMA Highest ==
    ASSUME NEW S, IsFiniteSet(S), S # {}, NEW f \in [S -> Int]
    PROVE  \E n \in S : \A m \in S : f[m] <= f[n]
<1> DEFINE Has(T) == \E n \in T : \A m \in T : f[m] <= f[n]
           T == {c \in Nat : \A U \in SUBSET S : Cardinality(U) = c + 1 => Has(U)}
<1>1. \A U \in SUBSET S : IsFiniteSet(U) /\ Cardinality(U) \in Nat /\ (Cardinality(U) = 0 <=> U = {})
  BY FS_Subset, FS_EmptySet, FS_CardinalityType
<1>2. 0 \in T
  <2> SUFFICES ASSUME NEW U \in SUBSET S, Cardinality(U) = 1 PROVE Has(U)
    OBVIOUS
  <2>1. PICK x : U = {x}
    BY <1>1, FS_Singleton
  <2> QED BY <2>1
<1>3. ASSUME NEW c \in T PROVE c + 1 \in T
  <2> SUFFICES ASSUME NEW U \in SUBSET S, Cardinality(U) = c + 1 + 1 PROVE Has(U)
    OBVIOUS
  <2>1. U # {}
    BY <1>1
  <2>2. PICK x \in U : TRUE
    BY <2>1
  <2>3. Cardinality(U \ {x}) = c + 1
    BY <1>1, FS_RemoveElement
  <2>4. PICK n \in U \ {x} : \A m \in U \ {x} : f[m] <= f[n]
    BY <2>3
  <2>5. f[n] \in Int /\ f[x] \in Int /\ \A m \in U : f[m] \in Int
    OBVIOUS
  <2>6. CASE f[x] <= f[n]
    BY <2>4, <2>6
  <2>7. CASE f[n] <= f[x]
    <3>1. \A m \in U : f[m] <= f[x]
      BY <2>4, <2>5, <2>7
    <3> QED BY <3>1
  <2> QED BY <2>5, <2>6, <2>7
<1> HIDE DEF T
<1>4. T = Nat
  <2>1. T \in SUBSET Nat
    BY DEF T
  <2> QED BY <2>1, <1>2, <1>3, Induction
<1>5. Cardinality(S) - 1 \in Nat /\ (Cardinality(S) - 1) + 1 = Cardinality(S)
  BY <1>1
<1> QED BY <1>4, <1>5 DEF T
-----------------------------------------------------------------------------
(***************************************************************************)
(* The parts of the invariant, and what it says of one list.               *)
(***************************************************************************)
USE DEF Exists, NodesOf

\* Levels are the numbers up to MaxLevel.
LEMMA Natural == MaxLevel \in Nat /\ Levels = 0 .. MaxLevel /\ 0 \in Levels /\ Levels \subseteq Nat
BY SizeAssumption DEF Levels

\* The null pointer, no list and no key are none of the others; memory is finite.
LEMMA NoneApart == /\ NoList \notin Lists /\ NoKey \notin Keys /\ Null \notin Memory
                   /\ Keys \subseteq Int /\ IsFiniteSet(Memory)
BY NoneAssumption, KeyAssumption, MemoryAssumption

\* The types, one by one.
LEMMA Types ==
    ASSUME TypeOK
    PROVE  /\ head \in [Lists -> Memory \cup {Null}] /\ finger \in [Lists -> Memory \cup {Null}]
           /\ level \in [Lists -> Levels]
           /\ value \in [Memory -> Keys \cup {NoKey}] /\ height \in [Memory -> Levels]
           /\ forward \in [Memory -> [Levels -> Memory \cup {Null}]]
           /\ cache \in Seq(Memory) /\ free \in [Lists -> Seq(Memory)]
           /\ owner \in [Memory -> Lists \cup {NoList}]
           /\ used \in [Memory -> Lists \cup {NoList}]
           /\ ended \in BOOLEAN
           /\ writer \in Inserts \cup {Idle}
           /\ reader \in [Readers -> Searches \cup {Idle}]
BY DEF TypeOK

\* What there is of writers.
LEMMA WriterIs ==
    ASSUME writer \in Inserts \cup {Idle}
    PROVE  /\ writer = Idle <=> writer.pc = "idle"
           /\ writer.pc \in {"idle", "find", "link"}
           /\ writer.pc # "idle" => writer.list \in Lists /\ writer.alone \in BOOLEAN
           /\ writer.pc = "find" => writer.key \in Keys
           /\ writer.pc = "link" => /\ writer.node \in Memory /\ writer.at \in Levels
                                    /\ writer.update \in [Levels -> Memory]
BY DEF Inserts, Idle

\* The facts about one list that is there.
ListFacts(l) ==
    /\ head[l] \in Memory /\ used[head[l]] = l /\ height[head[l]] = MaxLevel
    /\ level[l] \in Nat /\ level[l] <= MaxLevel
    /\ finger[l] \in {head[l]} \cup Linked(l, 0)
    /\ \A n \in Keyed(l) : /\ n \in Memory /\ used[n] = l /\ n # head[l]
                           /\ value[n] \in Keys /\ value[n] \in Int
                           /\ height[n] \in Nat /\ height[n] <= level[l]
    /\ \A m, n \in Keyed(l) : value[m] = value[n] => m = n
    /\ \A i : Linked(l, i) \subseteq Keyed(l) /\ \A n \in Linked(l, i) : height[n] >= i
    /\ \A n \in {head[l]} \cup Keyed(l), i \in Levels : 
          /\ i > height[n] \/ Pending(n, i) => forward[n][i] = Null
          /\ i <= height[n] /\ ~Pending(n, i) =>
                /\ forward[n][i] = Null => Later(l, n, i) = {}
                /\ forward[n][i] # Null =>
                      /\ forward[n][i] \in Later(l, n, i)
                      /\ forward[n][i] \in Linked(l, i)
                      /\ n # head[l] => value[n] < value[forward[n][i]]
                      /\ \A m \in Later(l, n, i) : value[forward[n][i]] <= value[m]

\* ChainExact in single facts, with the types of what it speaks of
LEMMA ChainFacts ==
    ASSUME TypeOK, NEW l \in Lists, Exists(l), ChainExact(l)
    PROVE  ListFacts(l)
<1> USE Types, Natural, NoneApart
<1>1. /\ head[l] \in Memory /\ used[head[l]] = l /\ height[head[l]] = MaxLevel
      /\ level[l] \in Nat /\ level[l] <= MaxLevel
      /\ finger[l] \in {head[l]} \cup Linked(l, 0)
  BY DEF ChainExact
<1>2. \A n \in Keyed(l) : /\ n \in Memory /\ used[n] = l /\ n # head[l]
                          /\ value[n] \in Keys /\ value[n] \in Int
                          /\ height[n] \in Nat /\ height[n] <= level[l]
  BY DEF ChainExact, Keyed
<1>3. \A m, n \in Keyed(l) : value[m] = value[n] => m = n
  BY DEF ChainExact
<1>4. \A i : Linked(l, i) \subseteq Keyed(l) /\ \A n \in Linked(l, i) : height[n] >= i
  BY DEF Linked
<1>5. ASSUME NEW n \in {head[l]} \cup Keyed(l), NEW i \in Levels
      PROVE  /\ i > height[n] \/ Pending(n, i) => forward[n][i] = Null
             /\ i <= height[n] /\ ~Pending(n, i) =>
                   /\ forward[n][i] = Null => Later(l, n, i) = {}
                   /\ forward[n][i] # Null =>
                         /\ forward[n][i] \in Later(l, n, i)
                         /\ forward[n][i] \in Linked(l, i)
                         /\ n # head[l] => value[n] < value[forward[n][i]]
                         /\ \A m \in Later(l, n, i) : value[forward[n][i]] <= value[m]
  <2>1. LeadsOn(l, n, i)
    BY <1>1, <1>2 DEF ChainExact
  <2>2. height[n] \in Nat /\ i \in Nat
    BY <1>1, <1>2
  <2>3. \A m \in Later(l, n, i) : m \in Linked(l, i) /\ (n # head[l] => value[n] < value[m])
    BY DEF Later
  <2> QED BY <2>1, <2>2, <2>3 DEF LeadsOn
<1> QED BY <1>1, <1>2, <1>3, <1>4, <1>5 DEF ListFacts

\* Of some nodes of a list one has the highest key.
LEMMA HighestNode ==
    ASSUME NEW l \in Lists, ListFacts(l), NEW S \in SUBSET Keyed(l), S # {}
    PROVE  \E n \in S : \A m \in S : value[m] <= value[n]
<1>1. IsFiniteSet(S)
  BY FS_Subset, NoneApart DEF ListFacts
<1> DEFINE f == [n \in S |-> value[n]]
<1>2. f \in [S -> Int]
  BY DEF ListFacts
<1>3. \E n \in S : \A m \in S : f[m] <= f[n]
  <2> HIDE DEF f
  <2> QED BY <1>1, <1>2, Highest
<1> QED BY <1>3
-----------------------------------------------------------------------------
(***************************************************************************)
(* A search finds the one place before its key, from wherever it starts.   *)
(***************************************************************************)
Nothing == \A n \in Memory, i \in Levels : ~Pending(n, i)

\* m is where a search for k ends at level i.
IsPlace(l, m, i, k) == /\ m \in {head[l]} \cup Linked(l, i)
                       /\ m # head[l] => value[m] < k
                       /\ forward[m][i] # Null => ~(value[forward[m][i]] < k)

Lower(l, i, k) == {n \in Linked(l, i) : value[n] < k}
Place(l, i, k) == IF Lower(l, i, k) = {} THEN head[l]
                  ELSE CHOOSE n \in Lower(l, i, k) : \A m \in Lower(l, i, k) : value[m] <= value[n]

\* While nothing is being linked, a key has one place at each level.
LEMMA OnePlace ==
    ASSUME NEW l \in Lists, ListFacts(l), Nothing, NEW i \in Levels, NEW k \in Int
    PROVE  /\ IsPlace(l, Place(l, i, k), i, k)
           /\ \A m : IsPlace(l, m, i, k) => m = Place(l, i, k)
<1> DEFINE P == Place(l, i, k)
<1> USE Natural
<1>0. i <= height[head[l]] /\ ~Pending(head[l], i)
  BY DEF ListFacts, Nothing
<1>a. \A n \in Linked(l, i) : i <= height[n] /\ ~Pending(n, i) /\ n \in Keyed(l) /\ value[n] \in Int
  BY DEF ListFacts, Nothing
<1>1. CASE Lower(l, i, k) = {}
  <2>1. P = head[l]
    BY <1>1 DEF Place
  <2>2. \A m : IsPlace(l, m, i, k) => m = P
    BY <1>1, <2>1 DEF IsPlace, Lower
  <2>3. forward[head[l]][i] # Null => ~(value[forward[head[l]][i]] < k)
    <3>1. forward[head[l]][i] # Null => forward[head[l]][i] \in Linked(l, i)
      BY <1>0 DEF ListFacts
    <3> QED BY <1>1, <3>1 DEF Lower
  <2> QED BY <2>1, <2>2, <2>3 DEF IsPlace
<1>2. CASE Lower(l, i, k) # {}
  <2>1. Lower(l, i, k) \in SUBSET Keyed(l)
    BY DEF ListFacts, Lower
  <2>2. \E n \in Lower(l, i, k) : \A m \in Lower(l, i, k) : value[m] <= value[n]
    BY <1>2, <2>1, HighestNode
  <2>3. P \in Lower(l, i, k) /\ \A m \in Lower(l, i, k) : value[m] <= value[P]
    BY <1>2, <2>2 DEF Place
  <2> HIDE DEF P
  <2>4. P \in Linked(l, i) /\ P # head[l] /\ value[P] < k /\ value[P] \in Int
    BY <2>3, <1>a DEF Lower, ListFacts
  <2>5. IsPlace(l, P, i, k)
    <3> SUFFICES ASSUME forward[P][i] # Null, value[forward[P][i]] < k PROVE FALSE
      BY <2>4 DEF IsPlace
    <3>1. forward[P][i] \in Linked(l, i) /\ value[P] < value[forward[P][i]]
      BY <1>a, <2>4 DEF ListFacts
    <3>2. forward[P][i] \in Lower(l, i, k)
      BY <3>1 DEF Lower
    <3> QED BY <2>3, <2>4, <3>1, <3>2, <1>a
  <2>6. ASSUME NEW m, IsPlace(l, m, i, k), m # P PROVE FALSE
    <3>1. m \in {head[l]} \cup Keyed(l) /\ i <= height[m] /\ ~Pending(m, i)
      BY <2>6, <1>0, <1>a DEF IsPlace
    <3>2. P \in Later(l, m, i)
      <4>1. CASE m = head[l]
        BY <4>1, <2>4 DEF Later
      <4>2. CASE m # head[l]
        <5>1. m \in Lower(l, i, k) /\ value[m] \in Int
          BY <4>2, <2>6, <1>a DEF IsPlace, Lower
        <5>2. value[m] <= value[P] /\ value[m] # value[P]
          BY <5>1, <2>3, <2>4, <2>6, <1>a, <4>2, <3>1 DEF ListFacts
        <5> QED BY <5>1, <5>2, <2>4 DEF Later
      <4> QED BY <4>1, <4>2
    <3>3. forward[m][i] # Null /\ value[forward[m][i]] <= value[P] /\ value[forward[m][i]] \in Int
      BY <3>1, <3>2, <1>a DEF ListFacts
    <3> QED BY <3>3, <2>4, <2>6 DEF IsPlace
  <2> QED BY <2>5, <2>6 DEF P
<1> QED BY <1>1, <1>2

\* The walk of one level: on as long as the next is before k.
Walks(w, i, k) == w = [m \in Memory |-> IF Precedes(forward[m][i], k) THEN w[forward[m][i]] ELSE m]

\* Where the pointers of a list lead.
LEMMA Onward ==
    ASSUME TypeOK, MadeExact, ChainsExact, Nothing, NEW i \in Levels, NEW n \in Memory,
           forward[n][i] # Null
    PROVE  /\ used[n] \in Lists /\ Exists(used[n]) /\ ListFacts(used[n])
           /\ n \in {head[used[n]]} \cup Linked(used[n], i)
           /\ forward[n][i] \in Linked(used[n], i) /\ forward[n][i] \in Memory
           /\ used[forward[n][i]] = used[n]
           /\ n # head[used[n]] => value[n] < value[forward[n][i]]
           /\ value[forward[n][i]] \in Int
<1> USE Types, Natural, NoneApart
<1>1. used[n] # NoList
  BY DEF MadeExact, Unlinked
<1> DEFINE l == used[n]
<1>2. l \in Lists /\ Exists(l)
  BY <1>1 DEF MadeExact
<1>3. ListFacts(l)
  BY <1>2, ChainFacts DEF ChainsExact
<1>4. n \in {head[l]} \cup Keyed(l)
  BY DEF Keyed
<1> HIDE DEF l
<1>5. i <= height[n] /\ ~Pending(n, i) /\ forward[n][i] \in Linked(l, i)
      /\ (n # head[l] => value[n] < value[forward[n][i]])
  <2>1. i \in Nat /\ height[n] \in Nat
    OBVIOUS
  <2> QED BY <1>3, <1>4, <2>1 DEF ListFacts, Nothing
<1>6. forward[n][i] \in Keyed(l)
  BY <1>3, <1>5 DEF ListFacts
<1>7. forward[n][i] \in Memory /\ used[forward[n][i]] = l /\ value[forward[n][i]] \in Int
  BY <1>3, <1>6 DEF ListFacts
<1>8. n \in {head[l]} \cup Linked(l, i)
  BY <1>4, <1>5 DEF Linked
<1> QED BY <1>2, <1>3, <1>5, <1>7, <1>8 DEF l

\* The recursion of Before comes to an end: it leads to the place.
LEMMA WalkGoesOn ==
    ASSUME TypeOK, MadeExact, ChainsExact, Nothing, NEW i \in Levels, NEW k \in Int
    PROVE  \E w : Walks(w, i, k)
<1> DEFINE w == [m \in Memory |-> IF Precedes(forward[m][i], k) THEN Place(used[m], i, k) ELSE m]
<1>1. ASSUME NEW m \in Memory, Precedes(forward[m][i], k)
      PROVE  forward[m][i] \in Memory /\ w[forward[m][i]] = Place(used[m], i, k)
  <2> DEFINE n == forward[m][i]
             l == used[m]
  <2>1. n # Null /\ value[n] < k
    BY <1>1 DEF Precedes
  <2>2. l \in Lists /\ ListFacts(l) /\ n \in Linked(l, i) /\ n \in Memory /\ used[n] = l
    BY <2>1, Onward
  <2> HIDE DEF n, l
  <2>3. CASE Precedes(forward[n][i], k)
    BY <2>2, <2>3 DEF n, l
  <2>4. CASE ~Precedes(forward[n][i], k)
    <3>1. IsPlace(l, n, i, k)
      BY <2>1, <2>2, <2>4 DEF IsPlace, Precedes
    <3>2. n = Place(l, i, k)
      BY <2>2, <3>1, OnePlace
    <3>3. w[n] = n
      BY <2>2, <2>4
    <3> QED BY <2>2, <3>2, <3>3 DEF n, l
  <2> QED BY <2>3, <2>4
<1>2. w = [m \in Memory |-> IF Precedes(forward[m][i], k) THEN w[forward[m][i]] ELSE m]
  BY <1>1
<1> QED BY <1>2 DEF Walks

\* The walk of insert and remove at one level ends at the place of the key.
LEMMA BeforeIsPlace ==
    ASSUME TypeOK, MadeExact, ChainsExact, Nothing, NEW l \in Lists, Exists(l),
           NEW i \in Levels, NEW k \in Int,
           NEW n \in {head[l]} \cup Linked(l, i), n # head[l] => value[n] < k
    PROVE  Before(n, i, k) = Place(l, i, k)
<1> USE Natural, NoneApart
<1>1. PICK w : w = CHOOSE v : Walks(v, i, k)
  OBVIOUS
<1>2. Walks(w, i, k)
  BY <1>1, WalkGoesOn
<1>3. Before(n, i, k) = w[n]
  BY <1>1 DEF Before, Walks
<1>4. ListFacts(l)
  BY ChainFacts DEF ChainsExact
<1>5. \A m \in {head[l]} \cup Linked(l, i) : m \in Memory /\ used[m] = l
  BY <1>4 DEF ListFacts
<1> DEFINE Good(m) == w[m] = Place(l, i, k)
           Bad == {m \in Lower(l, i, k) : ~Good(m)}
<1> HIDE DEF Good
<1>6. ASSUME NEW m \in {head[l]} \cup Linked(l, i), m # head[l] => value[m] < k,
             forward[m][i] # Null /\ value[forward[m][i]] < k => Good(forward[m][i])
      PROVE  Good(m)
  <2>1. m \in Memory
    BY <1>5
  <2>2. CASE Precedes(forward[m][i], k)
    <3>1. w[m] = w[forward[m][i]]
      BY <1>2, <2>1, <2>2 DEF Walks
    <3> QED BY <1>6, <2>2, <3>1 DEF Precedes, Good
  <2>3. CASE ~Precedes(forward[m][i], k)
    <3>1. w[m] = m
      BY <1>2, <2>1, <2>3 DEF Walks
    <3>2. IsPlace(l, m, i, k)
      BY <1>6, <2>3 DEF IsPlace, Precedes
    <3> QED BY <1>4, <3>1, <3>2, OnePlace DEF Good
  <2> QED BY <2>2, <2>3
<1>7. ASSUME NEW m \in {head[l]} \cup Linked(l, i), forward[m][i] # Null
      PROVE  forward[m][i] \in Linked(l, i) /\ (m # head[l] => value[m] < value[forward[m][i]])
  BY <1>5, <1>7, Onward
<1>8. Bad = {}
  <2> SUFFICES ASSUME Bad # {} PROVE FALSE
    OBVIOUS
  <2>1. Bad \in SUBSET Keyed(l)
    BY <1>4 DEF Lower, ListFacts
  <2>2. PICK m \in Bad : \A b \in Bad : value[b] <= value[m]
    <3> HIDE DEF Bad
    <3> QED BY <1>4, <2>1, HighestNode
  <2>3. m \in Linked(l, i) /\ m # head[l] /\ value[m] < k /\ ~Good(m) /\ value[m] \in Int
    BY <1>4 DEF Lower, ListFacts
  <2>4. forward[m][i] # Null /\ value[forward[m][i]] < k /\ ~Good(forward[m][i])
    BY <1>6, <2>3
  <2>5. forward[m][i] \in Linked(l, i) /\ value[m] < value[forward[m][i]]
    BY <1>7, <2>3, <2>4
  <2>6. forward[m][i] \in Bad /\ value[forward[m][i]] \in Int
    BY <2>4, <2>5, <1>4 DEF Lower, ListFacts
  <2> QED BY <2>2, <2>3, <2>5, <2>6
<1>9. \A m \in Lower(l, i, k) : Good(m)
  BY <1>8
<1>10. Good(n)
  <2>1. CASE n \in Lower(l, i, k)
    BY <2>1, <1>9
  <2>2. CASE n = head[l]
    <3>1. forward[n][i] # Null /\ value[forward[n][i]] < k => forward[n][i] \in Lower(l, i, k)
      BY <2>2, <1>7 DEF Lower
    <3> QED BY <2>2, <3>1, <1>6, <1>9
  <2> QED BY <2>1, <2>2 DEF Lower
<1> QED BY <1>3, <1>10 DEF Good

\* The search of insert and remove names the place at every level.
LEMMA StartsInList ==
    ASSUME TypeOK, NEW l \in Lists, ListFacts(l), NEW k \in Int, NEW f \in Starts(l, k)
    PROVE  /\ f \in {head[l]} \cup Linked(l, 0) /\ f \in Memory /\ used[f] = l
           /\ f # head[l] => value[f] < k
           /\ StartLevel(l, f) \in 0 .. level[l] /\ StartLevel(l, f) \in Levels
           /\ StartLevel(l, f) <= height[f]
<1> USE Natural, Types
<1>1. f \in {head[l]} \cup Linked(l, 0) /\ f \in Memory /\ used[f] = l /\ (f # head[l] => value[f] < k)
  BY DEF Starts, ListFacts
<1>2. height[f] \in Nat /\ height[f] \in Levels
  BY <1>1
<1>3. level[l] \in Nat /\ level[l] \in Levels /\ level[l] <= height[head[l]]
  BY DEF ListFacts
<1>4. /\ StartLevel(l, f) \in 0 .. level[l] /\ StartLevel(l, f) \in Levels
      /\ StartLevel(l, f) <= height[f]
  BY <1>2, <1>3 DEF StartLevel
<1> QED BY <1>1, <1>4

\* Whatever finger it begins from, the search of insert and remove names the place
\* of the key at every level.
LEMMA UpdateIsPlace ==
    ASSUME TypeOK, MadeExact, ChainsExact, Nothing, NEW l \in Lists, Exists(l),
           NEW k \in Int, NEW f \in Starts(l, k)
    PROVE  Update(l, f, k) = [i \in Levels |-> Place(l, i, k)]
<1> USE Natural, Types
<1> DEFINE start == StartLevel(l, f)
           P(i)  == Place(l, i, k)
           Below(b) == b = [i \in 0 .. start |-> Before(IF i = start THEN f ELSE b[i + 1], i, k)]
           Above(b) == b = [i \in start + 1 .. level[l] |->
                                Before(IF i = level[l] THEN head[l] ELSE b[i + 1], i, k)]
           below == CHOOSE b : Below(b)
           above == CHOOSE b : Above(b)
<1>1. Update(l, f, k) = [i \in Levels |-> IF i <= start THEN below[i]
                                          ELSE IF i <= level[l] THEN above[i] ELSE head[l]]
  BY DEF Update
<1>2. ListFacts(l)
  BY ChainFacts DEF ChainsExact
<1>3. /\ f \in {head[l]} \cup Linked(l, 0) /\ (f # head[l] => value[f] < k)
      /\ start \in 0 .. level[l] /\ start \in Levels /\ start <= height[f]
  BY <1>2, StartsInList
<1>4. level[l] \in Levels /\ level[l] \in Nat /\ level[l] <= MaxLevel
  BY <1>2 DEF ListFacts
<1>5. \A i \in Levels : \A n \in {head[l]} \cup Linked(l, i) :
          (n # head[l] => value[n] < k) => Before(n, i, k) = P(i)
  BY BeforeIsPlace
<1>6. \A i \in Levels : P(i) \in {head[l]} \cup Linked(l, i) /\ (P(i) # head[l] => value[P(i)] < k)
  BY <1>2, OnePlace DEF IsPlace
<1>7. \A i \in Levels : i + 1 \in Levels => Linked(l, i + 1) \subseteq Linked(l, i)
  <2> SUFFICES ASSUME NEW i \in Levels, i + 1 \in Levels, NEW n \in Linked(l, i + 1)
               PROVE  n \in Linked(l, i)
    OBVIOUS
  <2>1. n \in Keyed(l) /\ height[n] >= i + 1 /\ height[n] \in Nat
    BY <1>2 DEF Linked, ListFacts
  <2>2. height[n] >= i /\ ~Pending(n, i) /\ i \in Nat
    BY <2>1 DEF Nothing, Keyed
  <2> QED BY <2>1, <2>2 DEF Linked
<1>8. \A i \in Levels : i + 1 \in Levels => Before(P(i + 1), i, k) = P(i)
  BY <1>5, <1>6, <1>7
<1>9. f \in {head[l]} \cup Linked(l, start)
  <2>1. ASSUME f \in Linked(l, 0) PROVE f \in Linked(l, start)
    BY <2>1, <1>3 DEF Linked, Nothing, Keyed
  <2> QED BY <1>3, <2>1
<1>10. Before(f, start, k) = P(start) /\ \A i \in Levels : Before(head[l], i, k) = P(i)
  BY <1>3, <1>5, <1>9
<1> HIDE DEF P, start
<1>11. \A i \in 0 .. start : below[i] = P(i)
  <2>1. Below([i \in 0 .. start |-> P(i)])
    <3> DEFINE b == [i \in 0 .. start |-> P(i)]
    <3>1. ASSUME NEW i \in 0 .. start PROVE P(i) = Before(IF i = start THEN f ELSE b[i + 1], i, k)
      <4>1. CASE i = start
        BY <4>1, <1>10
      <4>2. CASE i # start
        <5>1. i + 1 \in 0 .. start /\ i \in Levels /\ i + 1 \in Levels
          BY <4>2, <1>3, <1>4
        <5> QED BY <5>1, <4>2, <1>8
      <4> QED BY <4>1, <4>2
    <3> QED BY <3>1
  <2>2. Below(below)
    <3> HIDE DEF Below
    <3> QED BY <2>1
  <2> HIDE DEF below
  <2> DEFINE T == {d \in Nat : d <= start => below[start - d] = P(start - d)}
  <2>3. \A i \in 0 .. start : below[i] = Before(IF i = start THEN f ELSE below[i + 1], i, k)
    BY <2>2
  <2>4. 0 \in T
    BY <2>3, <1>3, <1>10
  <2>5. ASSUME NEW d \in T PROVE d + 1 \in T
    <3> SUFFICES ASSUME d + 1 <= start PROVE below[start - (d + 1)] = P(start - (d + 1))
      OBVIOUS
    <3> DEFINE i == start - (d + 1)
    <3>1. i \in 0 .. start /\ i # start /\ i + 1 = start - d /\ i \in Levels /\ i + 1 \in Levels
      BY <1>3, <1>4
    <3>a. below[start - d] = P(start - d)
      <4>1. d \in Nat /\ d <= start
        BY <1>3
      <4> QED BY <4>1
    <3>2. below[i + 1] = P(i + 1)
      BY <3>1, <3>a
    <3> HIDE DEF i
    <3>3. below[i] = P(i)
      BY <2>3, <3>1, <3>2, <1>8
    <3> QED BY <3>3 DEF i
  <2>6. T = Nat
    <3>1. T \in SUBSET Nat
      OBVIOUS
    <3> HIDE DEF T
    <3> QED BY <2>4, <2>5, <3>1, Induction
  <2> SUFFICES ASSUME NEW i \in 0 .. start PROVE below[i] = P(i)
    OBVIOUS
  <2>7. start - i \in Nat /\ start - i <= start /\ start - (start - i) = i
    BY <1>3
  <2>8. start - i \in T
    <3> HIDE DEF T
    <3> QED BY <2>6, <2>7
  <2> QED BY <2>7, <2>8
<1>12. \A i \in start + 1 .. level[l] : above[i] = P(i)
  <2> DEFINE high == level[l]
  <2>0. high \in Nat /\ high \in Levels /\ start \in Nat /\ start <= high
    BY <1>3, <1>4
  <2>1. Above([i \in start + 1 .. high |-> P(i)])
    <3> DEFINE b == [i \in start + 1 .. high |-> P(i)]
    <3>1. ASSUME NEW i \in start + 1 .. high
          PROVE  P(i) = Before(IF i = high THEN head[l] ELSE b[i + 1], i, k)
      <4>1. CASE i = high
        BY <4>1, <1>10, <2>0
      <4>2. CASE i # high
        <5>1. i + 1 \in start + 1 .. high /\ i \in Levels /\ i + 1 \in Levels
          BY <4>2, <2>0
        <5> QED BY <5>1, <4>2, <1>8
      <4> QED BY <4>1, <4>2
    <3> QED BY <3>1
  <2>2. Above(above)
    <3> HIDE DEF Above
    <3> QED BY <2>1
  <2>3. \A i \in start + 1 .. high :
            above[i] = Before(IF i = high THEN head[l] ELSE above[i + 1], i, k)
    BY <2>2
  <2> HIDE DEF above, high
  <2> DEFINE T == {d \in Nat : d < high - start => above[high - d] = P(high - d)}
  <2>4. 0 \in T
    <3> SUFFICES ASSUME 0 < high - start PROVE above[high] = P(high)
      BY <2>0
    <3>1. high \in start + 1 .. high
      BY <2>0
    <3> QED BY <2>3, <3>1, <2>0, <1>10
  <2>5. ASSUME NEW d \in T PROVE d + 1 \in T
    <3> SUFFICES ASSUME d + 1 < high - start PROVE above[high - (d + 1)] = P(high - (d + 1))
      OBVIOUS
    <3> DEFINE i == high - (d + 1)
    <3>1. i \in start + 1 .. high /\ i # high /\ i + 1 = high - d /\ i \in Levels /\ i + 1 \in Levels
      BY <2>0
    <3>2. above[i + 1] = P(i + 1)
      BY <3>1, <2>0
    <3> HIDE DEF i
    <3>3. above[i] = P(i)
      BY <2>3, <3>1, <3>2, <1>8
    <3> QED BY <3>3 DEF i
  <2>6. T = Nat
    <3>1. T \in SUBSET Nat
      OBVIOUS
    <3> HIDE DEF T
    <3> QED BY <2>4, <2>5, <3>1, Induction
  <2> SUFFICES ASSUME NEW i \in start + 1 .. high PROVE above[i] = P(i)
    BY DEF high
  <2>7. high - i \in Nat /\ high - i < high - start /\ high - (high - i) = i
    BY <2>0
  <2>8. high - i \in T
    <3> HIDE DEF T
    <3> QED BY <2>6, <2>7
  <2> QED BY <2>7, <2>8
<1>13. \A i \in Levels : ~(i <= level[l]) => P(i) = head[l]
  <2> SUFFICES ASSUME NEW i \in Levels, ~(i <= level[l]) PROVE Linked(l, i) = {}
    BY <1>6
  <2>1. i \in Nat /\ i > level[l]
    BY <1>4
  <2> QED BY <1>2, <1>4, <2>1 DEF ListFacts
<1>14. \A i \in Levels : i <= start => i \in 0 .. start
  BY <1>3
<1>15. \A i \in Levels : ~(i <= start) /\ i <= level[l] => i \in start + 1 .. level[l]
  BY <1>3, <1>4
<1>16. \A i \in Levels : (IF i <= start THEN below[i] ELSE IF i <= level[l] THEN above[i] ELSE head[l])
                         = P(i)
  <2> HIDE DEF below, above
  <2> QED BY <1>11, <1>12, <1>13, <1>14, <1>15
<1> HIDE DEF below, above
<1> QED BY <1>1, <1>16 DEF P

\* What the search has found: the node with the key, which every place leads to up
\* to its height, or at every level a place for the key.
LEMMA FoundThere ==
    ASSUME TypeOK, NEW l \in Lists, ListFacts(l), Nothing, NEW k \in Keys, NEW update,
           update = [i \in Levels |-> Place(l, i, k)]
    PROVE  /\ \A i \in Levels : IsPlace(l, update[i], i, k)
           /\ Found(update, k) =>
                LET t == forward[update[0]][0]
                IN  /\ t \in Linked(l, 0) /\ value[t] = k
                    /\ \A i \in Levels : forward[update[i]][i] = t <=> i <= height[t]
           /\ ~Found(update, k) =>
                /\ \A n \in Keyed(l) : value[n] # k
                /\ \A i \in Levels : IsBefore(l, update[i], i, k)
<1> USE Natural, NoneApart, Types
<1>0. k \in Int
  OBVIOUS
<1>1. \A i \in Levels : IsPlace(l, update[i], i, k)
  BY <1>0, OnePlace
<1>2. ASSUME NEW i \in Levels
      PROVE  /\ update[i] \in {head[l]} \cup Keyed(l) /\ i <= height[update[i]] /\ ~Pending(update[i], i)
             /\ update[i] # head[l] => value[update[i]] < k
             /\ forward[update[i]][i] # Null =>
                   /\ forward[update[i]][i] \in Linked(l, i)
                   /\ forward[update[i]][i] \in Linked(l, 0)
                   /\ forward[update[i]][i] \in Keyed(l)
                   /\ value[forward[update[i]][i]] \in Int /\ value[forward[update[i]][i]] >= k
             /\ \A n \in Linked(l, i) : ~(value[n] < k) =>
                   forward[update[i]][i] # Null /\ value[forward[update[i]][i]] <= value[n]
  <2> DEFINE u == update[i]
  <2>1. /\ u \in {head[l]} \cup Linked(l, i) /\ (u # head[l] => value[u] < k)
        /\ forward[u][i] # Null => ~(value[forward[u][i]] < k)
    BY <1>1 DEF IsPlace
  <2> HIDE DEF u
  <2>2. u \in {head[l]} \cup Keyed(l) /\ i <= height[u] /\ ~Pending(u, i)
    BY <2>1 DEF ListFacts, Nothing
  <2>3. forward[u][i] # Null => forward[u][i] \in Linked(l, i)
    BY <2>2 DEF ListFacts
  <2>4. \A n \in Linked(l, i) : n \in Keyed(l) /\ value[n] \in Int /\ height[n] \in Nat
                                 /\ n \in Linked(l, 0)
    <3> SUFFICES ASSUME NEW n \in Linked(l, i)
                 PROVE  n \in Keyed(l) /\ value[n] \in Int /\ height[n] \in Nat /\ n \in Linked(l, 0)
      OBVIOUS
    <3>1. n \in Keyed(l) /\ n \in Memory /\ value[n] \in Int /\ height[n] \in Nat
      BY DEF ListFacts
    <3>2. height[n] >= 0 /\ ~Pending(n, 0)
      BY <3>1 DEF Nothing
    <3> QED BY <3>1, <3>2 DEF Linked
  <2>5. ASSUME NEW n \in Linked(l, i), ~(value[n] < k)
        PROVE  forward[u][i] # Null /\ value[forward[u][i]] <= value[n]
    <3>1. value[n] \in Int /\ (u # head[l] => value[u] \in Int)
      BY <2>2, <2>4 DEF ListFacts
    <3>2. n \in Later(l, u, i)
      BY <2>1, <2>5, <3>1 DEF Later
    <3> QED BY <2>2, <3>2 DEF ListFacts
  <2> QED BY <2>1, <2>2, <2>3, <2>4, <2>5 DEF u
<1>3. Found(update, k) =>
         LET t == forward[update[0]][0]
         IN  /\ t \in Linked(l, 0) /\ value[t] = k
             /\ \A i \in Levels : forward[update[i]][i] = t <=> i <= height[t]
  <2> SUFFICES ASSUME Found(update, k)
               PROVE  LET t == forward[update[0]][0]
                      IN  /\ t \in Linked(l, 0) /\ value[t] = k
                          /\ \A i \in Levels : forward[update[i]][i] = t <=> i <= height[t]
    OBVIOUS
  <2> DEFINE t == forward[update[0]][0]
  <2>1. t # Null /\ value[t] = k /\ t \in Linked(l, 0)
    BY <1>2 DEF Found
  <2> HIDE DEF t
  <2>2. t \in Keyed(l) /\ t \in Memory /\ height[t] \in Nat /\ value[t] \in Int
    BY <2>1 DEF ListFacts
  <2>3. ASSUME NEW i \in Levels, i <= height[t] PROVE forward[update[i]][i] = t
    <3>1. t \in Linked(l, i)
      BY <2>2, <2>3 DEF Linked, Nothing
    <3>2. forward[update[i]][i] # Null /\ value[forward[update[i]][i]] <= value[t]
      BY <1>2, <2>1, <2>2, <3>1
    <3>3. forward[update[i]][i] \in Keyed(l) /\ value[forward[update[i]][i]] = value[t]
      BY <1>2, <2>1, <2>2, <3>2
    <3> QED BY <2>2, <3>3 DEF ListFacts
  <2>4. ASSUME NEW i \in Levels, forward[update[i]][i] = t PROVE i <= height[t]
    <3>1. t \in Linked(l, i)
      BY <1>2, <2>2, <2>4
    <3> QED BY <3>1, <2>2 DEF Linked
  <2> QED BY <2>1, <2>3, <2>4 DEF t
<1>4. ASSUME ~Found(update, k)
      PROVE  /\ \A n \in Keyed(l) : value[n] # k
             /\ \A i \in Levels : IsBefore(l, update[i], i, k)
  <2>1. ASSUME NEW n \in Keyed(l), value[n] = k PROVE FALSE
    <3>1. n \in Linked(l, 0) /\ value[n] \in Int
      BY DEF Linked, Nothing, ListFacts
    <3>2. forward[update[0]][0] # Null /\ value[forward[update[0]][0]] = k
      BY <1>2, <2>1, <3>1
    <3> QED BY <1>4, <3>2 DEF Found
  <2>2. ASSUME NEW i \in Levels PROVE IsBefore(l, update[i], i, k)
    <3>1. forward[update[i]][i] # Null => value[forward[update[i]][i]] > k
      BY <1>2, <2>1
    <3> QED BY <3>1, <1>1 DEF IsPlace, IsBefore
  <2> QED BY <2>1, <2>2
<1> QED BY <1>1, <1>3, <1>4
-----------------------------------------------------------------------------
(***************************************************************************)
(* What a step does not change.                                            *)
(***************************************************************************)

\* A list whose nodes, header and level stay.
LEMMA ListKept ==
    ASSUME TypeOK, NEW l \in Lists, Exists(l), ChainExact(l),
           head'[l] = head[l], level'[l] = level[l], finger'[l] \in {head[l]} \cup Linked(l, 0),
           NodesOf(l)' = NodesOf(l),
           \A n \in NodesOf(l) : /\ value'[n] = value[n] /\ height'[n] = height[n]
                                 /\ forward'[n] = forward[n],
           \A n \in NodesOf(l), i \in Levels : Pending(n, i)' <=> Pending(n, i)
    PROVE  Exists(l)' /\ ChainExact(l)' /\ \A i \in Levels : Linked(l, i)' = Linked(l, i)
<1> USE Natural
<1>1. Keyed(l)' = Keyed(l) /\ Keyed(l) \subseteq NodesOf(l) /\ head[l] \in NodesOf(l)
  BY DEF Keyed, ChainExact
<1>2. \A i \in Levels : Linked(l, i)' = Linked(l, i) /\ Linked(l, i) \subseteq NodesOf(l)
  <2> SUFFICES ASSUME NEW i \in Levels PROVE Linked(l, i)' = Linked(l, i) /\ Linked(l, i) \subseteq NodesOf(l)
    OBVIOUS
  <2>1. \A n \in Keyed(l) : height'[n] = height[n] /\ (Pending(n, i)' <=> Pending(n, i))
    BY <1>1
  <2> QED BY <1>1, <2>1 DEF Linked
<1>3. ASSUME NEW n \in NodesOf(l), NEW i \in Levels PROVE LeadsOn(l, n, i)'
  <2>1. Later(l, n, i)' = Later(l, n, i) /\ Later(l, n, i) \subseteq NodesOf(l)
    <3>1. \A m \in Linked(l, i) : value'[m] = value[m]
      BY <1>2
    <3> QED BY <1>2, <3>1 DEF Later
  <2>2. \A m \in Later(l, n, i) : value'[m] = value[m]
    BY <2>1
  <2>3. LeadsOn(l, n, i)
    BY DEF ChainExact
  <2>4. forward'[n] = forward[n] /\ height'[n] = height[n] /\ (Pending(n, i)' <=> Pending(n, i))
    OBVIOUS
  <2> HIDE DEF NodesOf
  <2> QED BY <2>1, <2>2, <2>3, <2>4 DEF LeadsOn
<1>4. /\ head'[l] \in NodesOf(l)' /\ height'[head'[l]] = MaxLevel
      /\ finger'[l] \in {head'[l]} \cup Linked(l, 0)'
  BY <1>1, <1>2 DEF ChainExact
<1>5. \A n \in Keyed(l) : value'[n] \in Keys /\ height'[n] <= level'[l]
  BY <1>1 DEF ChainExact
<1>6. \A m, n \in Keyed(l) : value'[m] = value'[n] => m = n
  BY <1>1 DEF ChainExact
<1>7. level'[l] = 0 \/ \E n \in Keyed(l) : height'[n] = level'[l]
  BY <1>1 DEF ChainExact
<1>8. ChainExact(l)'
  <2> HIDE DEF NodesOf
  <2>1. \A n \in NodesOf(l)', i \in Levels : LeadsOn(l, n, i)'
    BY <1>3
  <2> QED BY <1>1, <1>4, <1>5, <1>6, <1>7, <2>1 DEF ChainExact
<1> QED BY <1>2, <1>8

\* A search, and that what it looks at when it is sure is its key
SearchOK(s) == /\ SearchExact(s)
               /\ s.pc = "look" /\ s.sure => /\ forward[s.node][0] # Null
                                             /\ value[forward[s.node][0]] = s.key
SearchesOK == \A r \in Readers : reader[r] # Idle => SearchOK(reader[r])

\* The fields of a search under way
LEMMA SearchIs ==
    ASSUME NEW s \in Searches
    PROVE  /\ s.list \in Lists /\ s.key \in Keys /\ s.sure \in BOOLEAN
           /\ s.pc \in {"start", "walk", "look"}
           /\ s.pc # "start" => s.node \in Memory /\ s.at \in Levels
           /\ s # Idle
BY DEF Searches, Idle

\* A search under way is where it was when what was linked stays linked.
LEMMA SearchKept ==
    ASSUME TypeOK, NEW s \in Searches, SearchOK(s), ChainExact(s.list),
           head'[s.list] = head[s.list], Linked(s.list, 0) \subseteq Linked(s.list, 0)',
           \A n \in {head[s.list]} \cup Linked(s.list, 0) :
               value'[n] = value[n] /\ height'[n] = height[n],
           s.pc = "look" /\ s.sure => forward'[s.node][0] = forward[s.node][0]
    PROVE  SearchOK(s)'
<1> USE Natural, SearchIs
<1> DEFINE l == s.list
<1>1. l \in Lists /\ Exists(l)
  BY DEF SearchOK, SearchExact
<1>2. ListFacts(l)
  BY <1>1, ChainFacts
<1>3. SearchExact(s)'
  BY <1>1 DEF SearchOK, SearchExact
<1>4. ASSUME s.pc = "look", s.sure
      PROVE  /\ forward'[s.node][0] # Null
             /\ value'[forward'[s.node][0]] = s.key
  <2>1. s.node \in {head[l]} \cup Linked(l, 0)
    BY <1>4 DEF SearchOK, SearchExact
  <2>2. forward[s.node][0] # Null /\ value[forward[s.node][0]] = s.key
    BY <1>4 DEF SearchOK
  <2>3. s.node \in {head[l]} \cup Keyed(l)
    BY <1>2, <2>1 DEF ListFacts
  <2>4. forward[s.node][0] \in Linked(l, 0)
    <3>1. 0 <= height[s.node]
      BY <1>2, <2>3 DEF ListFacts
    <3>2. ~(0 > height[s.node])
      BY <1>2, <2>3 DEF ListFacts
    <3>3. CASE Pending(s.node, 0)
      BY <1>2, <2>2, <2>3, <3>3 DEF ListFacts
    <3>4. CASE ~Pending(s.node, 0)
      BY <1>2, <2>2, <2>3, <3>1, <3>4 DEF ListFacts
    <3> QED BY <3>3, <3>4
  <2> QED BY <1>4, <2>2, <2>4
<1> QED BY <1>3, <1>4 DEF SearchOK

\* What IsBefore rests on.
LEMMA BeforeKept ==
    ASSUME NEW l \in Lists, ListFacts(l), NEW i \in Levels, NEW m, NEW k \in Int, IsBefore(l, m, i, k),
           head'[l] = head[l], Linked(l, i) \subseteq Linked(l, i)',
           \A n \in Linked(l, i) : value'[n] = value[n], forward'[m][i] = forward[m][i]
    PROVE  IsBefore(l, m, i, k)'
<1> USE Natural
<1>1. m \in {head[l]} \cup Linked(l, i) /\ (m # head[l] => value[m] < k)
  BY DEF IsBefore
<1>2. m \in {head[l]} \cup Keyed(l) /\ i <= height[m] 
  BY <1>1 DEF ListFacts
<1>3. forward[m][i] # Null => forward[m][i] \in Linked(l, i) 
  BY <1>2 DEF ListFacts
<1> QED BY <1>1, <1>3 DEF IsBefore
-----------------------------------------------------------------------------
(***************************************************************************)
(* Steps that change no node: the beginnings of calls, searches, and       *)
(* inserts that find their key.                                            *)
(***************************************************************************)
Sound == TypeOK /\ MadeExact /\ ChainsExact /\ WriterExact /\ SearchesOK

\* What the invariant says of a list that is there
LEMMA SoundFacts ==
    ASSUME Sound, NEW l \in Lists, Exists(l)
    PROVE  ListFacts(l) /\ ChainExact(l)
BY ChainFacts DEF Sound, ChainsExact

\* Nobody links a node unless the writer does.
LEMMA NobodyLinks ==
    ASSUME writer.pc # "link"
    PROVE  Nothing
BY DEF Nothing, Pending

\* A step that changes fingers and calls alone keeps pools and chains.
LEMMA NodesStay ==
    ASSUME Sound, PoolExact, UNCHANGED <<head, level, nodes, pool, used, ended>>,
           finger' \in [Lists -> Memory \cup {Null}],
           \A l \in Lists : Exists(l) => finger'[l] \in {head[l]} \cup Linked(l, 0),
           writer' \in Inserts \cup {Idle}, reader' \in [Readers -> Searches \cup {Idle}],
           writer' = writer \/ (writer.pc # "link" /\ writer'.pc # "link")
    PROVE  /\ TypeOK' /\ PoolExact' /\ MadeExact' /\ ChainsExact'
           /\ \A l \in Lists, i \in Levels : Linked(l, i)' = Linked(l, i)
           /\ writer' = writer => WriterExact'
           /\ \A s \in Searches : SearchOK(s) => SearchOK(s)'
<1> USE DEF nodes, pool
<1>1. TypeOK'
  BY DEF Sound, TypeOK
<1>2. PoolExact'
  BY DEF PoolExact, Made, Spare, Unowned
<1>3. MadeExact'
  BY DEF Sound, MadeExact
<1>4. \A n, i : Pending(n, i)' <=> Pending(n, i)
  BY DEF Pending
<1>5. \A l, i : Linked(l, i)' = Linked(l, i)
  BY <1>4 DEF Linked, Keyed
<1>6. ASSUME NEW l \in Lists, Exists(l)' PROVE ChainExact(l)'
  <2>1. Exists(l) /\ ChainExact(l) /\ TypeOK
    BY <1>6 DEF Sound, ChainsExact
  <2> QED BY <1>4, <2>1, ListKept
<1>7. ASSUME writer' = writer PROVE WriterExact'
  <2>1. \A l, m, i, k : IsBefore(l, m, i, k)' <=> IsBefore(l, m, i, k)
    BY <1>5 DEF IsBefore
  <2>2. \A l : Keyed(l)' = Keyed(l)
    BY DEF Keyed
  <2> QED BY <1>5, <1>7, <2>1, <2>2 DEF Sound, WriterExact
<1>8. ASSUME NEW s \in Searches, SearchOK(s) PROVE SearchOK(s)'
  BY <1>5, <1>8 DEF SearchOK, SearchExact
<1> QED BY <1>1, <1>2, <1>3, <1>5, <1>6, <1>7, <1>8 DEF ChainsExact

\* A finger may be set to any linked node.
LEMMA FingerOK ==
    ASSUME Sound, NEW l \in Lists, Exists(l), NEW f \in {head[l]} \cup Linked(l, 0),
           finger' = [finger EXCEPT ![l] = f]
    PROVE  /\ finger' \in [Lists -> Memory \cup {Null}]
           /\ \A m \in Lists : Exists(m) => finger'[m] \in {head[m]} \cup Linked(m, 0)
<1>1. ListFacts(l) /\ TypeOK
  BY SoundFacts DEF Sound
<1>2. f \in Memory
  BY <1>1 DEF ListFacts
<1>3. finger \in [Lists -> Memory \cup {Null}]
  BY <1>1, Types
<1>4. \A m \in Lists : Exists(m) => finger[m] \in {head[m]} \cup Linked(m, 0)
  BY SoundFacts DEF ListFacts
<1> QED BY <1>2, <1>3, <1>4

\* The start of insert and insert_or_assign keeps the invariant.
LEMMA StartInsertSound ==
    ASSUME Sound, PoolExact, NEW l \in Lists, NEW k \in Keys, NEW alone \in BOOLEAN,
           StartInsert(l, k, alone)
    PROVE  Sound' /\ PoolExact'
<1>1. Exists(l) /\ writer = Idle /\ finger' = [finger EXCEPT ![l] = head[l]]
  BY DEF StartInsert
<1>2. writer' \in Inserts /\ writer'.pc = "find" /\ writer'.list = l /\ writer.pc = "idle"
  BY <1>1 DEF StartInsert, Inserts, Idle
<1>3. reader' = reader /\ UNCHANGED <<head, level, nodes, pool, used, ended>>
  BY DEF StartInsert
<1>4. reader' \in [Readers -> Searches \cup {Idle}]
  BY <1>3 DEF Sound, TypeOK
<1>5. /\ TypeOK' /\ PoolExact' /\ MadeExact' /\ ChainsExact'
      /\ \A s \in Searches : SearchOK(s) => SearchOK(s)'
  BY <1>1, <1>2, <1>3, <1>4, FingerOK, NodesStay
<1>6. WriterExact'
  BY <1>1, <1>2, <1>3 DEF WriterExact
<1>7. SearchesOK'
  BY <1>3, <1>5 DEF SearchesOK, Sound, TypeOK
<1> QED BY <1>5, <1>6, <1>7 DEF Sound

\* An insert that finds its key there
LEMMA RefuseSound ==
    ASSUME Sound, PoolExact, writer.pc = "find", NEW f \in Starts(writer.list, writer.key), Refuse(f)
    PROVE  Sound' /\ PoolExact'
<1> DEFINE l == writer.list
           k == writer.key
           update == Update(l, f, k)
<1>1. l \in Lists /\ k \in Keys /\ k \in Int /\ Exists(l) /\ writer # Idle
  BY WriterIs, NoneApart DEF Sound, TypeOK, WriterExact
<1>2. ListFacts(l) /\ Nothing
  BY <1>1, SoundFacts, NobodyLinks
<1> HIDE DEF l, k
<1>3. update = [i \in Levels |-> Place(l, i, k)]
  BY <1>1, <1>2, UpdateIsPlace DEF Sound, l, k
<1> HIDE DEF update
<1>4. IsPlace(l, update[0], 0, k)
  BY <1>1, <1>2, <1>3, FoundThere, Natural DEF Sound
<1>5. finger' = [finger EXCEPT ![l] = update[0]] /\ writer' = Idle /\ reader' = reader
      /\ UNCHANGED <<head, level, nodes, pool, used, ended>>
  BY DEF Refuse, l, k, update
<1>6. update[0] \in {head[l]} \cup Linked(l, 0)
  BY <1>4 DEF IsPlace
<1>7. writer'.pc # "link" /\ writer' \in Inserts \cup {Idle}
  BY <1>5 DEF Idle
<1>8. reader' \in [Readers -> Searches \cup {Idle}]
  BY <1>5 DEF Sound, TypeOK
<1>9. /\ TypeOK' /\ PoolExact' /\ MadeExact' /\ ChainsExact'
      /\ \A s \in Searches : SearchOK(s) => SearchOK(s)'
  BY <1>1, <1>5, <1>6, <1>7, <1>8, FingerOK, NodesStay
<1>10. WriterExact'
  BY <1>5 DEF WriterExact
<1>11. SearchesOK'
  BY <1>5, <1>9 DEF SearchesOK, Sound, TypeOK
<1> QED BY <1>9, <1>10, <1>11 DEF Sound

\* The step of a reader that leaves the nodes alone
LEMMA ReaderStep ==
    ASSUME Sound, PoolExact, NEW r \in Readers, NEW s \in Searches \cup {Idle}, Read(r, s),
           UNCHANGED <<head, level, nodes, pool, used, ended, writer>>,
           finger' \in [Lists -> Memory \cup {Null}],
           \A l \in Lists : Exists(l) => finger'[l] \in {head[l]} \cup Linked(l, 0),
           s # Idle => SearchOK(s)
    PROVE  Sound' /\ PoolExact'
<1>1. reader \in [Readers -> Searches \cup {Idle}] /\ writer' = writer /\ writer \in Inserts \cup {Idle}
  BY DEF Sound, TypeOK
<1>2. reader' = [reader EXCEPT ![r] = s] /\ reader' \in [Readers -> Searches \cup {Idle}]
  BY <1>1 DEF Read
<1>3. /\ TypeOK' /\ PoolExact' /\ MadeExact' /\ ChainsExact' /\ WriterExact'
      /\ \A t \in Searches : SearchOK(t) => SearchOK(t)'
  BY <1>1, <1>2, NodesStay
<1>4. ASSUME NEW q \in Readers, NEW t, t = reader'[q], t # Idle PROVE SearchOK(t)'
  <2>1. t \in Searches /\ SearchOK(t)
    BY <1>1, <1>2, <1>4 DEF Sound, SearchesOK
  <2> QED BY <1>3, <2>1
<1>5. SearchesOK'
  BY <1>4 DEF SearchesOK
<1> QED BY <1>3, <1>5 DEF Sound

\* What a reader that is in a call has found.
LEMMA ReaderIs ==
    ASSUME Sound, NEW r \in Readers
    PROVE  /\ reader[r] \in Searches \cup {Idle}
           /\ reader[r].pc # "idle" => /\ reader[r] \in Searches /\ SearchOK(reader[r])
                                       /\ reader[r].list \in Lists /\ Exists(reader[r].list)
                                       /\ ListFacts(reader[r].list)
           /\ \A l \in Lists : Exists(l) => finger[l] \in {head[l]} \cup Linked(l, 0)
           /\ finger \in [Lists -> Memory \cup {Null}]
<1>1. reader[r] \in Searches \cup {Idle} /\ finger \in [Lists -> Memory \cup {Null}]
  BY DEF Sound, TypeOK
<1>2. ASSUME reader[r].pc # "idle"
      PROVE  /\ reader[r] \in Searches /\ SearchOK(reader[r])
             /\ reader[r].list \in Lists /\ Exists(reader[r].list) /\ ListFacts(reader[r].list)
  <2>1. reader[r] # Idle
    BY <1>2 DEF Idle
  <2>2. reader[r] \in Searches /\ SearchOK(reader[r])
    BY <1>1, <2>1 DEF Sound, SearchesOK
  <2>3. reader[r].list \in Lists /\ Exists(reader[r].list)
    BY <2>2, SearchIs DEF SearchOK, SearchExact
  <2> QED BY <2>2, <2>3, SoundFacts
<1> QED BY <1>1, <1>2, SoundFacts DEF ListFacts

\* A search is called.
LEMMA StartSearchSound ==
    ASSUME Sound, PoolExact, NEW r \in Readers, NEW l \in Lists, NEW k \in Keys, StartSearch(r, l, k)
    PROVE  Sound' /\ PoolExact'
<1> DEFINE s == [pc |-> "start", list |-> l, key |-> k, sure |-> k \in Held(l)]
<1>1. /\ Exists(l) /\ finger' = [finger EXCEPT ![l] = head[l]] /\ Read(r, s)
      /\ UNCHANGED <<head, level, nodes, pool, used, ended, writer>>
  BY DEF StartSearch
<1>2. s \in Searches
  BY DEF Searches
<1>3. ListFacts(l)
  BY <1>1, SoundFacts
<1>4. ASSUME k \in Held(l) PROVE \E n \in Linked(l, 0) : value[n] = k
  <2>1. PICK m \in NodesOf(l) : forward[m][0] # Null /\ value[forward[m][0]] = k
    BY <1>4 DEF Held
  <2>2. m \in {head[l]} \cup Keyed(l)
    BY DEF Keyed
  <2>3. forward[m][0] \in Linked(l, 0)
    <3>1. CASE Pending(m, 0)
      BY <1>3, <2>1, <2>2, <3>1, Natural DEF ListFacts
    <3>2. CASE ~Pending(m, 0)
      <4>1. 0 <= height[m]
        BY <1>3, <2>2, Natural DEF ListFacts
      <4> QED BY <1>3, <2>1, <2>2, <3>2, <4>1, Natural DEF ListFacts
    <3> QED BY <3>1, <3>2
  <2> QED BY <2>1, <2>3
<1>5. SearchOK(s)
  BY <1>1, <1>4 DEF SearchOK, SearchExact
<1>6. /\ finger' \in [Lists -> Memory \cup {Null}]
      /\ \A m \in Lists : Exists(m) => finger'[m] \in {head[m]} \cup Linked(m, 0)
  BY <1>1, FingerOK
<1> HIDE DEF s
<1> QED BY <1>1, <1>2, <1>5, <1>6, ReaderStep

\* A search takes the finger or the header, at a level that its node has.
LEMMA BeginSearchSound ==
    ASSUME Sound, PoolExact, NEW r \in Readers, BeginSearch(r)
    PROVE  Sound' /\ PoolExact'
<1> DEFINE s == reader[r]
           l == s.list
<1>1. /\ s \in Searches /\ SearchOK(s) /\ s.pc = "start" /\ l \in Lists /\ Exists(l) /\ ListFacts(l)
      /\ s.key \in Keys /\ s.key \in Int /\ s.sure \in BOOLEAN
  BY ReaderIs, SearchIs, NoneApart DEF BeginSearch
<1>2. PICK f \in Starts(l, s.key) :
          /\ Read(r, [pc |-> "walk", list |-> l, key |-> s.key, sure |-> s.sure,
                      node |-> f, at |-> StartLevel(l, f)])
          /\ UNCHANGED <<head, level, finger, nodes, pool, used, ended, writer>>
  BY DEF BeginSearch
<1> DEFINE t == [pc |-> "walk", list |-> l, key |-> s.key, sure |-> s.sure,
                 node |-> f, at |-> StartLevel(l, f)]
<1>3. /\ f \in {head[l]} \cup Linked(l, 0) /\ f \in Memory /\ (f # head[l] => value[f] < s.key)
      /\ StartLevel(l, f) \in Levels /\ StartLevel(l, f) <= height[f]
  BY <1>1, StartsInList DEF Sound
<1>4. t \in Searches
  BY <1>1, <1>3 DEF Searches
<1>5. SearchOK(t)
  BY <1>1, <1>3 DEF SearchOK, SearchExact
<1>6. /\ finger' \in [Lists -> Memory \cup {Null}]
      /\ \A m \in Lists : Exists(m) => finger'[m] \in {head[m]} \cup Linked(m, 0)
  BY <1>2, ReaderIs
<1> HIDE DEF s, l
<1>7. Read(r, t)
  BY <1>2
<1> HIDE DEF t
<1> QED BY <1>2, <1>4, <1>5, <1>6, <1>7, ReaderStep

\* The header is linked at all its levels.
LEMMA HeaderLinked ==
    ASSUME Sound, NEW l \in Lists, Exists(l), NEW i
    PROVE  ~Pending(head[l], i)
<1> SUFFICES ASSUME Pending(head[l], i) PROVE FALSE
  OBVIOUS
<1>1. writer.pc = "link" /\ writer.node = head[l]
  BY DEF Pending
<1>2. writer # Idle
  BY <1>1 DEF Idle
<1>3. head[l] \in Keyed(writer.list)
  BY <1>1, <1>2 DEF Sound, WriterExact
<1>4. used[head[l]] = l
  BY SoundFacts DEF ListFacts
<1> QED BY <1>3, <1>4 DEF Keyed

\* From the last node before its key, a search that is sure looks at its key.
LEMMA LastLook ==
    ASSUME Sound, NEW s \in Searches, SearchExact(s), s.pc = "walk", s.at = 0,
           ~Precedes(forward[s.node][0], s.key), s.sure
    PROVE  forward[s.node][0] # Null /\ value[forward[s.node][0]] = s.key
<1>0. s.list \in Lists /\ Exists(s.list) /\ ListFacts(s.list) /\ s.key \in Int /\ ~Pending(head[s.list], 0)
  <2>1. s.list \in Lists /\ Exists(s.list) /\ s.key \in Int
    BY SearchIs, NoneApart DEF SearchExact
  <2> QED BY <2>1, SoundFacts, HeaderLinked
<1> DEFINE l == s.list
           n == s.node
<1>1. PICK x \in Linked(l, 0) : value[x] = s.key
  BY DEF SearchExact
<1>2. n \in {head[l]} \cup Linked(l, 0) /\ (n # head[l] => value[n] < s.key)
  BY DEF SearchExact
<1>3. x \in Later(l, n, 0)
  BY <1>1, <1>2 DEF Later
<1>4. n \in {head[l]} \cup Keyed(l) /\ 0 <= height[n] 
  BY <1>0, <1>2, Natural DEF ListFacts
<1>5. ~Pending(n, 0)
  BY <1>0, <1>2 DEF Linked
<1>6. forward[n][0] # Null /\ value[forward[n][0]] <= value[x] /\ forward[n][0] \in Linked(l, 0)
  BY <1>0, <1>3, <1>4, <1>5, Natural DEF ListFacts
<1>7. value[forward[n][0]] \in Int /\ value[x] \in Int
  BY <1>0, <1>1, <1>6 DEF ListFacts
<1>8. ~(value[forward[n][0]] < s.key)
  BY <1>6 DEF Precedes
<1> QED BY <1>0, <1>1, <1>6, <1>7, <1>8

\* A step of a search: to the next node, or down
LEMMA WalkSound ==
    ASSUME Sound, PoolExact, NEW r \in Readers, Walk(r)
    PROVE  Sound' /\ PoolExact'
<1> DEFINE s == reader[r]
           l == s.list
           n == s.node
           next == forward[n][s.at]
<1>1. /\ s \in Searches /\ SearchOK(s) /\ s.pc = "walk" /\ l \in Lists /\ Exists(l) /\ ListFacts(l)
      /\ s.key \in Keys /\ s.key \in Int /\ s.sure \in BOOLEAN /\ n \in Memory /\ s.at \in Levels
  BY ReaderIs, SearchIs, NoneApart DEF Walk
<1>2. UNCHANGED <<head, level, finger, nodes, pool, used, ended, writer>>
  BY DEF Walk
<1>3. /\ finger' \in [Lists -> Memory \cup {Null}]
      /\ \A m \in Lists : Exists(m) => finger'[m] \in {head[m]} \cup Linked(m, 0)
  BY <1>2, ReaderIs
<1>4. /\ n \in {head[l]} \cup Linked(l, 0) /\ (n # head[l] => value[n] < s.key)
      /\ s.at <= height[n] /\ (s.sure => \E x \in Linked(l, 0) : value[x] = s.key)
  BY <1>1 DEF SearchOK, SearchExact
<1>5. n \in {head[l]} \cup Keyed(l) /\ s.at \in Nat
  BY <1>1, <1>4, Natural DEF ListFacts
<1>6. CASE Precedes(next, s.key) /\ Read(r, [s EXCEPT !.node = next])
  <2> DEFINE t == [s EXCEPT !.node = next]
  <2>1. next # Null /\ value[next] < s.key
    BY <1>6 DEF Precedes
  <2>2. ~Pending(n, s.at)
    BY <1>1, <1>5, <2>1 DEF ListFacts
  <2>3. next \in Linked(l, s.at)
    BY <1>1, <1>4, <1>5, <2>1, <2>2 DEF ListFacts
  <2>4. next \in Keyed(l) /\ next \in Memory /\ height[next] >= s.at /\ height[next] \in Nat
    BY <1>1, <2>3 DEF ListFacts
  <2>5. next \in Linked(l, 0)
    <3>1. ~Pending(next, 0)
      <4> SUFFICES ASSUME Pending(next, 0) PROVE FALSE
        OBVIOUS
      <4>1. writer.pc = "link" /\ writer.node = next /\ writer.at <= 0
        BY DEF Pending
      <4>2. writer.at \in Nat
        BY <4>1, WriterIs, Natural DEF Sound, TypeOK
      <4>3. writer.at <= s.at
        BY <4>1, <4>2, <1>5
      <4> QED BY <2>3, <4>1, <4>3 DEF Linked, Pending
    <3> QED BY <2>4, <3>1 DEF Linked
  <2>6. t \in Searches /\ t.pc = "walk" /\ t.list = l /\ t.key = s.key /\ t.sure = s.sure
        /\ t.node = next /\ t.at = s.at
    <3> HIDE DEF next
    <3> QED BY <1>1, <2>4 DEF Searches
  <2>7. SearchOK(t)
    <3> HIDE DEF t, l, n, s
    <3> QED BY <1>1, <1>4, <2>1, <2>4, <2>5, <2>6 DEF SearchOK, SearchExact
  <2>8. Read(r, t)
    BY <1>6
  <2> HIDE DEF t
  <2> QED BY <1>2, <1>3, <2>6, <2>7, <2>8, ReaderStep
<1>7. CASE s.at > 0 /\ Read(r, [s EXCEPT !.at = @ - 1])
  <2> DEFINE t == [s EXCEPT !.at = @ - 1]
  <2>1. s.at - 1 \in Levels /\ s.at - 1 <= height[n]
    <3>1. height[n] \in Nat
      BY <1>1, Types, Natural DEF Sound
    <3> QED BY <1>1, <1>4, <1>5, <1>7, <3>1, Natural
  <2>2. t \in Searches /\ t.pc = "walk" /\ t.list = l /\ t.key = s.key /\ t.sure = s.sure
        /\ t.node = n /\ t.at = s.at - 1
    BY <1>1, <2>1 DEF Searches
  <2>3. SearchOK(t)
    <3> HIDE DEF t, l, n, s
    <3> QED BY <1>1, <1>4, <2>1, <2>2 DEF SearchOK, SearchExact
  <2>4. Read(r, t)
    BY <1>7
  <2> HIDE DEF t
  <2> QED BY <1>2, <1>3, <2>2, <2>3, <2>4, ReaderStep
<1>8. CASE ~Precedes(next, s.key) /\ ~(s.at > 0) /\ Read(r, [s EXCEPT !.pc = "look"])
  <2> DEFINE t == [s EXCEPT !.pc = "look"]
  <2>1. s.at = 0
    BY <1>5, <1>8
  <2>2. t \in Searches /\ t.pc = "look" /\ t.list = l /\ t.key = s.key /\ t.sure = s.sure
        /\ t.node = n /\ t.at = 0
    BY <1>1, <2>1 DEF Searches
  <2>3. s.sure => forward[n][0] # Null /\ value[forward[n][0]] = s.key
    BY <1>1, <1>8, <2>1, LastLook DEF SearchOK
  <2>4. 0 <= height[n]
    BY <1>4, <2>1
  <2>5. SearchOK(t)
    <3> HIDE DEF t, l, n, s
    <3> QED BY <1>1, <1>4, <2>2, <2>3, <2>4 DEF SearchOK, SearchExact
  <2>6. Read(r, t)
    BY <1>8
  <2> HIDE DEF t
  <2> QED BY <1>2, <1>3, <2>2, <2>5, <2>6, ReaderStep
<1> QED BY <1>6, <1>7, <1>8 DEF Walk

\* The last load of a search, and its answer
LEMMA AnswerSound ==
    ASSUME Sound, PoolExact, NEW r \in Readers, Answer(r)
    PROVE  Sound' /\ PoolExact'
<1> DEFINE s == reader[r]
           l == s.list
<1>1. s \in Searches /\ SearchOK(s) /\ s.pc = "look" /\ l \in Lists /\ Exists(l)
  BY ReaderIs DEF Answer
<1>2. /\ finger' = [finger EXCEPT ![l] = s.node] /\ Read(r, Idle)
      /\ UNCHANGED <<head, level, nodes, pool, used, ended, writer>>
  BY DEF Answer
<1>3. s.node \in {head[l]} \cup Linked(l, 0)
  BY <1>1 DEF SearchOK, SearchExact
<1>4. /\ finger' \in [Lists -> Memory \cup {Null}]
      /\ \A m \in Lists : Exists(m) => finger'[m] \in {head[m]} \cup Linked(m, 0)
  <2> HIDE DEF s, l
  <2> QED BY <1>1, <1>2, <1>3, FingerOK
<1> QED BY <1>2, <1>4, ReaderStep
-----------------------------------------------------------------------------
(***************************************************************************)
(* The memory pool.                                                        *)
(***************************************************************************)

\* A sequence backwards has the same members, each once.
LEMMA Reversed ==
    ASSUME NEW S, NEW s \in Seq(S), IsInjective(s)
    PROVE  /\ Reverse(s) \in Seq(S) /\ IsInjective(Reverse(s)) /\ ToSet(Reverse(s)) = ToSet(s)
           /\ Len(Reverse(s)) = Len(s)
<1> DEFINE t == Reverse(s)
           L == Len(s)
<1>1. L \in Nat /\ DOMAIN s = 1 .. L /\ \A i \in 1 .. L : s[i] \in S
  BY LenProperties, ElementOfSeq
<1>2. t = [i \in 1 .. L |-> s[(L - i) + 1]]
  BY DEF Reverse
<1> HIDE DEF t, L
<1>3. \A i \in 1 .. L : (L - i) + 1 \in 1 .. L /\ (L - ((L - i) + 1)) + 1 = i
  BY <1>1
<1>4. DOMAIN t = 1 .. L /\ \A i \in 1 .. L : t[i] = s[(L - i) + 1]
  BY <1>2
<1>5. t \in [1 .. L -> S]
  BY <1>1, <1>2, <1>3
<1>6. t \in Seq(S) /\ Len(t) = L
  BY <1>1, <1>5, SeqDef, LenProperties
<1>7. IsInjective(t)
  <2> SUFFICES ASSUME NEW i \in 1 .. L, NEW j \in 1 .. L, t[i] = t[j] PROVE i = j
    BY <1>4 DEF IsInjective
  <2>1. (L - i) + 1 = (L - j) + 1
    BY <1>1, <1>3, <1>4 DEF IsInjective
  <2> QED BY <1>1, <2>1
<1>8. ToSet(t) = ToSet(s)
  <2>1. ASSUME NEW i \in 1 .. L PROVE t[i] \in ToSet(s) /\ s[i] \in ToSet(t)
    <3>1. t[i] = s[(L - i) + 1] /\ (L - i) + 1 \in DOMAIN s
      BY <1>1, <1>3, <1>4
    <3>2. t[(L - i) + 1] = s[i] /\ (L - i) + 1 \in DOMAIN t
      BY <1>3, <1>4
    <3> QED BY <3>1, <3>2 DEF ToSet
  <2> QED BY <1>1, <1>4, <2>1 DEF ToSet
<1> QED BY <1>6, <1>7, <1>8 DEF t, L

\* A new block: as many places as it should have, each once, of no pool.
LEMMA BlockOK ==
    ASSUME Cardinality(Unowned) >= BlockSize
    PROVE  /\ Block \in Seq(Unowned) /\ IsInjective(Block) /\ Len(Block) = BlockSize
<1>1. IsFiniteSet(Unowned) /\ BlockSize \in Nat
  BY FS_Subset, NoneApart, SizeAssumption DEF Unowned
<1>2. Cardinality(Unowned) \in Nat /\ ExistsBijection(1 .. Cardinality(Unowned), Unowned)
  BY <1>1, FS_CardinalityType
<1>3. PICK f \in Bijection(1 .. Cardinality(Unowned), Unowned) : TRUE
  BY <1>2 DEF ExistsBijection
<1>4. /\ f \in [1 .. Cardinality(Unowned) -> Unowned]
      /\ \A i, j \in 1 .. Cardinality(Unowned) : f[i] = f[j] => i = j
  BY <1>3 DEF Bijection, Injection, IsInjective
<1> DEFINE g == [i \in 1 .. BlockSize |-> f[i]]
<1>5. 1 .. BlockSize \subseteq 1 .. Cardinality(Unowned)
  BY <1>1, <1>2
<1>6. g \in [1 .. BlockSize -> Unowned]
  BY <1>4, <1>5
<1>7. IsInjective(g)
  BY <1>4, <1>5 DEF IsInjective
<1>8. Block \in [1 .. BlockSize -> Unowned] /\ IsInjective(Block)
  <2> HIDE DEF g
  <2> QED BY <1>6, <1>7 DEF Block
<1>9. Block \in Seq(Unowned) /\ Len(Block) = BlockSize
  BY <1>1, <1>8, SeqDef, LenProperties
<1> QED BY <1>8, <1>9

\* Where a node is made, there was none; the pool stays exact.
LEMMA Allocation ==
    ASSUME TypeOK, PoolExact, ~ended, NEW l \in Lists, NEW key \in Keys \cup {NoKey}, NEW h \in Levels,
           Make(l, key, h), ended' = ended
    PROVE  /\ Allocated(l) \in Memory /\ used[Allocated(l)] = NoList
           /\ cache' \in Seq(Memory) /\ free' \in [Lists -> Seq(Memory)]
           /\ owner' \in [Memory -> Lists \cup {NoList}]
           /\ value' \in [Memory -> Keys \cup {NoKey}] /\ height' \in [Memory -> Levels]
           /\ used' \in [Memory -> Lists \cup {NoList}]
           /\ value' = [value EXCEPT ![Allocated(l)] = key]
           /\ height' = [height EXCEPT ![Allocated(l)] = h]
           /\ used' = [used EXCEPT ![Allocated(l)] = l]
           /\ PoolExact'
<1> USE Types, NoneApart
<1> DEFINE a == Allocated(l)
           Other == UNION {ToSet(free[m]) : m \in Lists \ {l}}
<1>1. /\ value' = [value EXCEPT ![a] = key] /\ height' = [height EXCEPT ![a] = h]
      /\ used' = [used EXCEPT ![a] = l]
  BY DEF Make
<1>2. ASSUME a \in Memory
      PROVE  /\ value' \in [Memory -> Keys \cup {NoKey}] /\ height' \in [Memory -> Levels]
             /\ used' \in [Memory -> Lists \cup {NoList}] /\ Made' = Made \cup {a}
  BY <1>1, <1>2 DEF Made
<1>p. /\ IsInjective(cache) /\ \A m \in Lists : IsInjective(free[m])
      /\ \A m, n \in Lists : m # n => ToSet(free[m]) \cap ToSet(free[n]) = {}
      /\ ToSet(cache) \cap Spare = {} /\ Made \cap (ToSet(cache) \cup Spare) = {}
      /\ Made \cup Spare \cup ToSet(cache) = Memory \ Unowned
  BY DEF PoolExact
<1>s. Spare = Other \cup ToSet(free[l])
  BY DEF Spare
<1>m. \A n \in Memory : n \notin Made => used[n] = NoList
  BY DEF Made
<1>3. CASE TakeFromCache
  <2>1. cache # <<>> /\ cache' = Front(cache) /\ free' = free /\ owner' = owner /\ a = Last(cache)
    BY <1>3 DEF TakeFromCache, Allocated
  <2>2. /\ a \in Memory /\ a \in ToSet(cache) /\ cache' \in Seq(Memory) /\ IsInjective(cache')
        /\ ToSet(cache') = ToSet(cache) \ {a}
    <3>1. cache \in Seq(Memory) /\ IsInjective(cache) /\ cache # <<>>
      BY <2>1, <1>p
    <3>2. /\ Last(cache) \in Memory /\ Last(cache) \in ToSet(cache)
          /\ Front(cache) \in Seq(Memory) /\ IsInjective(Front(cache))
          /\ ToSet(Front(cache)) = ToSet(cache) \ {Last(cache)}
      BY <3>1, WithoutLast
    <3> HIDE DEF a
    <3> QED BY <2>1, <3>2
  <2> HIDE DEF a
  <2>3. Spare' = Spare /\ Unowned' = Unowned
    BY <2>1 DEF Spare, Unowned
  <2>4. PoolExact'
    BY <1>2, <1>p, <2>1, <2>2, <2>3 DEF PoolExact
  <2>5. used[a] = NoList
    BY <1>p, <1>m, <2>2
  <2> QED BY <1>1, <1>2, <2>1, <2>2, <2>4, <2>5 DEF a
<1>4. CASE TakeFromPool(l)
  <2> DEFINE s == FreeOf(l)
  <2>1. /\ cache = <<>> /\ cache' = cache /\ free' = [free EXCEPT ![l] = Tail(s)]
        /\ owner' = [n \in Memory |-> IF n \in ToSet(s) THEN l ELSE owner[n]]
        /\ a = Head(s)
    BY <1>4 DEF TakeFromPool, Allocated
  <2>2. ToSet(cache) = {}
    BY <2>1 DEF ToSet
  <2>3. /\ s \in Seq(Memory) /\ IsInjective(s) /\ s # <<>> /\ ToSet(s) \cap (Made \cup Other) = {}
        /\ Made \cup Other \cup ToSet(s) = Memory \ (Unowned \ ToSet(s))
        /\ ToSet(s) \subseteq Memory
    <3>1. CASE free[l] # <<>>
      <4>1. s = free[l]
        BY <3>1 DEF FreeOf
      <4>2. ToSet(s) \cap Other = {} /\ ToSet(s) \subseteq Spare
        BY <4>1, <1>p, <1>s
      <4> QED BY <3>1, <4>1, <4>2, <1>p, <1>s, <2>2
    <3>2. CASE free[l] = <<>>
      <4>1. s = Reverse(Block)
        BY <3>2 DEF FreeOf
      <4>2. Cardinality(Unowned) >= BlockSize
        BY <2>1, <3>2 DEF Make, Room
      <4>3. Block \in Seq(Unowned) /\ IsInjective(Block) /\ Len(Block) = BlockSize
        BY <4>2, BlockOK
      <4>4. s \in Seq(Unowned) /\ IsInjective(s) /\ Len(s) = BlockSize
        BY <4>1, <4>3, Reversed
      <4>5. s # <<>>
        BY <4>4, SizeAssumption, EmptySeq
      <4>6. s \in Seq(Memory)
        BY <4>4, Widened DEF Unowned
      <4>7. ToSet(s) \subseteq Unowned /\ Unowned \subseteq Memory
        <5>1. Unowned \subseteq Memory
          BY DEF Unowned
        <5>2. \A i \in DOMAIN s : s[i] \in Unowned
          BY <4>4, LenProperties, ElementOfSeq
        <5> QED BY <5>1, <5>2 DEF ToSet
      <4>8. ToSet(free[l]) = {}
        BY <3>2 DEF ToSet
      <4> QED BY <4>4, <4>5, <4>6, <4>7, <4>8, <1>p, <1>s, <2>2
    <3> QED BY <3>1, <3>2
  <2> HIDE DEF s
  <2>4. /\ a \in Memory /\ a \in ToSet(s) /\ Tail(s) \in Seq(Memory) /\ IsInjective(Tail(s))
        /\ ToSet(Tail(s)) = ToSet(s) \ {a}
    BY <2>1, <2>3, Shortened
  <2> HIDE DEF a
  <2>5. /\ free' \in [Lists -> Seq(Memory)] /\ free'[l] = Tail(s)
        /\ \A m \in Lists \ {l} : free'[m] = free[m]
    BY <2>1, <2>4
  <2>6. Spare' = Other \cup (ToSet(s) \ {a})
    <3>1. \A x : x \in Spare' <=> \E m \in Lists : x \in ToSet(free'[m])
      BY DEF Spare
    <3>2. \A x : x \in Other <=> \E m \in Lists \ {l} : x \in ToSet(free[m])
      OBVIOUS
    <3> HIDE DEF Other
    <3>3. \A x : x \in Spare' <=> x \in Other \/ x \in ToSet(Tail(s))
      BY <2>5, <3>1, <3>2
    <3> QED BY <2>4, <3>3
  <2>7. Unowned' = Unowned \ ToSet(s) /\ owner' \in [Memory -> Lists \cup {NoList}]
    BY <2>1 DEF Unowned
  <2>8. \A m \in Lists \ {l} : ToSet(free[m]) \subseteq Other
    OBVIOUS
  <2> HIDE DEF Other
  <2>9. /\ IsInjective(cache') /\ \A m \in Lists : IsInjective(free'[m])
        /\ \A m, n \in Lists : m # n => ToSet(free'[m]) \cap ToSet(free'[n]) = {}
    <3>1. ASSUME NEW m \in Lists \ {l} PROVE ToSet(free'[m]) \cap ToSet(free'[l]) = {}
      BY <2>3, <2>4, <2>5, <2>8
    <3>2. \A m \in Lists : IsInjective(free'[m])
      BY <1>p, <2>4, <2>5
    <3>3. \A m, n \in Lists \ {l} : m # n => ToSet(free'[m]) \cap ToSet(free'[n]) = {}
      BY <1>p, <2>5
    <3> QED BY <1>p, <2>1, <3>1, <3>2, <3>3
  <2>10. /\ ToSet(cache') = {} /\ Made' = Made \cup {a}
         /\ Made' \cap Spare' = {} /\ Made' \cup Spare' = Memory \ Unowned'
    <3>1. Made' = Made \cup {a} /\ ToSet(cache') = {}
      BY <1>2, <2>1, <2>2, <2>4
    <3>2. Made \cap Other = {}
      BY <1>p, <1>s
    <3> QED BY <3>1, <3>2, <2>3, <2>4, <2>6, <2>7
  <2>11. PoolExact'
    BY <2>9, <2>10 DEF PoolExact
  <2>12. used[a] = NoList
    BY <1>m, <2>3, <2>4
  <2> QED BY <1>1, <1>2, <2>1, <2>4, <2>5, <2>7, <2>11, <2>12 DEF a
<1> QED BY <1>3, <1>4 DEF Make

\* The first places of some nodes and the others
LEMMA Parted ==
    ASSUME NEW S, NEW s \in Seq(S), IsInjective(s), NEW c \in 0 .. Len(s)
    PROVE  LET s1 == SubSeq(s, 1, c)
               s2 == SubSeq(s, c + 1, Len(s))
           IN  /\ s1 \in Seq(S) /\ s2 \in Seq(S) /\ IsInjective(s1) /\ IsInjective(s2)
               /\ ToSet(s1) \cap ToSet(s2) = {} /\ ToSet(s1) \cup ToSet(s2) = ToSet(s)
<1> DEFINE L  == Len(s)
           s1 == SubSeq(s, 1, c)
           s2 == SubSeq(s, c + 1, L)
<1>1. L \in Nat /\ DOMAIN s = 1 .. L /\ \A i \in 1 .. L : s[i] \in S
  BY LenProperties, ElementOfSeq
<1>2. c \in Nat /\ c <= L
  BY <1>1
<1>3. s1 \in Seq(S) /\ DOMAIN s1 = 1 .. c /\ \A i \in 1 .. c : s1[i] = s[i]
  <2>1. s1 = [i \in 1 .. c |-> s[i]]
    BY <1>1, <1>2
  <2> HIDE DEF s1
  <2>2. s1 \in [1 .. c -> S]
    BY <1>1, <1>2, <2>1
  <2> QED BY <1>2, <2>1, <2>2, SeqDef
<1>4. /\ s2 \in Seq(S) /\ DOMAIN s2 = 1 .. L - c
      /\ \A i \in 1 .. L - c : s2[i] = s[c + i]
  <2>1. s2 = [i \in 1 .. L - c |-> s[c + i]]
    BY <1>1, <1>2
  <2> HIDE DEF s2
  <2>2. s2 \in [1 .. L - c -> S]
    BY <1>1, <1>2, <2>1
  <2>3. L - c \in Nat
    BY <1>1, <1>2
  <2> QED BY <2>1, <2>2, <2>3, SeqDef
<1> HIDE DEF s1, s2, L
<1>5. IsInjective(s1)
  BY <1>1, <1>2, <1>3 DEF IsInjective
<1>6. IsInjective(s2)
  <2> SUFFICES ASSUME NEW i \in 1 .. L - c, NEW j \in 1 .. L - c, s2[i] = s2[j] PROVE i = j
    BY <1>4 DEF IsInjective
  <2>1. c + i \in DOMAIN s /\ c + j \in DOMAIN s /\ s[c + i] = s[c + j]
    BY <1>1, <1>2, <1>4
  <2>2. c + i = c + j
    BY <2>1 DEF IsInjective
  <2> QED BY <1>2, <2>2
<1>7. ToSet(s1) \cap ToSet(s2) = {}
  <2> SUFFICES ASSUME NEW i \in 1 .. c, NEW j \in 1 .. L - c, s1[i] = s2[j] PROVE FALSE
    BY <1>3, <1>4 DEF ToSet
  <2>1. i \in DOMAIN s /\ c + j \in DOMAIN s /\ s[i] = s[c + j] /\ i # c + j
    BY <1>1, <1>2, <1>3, <1>4
  <2> QED BY <2>1 DEF IsInjective
<1>8. ToSet(s1) \cup ToSet(s2) = ToSet(s)
  <2>1. ASSUME NEW i \in 1 .. L PROVE s[i] \in ToSet(s1) \cup ToSet(s2)
    <3>1. CASE i <= c
      BY <1>2, <1>3, <3>1 DEF ToSet
    <3>2. CASE i > c
      <4>1. i - c \in 1 .. L - c /\ c + (i - c) = i
        BY <1>1, <1>2, <3>2
      <4>2. s2[i - c] = s[i]
        BY <1>4, <4>1
      <4> QED BY <1>4, <4>1, <4>2 DEF ToSet
    <3> QED BY <1>2, <3>1, <3>2
  <2>2. \A i \in 1 .. c : s1[i] \in ToSet(s)
    BY <1>1, <1>2, <1>3 DEF ToSet
  <2>3. ASSUME NEW i \in 1 .. L - c PROVE s2[i] \in ToSet(s)
    <3>1. c + i \in DOMAIN s
      BY <1>1, <1>2
    <3> QED BY <1>4, <3>1 DEF ToSet
  <2> QED BY <1>1, <1>3, <1>4, <2>1, <2>2, <2>3 DEF ToSet
<1> QED BY <1>3, <1>4, <1>5, <1>6, <1>7, <1>8 DEF s1, s2, L

\* deallocate puts some of the nodes into the cache, and the others elsewhere.
LEMMA CachedSome ==
    ASSUME TypeOK, NEW gone \in Seq(Memory)
    PROVE  \E c \in 0 .. Len(gone) : Cached(gone) = SubSeq(gone, 1, c) /\ Len(Cached(gone)) = c
<1> DEFINE room == CacheMax - Len(cache)
           L == Len(gone)
           c == IF room < L THEN room ELSE L
<1>1. L \in Nat /\ room \in Int
  BY LenProperties, SizeAssumption, Types
<1>2. Cached(gone) = SubSeq(gone, 1, c)
  BY DEF Cached
<1> HIDE DEF room
<1>3. CASE c >= 0
  <2>1. c \in 0 .. L
    BY <1>1, <1>3
  <2> HIDE DEF c, L
  <2>2. Len(SubSeq(gone, 1, c)) = c
    BY <2>1, <1>1, LenProperties DEF L
  <2> QED BY <1>2, <2>1, <2>2 DEF L
<1>4. CASE c < 0
  <2>1. 0 \in 0 .. L
    BY <1>1
  <2>2. c \in Int
    BY <1>1
  <2> HIDE DEF c, L
  <2>3. SubSeq(gone, 1, c) = <<>> /\ SubSeq(gone, 1, 0) = <<>>
    BY <1>4, <2>2
  <2>4. Len(<<>>) = 0
    BY EmptySeq
  <2> QED BY <1>2, <2>1, <2>3, <2>4 DEF L
<1>5. c \in Int
  BY <1>1
<1> QED BY <1>3, <1>4, <1>5

\* What the destructors leave.
LEMMA Destructed ==
    ASSUME TypeOK, NEW gone \in SUBSET Memory,
           NEW links \in [Memory -> [Levels -> Memory \cup {Null}]], Destruct(gone, links)
    PROVE  /\ value' \in [Memory -> Keys \cup {NoKey}] /\ height' \in [Memory -> Levels]
           /\ forward' \in [Memory -> [Levels -> Memory \cup {Null}]]
           /\ used' \in [Memory -> Lists \cup {NoList}]
           /\ \A n \in gone : forward'[n] = Unlinked /\ used'[n] = NoList
           /\ \A n \in Memory \ gone : /\ value'[n] = value[n] /\ height'[n] = height[n]
                                       /\ forward'[n] = links[n] /\ used'[n] = used[n]
           /\ Made' = Made \ gone
<1> USE Types, Natural
<1>1. Unlinked \in [Levels -> Memory \cup {Null}]
  BY DEF Unlinked
<1>2. /\ value' = [n \in Memory |-> IF n \in gone THEN NoKey ELSE value[n]]
      /\ height' = [n \in Memory |-> IF n \in gone THEN 0 ELSE height[n]]
      /\ forward' = [n \in Memory |-> IF n \in gone THEN Unlinked ELSE links[n]]
      /\ used' = [n \in Memory |-> IF n \in gone THEN NoList ELSE used[n]]
  BY DEF Destruct
<1>3. Made' = Made \ gone
  BY <1>2 DEF Made
<1> QED BY <1>1, <1>2, <1>3

\* deallocate: what was in nodes is then in the cache or the free list.
LEMMA Deallocation ==
    ASSUME TypeOK, PoolExact, ended' = ended, owner' = owner, NEW l \in Lists,
           NEW gone \in Seq(Memory), IsInjective(gone), ToSet(gone) \subseteq NodesOf(l),
           NEW links \in [Memory -> [Levels -> Memory \cup {Null}]], Deallocate(l, gone, links)
    PROVE  /\ cache' \in Seq(Memory) /\ free' \in [Lists -> Seq(Memory)] /\ PoolExact'
           /\ Destruct(ToSet(gone), links) /\ ToSet(gone) \in SUBSET Memory
<1> USE Types, NoneApart
<1>1. PICK c \in 0 .. Len(gone) : Cached(gone) = SubSeq(gone, 1, c) /\ Len(Cached(gone)) = c
  BY CachedSome
<1> DEFINE s1 == SubSeq(gone, 1, c)
           s2 == SubSeq(gone, c + 1, Len(gone))
<1>2. /\ s1 \in Seq(Memory) /\ s2 \in Seq(Memory) /\ IsInjective(s1) /\ IsInjective(s2)
      /\ ToSet(s1) \cap ToSet(s2) = {} /\ ToSet(s1) \cup ToSet(s2) = ToSet(gone)
  BY Parted
<1>3. /\ cache' = cache \o s1
      /\ free' = [free EXCEPT ![l] = Reverse(s2) \o @]
      /\ Destruct(ToSet(gone), links)
  BY <1>1 DEF Deallocate
<1> HIDE DEF s1, s2
<1> DEFINE rs == Reverse(s2)
<1>4. rs \in Seq(Memory) /\ IsInjective(rs) /\ ToSet(rs) = ToSet(s2)
  BY <1>2, Reversed
<1> HIDE DEF rs
<1>p. /\ IsInjective(cache) /\ \A m \in Lists : IsInjective(free[m])
      /\ \A m, n \in Lists : m # n => ToSet(free[m]) \cap ToSet(free[n]) = {}
      /\ ToSet(cache) \cap Spare = {} /\ Made \cap (ToSet(cache) \cup Spare) = {}
      /\ ~ended => Made \cup Spare \cup ToSet(cache) = Memory \ Unowned
  BY DEF PoolExact
<1>5. ToSet(gone) \subseteq Made /\ ToSet(gone) \in SUBSET Memory
  BY DEF Made
<1>6. Made' = Made \ ToSet(gone)
  BY <1>3, <1>5, Destructed
<1>7. \A m \in Lists : ToSet(free[m]) \subseteq Spare
  BY DEF Spare
<1>8. cache' \in Seq(Memory) /\ IsInjective(cache') /\ ToSet(cache') = ToSet(cache) \cup ToSet(s1)
  <2>1. ToSet(cache) \cap ToSet(s1) = {}
    BY <1>p, <1>2, <1>5
  <2> QED BY <1>2, <1>3, <1>p, <2>1, InARow
<1> DEFINE fl == rs \o free[l]
<1>9. fl \in Seq(Memory) /\ IsInjective(fl) /\ ToSet(fl) = ToSet(s2) \cup ToSet(free[l])
  <2>1. ToSet(rs) \cap ToSet(free[l]) = {}
    BY <1>p, <1>2, <1>4, <1>5, <1>7
  <2>2. free[l] \in Seq(Memory) /\ IsInjective(free[l])
    BY <1>p
  <2> QED BY <1>4, <2>1, <2>2, InARow
<1>10. free' = [free EXCEPT ![l] = fl]
  BY <1>3 DEF rs
<1> HIDE DEF fl
<1>11. /\ free' \in [Lists -> Seq(Memory)] /\ free'[l] = fl
       /\ \A m \in Lists \ {l} : free'[m] = free[m]
  BY <1>9, <1>10
<1>12. Spare' = Spare \cup ToSet(s2)
  <2>1. \A x : x \in Spare' <=> \E m \in Lists : x \in ToSet(free'[m])
    BY DEF Spare
  <2>2. \A x : x \in Spare <=> \E m \in Lists : x \in ToSet(free[m])
    BY DEF Spare
  <2> QED BY <1>9, <1>11, <2>1, <2>2
<1>13. \A m, n \in Lists : m # n => ToSet(free'[m]) \cap ToSet(free'[n]) = {}
  <2>1. ASSUME NEW m \in Lists \ {l} PROVE ToSet(free'[m]) \cap ToSet(free'[l]) = {}
    BY <1>p, <1>2, <1>5, <1>7, <1>9, <1>11
  <2>2. \A m, n \in Lists \ {l} : m # n => ToSet(free'[m]) \cap ToSet(free'[n]) = {}
    BY <1>p, <1>11
  <2> QED BY <2>1, <2>2
<1>14. \A m \in Lists : IsInjective(free'[m])
  BY <1>p, <1>9, <1>11
<1>15. Unowned' = Unowned
  BY DEF Unowned
<1>16. /\ ToSet(cache') \cap Spare' = {} /\ Made' \cap (ToSet(cache') \cup Spare') = {}
       /\ ~ended => Made' \cup Spare' \cup ToSet(cache') = Memory \ Unowned'
  BY <1>p, <1>2, <1>5, <1>6, <1>8, <1>12, <1>15
<1>17. PoolExact'
  BY <1>8, <1>13, <1>14, <1>16 DEF PoolExact
<1> QED BY <1>3, <1>5, <1>8, <1>11, <1>17
-----------------------------------------------------------------------------
(***************************************************************************)
(* Inserting.                                                              *)
(***************************************************************************)

\* An insert that goes on to link makes a node and knows its place at each level.
LEMMA DrawSound ==
    ASSUME Sound, PoolExact, ~Outlived, writer.pc = "find",
           NEW f \in Starts(writer.list, writer.key), NEW h \in Levels, Draw(f, h)
    PROVE  Sound' /\ PoolExact'
<1>n. Levels \subseteq Nat /\ Keys \subseteq Int /\ NoList \notin Lists /\ Null \notin Memory
      /\ Levels = 0 .. MaxLevel /\ MaxLevel \in Nat /\ 0 \in Levels
  BY Natural, NoneApart
<1>0. PICK l, k, update, a : /\ l = writer.list /\ k = writer.key
                             /\ update = Update(l, f, k) /\ a = Allocated(l)
  OBVIOUS
<1>1. l \in Lists /\ k \in Keys /\ k \in Int /\ Exists(l) /\ writer # Idle /\ writer.alone \in BOOLEAN
  BY <1>0, <1>n, WriterIs DEF Sound, TypeOK, WriterExact
<1>2. ListFacts(l) /\ Nothing /\ ChainExact(l)
  BY <1>1, SoundFacts, NobodyLinks
<1>t. TypeOK /\ ended = FALSE
  BY <1>1 DEF Sound, TypeOK, MadeExact
<1>3. /\ ~Found(update, k)
      /\ level' = [level EXCEPT ![l] = IF h > @ THEN h ELSE @]
      /\ Make(l, k, h)
      /\ forward' = [forward EXCEPT ![a] = Unlinked]
      /\ writer' = [pc |-> "link", list |-> l, alone |-> writer.alone,
                    node |-> a, update |-> update, at |-> 0]
      /\ UNCHANGED <<head, finger, ended, reader>>
  BY <1>0 DEF Draw
<1>4. update = [i \in Levels |-> Place(l, i, k)]
  BY <1>0, <1>1, <1>2, UpdateIsPlace DEF Sound
<1>5. /\ \A n \in Keyed(l) : value[n] # k
      /\ \A i \in Levels : IsBefore(l, update[i], i, k)
  BY <1>1, <1>2, <1>3, <1>4, <1>t, FoundThere
<1>6. /\ a \in Memory /\ used[a] = NoList
      /\ cache' \in Seq(Memory) /\ free' \in [Lists -> Seq(Memory)]
      /\ owner' \in [Memory -> Lists \cup {NoList}]
      /\ value' \in [Memory -> Keys \cup {NoKey}] /\ height' \in [Memory -> Levels]
      /\ used' \in [Memory -> Lists \cup {NoList}]
      /\ value' = [value EXCEPT ![a] = k]
      /\ height' = [height EXCEPT ![a] = h]
      /\ used' = [used EXCEPT ![a] = l]
      /\ PoolExact'
  BY <1>0, <1>1, <1>3, <1>t, Allocation
<1>w. /\ writer'.pc = "link" /\ writer'.list = l /\ writer'.node = a /\ writer'.update = update
      /\ writer'.at = 0 /\ writer'.alone = writer.alone
  BY <1>3
<1>u. head' = head /\ finger' = finger /\ ended' = ended /\ reader' = reader
  BY <1>3
<1>7. \A n \in Memory \ {a} : /\ value'[n] = value[n] /\ height'[n] = height[n]
                              /\ forward'[n] = forward[n] /\ used'[n] = used[n]
  BY <1>3, <1>6, <1>t, Types
<1>8. /\ value'[a] = k /\ height'[a] = h /\ forward'[a] = Unlinked /\ used'[a] = l
      /\ forward' \in [Memory -> [Levels -> Memory \cup {Null}]]
  <2>1. Unlinked \in [Levels -> Memory \cup {Null}]
    BY DEF Unlinked
  <2> QED BY <1>3, <1>6, <1>t, <2>1, Types
<1>9. \A i \in Levels : update[i] \in Memory
  BY <1>2, <1>5 DEF IsBefore, ListFacts
<1>10. writer' \in Inserts /\ writer' # Idle
  <2>1. update \in [Levels -> Memory]
    BY <1>4, <1>9
  <2>2. writer' = [pc |-> "link", list |-> l, alone |-> writer.alone,
                   node |-> a, update |-> update, at |-> 0]
    BY <1>3
  <2>3. writer' \in Inserts
    BY <1>1, <1>6, <1>n, <2>1, <2>2 DEF Inserts
  <2> QED BY <2>3, <1>w DEF Idle
<1>11. level' \in [Lists -> Levels] /\ level'[l] \in Nat
       /\ level'[l] = (IF h > level[l] THEN h ELSE level[l])
       /\ \A m \in Lists \ {l} : level'[m] = level[m]
  <2>1. level \in [Lists -> Levels] /\ level' = [level EXCEPT ![l] = IF h > @ THEN h ELSE @]
    BY <1>3, <1>t, Types
  <2> QED BY <1>1, <1>n, <2>1
<1>12. TypeOK'
  BY <1>3, <1>6, <1>8, <1>10, <1>11, <1>t DEF TypeOK
<1>13. MadeExact'
  <2>1. \A n \in Memory : IF used'[n] = NoList THEN forward'[n] = Unlinked ELSE head'[used'[n]] # Null
    BY <1>1, <1>3, <1>7, <1>8 DEF Sound, MadeExact
  <2> QED BY <1>t, <1>3, <2>1 DEF MadeExact
<1>14. \A n \in Memory \ {a}, i \in Levels : ~Pending(n, i)' /\ ~Pending(n, i)
  BY <1>2, <1>w DEF Pending, Nothing
<1>15. \A i \in Levels : Pending(a, i)'
  <2>1. \A i \in Levels : 0 <= i
    BY <1>n
  <2> QED BY <1>w, <2>1 DEF Pending
<1>16. ASSUME NEW m \in Lists, m # l, Exists(m)
       PROVE  Exists(m)' /\ ChainExact(m)' /\ \A i \in Levels : Linked(m, i)' = Linked(m, i)
  <2>1. ListFacts(m) /\ ChainExact(m)
    BY <1>16, SoundFacts
  <2>2. NodesOf(m)' = NodesOf(m) /\ a \notin NodesOf(m)
    <3>1. used[a] # m /\ used'[a] # m
      BY <1>6, <1>8, <1>16, <1>n
    <3>2. \A n \in Memory : used'[n] = m <=> used[n] = m
      BY <1>7, <3>1
    <3> QED BY <3>1, <3>2
  <2>3. head'[m] = head[m] /\ level'[m] = level[m] /\ finger'[m] \in {head[m]} \cup Linked(m, 0)
    BY <1>3, <1>11, <1>16, <2>1 DEF ListFacts
  <2>4. \A n \in NodesOf(m) : /\ value'[n] = value[n] /\ height'[n] = height[n]
                              /\ forward'[n] = forward[n]
    BY <1>7, <2>2
  <2>5. \A n \in NodesOf(m), i \in Levels : Pending(n, i)' <=> Pending(n, i)
    BY <1>14, <2>2
  <2> HIDE DEF NodesOf
  <2> QED BY <1>16, <1>t, <2>1, <2>2, <2>3, <2>4, <2>5, ListKept
<1>17. /\ NodesOf(l)' = NodesOf(l) \cup {a} /\ a \notin NodesOf(l) /\ a # head[l] /\ head'[l] = head[l]
       /\ Keyed(l)' = Keyed(l) \cup {a} /\ a \notin Keyed(l)
  <2>0. used[a] # l /\ a \in Memory /\ used'[a] = l /\ used[head[l]] = l
    BY <1>1, <1>2, <1>6, <1>8, <1>n DEF ListFacts
  <2>1. a \notin NodesOf(l) /\ a # head[l] /\ head'[l] = head[l]
    BY <2>0, <1>u
  <2>2. \A n \in Memory : used'[n] = l <=> used[n] = l \/ n = a
    BY <2>0, <1>7
  <2>3. NodesOf(l)' = NodesOf(l) \cup {a}
    BY <2>0, <2>2
  <2> HIDE DEF NodesOf
  <2> QED BY <2>1, <2>3 DEF Keyed
<1>18. \A i \in Levels : Linked(l, i)' = Linked(l, i)
  <2> SUFFICES ASSUME NEW i \in Levels PROVE Linked(l, i)' = Linked(l, i)
    OBVIOUS
  <2>1. \A n \in Keyed(l) : n \in Memory \ {a} 
    BY <1>17 DEF Keyed
  <2>2. \A n \in Keyed(l) : height'[n] = height[n] /\ ~Pending(n, i)' /\ ~Pending(n, i)
    BY <1>7, <1>14, <2>1
  <2>3. Keyed(l)' = Keyed(l) \cup {a} /\ Pending(a, i)'
    BY <1>15, <1>17
  <2> QED BY <2>2, <2>3 DEF Linked
<1>19. \A n \in {head[l]} \cup Keyed(l) : 
          /\ n \in Memory \ {a} /\ value'[n] = value[n] /\ height'[n] = height[n]
          /\ forward'[n] = forward[n]
  BY <1>2, <1>7, <1>17 DEF Keyed, ListFacts
<1>20. ASSUME NEW n \in NodesOf(l)', NEW i \in Levels PROVE LeadsOn(l, n, i)'
  <2>1. CASE n = a
    BY <2>1, <1>8, <1>15 DEF LeadsOn, Unlinked
  <2>2. CASE n # a
    <3>1. n \in NodesOf(l) /\ n \in {head[l]} \cup Keyed(l)
      BY <2>2, <1>17 DEF Keyed
    <3>2. Later(l, n, i)' = Later(l, n, i) /\ \A m \in Later(l, n, i) : value'[m] = value[m]
      <4>1. \A m \in Linked(l, i) : value'[m] = value[m]
        BY <1>2, <1>19 DEF ListFacts
      <4>2. value'[n] = value[n]
        BY <3>1, <1>19
      <4> QED BY <1>17, <1>18, <4>1, <4>2 DEF Later
    <3>3. LeadsOn(l, n, i)
      BY <1>2, <3>1 DEF ChainExact
    <3>4. ~Pending(n, i)' /\ ~Pending(n, i) /\ height'[n] = height[n] /\ forward'[n] = forward[n]
      BY <3>1, <1>14, <1>19
    <3> HIDE DEF NodesOf
    <3> QED BY <3>2, <3>3, <3>4 DEF LeadsOn
  <2> QED BY <2>1, <2>2
<1>21. ChainExact(l)'
  <2>1. /\ head'[l] \in NodesOf(l)' /\ height'[head'[l]] = MaxLevel
        /\ finger'[l] \in {head'[l]} \cup Linked(l, 0)'
    BY <1>2, <1>n, <1>u, <1>17, <1>18, <1>19 DEF ChainExact
  <2>2. ASSUME NEW n \in Keyed(l)' PROVE value'[n] \in Keys /\ height'[n] <= level'[l]
    <3>1. CASE n = a
      BY <3>1, <1>n, <1>1, <1>2, <1>8, <1>11 DEF ListFacts
    <3>2. CASE n \in Keyed(l)
      BY <3>2, <1>2, <1>11, <1>19 DEF ListFacts
    <3> QED BY <3>1, <3>2, <1>17
  <2>3. \A m, n \in Keyed(l)' : value'[m] = value'[n] => m = n
    BY <1>2, <1>5, <1>8, <1>17, <1>19 DEF ListFacts
  <2>4. level'[l] = 0 \/ \E n \in Keyed(l)' : height'[n] = level'[l]
    <3>1. CASE h > level[l]
      BY <3>1, <1>8, <1>11, <1>17
    <3>2. CASE ~(h > level[l])
      <4>1. level[l] = 0 \/ \E n \in Keyed(l) : height[n] = level[l]
        BY <1>2 DEF ChainExact
      <4> QED BY <3>2, <4>1, <1>11, <1>17, <1>19
    <3> QED BY <3>1, <3>2
  <2> HIDE DEF NodesOf
  <2> QED BY <1>20, <2>1, <2>2, <2>3, <2>4 DEF ChainExact
<1>22. ChainsExact'
  <2> SUFFICES ASSUME NEW m \in Lists, Exists(m)' PROVE ChainExact(m)'
    BY DEF ChainsExact
  <2>1. Exists(m)
    BY <1>3
  <2> QED BY <2>1, <1>16, <1>21
<1>23. \A m \in Lists : Exists(m) => \A i \in Levels : Linked(m, i)' = Linked(m, i)
  BY <1>16, <1>18
<1>24. WriterExact'
  <2>1. \A i \in Levels : IsBefore(l, update[i], i, k)'
    <3> SUFFICES ASSUME NEW i \in Levels PROVE IsBefore(l, update[i], i, k)'
      OBVIOUS
    <3>1. IsBefore(l, update[i], i, k)
      BY <1>5
    <3>2. update[i] \in {head[l]} \cup Keyed(l) /\ \A n \in Linked(l, i) : n \in Keyed(l)
      BY <1>2, <3>1 DEF IsBefore, ListFacts
    <3>3. update[i] \in {head[l]} \cup Linked(l, i) /\ (update[i] # head[l] => value[update[i]] < k)
          /\ (forward[update[i]][i] # Null => value[forward[update[i]][i]] > k)
      BY <3>1 DEF IsBefore
    <3>4. i <= height[update[i]] /\ ~Pending(update[i], i)
      BY <1>n, <1>2, <3>2, <3>3 DEF ListFacts, Nothing
    <3>5. forward[update[i]][i] # Null => forward[update[i]][i] \in Keyed(l)
      BY <1>2, <3>2, <3>4 DEF ListFacts
    <3> QED BY <3>2, <3>3, <3>5, <1>17, <1>18, <1>19 DEF IsBefore
  <2>2. update[0] \in {head'[l]} \cup Linked(l, 0)'
    BY <1>n, <1>5, <1>17, <1>18 DEF IsBefore
  <2>3. a \in Keyed(l)' /\ 0 <= height'[a] /\ \A i \in 0 .. height'[a] : i \in Levels
    BY <1>n, <1>8, <1>17
  <2>4. Exists(l)' /\ value'[a] = k
    BY <1>1, <1>3, <1>8
  <2>5. writer'.list = l /\ writer'.node = a /\ writer'.update = update /\ writer'.at = 0
    BY <1>3
  <2> QED BY <2>1, <2>2, <2>3, <2>4, <2>5 DEF WriterExact
<1>25. SearchesOK'
  <2> SUFFICES ASSUME NEW r \in Readers, NEW s, s = reader[r], s # Idle PROVE SearchOK(s)'
    BY <1>3 DEF SearchesOK
  <2>1. s \in Searches /\ SearchOK(s) /\ s.list \in Lists /\ Exists(s.list)
    <3>1. s \in Searches /\ SearchOK(s)
      BY <1>t DEF Sound, TypeOK, SearchesOK
    <3> QED BY <3>1, SearchIs DEF SearchOK, SearchExact
  <2>2. ListFacts(s.list) /\ ChainExact(s.list)
    BY <2>1, SoundFacts
  <2>3. \A n \in {head[s.list]} \cup Linked(s.list, 0) :
           /\ value'[n] = value[n] /\ height'[n] = height[n] /\ forward'[n] = forward[n]
    <3>1. \A n \in {head[s.list]} \cup Linked(s.list, 0) : n \in Memory /\ used[n] = s.list
      BY <2>2 DEF ListFacts
    <3>2. used[a] # s.list
      BY <1>n, <1>6, <2>1
    <3>3. \A n \in {head[s.list]} \cup Linked(s.list, 0) : n \in Memory \ {a}
      BY <3>1, <3>2
    <3> QED BY <3>3, <1>7
  <2>4. s.pc = "look" => s.node \in {head[s.list]} \cup Linked(s.list, 0)
    BY <2>1 DEF SearchOK, SearchExact
  <2>5. head'[s.list] = head[s.list] /\ Linked(s.list, 0)' = Linked(s.list, 0)
    BY <1>n, <1>u, <1>23, <2>1
  <2> QED BY <1>t, <2>1, <2>2, <2>3, <2>4, <2>5, SearchKept
<1> QED BY <1>6, <1>12, <1>13, <1>22, <1>24, <1>25 DEF Sound

\* The writer's next link
LEMMA LinkSound ==
    ASSUME Sound, PoolExact, Link
    PROVE  Sound' /\ PoolExact'
<1>n. Levels \subseteq Nat /\ Keys \subseteq Int /\ NoList \notin Lists /\ Null \notin Memory
      /\ Levels = 0 .. MaxLevel /\ MaxLevel \in Nat /\ 0 \in Levels
  BY Natural, NoneApart
<1>0. PICK l, n, i, u, p, k : /\ l = writer.list /\ n = writer.node /\ i = writer.at
                              /\ u = writer.update /\ p = u[i] /\ k = value[n]
  OBVIOUS
<1>t. TypeOK /\ writer \in Inserts \cup {Idle} /\ writer.pc = "link" /\ writer # Idle
  <2>1. writer.pc = "link"
    BY DEF Link
  <2> QED BY <2>1 DEF Sound, TypeOK, Idle
<1>1. l \in Lists /\ n \in Memory /\ i \in Levels /\ i \in Nat /\ u \in [Levels -> Memory] /\ p \in Memory
  BY <1>0, <1>n, <1>t, WriterIs
<1>2. /\ Exists(l) /\ n \in Keyed(l) /\ i <= height[n]
      /\ u[0] \in {head[l]} \cup Linked(l, 0)
      /\ \A j \in i .. height[n] : IsBefore(l, u[j], j, k)
  BY <1>0, <1>t DEF Sound, WriterExact
<1>3. ListFacts(l) /\ ChainExact(l)
  BY <1>1, <1>2, SoundFacts
<1>4. /\ height[n] \in Nat /\ height[n] \in Levels /\ k \in Int /\ k \in Keys
      /\ used[n] = l /\ n # head[l] /\ head[l] \in Memory
  BY <1>0, <1>t, <1>1, <1>2, <1>3, Types DEF ListFacts
<1>5. IsBefore(l, p, i, k)
  BY <1>0, <1>1, <1>2, <1>4
<1>6. \A m \in Memory, j \in Levels : Pending(m, j) <=> m = n /\ i <= j
  BY <1>0, <1>t DEF Pending
<1>7. /\ p \in {head[l]} \cup Linked(l, i) /\ (p # head[l] => value[p] < k)
      /\ forward[p][i] # Null => value[forward[p][i]] > k
  BY <1>5 DEF IsBefore
<1>8. p # n /\ p \in {head[l]} \cup Keyed(l) /\ used[p] = l /\ i <= height[p] /\ ~Pending(p, i)
  <2>1. n \notin Linked(l, i)
    BY <1>1, <1>6 DEF Linked
  <2>2. p # n
    BY <2>1, <1>4, <1>7
  <2>3. p \in {head[l]} \cup Keyed(l) /\ used[p] = l
    BY <1>3, <1>7 DEF ListFacts
  <2>4. i <= height[p]
    BY <1>n, <1>1, <1>3, <1>7 DEF ListFacts
  <2> QED BY <2>2, <2>3, <2>4, <1>1, <1>6
<1>9. forward' = [forward EXCEPT ![n][i] = forward[p][i], ![p][i] = n]
  BY <1>0 DEF Link
<1>10. /\ forward' \in [Memory -> [Levels -> Memory \cup {Null}]]
       /\ forward'[n][i] = forward[p][i] /\ forward'[p][i] = n
       /\ \A m \in Memory, j \in Levels : (j # i \/ m \notin {n, p}) => forward'[m][j] = forward[m][j]
       /\ \A m \in Memory \ {n, p} : forward'[m] = forward[m]
  <2>1. forward \in [Memory -> [Levels -> Memory \cup {Null}]]
    BY <1>t, Types
  <2>2. DOMAIN forward = Memory /\ \A m \in Memory : DOMAIN forward[m] = Levels /\ forward[m] \in [Levels -> Memory \cup {Null}]
    BY <2>1
  <2>3. /\ forward'[n] = [forward[n] EXCEPT ![i] = forward[p][i]]
        /\ forward'[p] = [forward[p] EXCEPT ![i] = n]
        /\ \A m \in Memory \ {n, p} : forward'[m] = forward[m]
        /\ forward' = [m \in Memory |-> forward'[m]]
    BY <2>2, <1>1, <1>8, <1>9
  <2>4. forward'[n] \in [Levels -> Memory \cup {Null}] /\ forward'[n][i] = forward[p][i]
        /\ \A j \in Levels : j # i => forward'[n][j] = forward[n][j]
    BY <2>2, <2>3, <1>1
  <2>5. forward'[p] \in [Levels -> Memory \cup {Null}] /\ forward'[p][i] = n
        /\ \A j \in Levels : j # i => forward'[p][j] = forward[p][j]
    BY <2>2, <2>3, <1>1
  <2>6. forward' \in [Memory -> [Levels -> Memory \cup {Null}]]
    <3>1. \A m \in Memory : forward'[m] \in [Levels -> Memory \cup {Null}]
      BY <2>2, <2>3, <2>4, <2>5
    <3> QED BY <3>1, <2>3
  <2> QED BY <2>3, <2>4, <2>5, <2>6
<1>11. /\ level' = level /\ head' = head /\ value' = value /\ height' = height
       /\ cache' = cache /\ free' = free /\ owner' = owner /\ used' = used /\ ended' = ended
  BY DEF Link, pool
<1>12. \/ /\ i < height[n] /\ writer' = [writer EXCEPT !.at = i + 1] /\ finger' = finger
       \/ /\ i = height[n] /\ writer' = Idle /\ finger' = [finger EXCEPT ![l] = u[0]]
  BY <1>0 DEF Link
<1>13. reader' = [r \in Readers |->
                  IF i = 0 /\ reader[r] # Idle /\ reader[r].pc = "look" /\ reader[r].node = p
                  THEN [reader[r] EXCEPT !.sure = FALSE] ELSE reader[r]]
  BY <1>0 DEF Link
<1>14. \/ writer' = Idle /\ i = height[n]
       \/ /\ i < height[n] /\ writer' \in Inserts /\ writer'.pc = "link" /\ writer'.list = l
          /\ writer'.node = n /\ writer'.at = i + 1 /\ writer'.update = u
  <2>1. CASE i < height[n]
    <3>1. i + 1 \in Levels
      BY <2>1, <1>1, <1>4, <1>n
    <3>2. writer \in [pc : {"link"}, list : Lists, alone : BOOLEAN, node : Memory,
                      update : [Levels -> Memory], at : Levels]
      BY <1>t DEF Inserts
    <3>3. writer' = [writer EXCEPT !.at = i + 1]
      BY <2>1, <1>1, <1>4, <1>12
    <3>4. writer' \in [pc : {"link"}, list : Lists, alone : BOOLEAN, node : Memory,
                      update : [Levels -> Memory], at : Levels]
          /\ writer'.list = writer.list /\ writer'.node = writer.node /\ writer'.update = writer.update
          /\ writer'.at = i + 1 /\ writer'.pc = "link"
      BY <3>1, <3>2, <3>3
    <3> QED BY <2>1, <3>4, <1>0 DEF Inserts
  <2>2. CASE ~(i < height[n])
    BY <2>2, <1>12
  <2> QED BY <2>1, <2>2
<1>15. \A m \in Memory, j \in Levels : (m # n => ~Pending(m, j)')
                                       /\ (j <= height[n] => (Pending(n, j)' <=> i < j))
  <2>1. CASE writer' = Idle
    <3>1. writer'.pc # "link" /\ i = height[n]
      BY <2>1, <1>14 DEF Idle
    <3> QED BY <3>1, <1>n, <1>1, <1>4 DEF Pending
  <2>2. CASE writer' # Idle
    <3>1. writer'.pc = "link" /\ writer'.node = n /\ writer'.at = i + 1
      BY <2>2, <1>14
    <3>2. \A j \in Levels : i + 1 <= j <=> i < j
      BY <1>n, <1>1
    <3> QED BY <3>1, <3>2 DEF Pending
  <2> QED BY <2>1, <2>2
<1>16. NodesOf(l)' = NodesOf(l) /\ Keyed(l)' = Keyed(l)
  BY <1>11 DEF Keyed
<1>17. \A j \in Levels : Linked(l, j)' = Linked(l, j) \cup (IF j = i THEN {n} ELSE {})
  <2> SUFFICES ASSUME NEW j \in Levels
               PROVE  Linked(l, j)' = Linked(l, j) \cup (IF j = i THEN {n} ELSE {})
    OBVIOUS
  <2>1. ASSUME NEW m \in Keyed(l), m # n PROVE m \in Linked(l, j)' <=> m \in Linked(l, j)
    <3>1. ~Pending(m, j) /\ ~Pending(m, j)'
      BY <2>1, <1>3, <1>6, <1>15 DEF ListFacts
    <3> QED BY <3>1, <1>11, <1>16 DEF Linked
  <2>2. n \in Linked(l, j) <=> j < i
    BY <1>n, <1>1, <1>2, <1>4, <1>6 DEF Linked
  <2>3. n \in Linked(l, j)' <=> j <= i
    <3>1. n \in Linked(l, j)' <=> height[n] >= j /\ ~Pending(n, j)'
      BY <1>2, <1>11, <1>16 DEF Linked
    <3> QED BY <3>1, <1>n, <1>1, <1>2, <1>4, <1>15
  <2>4. Linked(l, j) \subseteq Keyed(l) /\ Linked(l, j)' \subseteq Keyed(l)
    BY <1>16 DEF Linked
  <2>5. j < i \/ j = i \/ j > i
    BY <1>n, <1>1
  <2>6. j = i => ~(j < i) /\ j <= i
    BY <1>n, <1>1
  <2>7. j # i => (j < i <=> j <= i)
    BY <1>n, <1>1
  <2>8. \A m \in Keyed(l) : m \in Linked(l, j)' <=> m \in Linked(l, j) \/ (j = i /\ m = n)
    BY <2>1, <2>2, <2>3, <2>6, <2>7
  <2> QED BY <2>4, <2>8, <1>2
<1>18. ASSUME NEW m \in {head[l]} \cup Linked(l, i), m # p, m = head[l] \/ value[m] < k
       PROVE  p \in Later(l, m, i)
  <2>0. /\ m \in {head[l]} \cup Keyed(l) /\ i <= height[m] /\ ~Pending(m, i)
        /\ m # head[l] => value[m] \in Int
        /\ p # head[l] => value[p] \in Int
    <3>1. m \in {head[l]} \cup Keyed(l) /\ (m # head[l] => value[m] \in Int)
          /\ (p # head[l] => value[p] \in Int)
      BY <1>3, <1>8 DEF ListFacts
    <3>2. i <= height[m]
      BY <1>n, <1>1, <1>3 DEF ListFacts
    <3>3. ~Pending(m, i)
      BY <1>1, <1>3, <1>4, <1>6 DEF Linked, ListFacts
    <3> QED BY <3>1, <3>2, <3>3
  <2>1. CASE p = head[l]
    <3>1. m # head[l] /\ m \in Linked(l, i) /\ m \in Later(l, p, i)
      BY <2>1, <1>18 DEF Later
    <3>2. forward[p][i] # Null /\ value[forward[p][i]] <= value[m] /\ forward[p][i] \in Linked(l, i)
      BY <3>1, <1>1, <1>3, <1>8 DEF ListFacts
    <3>3. value[forward[p][i]] \in Int
      BY <3>2, <1>3 DEF ListFacts
    <3> QED BY <3>1, <3>2, <3>3, <2>0, <1>4, <1>7, <1>18
  <2>2. CASE p # head[l] /\ m # head[l]
    <3>1. value[p] # value[m] /\ p \in Linked(l, i)
      BY <2>0, <2>2, <1>3, <1>7, <1>8, <1>18 DEF ListFacts
    <3>2. CASE value[m] < value[p]
      BY <3>1, <3>2 DEF Later
    <3>3. CASE value[p] < value[m]
      <4>1. m \in Later(l, p, i)
        BY <2>2, <3>3, <1>18 DEF Later
      <4>2. forward[p][i] # Null /\ value[forward[p][i]] <= value[m] /\ forward[p][i] \in Linked(l, i)
        BY <4>1, <1>1, <1>3, <1>8 DEF ListFacts
      <4>3. value[forward[p][i]] \in Int
        BY <4>2, <1>3 DEF ListFacts
      <4> QED BY <4>2, <4>3, <2>0, <2>2, <1>4, <1>7, <1>18
    <3> QED BY <3>1, <3>2, <3>3, <2>0, <2>2
  <2>3. CASE p # head[l] /\ m = head[l]
    BY <2>3, <1>7 DEF Later
  <2> QED BY <2>1, <2>2, <2>3
<1>19. ASSUME NEW m \in NodesOf(l), NEW j \in Levels PROVE LeadsOn(l, m, j)'
  <2>0. /\ LeadsOn(l, m, j) /\ m \in Memory /\ m \in {head[l]} \cup Keyed(l) /\ height[m] \in Nat
        /\ m # head[l] => value[m] \in Int
    BY <1>3, <1>4, <1>n DEF ChainExact, Keyed, ListFacts
  <2>1. CASE j # i
    <3>1. Later(l, m, j)' = Later(l, m, j)
      <4>1. Linked(l, j)' = Linked(l, j)
        BY <2>1, <1>17
      <4> QED BY <4>1, <1>11 DEF Later
    <3>2. forward'[m][j] = forward[m][j]
      BY <2>0, <2>1, <1>10
    <3>3. j > height[m] \/ Pending(m, j)' <=> j > height[m] \/ Pending(m, j)
      <4>1. CASE m # n
        BY <4>1, <2>0, <1>6, <1>15
      <4>2. CASE m = n
        <5>1. ASSUME ~(j > height[n]) PROVE Pending(n, j)' <=> Pending(n, j)
          <6>1. j <= height[n]
            BY <5>1, <1>n, <1>4
          <6> QED BY <6>1, <2>1, <1>n, <1>1, <1>6, <1>15
        <5> QED BY <4>2, <5>1
      <4> QED BY <4>1, <4>2
    <3> QED BY <2>0, <3>1, <3>2, <3>3, <1>11 DEF LeadsOn
  <2>2. CASE j = i /\ m = n
    <3>1. ~(i > height[n]) /\ ~Pending(n, i)'
      BY <1>1, <1>2, <1>4, <1>15
    <3>2. \A x : x \in Later(l, n, i)' <=> x \in Linked(l, i) /\ k < value[x]
      BY <1>0, <1>1, <1>4, <1>11, <1>17 DEF Later
    <3>3. \A x \in Linked(l, i) : k < value[x] => x \in Later(l, p, i)
      <4>1. \A x \in Linked(l, i) : value[x] \in Int
        BY <1>3 DEF ListFacts
      <4>2. p # head[l] => value[p] \in Int
        BY <1>3, <1>8 DEF ListFacts
      <4> QED BY <4>1, <4>2, <1>4, <1>7 DEF Later
    <3>4. CASE forward[p][i] = Null
      <4>1. Later(l, p, i) = {}
        BY <3>4, <1>1, <1>3, <1>8 DEF ListFacts
      <4>2. Later(l, n, i)' = {}
        BY <4>1, <3>2, <3>3
      <4> QED BY <2>2, <3>1, <3>4, <4>2, <1>10, <1>11 DEF LeadsOn
    <3>5. CASE forward[p][i] # Null
      <4>1. forward[p][i] \in Linked(l, i) /\ \A x \in Later(l, p, i) : value[forward[p][i]] <= value[x]
        BY <3>5, <1>1, <1>3, <1>8 DEF ListFacts
      <4>2. forward[p][i] \in Later(l, n, i)'
        <5>1. value[forward[p][i]] \in Int
          BY <4>1, <1>3 DEF ListFacts
        <5> QED BY <3>2, <3>5, <4>1, <5>1, <1>4, <1>7
      <4>3. \A x \in Later(l, n, i)' : value[forward[p][i]] <= value[x]
        BY <3>2, <3>3, <4>1
      <4> QED BY <2>2, <3>1, <3>5, <4>2, <4>3, <1>10, <1>11 DEF LeadsOn
    <3> QED BY <3>4, <3>5
  <2>3. CASE j = i /\ m = p
    <3>1. ~(i > height[p]) /\ ~Pending(p, i)'
      BY <1>1, <1>3, <1>8, <1>15, <2>0, <2>3, <1>n
    <3>2. \A x : x \in Later(l, p, i)' <=> x \in Later(l, p, i) \/ x = n
      BY <1>0, <1>1, <1>7, <1>11, <1>17 DEF Later
    <3>3. \A x \in Later(l, p, i) : k <= value[x]
      <4> SUFFICES ASSUME NEW x \in Later(l, p, i) PROVE k <= value[x]
        OBVIOUS
      <4>1. forward[p][i] # Null /\ value[forward[p][i]] <= value[x] /\ forward[p][i] \in Linked(l, i)
        BY <1>1, <1>3, <1>8 DEF ListFacts
      <4>2. value[forward[p][i]] \in Int /\ value[x] \in Int
        BY <4>1, <1>3 DEF ListFacts, Later
      <4> QED BY <4>1, <4>2, <1>4, <1>7
    <3>4. \A x \in Later(l, p, i)' : k <= value[x]
      BY <3>2, <3>3, <1>0, <1>4
    <3>5. forward'[p][i] = n /\ n # Null /\ n \in Later(l, p, i)'
      BY <3>2, <1>n, <1>1, <1>10
    <3> QED BY <2>3, <3>1, <3>4, <3>5, <1>0, <1>11 DEF LeadsOn
  <2>4. CASE j = i /\ m \notin {n, p}
    <3>1. forward'[m][i] = forward[m][i] /\ ~Pending(m, i) /\ ~Pending(m, i)'
      BY <2>0, <2>4, <1>1, <1>6, <1>10, <1>15
    <3>2. CASE i > height[m]
      BY <3>1, <3>2, <2>0, <2>4, <1>11 DEF LeadsOn
    <3>3. CASE ~(i > height[m])
      <4>1. m \in {head[l]} \cup Linked(l, i)
        BY <3>1, <3>3, <2>0, <1>1 DEF Linked
      <4>2. \A x : x \in Later(l, m, i)' <=> x \in Later(l, m, i) \/ (x = n /\ (m = head[l] \/ value[m] < k))
        BY <1>0, <1>1, <1>11, <1>17 DEF Later
      <4>3. CASE m = head[l] \/ value[m] < k
        <5>1. p \in Later(l, m, i) /\ p # head[l] /\ value[p] < k
          <6>1. p \in Later(l, m, i)
            BY <4>1, <4>3, <2>4, <1>18
          <6>2. p # head[l]
            BY <6>1, <1>3 DEF Later, ListFacts
          <6> QED BY <6>1, <6>2, <1>7
        <5>2. forward[m][i] # Null /\ forward[m][i] \in Later(l, m, i)
              /\ \A x \in Later(l, m, i) : value[forward[m][i]] <= value[x]
          BY <5>1, <3>1, <3>3, <2>0, <2>4 DEF LeadsOn
        <5>3. value[forward[m][i]] \in Int /\ value[p] \in Int
          BY <5>1, <5>2, <1>3, <1>8 DEF ListFacts, Later
        <5>4. value[forward[m][i]] <= k
          BY <5>1, <5>2, <5>3, <1>4
        <5>5. forward[m][i] \in Later(l, m, i)' /\ \A x \in Later(l, m, i)' : value[forward[m][i]] <= value[x]
          BY <4>2, <5>2, <5>4, <1>0
        <5> QED BY <5>2, <5>5, <3>1, <3>3, <2>4, <1>11 DEF LeadsOn
      <4>4. CASE ~(m = head[l] \/ value[m] < k)
        <5>1. Later(l, m, i)' = Later(l, m, i)
          BY <4>2, <4>4
        <5> QED BY <5>1, <3>1, <3>3, <2>0, <2>4, <1>11 DEF LeadsOn
      <4> QED BY <4>3, <4>4
    <3> QED BY <3>2, <3>3
  <2> QED BY <2>1, <2>2, <2>3, <2>4
<1>20. ChainExact(l)'
  <2>1. /\ head'[l] \in NodesOf(l)' /\ height'[head'[l]] = MaxLevel
    BY <1>3, <1>11, <1>16 DEF ChainExact
  <2>2. finger'[l] \in {head'[l]} \cup Linked(l, 0)'
    <3>1. finger'[l] = finger[l] \/ finger'[l] = u[0]
      <4>1. finger \in [Lists -> Memory \cup {Null}]
        BY <1>t, Types
      <4> QED BY <4>1, <1>1, <1>12
    <3>2. Linked(l, 0) \subseteq Linked(l, 0)'
      BY <1>n, <1>17
    <3> QED BY <3>1, <3>2, <1>2, <1>3, <1>11 DEF ChainExact
  <2>3. /\ \A m \in Keyed(l)' : value'[m] \in Keys /\ height'[m] <= level'[l]
        /\ \A m, o \in Keyed(l)' : value'[m] = value'[o] => m = o
        /\ level'[l] = 0 \/ \E m \in Keyed(l)' : height'[m] = level'[l]
    BY <1>3, <1>11, <1>16 DEF ChainExact
  <2>4. \A m \in NodesOf(l)', j \in Levels : LeadsOn(l, m, j)'
    BY <1>16, <1>19
  <2> HIDE DEF NodesOf
  <2> QED BY <2>1, <2>2, <2>3, <2>4 DEF ChainExact
<1>21. ASSUME NEW m \in Lists, m # l, Exists(m)
       PROVE  Exists(m)' /\ ChainExact(m)' /\ \A j \in Levels : Linked(m, j)' = Linked(m, j)
  <2>1. ListFacts(m) /\ ChainExact(m)
    BY <1>21, SoundFacts
  <2>2. NodesOf(m)' = NodesOf(m) /\ n \notin NodesOf(m) /\ p \notin NodesOf(m)
    BY <1>4, <1>8, <1>11, <1>21
  <2>3. head'[m] = head[m] /\ level'[m] = level[m] /\ finger'[m] \in {head[m]} \cup Linked(m, 0)
    <3>1. finger'[m] = finger[m]
      <4>1. finger \in [Lists -> Memory \cup {Null}]
        BY <1>t, Types
      <4> QED BY <4>1, <1>12, <1>21
    <3> QED BY <3>1, <1>11, <2>1 DEF ListFacts
  <2>4. \A o \in NodesOf(m) : /\ value'[o] = value[o] /\ height'[o] = height[o]
                              /\ forward'[o] = forward[o]
    <3>1. \A o \in NodesOf(m) : o \in Memory \ {n, p}
      BY <2>2
    <3> QED BY <3>1, <1>10, <1>11
  <2>5. \A o \in NodesOf(m), j \in Levels : Pending(o, j)' <=> Pending(o, j)
    <3>1. \A o \in NodesOf(m) : o \in Memory /\ o # n
      BY <2>2
    <3> QED BY <3>1, <1>6, <1>15
  <2> HIDE DEF NodesOf
  <2> QED BY <1>21, <1>t, <2>1, <2>2, <2>3, <2>4, <2>5, ListKept
<1>22. ChainsExact'
  <2> SUFFICES ASSUME NEW m \in Lists, Exists(m)' PROVE ChainExact(m)'
    BY DEF ChainsExact
  <2>1. Exists(m)
    BY <1>11
  <2> QED BY <2>1, <1>20, <1>21
<1>23. reader' \in [Readers -> Searches \cup {Idle}]
  <2>1. reader \in [Readers -> Searches \cup {Idle}]
    BY <1>t, Types
  <2>2. \A s \in Searches : [s EXCEPT !.sure = FALSE] \in Searches
    BY DEF Searches
  <2>3. \A r \in Readers : reader[r] # Idle => reader[r] \in Searches
    BY <2>1
  <2> HIDE DEF Searches
  <2> QED BY <2>1, <2>2, <2>3, <1>13
<1>24. TypeOK'
  <2>1. finger' \in [Lists -> Memory \cup {Null}]
    <3>1. finger \in [Lists -> Memory \cup {Null}]
      BY <1>t, Types
    <3> QED BY <3>1, <1>n, <1>1, <1>12
  <2>2. writer' \in Inserts \cup {Idle}
    BY <1>14
  <2> HIDE DEF Inserts, Searches
  <2> QED BY <2>1, <2>2, <1>10, <1>11, <1>23, <1>t DEF TypeOK
<1>25. PoolExact'
  BY <1>11 DEF PoolExact, Made, Spare, Unowned
<1>26. MadeExact'
  <2>1. \A m \in Memory : IF used[m] = NoList THEN forward[m] = Unlinked ELSE head[used[m]] # Null
    BY DEF Sound, MadeExact
  <2>2. ended /\ ~Outlived => \A m \in Lists : head[m] = Null
    BY DEF Sound, MadeExact
  <2>3. \A m \in Memory : IF used'[m] = NoList THEN forward'[m] = Unlinked ELSE head'[used'[m]] # Null
    <3> SUFFICES ASSUME NEW m \in Memory
                 PROVE  IF used'[m] = NoList THEN forward'[m] = Unlinked ELSE head'[used'[m]] # Null
      OBVIOUS
    <3>1. m \in {n, p} => used[m] # NoList
      BY <1>n, <1>1, <1>4, <1>8
    <3> QED BY <2>1, <3>1, <1>10, <1>11
  <2> QED BY <2>2, <2>3, <1>11 DEF MadeExact
<1>27. WriterExact'
  <2> SUFFICES ASSUME writer' # Idle PROVE WriterExact'
    BY DEF WriterExact
  <2>1. /\ i < height[n] /\ writer'.pc = "link" /\ writer'.list = l
        /\ writer'.node = n /\ writer'.at = i + 1 /\ writer'.update = u
    BY <1>14
  <2>2. u[0] \in {head'[l]} \cup Linked(l, 0)'
    BY <1>n, <1>2, <1>11, <1>17
  <2>3. ASSUME NEW j \in i + 1 .. height[n] PROVE IsBefore(l, u[j], j, k)'
    <3>1. j \in i .. height[n] /\ j \in Levels /\ j # i
      BY <1>n, <1>1, <1>4
    <3>2. IsBefore(l, u[j], j, k)
      BY <3>1, <1>2
    <3>3. u[j] \in Memory
      BY <3>1, <1>1
    <3>4. forward'[u[j]][j] = forward[u[j]][j]
      BY <3>1, <3>3, <1>10
    <3>5. Linked(l, j) \subseteq Linked(l, j)'
      BY <3>1, <1>17
    <3> QED BY <3>1, <3>2, <3>4, <3>5, <1>1, <1>3, <1>4, <1>11, BeforeKept
  <2>4. Exists(l)' /\ n \in Keyed(l)' /\ i + 1 <= height'[n] /\ value'[n] = k
    BY <2>1, <1>0, <1>1, <1>2, <1>4, <1>11, <1>16
  <2>5. \A j \in i + 1 .. height'[n] : IsBefore(l, u[j], j, k)'
    BY <2>3, <1>11
  <2> HIDE DEF IsBefore
  <2> QED BY <2>1, <2>2, <2>4, <2>5 DEF WriterExact
<1>28. SearchesOK'
  <2> SUFFICES ASSUME NEW r \in Readers, NEW t, t = reader'[r], t # Idle PROVE SearchOK(t)'
    BY DEF SearchesOK
  <2>1. PICK s : s = reader[r]
    OBVIOUS
  <2>2. t = IF i = 0 /\ s # Idle /\ s.pc = "look" /\ s.node = p
            THEN [s EXCEPT !.sure = FALSE] ELSE s
    BY <2>1, <1>13
  <2>3. s # Idle
    BY <2>2
  <2>4. s \in Searches /\ SearchOK(s) /\ s.list \in Lists /\ Exists(s.list)
    <3>1. s \in Searches /\ SearchOK(s)
      BY <1>t, <2>1, <2>3 DEF Sound, TypeOK, SearchesOK
    <3> QED BY <3>1, SearchIs DEF SearchOK, SearchExact
  <2>5. ListFacts(s.list) /\ ChainExact(s.list)
    BY <2>4, SoundFacts
  <2>6. \A m \in {head[s.list]} \cup Linked(s.list, 0) : 
            value'[m] = value[m] /\ height'[m] = height[m]
    BY <1>11
  <2>7. head'[s.list] = head[s.list] /\ Linked(s.list, 0) \subseteq Linked(s.list, 0)'
    BY <1>n, <1>11, <1>17, <1>21, <2>4
  <2>8. t \in Searches /\ SearchOK(t) /\ t.list = s.list /\ t.node = s.node /\ t.pc = s.pc
        /\ (t.sure => t = s)
    <3>1. CASE t = s
      BY <3>1, <2>4
    <3>2. CASE t # s
      <4>1. t = [s EXCEPT !.sure = FALSE] /\ s.pc = "look"
        BY <2>2, <3>2
      <4>2. t \in Searches /\ t.list = s.list /\ t.key = s.key /\ t.pc = s.pc /\ t.node = s.node
            /\ t.at = s.at /\ t.sure = FALSE
        BY <4>1, <2>4 DEF Searches
      <4>3. SearchExact(t)
        BY <4>2, <2>4 DEF SearchOK, SearchExact
      <4> QED BY <4>2, <4>3 DEF SearchOK
    <3> QED BY <3>1, <3>2
  <2>9. ASSUME t.pc = "look", t.sure PROVE forward'[t.node][0] = forward[t.node][0]
    <3>1. t = s /\ ~(i = 0 /\ s.node = p)
      <4>1. t = s /\ s.sure
        BY <2>8, <2>9
      <4>2. ASSUME i = 0, s.node = p PROVE FALSE
        <5>1. t = [s EXCEPT !.sure = FALSE]
          BY <4>1, <4>2, <2>2, <2>3, <2>9
        <5>2. t.sure = FALSE
          BY <5>1, <2>4 DEF Searches
        <5> QED BY <5>2, <2>9
      <4> QED BY <4>1, <4>2
    <3>2. s.node \in {head[s.list]} \cup Linked(s.list, 0) /\ s.node \in Memory
      BY <2>4, <2>9, <3>1, SearchIs DEF SearchOK, SearchExact
    <3>3. i = 0 => s.node # n
      <4> SUFFICES ASSUME i = 0, n \in {head[s.list]} \cup Linked(s.list, 0) PROVE FALSE
        BY <3>2
      <4>1. Pending(n, 0)
        BY <1>n, <1>1, <1>6
      <4>2. n = head[s.list]
        BY <4>1 DEF Linked
      <4> QED BY <4>1, <4>2, <2>4, HeaderLinked
    <3> QED BY <3>1, <3>2, <3>3, <1>n, <1>10
  <2> QED BY <1>t, <2>5, <2>6, <2>7, <2>8, <2>9, SearchKept
<1> QED BY <1>22, <1>24, <1>25, <1>26, <1>27, <1>28 DEF Sound
-----------------------------------------------------------------------------
(***************************************************************************)
(* What has a list to itself.                                              *)
(***************************************************************************)

\* The other lists, and the searches in them, do not feel it.
OthersStay(l) ==
    /\ \A m \in Lists \ {l} : head'[m] = head[m] /\ level'[m] = level[m] /\ finger'[m] = finger[m]
    /\ \A n \in Memory, m \in Lists \ {l} : used'[n] = m <=> used[n] = m
    /\ \A n \in Memory : used[n] \in Lists \ {l} => /\ value'[n] = value[n] /\ height'[n] = height[n]
                                                    /\ forward'[n] = forward[n]

\* A list keeps its chain when only the nodes of another one change.
LEMMA OthersSound ==
    ASSUME Sound, NEW l \in Lists, writer = Idle, writer' = writer, reader' = reader,
           \A r \in Readers : reader[r] # Idle => reader[r].list # l, OthersStay(l)
    PROVE  /\ \A m \in Lists \ {l} : Exists(m)' => ChainExact(m)'
           /\ WriterExact' /\ SearchesOK'
           /\ \A n, i : ~Pending(n, i) /\ ~Pending(n, i)'
<1>1. writer.pc # "link" /\ writer'.pc # "link"
  BY DEF Idle
<1>2. \A n, i : ~Pending(n, i) /\ ~Pending(n, i)'
  BY <1>1 DEF Pending
<1>3. ASSUME NEW m \in Lists \ {l}, Exists(m)
      PROVE  Exists(m)' /\ ChainExact(m)' /\ \A i \in Levels : Linked(m, i)' = Linked(m, i)
  <2>1. ListFacts(m) /\ ChainExact(m) /\ TypeOK
    BY <1>3, SoundFacts DEF Sound
  <2>2. NodesOf(m)' = NodesOf(m)
    BY DEF OthersStay
  <2>3. head'[m] = head[m] /\ level'[m] = level[m] /\ finger'[m] \in {head[m]} \cup Linked(m, 0)
    BY <2>1 DEF OthersStay, ListFacts
  <2>4. \A n \in NodesOf(m) : /\ value'[n] = value[n] /\ height'[n] = height[n]
                              /\ forward'[n] = forward[n]
    BY DEF OthersStay
  <2> HIDE DEF NodesOf
  <2> QED BY <1>2, <1>3, <2>1, <2>2, <2>3, <2>4, ListKept
<1>4. \A m \in Lists \ {l} : Exists(m)' => ChainExact(m)'
  BY <1>3 DEF OthersStay
<1>5. WriterExact'
  BY DEF WriterExact
<1>6. SearchesOK'
  <2> SUFFICES ASSUME NEW r \in Readers, NEW s, s = reader[r], s # Idle PROVE SearchOK(s)'
    BY DEF SearchesOK
  <2>1. s \in Searches /\ SearchOK(s) /\ s.list \in Lists \ {l} /\ Exists(s.list)
    <3>1. s \in Searches /\ SearchOK(s)
      BY DEF Sound, TypeOK, SearchesOK
    <3> QED BY <3>1, SearchIs DEF SearchOK, SearchExact
  <2>2. ListFacts(s.list) /\ ChainExact(s.list) /\ TypeOK
    BY <2>1, SoundFacts DEF Sound
  <2>3. \A n \in {head[s.list]} \cup Linked(s.list, 0) :
           /\ value'[n] = value[n] /\ height'[n] = height[n] /\ forward'[n] = forward[n]
    <3>1. \A n \in {head[s.list]} \cup Linked(s.list, 0) : n \in Memory /\ used[n] = s.list
      BY <2>2 DEF ListFacts
    <3> QED BY <3>1, <2>1 DEF OthersStay
  <2>4. s.pc = "look" => s.node \in {head[s.list]} \cup Linked(s.list, 0)
    BY <2>1 DEF SearchOK, SearchExact
  <2>5. head'[s.list] = head[s.list] /\ Linked(s.list, 0)' = Linked(s.list, 0)
    BY <1>3, <2>1, Natural DEF OthersStay
  <2> QED BY <2>1, <2>2, <2>3, <2>4, <2>5, SearchKept
<1> QED BY <1>2, <1>4, <1>5, <1>6

\* Nobody is in a list that is not there.
LEMMA NoneThere ==
    ASSUME Sound, NEW l \in Lists, ~Exists(l)
    PROVE  /\ \A n \in Memory : used[n] # l
           /\ \A r \in Readers : reader[r] # Idle => reader[r].list # l
<1>1. \A n \in Memory : used[n] # l
  BY NoneApart DEF Sound, MadeExact
<1>2. \A r \in Readers : reader[r] # Idle => reader[r].list # l
  BY DEF Sound, SearchesOK, SearchOK, SearchExact
<1> QED BY <1>1, <1>2

\* A call that has a list to itself has no search beside it there.
LEMMA NoneBeside ==
    ASSUME Sound, NEW l \in Lists, Alone(l)
    PROVE  \A r \in Readers : reader[r] # Idle => reader[r].list # l
BY DEF Alone, Searching

\* The constructor makes a list of a header alone.
LEMMA ConstructSound ==
    ASSUME Sound, PoolExact, ~Outlived, NEW l \in Lists, Construct(l)
    PROVE  Sound' /\ PoolExact'
<1>n. Levels \subseteq Nat /\ NoList \notin Lists /\ Null \notin Memory
      /\ Levels = 0 .. MaxLevel /\ MaxLevel \in Nat /\ MaxLevel \in Levels /\ 0 \in Levels
  BY Natural, NoneApart
<1>0. PICK a : a = Allocated(l)
  OBVIOUS
<1>1. /\ ~Exists(l) /\ writer = Idle /\ ~ended
      /\ Make(l, NoKey, MaxLevel)
      /\ forward' = [forward EXCEPT ![a] = Unlinked]
      /\ head' = [head EXCEPT ![l] = a]
      /\ finger' = [finger EXCEPT ![l] = a]
      /\ level' = [level EXCEPT ![l] = 0]
      /\ ended' = ended /\ writer' = writer /\ reader' = reader
  BY <1>0 DEF Construct
<1>t. /\ TypeOK /\ head \in [Lists -> Memory \cup {Null}] /\ finger \in [Lists -> Memory \cup {Null}]
      /\ level \in [Lists -> Levels]
      /\ value \in [Memory -> Keys \cup {NoKey}] /\ height \in [Memory -> Levels]
      /\ forward \in [Memory -> [Levels -> Memory \cup {Null}]]
      /\ used \in [Memory -> Lists \cup {NoList}]
  BY Types DEF Sound
<1>2. /\ a \in Memory /\ used[a] = NoList
      /\ cache' \in Seq(Memory) /\ free' \in [Lists -> Seq(Memory)]
      /\ owner' \in [Memory -> Lists \cup {NoList}]
      /\ value' \in [Memory -> Keys \cup {NoKey}] /\ height' \in [Memory -> Levels]
      /\ used' \in [Memory -> Lists \cup {NoList}]
      /\ value' = [value EXCEPT ![a] = NoKey]
      /\ height' = [height EXCEPT ![a] = MaxLevel]
      /\ used' = [used EXCEPT ![a] = l]
      /\ PoolExact'
  <2>1. TypeOK /\ ~ended /\ NoKey \in Keys \cup {NoKey} /\ MaxLevel \in Levels
        /\ Make(l, NoKey, MaxLevel) /\ ended' = ended
    BY <1>1, <1>n, <1>t
  <2> QED BY <2>1, <1>0, Allocation
<1>3. \A n \in Memory \ {a} : /\ value'[n] = value[n] /\ height'[n] = height[n]
                              /\ forward'[n] = forward[n] /\ used'[n] = used[n]
  BY <1>1, <1>2, <1>t
<1>4. /\ height'[a] = MaxLevel /\ forward'[a] = Unlinked /\ used'[a] = l
      /\ forward' \in [Memory -> [Levels -> Memory \cup {Null}]]
  <2>1. Unlinked \in [Levels -> Memory \cup {Null}]
    BY DEF Unlinked
  <2> QED BY <1>1, <1>2, <1>t, <2>1
<1>5. /\ head' \in [Lists -> Memory \cup {Null}] /\ finger' \in [Lists -> Memory \cup {Null}]
      /\ level' \in [Lists -> Levels]
      /\ head'[l] = a /\ finger'[l] = a /\ level'[l] = 0
      /\ \A m \in Lists \ {l} : head'[m] = head[m] /\ finger'[m] = finger[m] /\ level'[m] = level[m]
  BY <1>1, <1>2, <1>n, <1>t
<1>6. TypeOK'
  BY <1>1, <1>2, <1>4, <1>5, <1>t DEF TypeOK
<1>7. OthersStay(l)
  <2>1. \A m \in Lists \ {l} : used[a] # m /\ used'[a] # m
    BY <1>n, <1>2, <1>4
  <2> QED BY <2>1, <1>3, <1>5 DEF OthersStay
<1>8. \A r \in Readers : reader[r] # Idle => reader[r].list # l
  BY <1>1, NoneThere
<1>9. /\ \A m \in Lists \ {l} : Exists(m)' => ChainExact(m)'
      /\ WriterExact' /\ SearchesOK'
  BY <1>1, <1>7, <1>8, OthersSound
<1>10. \A n \in Memory : used'[n] = l <=> n = a
  BY <1>1, <1>2, <1>3, <1>4, NoneThere
<1>11. NodesOf(l)' = {a} /\ Keyed(l)' = {}
  <2>1. NodesOf(l)' = {a}
    BY <1>2, <1>10
  <2> HIDE DEF NodesOf
  <2> QED BY <2>1, <1>5 DEF Keyed
<1>12. \A n, i : Linked(l, i)' = {} /\ Later(l, n, i)' = {}
  BY <1>11 DEF Linked, Later
<1>13. \A i \in Levels : LeadsOn(l, a, i)'
  <2>1. \A i \in Levels : forward'[a][i] = Null
    BY <1>4 DEF Unlinked
  <2> QED BY <2>1, <1>12 DEF LeadsOn
<1>14. ChainExact(l)'
  <2> HIDE DEF NodesOf
  <2> QED BY <1>4, <1>5, <1>11, <1>13 DEF ChainExact
<1>15. ChainsExact'
  BY <1>9, <1>14 DEF ChainsExact
<1>16. MadeExact'
  <2>1. \A n \in Memory : IF used[n] = NoList THEN forward[n] = Unlinked ELSE head[used[n]] # Null
    BY DEF Sound, MadeExact
  <2>2. \A n \in Memory : IF used'[n] = NoList THEN forward'[n] = Unlinked ELSE head'[used'[n]] # Null
    <3> SUFFICES ASSUME NEW n \in Memory
                 PROVE  IF used'[n] = NoList THEN forward'[n] = Unlinked ELSE head'[used'[n]] # Null
      OBVIOUS
    <3>1. CASE n = a
      BY <3>1, <1>n, <1>2, <1>4, <1>5
    <3>2. CASE n # a
      <4>1. used'[n] = used[n] /\ forward'[n] = forward[n] /\ used[n] # l
        BY <3>2, <1>3, <1>10
      <4>2. used[n] # NoList => used[n] \in Lists \ {l}
        BY <4>1, <1>t
      <4> QED BY <2>1, <4>1, <4>2, <1>5
    <3> QED BY <3>1, <3>2
  <2> QED BY <2>2, <1>1 DEF MadeExact
<1> QED BY <1>2, <1>6, <1>9, <1>15, <1>16 DEF Sound

\* The pointers that lead to a node of a list are those that its key has found.
LEMMA LeadsThere ==
    ASSUME Sound, NEW l \in Lists, ListFacts(l), Nothing, NEW k \in Keys, NEW update,
           update = [i \in Levels |-> Place(l, i, k)], Found(update, k),
           NEW t, t = forward[update[0]][0]
    PROVE  /\ t \in Keyed(l) /\ t \in Memory /\ t # Null /\ value[t] = k /\ height[t] \in Nat
           /\ \A i \in Levels : update[i] \in {head[l]} \cup Linked(l, i) /\ update[i] # t
           /\ Unlink(t, update) = [n \in Memory |-> [i \in Levels |->
                 IF forward[n][i] = t THEN forward[t][i] ELSE forward[n][i]]]
<1>n. Levels \subseteq Nat /\ Keys \subseteq Int /\ Null \notin Memory /\ 0 \in Levels
  BY Natural, NoneApart
<1>t. TypeOK /\ MadeExact /\ ChainsExact
  BY DEF Sound
<1>1. /\ t \in Linked(l, 0) /\ value[t] = k
      /\ \A i \in Levels : IsPlace(l, update[i], i, k)
      /\ \A i \in Levels : forward[update[i]][i] = t <=> i <= height[t]
  BY <1>t, FoundThere
<1>2. t \in Keyed(l) /\ t \in Memory /\ t # Null /\ height[t] \in Nat /\ used[t] = l /\ k \in Int
  BY <1>1, <1>n DEF ListFacts
<1>3. ASSUME NEW n \in Memory, NEW i \in Levels, forward[n][i] = t
      PROVE  n = update[i] /\ i <= height[t]
  <2>1. forward[n][i] # Null
    BY <1>2, <1>3
  <2>2. /\ used[n] = used[t] /\ n \in {head[used[n]]} \cup Linked(used[n], i)
        /\ n # head[used[n]] => value[n] < value[t]
    BY <1>t, <2>1, <1>3, Onward
  <2>3. IsPlace(l, n, i, k)
    BY <2>1, <2>2, <1>1, <1>2, <1>3 DEF IsPlace
  <2>4. n = update[i]
    BY <2>3, <1>2, OnePlace
  <2> QED BY <2>4, <1>1, <1>3
<1>4. ASSUME NEW n \in Memory, NEW i \in Levels
      PROVE  i <= height[t] /\ n = update[i] /\ forward[n][i] = t <=> forward[n][i] = t
  BY <1>3
<1>5. \A i \in Levels : update[i] \in {head[l]} \cup Linked(l, i) /\ update[i] # t
  <2> SUFFICES ASSUME NEW i \in Levels PROVE update[i] \in {head[l]} \cup Linked(l, i) /\ update[i] # t
    OBVIOUS
  <2>1. update[i] \in {head[l]} \cup Linked(l, i) /\ (update[i] # head[l] => value[update[i]] < k)
    BY <1>1 DEF IsPlace
  <2>2. t # head[l]
    BY <1>2 DEF Keyed
  <2> QED BY <2>1, <2>2, <1>1, <1>2
<1> QED BY <1>1, <1>2, <1>4, <1>5 DEF Unlink

\* A chain that a node has been taken out of
LEMMA ChainWithout ==
    ASSUME Sound, NEW l \in Lists, Exists(l), NEW t \in Keyed(l), head'[l] = head[l],
           \A n, i : ~Pending(n, i) /\ ~Pending(n, i)',
           \A n \in Memory : used'[n] = l <=> used[n] = l /\ n # t,
           \A n \in Memory \ {t} : value'[n] = value[n] /\ height'[n] = height[n],
           \A n \in Memory \ {t}, i \in Levels :
               forward'[n][i] = IF forward[n][i] = t THEN forward[t][i] ELSE forward[n][i]
    PROVE  /\ NodesOf(l)' = NodesOf(l) \ {t} /\ Keyed(l)' = Keyed(l) \ {t}
           /\ \A i : Linked(l, i)' = Linked(l, i) \ {t}
           /\ \A n \in NodesOf(l)', i \in Levels : LeadsOn(l, n, i)'
<1>n. Levels \subseteq Nat /\ Null \notin Memory
  BY Natural, NoneApart
<1>1. ListFacts(l) /\ ChainExact(l)
  BY SoundFacts
<1>2. t \in Memory /\ t # head[l] /\ value[t] \in Int /\ height[t] \in Nat /\ used[t] = l
  BY <1>1 DEF ListFacts
<1>3. NodesOf(l)' = NodesOf(l) \ {t} /\ Keyed(l)' = Keyed(l) \ {t}
  <2>1. NodesOf(l)' = NodesOf(l) \ {t}
    OBVIOUS
  <2> HIDE DEF NodesOf
  <2> QED BY <2>1 DEF Keyed
<1>4. \A i : Linked(l, i)' = Linked(l, i) \ {t}
  <2> SUFFICES ASSUME NEW i PROVE Linked(l, i)' = Linked(l, i) \ {t}
    OBVIOUS
  <2>1. \A n \in Keyed(l) \ {t} : n \in Memory \ {t}
    BY <1>1 DEF ListFacts
  <2>2. \A n \in Keyed(l) \ {t} : height'[n] = height[n]
    BY <2>1
  <2> QED BY <1>3, <2>2 DEF Linked
<1>5. ASSUME NEW n \in NodesOf(l)', NEW i \in Levels PROVE LeadsOn(l, n, i)'
  <2>0. /\ n \in Memory \ {t} /\ n \in {head[l]} \cup Keyed(l) /\ LeadsOn(l, n, i)
        /\ value'[n] = value[n] /\ height'[n] = height[n]
        /\ n # head[l] => value[n] \in Int
    BY <1>1, <1>3 DEF Keyed, ChainExact, ListFacts
  <2>1. \A m \in Linked(l, i) \ {t} : m \in Memory \ {t} /\ value'[m] = value[m] /\ value[m] \in Int
    BY <1>1 DEF ListFacts
  <2>2. \A m : m \in Later(l, n, i)' <=> m \in Later(l, n, i) /\ m # t
    BY <1>4, <2>0, <2>1 DEF Later
  <2>3. \A m : m \in Later(l, n, i)' => value'[m] = value[m] /\ value[m] \in Int
    BY <1>4, <2>1 DEF Later
  <2>4. CASE forward[n][i] # t
    <3>1. forward'[n][i] = forward[n][i]
      BY <2>0, <2>4
    <3>2. CASE i > height[n]
      BY <3>1, <3>2, <2>0 DEF LeadsOn
    <3>3. CASE ~(i > height[n]) /\ forward[n][i] = Null
      <4>1. Later(l, n, i) = {}
        BY <3>3, <2>0 DEF LeadsOn
      <4>2. Later(l, n, i)' = {}
        BY <4>1, <2>2
      <4> QED BY <3>1, <3>3, <4>2, <2>0 DEF LeadsOn
    <3>4. CASE ~(i > height[n]) /\ forward[n][i] # Null
      <4>1. forward[n][i] \in Later(l, n, i) /\ \A m \in Later(l, n, i) : value[forward[n][i]] <= value[m]
        BY <3>4, <2>0 DEF LeadsOn
      <4>2. forward[n][i] \in Later(l, n, i)'
        BY <4>1, <2>2, <2>4
      <4>3. \A m \in Later(l, n, i)' : value'[forward[n][i]] <= value'[m]
        BY <4>1, <4>2, <2>2, <2>3
      <4> QED BY <3>1, <3>4, <4>2, <4>3, <2>0 DEF LeadsOn
    <3> QED BY <3>2, <3>3, <3>4
  <2>5. CASE forward[n][i] = t
    <3>1. forward'[n][i] = forward[t][i] /\ t # Null
      BY <1>n, <1>2, <2>0, <2>5
    <3>2. ~(i > height[n]) /\ t \in Later(l, n, i) /\ \A m \in Later(l, n, i) : value[t] <= value[m]
      BY <3>1, <2>0, <2>5 DEF LeadsOn
    <3>3. i <= height[t] /\ (n # head[l] => value[n] < value[t])
      BY <3>2, <1>n, <1>2 DEF Later, Linked
    <3>4. \A m : m \in Later(l, n, i)' => m \in Later(l, t, i)
      <4> SUFFICES ASSUME NEW m, m \in Later(l, n, i)' PROVE m \in Later(l, t, i)
        OBVIOUS
      <4>1. m \in Later(l, n, i) /\ m # t /\ m \in Linked(l, i) /\ value[m] \in Int
        BY <2>2, <2>3 DEF Later
      <4>2. m \in Keyed(l) /\ value[m] # value[t]
        BY <4>1, <1>1 DEF ListFacts
      <4> QED BY <4>1, <4>2, <3>2, <1>2 DEF Later
    <3>5. CASE forward[t][i] = Null
      <4>1. Later(l, t, i) = {}
        BY <3>3, <3>5, <1>1 DEF ListFacts
      <4>2. Later(l, n, i)' = {}
        BY <4>1, <3>4
      <4> QED BY <3>1, <3>2, <3>5, <4>2, <2>0 DEF LeadsOn
    <3>6. CASE forward[t][i] # Null
      <4>1. forward[t][i] \in Linked(l, i) /\ value[t] < value[forward[t][i]]
            /\ \A m \in Later(l, t, i) : value[forward[t][i]] <= value[m]
        BY <3>3, <3>6, <1>1, <1>2 DEF ListFacts
      <4>2. forward[t][i] # t /\ value[forward[t][i]] \in Int
        BY <4>1, <1>1, <1>2 DEF ListFacts
      <4>3. forward[t][i] \in Later(l, n, i)
        BY <4>1, <4>2, <3>3, <1>2, <2>0 DEF Later
      <4>4. forward[t][i] \in Later(l, n, i)'
        BY <4>2, <4>3, <2>2
      <4>5. \A m \in Later(l, n, i)' : value'[forward[t][i]] <= value'[m]
        BY <4>1, <4>4, <3>4, <2>3
      <4> QED BY <3>1, <3>2, <3>6, <4>4, <4>5, <2>0 DEF LeadsOn
    <3> QED BY <3>5, <3>6
  <2> QED BY <2>4, <2>5
<1> QED BY <1>3, <1>4, <1>5

\* currentLevel can be lowered to the highest level that is not empty.
LEMMA Lowering ==
    ASSUME NEW l, level[l] \in Nat, NEW links
    PROVE  /\ Lowered(l, links) \in 0 .. level[l]
           /\ Lowered(l, links) = 0 \/ links[head[l]][Lowered(l, links)] # Null
           /\ \A j \in Lowered(l, links) + 1 .. level[l] : links[head[l]][j] = Null
<1> DEFINE S == {i \in 0 .. level[l] : i = 0 \/ links[head[l]][i] # Null}
           f == [i \in S |-> i]
<1>1. IsFiniteSet(0 .. level[l])
  BY FS_Interval
<1>2. IsFiniteSet(S) /\ 0 \in S /\ f \in [S -> Int]
  BY <1>1, FS_Subset
<1>3. \E n \in S : \A m \in S : f[m] <= f[n]
  <2> HIDE DEF S, f
  <2> QED BY <1>2, Highest
<1>4. PICK n \in S : \A m \in S : m <= n
  BY <1>3
<1>5. \A j \in n + 1 .. level[l] : links[head[l]][j] = Null
  <2> SUFFICES ASSUME NEW j \in n + 1 .. level[l], links[head[l]][j] # Null PROVE FALSE
    OBVIOUS
  <2>1. j \in S /\ ~(j <= n)
    OBVIOUS
  <2> QED BY <1>4, <2>1
<1>6. \E i \in 0 .. level[l] :
          /\ i = 0 \/ links[head[l]][i] # Null
          /\ \A j \in i + 1 .. level[l] : links[head[l]][j] = Null
  BY <1>4, <1>5
<1> QED BY <1>6 DEF Lowered

\* remove takes a node out at all its levels and gives it back.
LEMMA RemoveKeySound ==
    ASSUME Sound, PoolExact, NEW l \in Lists, NEW k \in Keys, RemoveKey(l, k)
    PROVE  Sound' /\ PoolExact'
<1>n. /\ Levels \subseteq Nat /\ Keys \subseteq Int /\ NoList \notin Lists /\ Null \notin Memory
      /\ Levels = 0 .. MaxLevel /\ MaxLevel \in Nat /\ 0 \in Levels
  BY Natural, NoneApart
<1>0. PICK update, t : update = Update(l, head[l], k) /\ t = forward[update[0]][0]
  OBVIOUS
<1>1. /\ Alone(l) /\ Exists(l) /\ writer = Idle
      /\ finger' = [finger EXCEPT ![l] = update[0]]
      /\ head' = head /\ owner' = owner /\ ended' = ended /\ writer' = writer /\ reader' = reader
      /\ \/ /\ Found(update, k)
            /\ Deallocate(l, <<t>>, Unlink(t, update))
            /\ level' = [level EXCEPT ![l] = Lowered(l, forward')]
         \/ /\ ~Found(update, k)
            /\ UNCHANGED <<level, nodes, cache, free, used>>
  BY <1>0 DEF RemoveKey, Alone
<1>t. /\ TypeOK /\ head \in [Lists -> Memory \cup {Null}] /\ finger \in [Lists -> Memory \cup {Null}]
      /\ level \in [Lists -> Levels]
      /\ value \in [Memory -> Keys \cup {NoKey}] /\ height \in [Memory -> Levels]
      /\ forward \in [Memory -> [Levels -> Memory \cup {Null}]]
      /\ used \in [Memory -> Lists \cup {NoList}]
  BY Types DEF Sound
<1>2. ListFacts(l) /\ Nothing /\ ChainExact(l)
  BY <1>1, SoundFacts, NobodyLinks DEF Idle
<1>3. update = [i \in Levels |-> Place(l, i, k)]
  <2>1. head[l] \in Starts(l, k)
    BY DEF Starts
  <2> QED BY <1>0, <1>1, <1>2, <1>n, <2>1, UpdateIsPlace DEF Sound
<1>4. CASE ~Found(update, k)
  <2>1. UNCHANGED <<head, level, nodes, pool, used, ended>>
    BY <1>1, <1>4 DEF pool, nodes
  <2>2. update[0] \in {head[l]} \cup Linked(l, 0)
    BY <1>2, <1>3, <1>4, <1>n, <1>t, FoundThere DEF IsBefore
  <2>3. reader' \in [Readers -> Searches \cup {Idle}] /\ writer' \in Inserts \cup {Idle}
    BY <1>1 DEF Sound, TypeOK
  <2>4. /\ TypeOK' /\ PoolExact' /\ MadeExact' /\ ChainsExact' /\ WriterExact'
        /\ \A s \in Searches : SearchOK(s) => SearchOK(s)'
    BY <1>1, <2>1, <2>2, <2>3, FingerOK, NodesStay
  <2>5. SearchesOK'
    BY <1>1, <2>4 DEF SearchesOK, Sound, TypeOK
  <2> QED BY <2>4, <2>5 DEF Sound
<1>5. CASE Found(update, k)
  <2> DEFINE links == Unlink(t, update)
  <2>1. /\ t \in Keyed(l) /\ t \in Memory /\ t # Null /\ value[t] = k /\ height[t] \in Nat
        /\ update[0] \in {head[l]} \cup Linked(l, 0) /\ update[0] # t
        /\ links = [n \in Memory |-> [i \in Levels |->
                 IF forward[n][i] = t THEN forward[t][i] ELSE forward[n][i]]]
    BY <1>0, <1>2, <1>3, <1>5, <1>n, LeadsThere
  <2>2. links \in [Memory -> [Levels -> Memory \cup {Null}]]
    <3>1. \A n \in Memory, i \in Levels : forward[n][i] \in Memory \cup {Null}
      BY <1>t
    <3> HIDE DEF links
    <3> QED BY <2>1, <3>1
  <2>3. Deallocate(l, <<t>>, links) /\ level' = [level EXCEPT ![l] = Lowered(l, forward')]
    BY <1>1, <1>5
  <2> HIDE DEF links
  <2>4. <<t>> \in Seq(Memory) /\ IsInjective(<<t>>) /\ ToSet(<<t>>) = {t} /\ {t} \subseteq NodesOf(l)
    BY <2>1 DEF IsInjective, ToSet, Keyed
  <2>5. PICK gone : gone = <<t>>
    OBVIOUS
  <2>6. /\ cache' \in Seq(Memory) /\ free' \in [Lists -> Seq(Memory)] /\ PoolExact'
        /\ Destruct({t}, links)
    <3>1. /\ gone \in Seq(Memory) /\ IsInjective(gone) /\ ToSet(gone) = {t}
          /\ ToSet(gone) \subseteq NodesOf(l) /\ Deallocate(l, gone, links)
      BY <2>3, <2>4, <2>5
    <3>2. TypeOK /\ ended' = ended /\ owner' = owner
      BY <1>1, <1>t
    <3> HIDE DEF NodesOf
    <3> QED BY <2>2, <3>1, <3>2, Deallocation
  <2>7. /\ value' \in [Memory -> Keys \cup {NoKey}] /\ height' \in [Memory -> Levels]
        /\ forward' \in [Memory -> [Levels -> Memory \cup {Null}]]
        /\ used' \in [Memory -> Lists \cup {NoList}]
        /\ forward'[t] = Unlinked /\ used'[t] = NoList
        /\ \A n \in Memory \ {t} : /\ value'[n] = value[n] /\ height'[n] = height[n]
                                   /\ forward'[n] = links[n] /\ used'[n] = used[n]
    <3>1. {t} \in SUBSET Memory
      BY <2>1
    <3> QED BY <1>t, <2>2, <2>6, <3>1, Destructed
  <2>8. \A n \in Memory \ {t}, i \in Levels :
            forward'[n][i] = IF forward[n][i] = t THEN forward[t][i] ELSE forward[n][i]
    BY <2>1, <2>7
  <2>9. /\ Lowered(l, forward') \in 0 .. level[l]
        /\ Lowered(l, forward') = 0 \/ forward'[head[l]][Lowered(l, forward')] # Null
        /\ \A j \in Lowered(l, forward') + 1 .. level[l] : forward'[head[l]][j] = Null
    BY <1>2, Lowering DEF ListFacts
  <2>10. PICK low : low = Lowered(l, forward')
    OBVIOUS
  <2>11. /\ level[l] \in Nat /\ level[l] <= MaxLevel /\ low \in Levels /\ low <= level[l]
         /\ level' = [level EXCEPT ![l] = low] /\ level'[l] = low /\ level' \in [Lists -> Levels]
    <3>1. level[l] \in Nat /\ level[l] <= MaxLevel
      BY <1>2 DEF ListFacts
    <3>2. low \in Levels /\ low <= level[l]
      BY <3>1, <1>n, <2>9, <2>10
    <3> QED BY <3>1, <3>2, <1>t, <2>3, <2>10
  <2>12. TypeOK'
    <3>1. finger' \in [Lists -> Memory \cup {Null}]
      <4>1. update[0] \in Memory
        BY <1>2, <2>1 DEF ListFacts
      <4> QED BY <4>1, <1>1, <1>t
    <3> QED BY <3>1, <1>1, <2>6, <2>7, <2>11, <1>t DEF TypeOK
  <2>13. used[t] = l
    BY <2>1 DEF Keyed
  <2>14. OthersStay(l)
    <3>1. \A m \in Lists \ {l} : head'[m] = head[m] /\ level'[m] = level[m] /\ finger'[m] = finger[m]
      BY <1>1, <1>t, <2>11
    <3>2. \A n \in Memory, m \in Lists \ {l} : used'[n] = m <=> used[n] = m
      BY <1>n, <2>7, <2>13
    <3>3. ASSUME NEW n \in Memory, used[n] \in Lists \ {l}
          PROVE  value'[n] = value[n] /\ height'[n] = height[n] /\ forward'[n] = forward[n]
      <4>1. n # t
        BY <3>3, <2>13
      <4>2. \A i \in Levels : forward[n][i] # t
        <5> SUFFICES ASSUME NEW i \in Levels, forward[n][i] = t PROVE FALSE
          OBVIOUS
        <5> QED BY <1>2, <2>1, <2>13, <3>3, Onward DEF Sound
      <4>3. links[n] = forward[n]
        BY <4>2, <1>t, <2>1
      <4> QED BY <4>1, <4>3, <2>7
    <3> QED BY <3>1, <3>2, <3>3 DEF OthersStay
  <2>15. \A r \in Readers : reader[r] # Idle => reader[r].list # l
    BY <1>1, NoneBeside
  <2>16. /\ \A m \in Lists \ {l} : Exists(m)' => ChainExact(m)'
         /\ WriterExact' /\ SearchesOK'
         /\ \A n, i : ~Pending(n, i) /\ ~Pending(n, i)'
    BY <1>1, <2>14, <2>15, OthersSound
  <2>17. \A n \in Memory : used'[n] = l <=> used[n] = l /\ n # t
    BY <1>n, <2>7
  <2>18. /\ NodesOf(l)' = NodesOf(l) \ {t} /\ Keyed(l)' = Keyed(l) \ {t}
         /\ \A i : Linked(l, i)' = Linked(l, i) \ {t}
         /\ \A n \in NodesOf(l)', i \in Levels : LeadsOn(l, n, i)'
    <3>1. head'[l] = head[l]
      BY <1>1
    <3>2. \A n \in Memory \ {t} : value'[n] = value[n] /\ height'[n] = height[n]
      BY <2>7
    <3> HIDE DEF NodesOf
    <3> QED BY <1>1, <2>1, <2>8, <2>16, <2>17, <3>1, <3>2, ChainWithout
  <2>19. ChainExact(l)'
    <3>1. /\ head'[l] = head[l] /\ head[l] \in NodesOf(l)' /\ height'[head[l]] = MaxLevel
          /\ head[l] \in Memory \ {t}
      <4>1. head[l] # t /\ head[l] \in Memory /\ height[head[l]] = MaxLevel /\ used[head[l]] = l
        BY <1>2, <2>1 DEF ListFacts
      <4> QED BY <4>1, <1>1, <2>7
    <3>2. finger'[l] \in {head'[l]} \cup Linked(l, 0)'
      BY <1>1, <1>t, <2>1, <2>18
    <3>3. \A n \in Keyed(l) \ {t} : n \in Memory \ {t} /\ height[n] \in Nat /\ height[n] <= level[l]
                                    /\ value'[n] = value[n] /\ height'[n] = height[n] /\ value[n] \in Keys
      BY <1>2, <2>7 DEF ListFacts
    <3>4. \A m, n \in Keyed(l)' : value'[m] = value'[n] => m = n
      BY <1>2, <2>18, <3>3 DEF ListFacts
    <3>5. ASSUME NEW n \in Keyed(l)' PROVE height'[n] <= low
      <4> SUFFICES ASSUME height[n] > low PROVE FALSE
        BY <2>11, <2>18, <3>3, <1>n
      <4>1. PICK h : h = height[n]
        OBVIOUS
      <4>2. h \in low + 1 .. level[l] /\ h \in Levels /\ h <= MaxLevel
        BY <4>1, <1>n, <2>11, <2>18, <3>3
      <4>3. forward'[head[l]][h] = Null
        BY <4>2, <2>9, <2>10
      <4>4. n \in Linked(l, h)'
        BY <4>1, <2>16, <2>18, <3>3, <4>2, <1>n DEF Linked
      <4>5. n \in Later(l, head[l], h)'
        BY <4>4, <3>1 DEF Later
      <4>6. LeadsOn(l, head[l], h)'
        BY <3>1, <2>18, <4>2
      <4> HIDE DEF NodesOf
      <4> QED BY <4>2, <4>3, <4>5, <4>6, <3>1, <2>16, <1>n DEF LeadsOn
    <3>6. low = 0 \/ \E n \in Keyed(l)' : height'[n] = low
      <4> SUFFICES ASSUME low # 0 PROVE \E n \in Keyed(l)' : height'[n] = low
        OBVIOUS
      <4>1. PICK n : n = forward'[head[l]][low]
        OBVIOUS
      <4>2. n # Null
        BY <4>1, <2>9, <2>10
      <4>3. LeadsOn(l, head[l], low)'
        BY <3>1, <2>11, <2>18
      <4>4. n \in Later(l, head[l], low)'
        <5> HIDE DEF NodesOf
        <5> QED BY <4>1, <4>2, <4>3, <3>1, <2>16 DEF LeadsOn
      <4>5. n \in Keyed(l)' /\ height'[n] >= low
        BY <4>4 DEF Later, Linked
      <4>6. height'[n] <= low
        BY <4>5, <3>5
      <4>7. height'[n] \in Nat /\ low \in Nat
        BY <4>5, <3>3, <2>18, <2>11, <1>n
      <4> QED BY <4>5, <4>6, <4>7
    <3>7. \A n \in Keyed(l)' : value'[n] \in Keys
      BY <2>18, <3>3
    <3> HIDE DEF NodesOf
    <3> QED BY <2>11, <2>18, <3>1, <3>2, <3>4, <3>5, <3>6, <3>7 DEF ChainExact
  <2>20. ChainsExact'
    BY <2>16, <2>19 DEF ChainsExact
  <2>21. MadeExact'
    <3>1. \A n \in Memory : IF used[n] = NoList THEN forward[n] = Unlinked ELSE head[used[n]] # Null
      BY DEF Sound, MadeExact
    <3>2. ended /\ ~Outlived => \A m \in Lists : head[m] = Null
      BY DEF Sound, MadeExact
    <3>3. ASSUME NEW n \in Memory
          PROVE  IF used'[n] = NoList THEN forward'[n] = Unlinked ELSE head'[used'[n]] # Null
      <4>1. CASE n = t
        BY <4>1, <2>7
      <4>2. CASE n # t /\ used[n] # NoList
        BY <4>2, <3>1, <2>7, <1>1
      <4>3. CASE n # t /\ used[n] = NoList
        <5>1. forward[n] = Unlinked
          BY <4>3, <3>1
        <5>2. \A i \in Levels : forward[n][i] # t
          BY <5>1, <2>1 DEF Unlinked
        <5>3. links[n] = forward[n]
          BY <5>2, <1>t, <2>1
        <5> QED BY <4>3, <5>1, <5>3, <2>7
      <4> QED BY <4>1, <4>2, <4>3
    <3> QED BY <3>2, <3>3, <1>1 DEF MadeExact
  <2> QED BY <2>6, <2>12, <2>16, <2>20, <2>21 DEF Sound
<1> QED BY <1>4, <1>5
-----------------------------------------------------------------------------
(***************************************************************************)
(* The nodes of a list in their order.                                     *)
(***************************************************************************)

\* What comes after a node
Rest(m) == IF used[m] \in Lists THEN Later(used[m], m, 0) ELSE {}

\* There is one node less after each next node.
LEMMA RestIs ==
    ASSUME TypeOK, MadeExact, ChainsExact, Nothing, NEW m \in Memory
    PROVE  /\ IsFiniteSet(Rest(m)) /\ Cardinality(Rest(m)) \in Nat
           /\ Rest(m) \in SUBSET Memory /\ m \notin Rest(m)
           /\ forward[m][0] = Null => Rest(m) = {}
           /\ forward[m][0] # Null =>
                LET n == forward[m][0]
                IN  /\ n \in Memory /\ Rest(m) = {n} \cup Rest(n)
                    /\ Cardinality(Rest(m)) = Cardinality(Rest(n)) + 1
<1>n. Levels \subseteq Nat /\ Null \notin Memory /\ NoList \notin Lists /\ 0 \in Levels /\ IsFiniteSet(Memory)
      /\ MaxLevel \in Nat
  BY Natural, NoneApart
<1>1. ASSUME NEW l \in Lists, NEW n \in Memory, used[n] = l
      PROVE  /\ Exists(l) /\ ListFacts(l) /\ n \in {head[l]} \cup Keyed(l)
             /\ Later(l, n, 0) \in SUBSET Memory /\ n \notin Later(l, n, 0)
             /\ n # head[l] => value[n] \in Int
             /\ forward[n][0] = Null => Later(l, n, 0) = {}
  <2>1. Exists(l)
    BY <1>1, <1>n DEF MadeExact
  <2>2. ListFacts(l)
    BY <2>1, ChainFacts DEF ChainsExact
  <2>3. n \in {head[l]} \cup Keyed(l)
    BY <1>1 DEF Keyed
  <2>4. \A x \in Linked(l, 0) : x \in Memory /\ x # head[l] /\ value[x] \in Int
    BY <2>2 DEF ListFacts
  <2>5. Later(l, n, 0) \in SUBSET Memory /\ n \notin Later(l, n, 0)
    BY <2>4 DEF Later
  <2>6. forward[n][0] = Null => Later(l, n, 0) = {}
    <3>1. 0 <= height[n] /\ ~Pending(n, 0)
      BY <1>n, <2>2, <2>3 DEF Nothing, ListFacts
    <3> QED BY <1>n, <2>2, <2>3, <3>1 DEF ListFacts
  <2>7. n # head[l] => value[n] \in Int
    BY <2>2, <2>3 DEF ListFacts
  <2> QED BY <2>1, <2>2, <2>3, <2>5, <2>6, <2>7
<1>2. \A n \in Memory : Rest(n) \in SUBSET Memory /\ n \notin Rest(n)
  BY <1>1 DEF Rest
<1>3. \A n \in Memory : IsFiniteSet(Rest(n)) /\ Cardinality(Rest(n)) \in Nat
  BY <1>2, <1>n, FS_Subset, FS_CardinalityType
<1>4. forward[m][0] = Null => Rest(m) = {}
  BY <1>1 DEF Rest
<1>5. ASSUME NEW n, n = forward[m][0], n # Null
      PROVE  /\ n \in Memory /\ Rest(m) = {n} \cup Rest(n)
             /\ Cardinality(Rest(m)) = Cardinality(Rest(n)) + 1
  <2>1. PICK l : l = used[m]
    OBVIOUS
  <2>2. /\ l \in Lists /\ ListFacts(l) /\ n \in Linked(l, 0) /\ n \in Memory /\ used[n] = l
        /\ m # head[l] => value[m] < value[n]
        /\ value[n] \in Int
    BY <1>5, <1>n, <2>1, Onward
  <2>3. Rest(m) = Later(l, m, 0) /\ Rest(n) = Later(l, n, 0)
    BY <2>1, <2>2 DEF Rest
  <2>4. m \in {head[l]} \cup Keyed(l) /\ (m # head[l] => value[m] \in Int) /\ n \in Keyed(l) /\ n # head[l]
    BY <1>1, <2>1, <2>2 DEF ListFacts
  <2>5. \A x \in Later(l, m, 0) : value[n] <= value[x]
    <3>1. 0 <= height[m] /\ ~Pending(m, 0)
      BY <1>n, <2>2, <2>4 DEF Nothing, ListFacts
    <3> QED BY <1>n, <1>5, <2>2, <2>4, <3>1 DEF ListFacts
  <2>6. \A x \in Linked(l, 0) : x \in Keyed(l) /\ value[x] \in Int /\ (value[x] = value[n] => x = n)
    BY <2>2, <2>4 DEF ListFacts
  <2>7. \A x \in Linked(l, 0) : (m = head[l] \/ value[m] < value[x]) <=> x = n \/ value[n] < value[x]
    <3> SUFFICES ASSUME NEW x \in Linked(l, 0)
                 PROVE  (m = head[l] \/ value[m] < value[x]) <=> x = n \/ value[n] < value[x]
      OBVIOUS
    <3>1. ASSUME m = head[l] \/ value[m] < value[x] PROVE x = n \/ value[n] < value[x]
      BY <3>1, <2>2, <2>5, <2>6 DEF Later
    <3>2. ASSUME x = n \/ value[n] < value[x] PROVE m = head[l] \/ value[m] < value[x]
      BY <3>2, <2>2, <2>4, <2>6
    <3> QED BY <3>1, <3>2
  <2>8. Rest(m) = {n} \cup Rest(n)
    BY <2>2, <2>3, <2>4, <2>7 DEF Later
  <2>9. Cardinality(Rest(m)) = Cardinality(Rest(n)) + 1
    <3>1. PICK S : S = Rest(n)
      OBVIOUS
    <3>2. IsFiniteSet(S) /\ n \notin S /\ Rest(m) = S \cup {n}
      BY <2>2, <2>8, <3>1, <1>2, <1>3
    <3> QED BY <3>1, <3>2, FS_AddElement
  <2> QED BY <2>2, <2>8, <2>9
<1> QED BY <1>2, <1>3, <1>4, <1>5

\* The recursion of From comes to an end.
Runs(w) == w = [m \in Memory |-> IF forward[m][0] = Null THEN <<m>> ELSE <<m>> \o w[forward[m][0]]]

\* By induction on how many nodes come after a node, the recursion is defined.
LEMMA RunEnds ==
    ASSUME TypeOK, MadeExact, ChainsExact, Nothing
    PROVE  \E w : Runs(w)
<1> DEFINE Size(m) == Cardinality(Rest(m))
           Step(w, m) == IF forward[m][0] = Null THEN <<m>> ELSE <<m>> \o w[forward[m][0]]
           UpTo(c, w) == \A m \in Memory : Size(m) <= c => w[m] = Step(w, m)
           T == {c \in Nat : \E w : w = [m \in Memory |-> w[m]] /\ UpTo(c, w)}
<1>1. \A m \in Memory : Size(m) \in Nat
  BY RestIs
<1>2. ASSUME NEW m \in Memory, forward[m][0] # Null
      PROVE  forward[m][0] \in Memory /\ Size(m) = Size(forward[m][0]) + 1
  BY <1>2, RestIs
<1> HIDE DEF Size
<1>3. 0 \in T
  <2> DEFINE w == [m \in Memory |-> <<m>>]
  <2>1. UpTo(0, w)
    <3> SUFFICES ASSUME NEW m \in Memory, Size(m) <= 0 PROVE w[m] = Step(w, m)
      OBVIOUS
    <3>1. forward[m][0] = Null
      BY <1>1, <1>2
    <3> QED BY <3>1
  <2>2. w = [m \in Memory |-> w[m]]
    OBVIOUS
  <2> HIDE DEF w
  <2>3. \E v : v = [m \in Memory |-> v[m]] /\ UpTo(0, v)
    BY <2>1, <2>2
  <2> QED BY <2>3
<1>4. ASSUME NEW c \in T PROVE c + 1 \in T
  <2>1. PICK w : w = [m \in Memory |-> w[m]] /\ UpTo(c, w)
    OBVIOUS
  <2> DEFINE v == [m \in Memory |-> IF Size(m) <= c THEN w[m] ELSE Step(w, m)]
  <2>2. ASSUME NEW m \in Memory, Size(m) <= c + 1 PROVE v[m] = Step(v, m)
    <3>1. v[m] = Step(w, m)
      BY <2>1
    <3>2. forward[m][0] # Null => v[forward[m][0]] = w[forward[m][0]]
      <4> SUFFICES ASSUME forward[m][0] # Null PROVE v[forward[m][0]] = w[forward[m][0]]
        OBVIOUS
      <4>1. forward[m][0] \in Memory /\ Size(m) = Size(forward[m][0]) + 1
        BY <1>2
      <4>2. Size(forward[m][0]) <= c
        BY <4>1, <1>1, <2>2
      <4> QED BY <4>1, <4>2
    <3> HIDE DEF v
    <3> QED BY <3>1, <3>2
  <2>3. v = [m \in Memory |-> v[m]]
    OBVIOUS
  <2> HIDE DEF v
  <2>4. \E x : x = [m \in Memory |-> x[m]] /\ UpTo(c + 1, x)
    BY <2>2, <2>3
  <2>5. c + 1 \in Nat
    OBVIOUS
  <2> HIDE DEF UpTo
  <2> QED BY <2>4, <2>5
<1>5. T = Nat
  <2>1. T \in SUBSET Nat
    OBVIOUS
  <2> HIDE DEF T
  <2> QED BY <1>3, <1>4, <2>1, Induction
<1>6. PICK c : c = Cardinality(Memory)
  OBVIOUS
<1>7. c \in Nat /\ \A m \in Memory : Size(m) <= c
  <2>1. IsFiniteSet(Memory) /\ c \in Nat
    BY <1>6, NoneApart, FS_CardinalityType
  <2>2. \A m \in Memory : Rest(m) \in SUBSET Memory
    BY RestIs
  <2> QED BY <1>6, <2>1, <2>2, FS_Subset DEF Size
<1>8. PICK w : w = [m \in Memory |-> w[m]] /\ UpTo(c, w)
  <2>1. c \in T
    <3> HIDE DEF T
    <3> QED BY <1>5, <1>7
  <2> QED BY <2>1
<1>9. \A m \in Memory : w[m] = IF forward[m][0] = Null THEN <<m>> ELSE <<m>> \o w[forward[m][0]]
  BY <1>7, <1>8
<1>10. w = [m \in Memory |-> IF forward[m][0] = Null THEN <<m>> ELSE <<m>> \o w[forward[m][0]]]
  BY <1>8, <1>9
<1> QED BY <1>10 DEF Runs

\* It gives the node and those after it, each once.
LEMMA RunIs ==
    ASSUME TypeOK, MadeExact, ChainsExact, Nothing, NEW m \in Memory
    PROVE  /\ From(m) \in Seq(Memory) /\ IsInjective(From(m)) /\ From(m) # <<>>
           /\ ToSet(From(m)) = {m} \cup Rest(m) /\ Head(From(m)) = m
<1>1. PICK w : w = CHOOSE v : Runs(v)
  OBVIOUS
<1>2. Runs(w)
  BY <1>1, RunEnds
<1>3. From(m) = w[m]
  BY <1>1 DEF From, Runs
<1> DEFINE Good(n) == /\ w[n] \in Seq(Memory) /\ IsInjective(w[n]) /\ w[n] # <<>>
                      /\ ToSet(w[n]) = {n} \cup Rest(n) /\ Head(w[n]) = n
           T == {c \in Nat : \A n \in Memory : Cardinality(Rest(n)) = c => Good(n)}
<1>4. \A n \in Memory : w[n] = IF forward[n][0] = Null THEN <<n>> ELSE <<n>> \o w[forward[n][0]]
  BY <1>2 DEF Runs
<1>5. ASSUME NEW n \in Memory, forward[n][0] = Null PROVE Good(n)
  <2>1. w[n] = <<n>> /\ Rest(n) = {}
    BY <1>4, <1>5, RestIs
  <2>2. <<n>> \in Seq(Memory) /\ IsInjective(<<n>>) /\ ToSet(<<n>>) = {n} /\ <<n>> # <<>> /\ Head(<<n>>) = n
    BY DEF IsInjective, ToSet
  <2> QED BY <2>1, <2>2
<1>6. ASSUME NEW n \in Memory, forward[n][0] # Null, Good(forward[n][0]) PROVE Good(n)
  <2>1. PICK f : f = forward[n][0]
    OBVIOUS
  <2>2. f \in Memory /\ Rest(n) = {f} \cup Rest(f) /\ n \notin Rest(n)
    BY <1>6, <2>1, RestIs
  <2>3. PICK s : s = w[f]
    OBVIOUS
  <2>4. s \in Seq(Memory) /\ IsInjective(s) /\ ToSet(s) = {f} \cup Rest(f)
    BY <1>6, <2>1, <2>3
  <2>5. PICK t : t = <<n>> \o s
    OBVIOUS
  <2>6. t \in Seq(Memory) /\ IsInjective(t) /\ ToSet(t) = ToSet(s) \cup {n}
    BY <2>2, <2>4, <2>5, Prepended
  <2>7. t # <<>> /\ Head(t) = n
    BY <2>4, <2>5
  <2>8. w[n] = t
    BY <1>4, <1>6, <2>1, <2>3, <2>5
  <2>9. ToSet(t) = {n} \cup Rest(n)
    BY <2>2, <2>4, <2>6
  <2> QED BY <2>6, <2>7, <2>8, <2>9
<1> HIDE DEF Good
<1>7. 0 \in T
  <2> SUFFICES ASSUME NEW n \in Memory, Cardinality(Rest(n)) = 0 PROVE Good(n)
    OBVIOUS
  <2>1. forward[n][0] = Null
    <3> SUFFICES ASSUME forward[n][0] # Null PROVE FALSE
      OBVIOUS
    <3>1. PICK f : f = forward[n][0]
      OBVIOUS
    <3>2. f \in Memory /\ Cardinality(Rest(n)) = Cardinality(Rest(f)) + 1
      BY <3>1, RestIs
    <3>3. Cardinality(Rest(f)) \in Nat
      BY <3>2, RestIs
    <3> QED BY <3>2, <3>3
  <2> QED BY <2>1, <1>5
<1>8. ASSUME NEW c \in T PROVE c + 1 \in T
  <2> SUFFICES ASSUME NEW n \in Memory, Cardinality(Rest(n)) = c + 1 PROVE Good(n)
    OBVIOUS
  <2>1. CASE forward[n][0] = Null
    BY <2>1, <1>5
  <2>2. CASE forward[n][0] # Null
    <3>1. PICK f : f = forward[n][0]
      OBVIOUS
    <3>2. f \in Memory /\ Cardinality(Rest(n)) = Cardinality(Rest(f)) + 1
      BY <2>2, <3>1, RestIs
    <3>3. Cardinality(Rest(f)) \in Nat
      BY <3>2, RestIs
    <3>4. Good(f)
      BY <3>2, <3>3
    <3> QED BY <2>2, <3>1, <3>4, <1>6
  <2> QED BY <2>1, <2>2
<1>9. T = Nat
  <2>1. T \in SUBSET Nat
    OBVIOUS
  <2> HIDE DEF T
  <2> QED BY <1>7, <1>8, <2>1, Induction
<1>10. Good(m)
  <2>1. Cardinality(Rest(m)) \in T
    <3> HIDE DEF T
    <3> QED BY <1>9, RestIs
  <2> QED BY <2>1
<1> QED BY <1>3, <1>10 DEF Good

\* The header comes first, and then what the list has, once each.
LEMMA FromHead ==
    ASSUME TypeOK, MadeExact, ChainsExact, Nothing, NEW l \in Lists, Exists(l)
    PROVE  /\ Tail(From(head[l])) \in Seq(Memory) /\ IsInjective(Tail(From(head[l])))
           /\ ToSet(Tail(From(head[l]))) = Keyed(l)
<1>n. NoList \notin Lists /\ 0 \in Levels
  BY Natural, NoneApart
<1>1. ListFacts(l)
  BY ChainFacts DEF ChainsExact
<1>2. PICK h, s : h = head[l] /\ s = From(h)
  OBVIOUS
<1>3. h \in Memory /\ used[h] = l
  BY <1>1, <1>2 DEF ListFacts
<1>4. s \in Seq(Memory) /\ IsInjective(s) /\ s # <<>> /\ ToSet(s) = {h} \cup Rest(h) /\ Head(s) = h
  BY <1>2, <1>3, RunIs
<1>5. Rest(h) = Keyed(l)
  <2>1. \A n \in Keyed(l) : height[n] >= 0 /\ ~Pending(n, 0)
    BY <1>1, <1>n DEF ListFacts, Nothing
  <2>2. Linked(l, 0) = Keyed(l)
    BY <2>1 DEF Linked
  <2> QED BY <1>2, <1>3, <2>2 DEF Rest, Later
<1>6. h \notin Keyed(l)
  BY <1>2 DEF Keyed
<1>7. Tail(s) \in Seq(Memory) /\ IsInjective(Tail(s)) /\ ToSet(Tail(s)) = ToSet(s) \ {h}
  BY <1>4, Shortened
<1>8. ToSet(Tail(s)) = Keyed(l)
  BY <1>4, <1>5, <1>6, <1>7
<1> QED BY <1>2, <1>7, <1>8

\* clear gives back all nodes but the header.
LEMMA ClearSound ==
    ASSUME Sound, PoolExact, NEW l \in Lists, Clear(l)
    PROVE  Sound' /\ PoolExact'
<1>n. /\ Levels \subseteq Nat /\ NoList \notin Lists /\ Null \notin Memory
      /\ Levels = 0 .. MaxLevel /\ MaxLevel \in Nat /\ 0 \in Levels
  BY Natural, NoneApart
<1>0. PICK h, gone, links : /\ h = head[l] /\ gone = Tail(From(h))
                            /\ links = [forward EXCEPT ![h] = Unlinked]
  OBVIOUS
<1>1. /\ Alone(l) /\ Exists(l) /\ writer = Idle
      /\ Deallocate(l, gone, links)
      /\ level' = [level EXCEPT ![l] = 0]
      /\ finger' = [finger EXCEPT ![l] = h]
      /\ head' = head /\ owner' = owner /\ ended' = ended /\ writer' = writer /\ reader' = reader
  BY <1>0 DEF Clear, Alone
<1>t. /\ TypeOK /\ head \in [Lists -> Memory \cup {Null}] /\ finger \in [Lists -> Memory \cup {Null}]
      /\ level \in [Lists -> Levels]
      /\ value \in [Memory -> Keys \cup {NoKey}] /\ height \in [Memory -> Levels]
      /\ forward \in [Memory -> [Levels -> Memory \cup {Null}]]
      /\ used \in [Memory -> Lists \cup {NoList}]
  BY Types DEF Sound
<1>2. ListFacts(l) /\ Nothing
  BY <1>1, SoundFacts, NobodyLinks DEF Idle
<1>3. gone \in Seq(Memory) /\ IsInjective(gone) /\ ToSet(gone) = Keyed(l)
  BY <1>0, <1>1, <1>2, FromHead DEF Sound
<1>4. PICK S : S = ToSet(gone)
  OBVIOUS
<1>5. /\ S \in SUBSET Memory /\ S \subseteq NodesOf(l)
      /\ h \in Memory /\ h \notin S /\ used[h] = l /\ height[h] = MaxLevel
      /\ \A n \in Memory : n \in S <=> used[n] = l /\ n # h
  BY <1>0, <1>2, <1>3, <1>4 DEF Keyed, ListFacts
<1>6. /\ links \in [Memory -> [Levels -> Memory \cup {Null}]] /\ links[h] = Unlinked
      /\ \A n \in Memory \ {h} : links[n] = forward[n]
  <2>1. Unlinked \in [Levels -> Memory \cup {Null}]
    BY DEF Unlinked
  <2> QED BY <2>1, <1>0, <1>5, <1>t
<1>7. /\ cache' \in Seq(Memory) /\ free' \in [Lists -> Seq(Memory)] /\ PoolExact'
      /\ Destruct(S, links)
  <2> HIDE DEF NodesOf
  <2> QED BY <1>1, <1>3, <1>4, <1>5, <1>6, <1>t, Deallocation
<1>8. /\ value' \in [Memory -> Keys \cup {NoKey}] /\ height' \in [Memory -> Levels]
      /\ forward' \in [Memory -> [Levels -> Memory \cup {Null}]]
      /\ used' \in [Memory -> Lists \cup {NoList}]
      /\ \A n \in S : forward'[n] = Unlinked /\ used'[n] = NoList
      /\ \A n \in Memory \ S : /\ value'[n] = value[n] /\ height'[n] = height[n]
                               /\ forward'[n] = links[n] /\ used'[n] = used[n]
  BY <1>t, <1>5, <1>6, <1>7, Destructed
<1>9. level' \in [Lists -> Levels] /\ level'[l] = 0 /\ finger' \in [Lists -> Memory \cup {Null}]
      /\ finger'[l] = h /\ head'[l] = h
      /\ \A m \in Lists \ {l} : head'[m] = head[m] /\ level'[m] = level[m] /\ finger'[m] = finger[m]
  BY <1>0, <1>1, <1>5, <1>n, <1>t
<1>10. TypeOK'
  BY <1>1, <1>7, <1>8, <1>9, <1>t DEF TypeOK
<1>11. OthersStay(l)
  <2>1. \A n \in Memory, m \in Lists \ {l} : used'[n] = m <=> used[n] = m
    BY <1>n, <1>5, <1>8
  <2>2. \A n \in Memory : used[n] \in Lists \ {l} => n \in Memory \ S /\ n # h
    BY <1>5
  <2>3. \A n \in Memory : used[n] \in Lists \ {l} => /\ value'[n] = value[n] /\ height'[n] = height[n]
                                                      /\ forward'[n] = forward[n]
    BY <2>2, <1>6, <1>8
  <2> QED BY <1>9, <2>1, <2>3 DEF OthersStay
<1>12. \A r \in Readers : reader[r] # Idle => reader[r].list # l
  BY <1>1, NoneBeside
<1>13. /\ \A m \in Lists \ {l} : Exists(m)' => ChainExact(m)'
       /\ WriterExact' /\ SearchesOK'
  BY <1>1, <1>11, <1>12, OthersSound
<1>14. /\ height'[h] = MaxLevel /\ forward'[h] = Unlinked
       /\ \A n \in Memory : used'[n] = l <=> n = h
  BY <1>n, <1>5, <1>6, <1>8
<1>15. NodesOf(l)' = {h} /\ Keyed(l)' = {}
  <2>1. NodesOf(l)' = {h}
    BY <1>5, <1>14
  <2> HIDE DEF NodesOf
  <2> QED BY <2>1, <1>9 DEF Keyed
<1>16. \A n, i : Linked(l, i)' = {} /\ Later(l, n, i)' = {}
  BY <1>15 DEF Linked, Later
<1>17. \A i \in Levels : LeadsOn(l, h, i)'
  <2>1. \A i \in Levels : forward'[h][i] = Null
    BY <1>14 DEF Unlinked
  <2> QED BY <2>1, <1>16 DEF LeadsOn
<1>18. ChainExact(l)'
  <2> HIDE DEF NodesOf
  <2> QED BY <1>9, <1>14, <1>15, <1>17 DEF ChainExact
<1>19. ChainsExact'
  BY <1>13, <1>18 DEF ChainsExact
<1>20. MadeExact'
  <2>1. \A n \in Memory : IF used[n] = NoList THEN forward[n] = Unlinked ELSE head[used[n]] # Null
    BY DEF Sound, MadeExact
  <2>2. ended /\ ~Outlived => \A m \in Lists : head[m] = Null
    BY DEF Sound, MadeExact
  <2>3. \A n \in Memory : IF used'[n] = NoList THEN forward'[n] = Unlinked ELSE head'[used'[n]] # Null
    <3> SUFFICES ASSUME NEW n \in Memory
                 PROVE  IF used'[n] = NoList THEN forward'[n] = Unlinked ELSE head'[used'[n]] # Null
      OBVIOUS
    <3>1. CASE n \in S
      BY <3>1, <1>8
    <3>2. CASE n \notin S
      <4>1. used'[n] = used[n] /\ forward'[n] = links[n] /\ head' = head
        BY <3>2, <1>1, <1>8
      <4>2. used[n] = NoList => n # h
        BY <1>n, <1>5
      <4> QED BY <2>1, <4>1, <4>2, <1>6
    <3> QED BY <3>1, <3>2
  <2> QED BY <2>2, <2>3, <1>1 DEF MadeExact
<1> QED BY <1>7, <1>10, <1>13, <1>19, <1>20 DEF Sound

\* The destructor gives back all nodes, the header too.
LEMMA DestroySound ==
    ASSUME Sound, PoolExact, ~Outlived, NEW l \in Lists, Destroy(l)
    PROVE  Sound' /\ PoolExact'
<1>n. /\ Levels \subseteq Nat /\ NoList \notin Lists /\ Null \notin Memory
      /\ Levels = 0 .. MaxLevel /\ MaxLevel \in Nat /\ 0 \in Levels
  BY Natural, NoneApart
<1>0. PICK h, tail, gone, S : /\ h = head[l] /\ tail = Tail(From(h)) /\ gone = tail \o <<h>>
                              /\ S = NodesOf(l)
  OBVIOUS
<1>1. /\ Alone(l) /\ Exists(l) /\ writer = Idle
      /\ \A m \in Lists \ {l} : ~Exists(m)
      /\ cache' = cache \o Cached(gone)
      /\ free' = [free EXCEPT ![l] = <<>>]
      /\ Destruct(S, forward)
      /\ owner' = [n \in Memory |-> IF owner[n] = l THEN NoList ELSE owner[n]]
      /\ head' = [head EXCEPT ![l] = Null] /\ finger' = [finger EXCEPT ![l] = Null]
      /\ level' = [level EXCEPT ![l] = 0]
      /\ ended' = TRUE /\ writer' = writer /\ reader' = reader
  <2> HIDE DEF NodesOf
  <2> QED BY <1>0 DEF Destroy, Alone
<1>t. /\ TypeOK /\ head \in [Lists -> Memory \cup {Null}] /\ finger \in [Lists -> Memory \cup {Null}]
      /\ level \in [Lists -> Levels]
      /\ forward \in [Memory -> [Levels -> Memory \cup {Null}]]
      /\ cache \in Seq(Memory) /\ free \in [Lists -> Seq(Memory)]
      /\ owner \in [Memory -> Lists \cup {NoList}]
      /\ used \in [Memory -> Lists \cup {NoList}]
  BY Types DEF Sound
<1>2. ListFacts(l) /\ Nothing
  BY <1>1, SoundFacts, NobodyLinks DEF Idle
<1>3. tail \in Seq(Memory) /\ IsInjective(tail) /\ ToSet(tail) = Keyed(l)
  BY <1>0, <1>1, <1>2, FromHead DEF Sound
<1>4. h \in Memory /\ S \in SUBSET Memory /\ \A n \in Memory : n \in S <=> used[n] = l
  BY <1>0, <1>2 DEF ListFacts
<1>5. gone \in Seq(Memory) /\ IsInjective(gone) /\ ToSet(gone) = S
  <2>1. PICK one : one = <<h>>
    OBVIOUS
  <2>2. one \in Seq(Memory) /\ IsInjective(one) /\ ToSet(one) = {h}
    BY <1>4, <2>1 DEF IsInjective, ToSet
  <2>3. ToSet(tail) \cap ToSet(one) = {}
    BY <1>0, <1>3, <2>2 DEF Keyed
  <2>4. gone = tail \o one
    BY <1>0, <2>1
  <2>5. gone \in Seq(Memory) /\ IsInjective(gone) /\ ToSet(gone) = ToSet(tail) \cup ToSet(one)
    BY <1>3, <2>2, <2>3, <2>4, InARow
  <2>6. Keyed(l) \cup {h} = S
    BY <1>0, <1>2 DEF Keyed, ListFacts
  <2> QED BY <2>2, <2>5, <2>6, <1>3
<1>6. PICK c \in 0 .. Len(gone) : Cached(gone) = SubSeq(gone, 1, c) /\ Len(Cached(gone)) = c
  BY <1>5, <1>t, CachedSome
<1>7. PICK s : /\ s = Cached(gone) /\ s \in Seq(Memory) /\ IsInjective(s) /\ ToSet(s) \subseteq S
  <2>1. PICK s1, s2 : s1 = SubSeq(gone, 1, c) /\ s2 = SubSeq(gone, c + 1, Len(gone))
    OBVIOUS
  <2>2. s1 \in Seq(Memory) /\ IsInjective(s1) /\ ToSet(s1) \cup ToSet(s2) = ToSet(gone)
    BY <2>1, <1>5, Parted
  <2>3. ToSet(s1) \subseteq S
    BY <2>2, <1>5
  <2> QED BY <2>1, <2>2, <2>3, <1>6
<1>p. /\ IsInjective(cache) /\ \A m \in Lists : IsInjective(free[m])
      /\ \A m, n \in Lists : m # n => ToSet(free[m]) \cap ToSet(free[n]) = {}
      /\ ToSet(cache) \cap Spare = {} /\ Made \cap (ToSet(cache) \cup Spare) = {}
  BY DEF PoolExact
<1>8. /\ value' \in [Memory -> Keys \cup {NoKey}] /\ height' \in [Memory -> Levels]
      /\ forward' \in [Memory -> [Levels -> Memory \cup {Null}]]
      /\ used' \in [Memory -> Lists \cup {NoList}]
      /\ \A n \in S : forward'[n] = Unlinked /\ used'[n] = NoList
      /\ \A n \in Memory \ S : /\ value'[n] = value[n] /\ height'[n] = height[n]
                               /\ forward'[n] = forward[n] /\ used'[n] = used[n]
      /\ Made' = Made \ S
  BY <1>1, <1>t, <1>4, Destructed
<1>9. S \subseteq Made
  BY <1>4, <1>n DEF Made
<1>10. cache' \in Seq(Memory) /\ IsInjective(cache') /\ ToSet(cache') \subseteq ToSet(cache) \cup S
  <2>1. ToSet(cache) \cap ToSet(s) = {}
    BY <1>7, <1>9, <1>p
  <2>2. cache' = cache \o s
    BY <1>1, <1>7
  <2>3. cache' \in Seq(Memory) /\ IsInjective(cache') /\ ToSet(cache') = ToSet(cache) \cup ToSet(s)
    BY <1>7, <1>p, <1>t, <2>1, <2>2, InARow
  <2> QED BY <2>3, <1>7
<1>11. /\ free' \in [Lists -> Seq(Memory)] /\ free'[l] = <<>>
       /\ \A m \in Lists \ {l} : free'[m] = free[m]
  BY <1>1, <1>t
<1>12. IsInjective(<<>>) /\ ToSet(<<>>) = {}
  BY DEF IsInjective, ToSet
<1>13. Spare' \subseteq Spare
  <2>1. \A x : x \in Spare' <=> \E m \in Lists : x \in ToSet(free'[m])
    BY DEF Spare
  <2>2. \A x : x \in Spare <=> \E m \in Lists : x \in ToSet(free[m])
    BY DEF Spare
  <2> QED BY <2>1, <2>2, <1>11, <1>12
<1>14. PoolExact'
  <2>1. \A m \in Lists : IsInjective(free'[m])
    BY <1>11, <1>12, <1>p
  <2>2. \A m, n \in Lists : m # n => ToSet(free'[m]) \cap ToSet(free'[n]) = {}
    BY <1>11, <1>12, <1>p
  <2>3. ToSet(cache') \cap Spare' = {} /\ Made' \cap (ToSet(cache') \cup Spare') = {}
    BY <1>8, <1>9, <1>10, <1>13, <1>p
  <2> QED BY <2>1, <2>2, <2>3, <1>1, <1>10 DEF PoolExact
<1>15. /\ level' \in [Lists -> Levels] /\ finger' \in [Lists -> Memory \cup {Null}]
       /\ head' \in [Lists -> Memory \cup {Null}] /\ head'[l] = Null
       /\ \A m \in Lists \ {l} : head'[m] = head[m] /\ level'[m] = level[m] /\ finger'[m] = finger[m]
       /\ owner' \in [Memory -> Lists \cup {NoList}]
  BY <1>1, <1>n, <1>t
<1>16. TypeOK'
  BY <1>1, <1>8, <1>10, <1>11, <1>15, <1>t DEF TypeOK
<1>17. \A m \in Lists : ~Exists(m)'
  BY <1>1, <1>15
<1>18. OthersStay(l)
  <2>1. \A n \in Memory, m \in Lists \ {l} : used'[n] = m <=> used[n] = m
    BY <1>n, <1>4, <1>8
  <2>2. \A n \in Memory : used[n] \in Lists \ {l} => n \in Memory \ S
    BY <1>4
  <2>3. \A n \in Memory : used[n] \in Lists \ {l} => /\ value'[n] = value[n] /\ height'[n] = height[n]
                                                      /\ forward'[n] = forward[n]
    BY <2>2, <1>8
  <2> QED BY <1>15, <2>1, <2>3 DEF OthersStay
<1>19. \A r \in Readers : reader[r] # Idle => reader[r].list # l
  BY <1>1, NoneBeside
<1>20. WriterExact' /\ SearchesOK'
  BY <1>1, <1>18, <1>19, OthersSound
<1>21. ChainsExact'
  BY <1>17 DEF ChainsExact
<1>22. MadeExact'
  <2>1. \A n \in Memory : IF used[n] = NoList THEN forward[n] = Unlinked ELSE head[used[n]] # Null
    BY DEF Sound, MadeExact
  <2>2. \A n \in Memory : used[n] # NoList => n \in S
    BY <2>1, <1>1, <1>4, <1>t
  <2>3. \A n \in Memory : used'[n] = NoList /\ forward'[n] = Unlinked
    BY <2>1, <2>2, <1>8
  <2> QED BY <2>3, <1>17 DEF MadeExact
<1> QED BY <1>14, <1>16, <1>20, <1>21, <1>22 DEF Sound
-----------------------------------------------------------------------------
(***************************************************************************)
(* The theorems.                                                           *)
(***************************************************************************)
LEMMA InitSound == Init => Sound /\ PoolExact
<1> SUFFICES ASSUME Init PROVE Sound /\ PoolExact
  OBVIOUS
<1>n. 0 \in Levels /\ NoList \notin Lists
  BY Natural, NoneApart
<1>1. TypeOK
  <2>1. Unlinked \in [Levels -> Memory \cup {Null}]
    BY DEF Unlinked
  <2>2. cache \in Seq(Memory) /\ free \in [Lists -> Seq(Memory)]
    BY DEF Init
  <2>3. writer \in Inserts \cup {Idle} /\ reader \in [Readers -> Searches \cup {Idle}]
    BY DEF Init
  <2>4. /\ head \in [Lists -> Memory \cup {Null}] /\ finger \in [Lists -> Memory \cup {Null}]
        /\ level \in [Lists -> Levels] /\ ended \in BOOLEAN
    BY <1>n DEF Init
  <2>5. /\ value \in [Memory -> Keys \cup {NoKey}] /\ height \in [Memory -> Levels]
        /\ forward \in [Memory -> [Levels -> Memory \cup {Null}]]
        /\ owner \in [Memory -> Lists \cup {NoList}]
        /\ used \in [Memory -> Lists \cup {NoList}]
    BY <1>n, <2>1 DEF Init
  <2> QED BY <2>2, <2>3, <2>4, <2>5 DEF TypeOK
<1>2. MadeExact
  BY DEF Init, MadeExact
<1>3. ChainsExact
  BY DEF Init, ChainsExact
<1>4. WriterExact /\ SearchesOK
  BY DEF Init, WriterExact, SearchesOK
<1>5. PoolExact
  <2>1. IsInjective(<<>>) /\ ToSet(<<>>) = {}
    BY DEF IsInjective, ToSet
  <2>2. Made = {} /\ Unowned = Memory
    BY DEF Init, Made, Unowned
  <2>3. Spare = {}
    BY <2>1 DEF Init, Spare
  <2>4. cache = <<>> /\ \A l \in Lists : free[l] = <<>>
    BY DEF Init
  <2> QED BY <2>1, <2>2, <2>3, <2>4 DEF PoolExact
<1> QED BY <1>1, <1>2, <1>3, <1>4, <1>5 DEF Sound

\* Every step keeps the invariant.
LEMMA StepSound ==
    ASSUME ~Outlived, Sound, PoolExact, [Next]_vars
    PROVE  Sound' /\ PoolExact'
<1>1. ASSUME NEW l \in Lists, Construct(l) \/ Clear(l) \/ Destroy(l) PROVE Sound' /\ PoolExact'
  BY <1>1, ConstructSound, ClearSound, DestroySound
<1>2. ASSUME NEW l \in Lists, NEW k \in Keys,
             (\E alone \in BOOLEAN : StartInsert(l, k, alone)) \/ RemoveKey(l, k)
      PROVE  Sound' /\ PoolExact'
  BY <1>2, StartInsertSound, RemoveKeySound
<1>3. ASSUME FindPlace PROVE Sound' /\ PoolExact'
  <2>1. PICK f \in Starts(writer.list, writer.key) : Refuse(f) \/ \E h \in Levels : Draw(f, h)
    BY <1>3 DEF FindPlace
  <2>2. writer.pc = "find"
    BY <1>3 DEF FindPlace
  <2> QED BY <2>1, <2>2, RefuseSound, DrawSound
<1>4. ASSUME Link PROVE Sound' /\ PoolExact'
  BY <1>4, LinkSound
<1>5. ASSUME NEW r \in Readers,
             \/ \E l \in Lists, k \in Keys : StartSearch(r, l, k)
             \/ BeginSearch(r) \/ Walk(r) \/ Answer(r)
      PROVE  Sound' /\ PoolExact'
  BY <1>5, StartSearchSound, BeginSearchSound, WalkSound, AnswerSound
<1>6. ASSUME UNCHANGED vars PROVE Sound' /\ PoolExact'
  <2>1. /\ UNCHANGED <<head, level, nodes, pool, used, ended>> 
        /\ finger' = finger /\ writer' = writer /\ reader' = reader
    BY <1>6 DEF vars
  <2>2. /\ finger' \in [Lists -> Memory \cup {Null}] /\ writer' \in Inserts \cup {Idle}
        /\ reader' \in [Readers -> Searches \cup {Idle}]
    BY <2>1 DEF Sound, TypeOK
  <2>3. \A l \in Lists : Exists(l) => finger'[l] \in {head[l]} \cup Linked(l, 0)
    BY <2>1, SoundFacts DEF ListFacts
  <2>4. /\ TypeOK' /\ PoolExact' /\ MadeExact' /\ ChainsExact' /\ WriterExact'
        /\ \A s \in Searches : SearchOK(s) => SearchOK(s)'
    BY <2>1, <2>2, <2>3, NodesStay
  <2>5. SearchesOK'
    BY <2>1, <2>4 DEF SearchesOK, Sound, TypeOK
  <2> QED BY <2>4, <2>5 DEF Sound
<1>7. CASE Next
  BY <1>1, <1>2, <1>3, <1>4, <1>5, <1>7 DEF Next
<1> QED BY <1>6, <1>7

\* What the proof carries is what was to be shown.
LEMMA SoundEnough == Sound /\ PoolExact => IInv /\ SearchFinds
<1> SUFFICES ASSUME Sound, PoolExact PROVE IInv /\ SearchFinds
  OBVIOUS
<1>1. IInv
  BY DEF Sound, IInv, ReadersExact, SearchesOK, SearchOK
<1>2. SearchFinds
  <2> SUFFICES ASSUME NEW r \in Readers, reader[r].pc = "look", reader[r].sure
               PROVE  forward[reader[r].node][0] # Null
                      /\ value[forward[reader[r].node][0]] = reader[r].key
    BY DEF SearchFinds
  <2>1. reader[r] # Idle
    BY DEF Idle
  <2> QED BY <2>1 DEF Sound, SearchesOK, SearchOK
<1> QED BY <1>1, <1>2

\* It holds in every state of every behaviour.
LEMMA AlwaysSound == ASSUME ~Outlived PROVE Spec => [](Sound /\ PoolExact)
<1>1. Sound /\ PoolExact /\ [Next]_vars => (Sound /\ PoolExact)'
  BY StepSound
<1> QED BY <1>1, InitSound, PTL DEF Spec

\* Whoever inserts, searches, removes, clears and destroys, with whatever levels
\* and fingers: every place of a pool is in one list or free once, every pointer
\* leads to the next node of its level, and every call under way is at a place in
\* its list, at any number of lists, readers, keys, levels and places, as long as
\* no list is used after another has been destroyed.
THEOREM SkipListInvariant == ASSUME ~Outlived PROVE Spec => []IInv
BY AlwaysSound, SoundEnough, PTL

\* A search beside an insert finds a key that was there when it began, unless the
\* insert links a node between its last two loads.
THEOREM SearchesFind == ASSUME ~Outlived PROVE Spec => []SearchFinds
BY AlwaysSound, SoundEnough, PTL
=============================================================================
